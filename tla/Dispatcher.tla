----------------------------- MODULE Dispatcher -----------------------------
(***************************************************************************)
(* The job dispatcher of ccbd for one agent, over the agent's mailbox: the *)
(* life of a request from submit to its reply, with automatic and manual   *)
(* retry, cancellation, the start of the queued job, completion, the       *)
(* restart of the daemon and the lease sweep.                              *)
(*                                                                         *)
(* Durable state: jobs, the latest record of every job in the order of the *)
(* first ones (JobStore); attempts, the attempt of each job, with its      *)
(* message (AttemptStore, state "none" before it is written); messages,    *)
(* the message states; replies, the ReplyRecords; box, the mailbox.  In    *)
(* memory: queue, active (DispatcherState), exec and starting (the jobs    *)
(* the execution service runs, and the one whose provider is being asked   *)
(* to start), lock (_chain_transition_lock) and what the two threads of    *)
(* the daemon do.                                                          *)
(* Handlers run in "socket" (ccbd-socket-worker), the heartbeat in         *)
(* "maintenance" (ccbd-maintenance-worker).  A step ends where the other   *)
(* thread, or a crash, can see the difference: at each write of a job, an  *)
(* attempt, a reply or the mailbox.  The message state, from which nothing *)
(* is decided, is written with the record before it.  One operation of the *)
(* mailbox kernel is one step here; MailboxSteps takes those apart.  The   *)
(* request event of job j has ref = j.                                     *)
(*                                                                         *)
(* Left out: reply delivery jobs, callback edges, broadcasts, the texts    *)
(* and diagnostics of replies, which of the terminal states a message gets *)
(* from the statuses of its replies (here: "ended"), and the ACCEPTED      *)
(* status, which every reader treats as QUEUED.                            *)
(***************************************************************************)
EXTENDS MailboxOps, SequencesExt

CONSTANTS MaxMessages,     \* bound on the messages submitted
          MaxAttempts,     \* retry_policy max_attempts (3 in the code)
          Limits,          \* the bounds a behaviour may be under
          StartOutcomes,   \* what execution start may do on this host
          Decisions        \* the decisions a provider may come to

ASSUME DispatcherAssumption ==
    /\ MaxMessages \in Nat \ {0} /\ MaxAttempts \in Nat \ {0}
    /\ \A l \in Limits :
        /\ l.messages \in 1 .. MaxMessages /\ l.overlap \in Nat \ {0}
        /\ {l.retries, l.cancels, l.crashes} \subseteq Nat
    /\ StartOutcomes \subseteq {"submitted", "raised", "skipped"}
    /\ Decisions \subseteq [status : {"completed", "failed", "incomplete", "cancelled"},
                            retryable : BOOLEAN]
    /\ \A d \in Decisions : d.retryable => d.status \in {"failed", "incomplete"}

VARIABLES jobs, attempts, messages, replies, box,
          queue, active, exec, starting, lock, thread,
          retries, cancels, crashes, limits

\* The bounds of this behaviour: on the retries and cancellations users ask
\* for, on crashes, and on the threads that are inside an operation.
MaxRetries == limits.retries
MaxCancels == limits.cancels
MaxCrashes == limits.crashes
MaxOverlap == limits.overlap

durable == <<jobs, attempts, messages, replies, box>>
memory == <<queue, active, exec, starting, lock>>
bounds == <<retries, cancels, crashes, limits>>
vars == <<jobs, attempts, messages, replies, box,
          queue, active, exec, starting, lock, thread, bounds>>

Threads == {"socket", "maintenance"}
Ended == {"completed", "failed", "incomplete", "cancelled"}
JobStatuses == {"queued", "running"} \cup Ended
Job == [status : JobStatuses, cancel_requested : BOOLEAN]
Attempt == [message : Nat, state : {"none", "pending", "running"} \cup Ended,
            retry_index : Nat]
NoAttempt == [message |-> 0, state |-> "none", retry_index |-> 0]
MessageStates == {"queued", "running", "partially_replied", "ended"}
Decision == [status : Ended, retryable : BOOLEAN]

Labels == {"idle", "preclaim", "start_attempt", "start_claim", "start_running",
           "start_execute", "start_return", "restore", "restored", "complete",
           "attempt_terminal", "event_terminal", "reply", "finish", "unqueue",
           "retry_check", "enqueue", "record_attempt", "record_event",
           "cancel_mark", "cancel_decide"}

QueuedJob == [status |-> "queued", cancel_requested |-> FALSE]
NoDecision == [status |-> "failed", retryable |-> FALSE]

\* pc: the next step; job: the job worked on; seen: its record as loaded;
\* new: the job being enqueued; then: where the operation goes on.
Local == [pc : Labels, job : Nat, seen : Job, decision : Decision,
          new : Nat, then : Labels]
Idle == [pc |-> "idle", job |-> 0, seen |-> QueuedJob, decision |-> NoDecision,
         new |-> 0, then |-> "idle"]

TypeOK ==
    /\ jobs \in Seq(Job)
    /\ attempts \in Seq(Attempt) /\ Len(attempts) = Len(jobs)
    /\ messages \in Seq(MessageStates)
    /\ replies \in Seq([job : DOMAIN jobs, status : Ended])
    /\ box \in Mailbox
    /\ queue \in Seq(DOMAIN jobs) /\ active \in {0} \cup DOMAIN jobs
    /\ exec \subseteq DOMAIN jobs /\ starting \in {0} \cup DOMAIN jobs
    /\ lock \in Threads \cup {"none"}
    /\ thread \in [Threads -> Local]
    /\ retries \in 0 .. MaxRetries /\ cancels \in 0 .. MaxCancels
    /\ crashes \in 0 .. MaxCrashes /\ limits \in Limits

Init ==
    /\ jobs = << >> /\ attempts = << >> /\ messages = << >> /\ replies = << >>
    /\ box = EmptyMailbox
    /\ queue = << >> /\ active = 0 /\ exec = {} /\ starting = 0 /\ lock = "none"
    /\ thread = [t \in Threads |-> Idle]
    /\ retries = 0 /\ cancels = 0 /\ crashes = 0 /\ limits \in Limits
-----------------------------------------------------------------------------
(* Control.                                                                *)

At(t, pc) == thread[t].pc = pc
Goto(t, pc) ==
    thread' = [thread EXCEPT ![t] = IF pc = "idle" THEN Idle
                                    ELSE [@ EXCEPT !.pc = pc]]

\* Until restore_running_jobs is over the socket accepts ping only.
Bootstrapping ==
    At("maintenance", "restore") \/ thread["maintenance"].then = "restored"

\* Thread t may begin an operation.
Free(t) ==
    /\ At(t, "idle") /\ ~Bootstrapping
    /\ Cardinality({u \in Threads : ~At(u, "idle")}) < MaxOverlap

Begin(t, pc, j, decision, then) ==
    thread' = [thread EXCEPT ![t] =
                [Idle EXCEPT !.pc = pc, !.job = j, !.decision = decision,
                             !.then = then]]

\* Mutant: the lock is not taken.
CanLock_always(t) == TRUE

\* with _chain_transition_lock (reentrant).
CanLock(t) == lock \in {"none", t}
-----------------------------------------------------------------------------
(* Reads.                                                                  *)

\* Mutant: incomplete jobs do not count as terminal.
is_terminal_but_incomplete(j) == jobs[j].status \in Ended \ {"incomplete"}

is_terminal(j) == jobs[j].status \in Ended

is_running(j) == jobs[j].status = "running"

\* The inbound event of the attempt of job j, 0 if there is none.
event_of(j) ==
    IF \E e \in events(box) : box.inbox[e].ref = j
    THEN CHOOSE e \in events(box) : box.inbox[e].ref = j
    ELSE 0

message_of(j) == attempts[j].message

\* The jobs whose attempts belong to message m.
lineage(m) == {j \in DOMAIN jobs : message_of(j) = m}

next_retry_index(m) ==
    IF lineage(m) = {} THEN 0
    ELSE 1 + (CHOOSE i \in {attempts[j].retry_index : j \in lineage(m)} :
                \A j \in lineage(m) : attempts[j].retry_index <= i)

\* Mutant: any attempt of the lineage may be retried.
is_latest_attempt_any(j) == TRUE

\* No attempt of the same message sorts after the one of j.
is_latest_attempt(j) ==
    \A k \in lineage(message_of(j)) :
        attempts[k].retry_index <= attempts[j].retry_index

\* refresh_message_state, given the replies rs.
next_message_state(m, rs) ==
    IF \A j \in lineage(m) : attempts[j].state \in Ended
    THEN "ended"
    ELSE IF \E i \in DOMAIN rs : message_of(rs[i].job) = m
    THEN "partially_replied" ELSE "running"
-----------------------------------------------------------------------------
(* Writes.                                                                 *)

append_job(j, record) == jobs' = [jobs EXCEPT ![j] = record]
append_attempt(j, state) == attempts' = [attempts EXCEPT ![j].state = state]

\* Mutant: a message that has ended is not opened again by a retry.
set_message_state_never_reopens(m, state) ==
    messages' = [messages EXCEPT ![m] = IF @ = "ended" THEN @ ELSE state]

set_message_state(m, state) == messages' = [messages EXCEPT ![m] = state]

\* Mutant: the job that is started or cancelled stays in the queue.
remove_queued_dropped(j) == UNCHANGED queue

remove_queued(j) == queue' = RemoveFirst(queue, j)

\* Mutant: the slot of the agent is not given back.
clear_active_dropped(j) == UNCHANGED active

clear_active(j) == active' = IF active = j THEN 0 ELSE active
-----------------------------------------------------------------------------
(* Submission and retry: _enqueue_submitted_job, record_submission,        *)
(* record_retry_attempt.  A submission holds the lock throughout.          *)

Submit ==
    /\ Free("socket") /\ CanLock("socket")
    /\ Len(messages) < limits.messages
    /\ lock' = "socket"
    /\ Begin("socket", "enqueue", 0, NoDecision, "idle")
    /\ UNCHANGED <<durable, queue, active, exec, starting, bounds>>

\* retry_attempt asked for by a user; it takes no lock.
Retry(j) ==
    /\ Free("socket") /\ retries < MaxRetries
    /\ attempts[j].state # "none"
    /\ retries' = retries + 1
    /\ Begin("socket", "retry_check", j, NoDecision, "idle")
    /\ UNCHANGED <<durable, memory, cancels, crashes, limits>>

\* The checks of retry_attempt.  When one fails, or the agent is not available
\* at this moment, a user gets an error and an automatic retry falls back to
\* the reply.
RetryCheck(t) ==
    /\ At(t, "retry_check")
    /\ LET j == thread[t].job
       IN \/ /\ attempts[j].state \in Ended \ {"completed"}
             /\ is_latest_attempt(j)
             /\ Goto(t, "enqueue")
          \/ Goto(t, IF thread[t].then = "idle" THEN "idle" ELSE "reply")
    /\ UNCHANGED <<durable, memory, bounds>>

Enqueue(t) ==
    /\ At(t, "enqueue")
    /\ jobs' = Append(jobs, QueuedJob)
    /\ attempts' = Append(attempts, NoAttempt)
    /\ queue' = Append(queue, Len(jobs) + 1)
    /\ thread' = [thread EXCEPT ![t].pc = "record_attempt",
                                ![t].new = Len(jobs) + 1]
    /\ UNCHANGED <<messages, replies, box, active, exec, starting, lock, bounds>>

\* A submission writes its message first; a retry numbers its attempt.
RecordAttempt(t) ==
    /\ At(t, "record_attempt")
    /\ LET source == thread[t].job
           m == IF source = 0 THEN Len(messages) + 1 ELSE message_of(source)
       IN /\ messages' = IF source = 0 THEN Append(messages, "queued") ELSE messages
          /\ attempts' = [attempts EXCEPT ![thread[t].new] =
                [message |-> m, state |-> "pending",
                 retry_index |-> next_retry_index(m)]]
    /\ Goto(t, "record_event")
    /\ UNCHANGED <<jobs, replies, box, memory, bounds>>

\* The event and the message state; the lock is given back by a submission
\* and by the completion that scheduled the retry.
RecordEvent(t) ==
    /\ At(t, "record_event")
    /\ LET j == thread[t].new
       IN /\ box' = record_inbound(box, "task_request", j)
          /\ set_message_state(message_of(j), "queued")
    /\ lock' = IF thread[t].job = 0 \/ thread[t].then # "idle" THEN "none"
               ELSE lock
    /\ Goto(t, thread[t].then)
    /\ UNCHANGED <<jobs, attempts, replies, queue, active, exec, starting, bounds>>
-----------------------------------------------------------------------------
(* Start of the queued job: start_next_queued_job, start_running_job.      *)

still_claimable(j, seen) ==
    /\ jobs[j].status = seen.status
    /\ j \in ToSet(queue)
    /\ active = 0

\* The request at the head of the mailbox is looked up and its provider is
\* inspected, which takes time.
StartLoad ==
    /\ Free("maintenance") /\ active = 0
    /\ LET e == peek_next(box, "task_request")
       IN /\ e # 0
          /\ box.inbox[e].ref \in ToSet(queue)
          /\ thread' = [thread EXCEPT !["maintenance"] =
                [Idle EXCEPT !.pc = "preclaim", !.job = box.inbox[e].ref,
                             !.seen = jobs[box.inbox[e].ref]]]
    /\ UNCHANGED <<durable, memory, bounds>>

\* The provider is ready, and the job is as it was loaded.
StartAllowed ==
    /\ At("maintenance", "preclaim")
    /\ LET j == thread["maintenance"].job
       IN /\ still_claimable(j, thread["maintenance"].seen)
          /\ remove_queued(j)
    /\ Goto("maintenance", "start_attempt")
    /\ UNCHANGED <<durable, active, exec, starting, lock, bounds>>

\* The pane is occupied, or the job has changed.
StartBlocked ==
    /\ At("maintenance", "preclaim")
    /\ Goto("maintenance", "idle")
    /\ UNCHANGED <<durable, memory, bounds>>

\* The provider is dead: _fail_unstartable_job ends the head job, under the
\* lock, and takes it off the queue afterwards.
StartUnstartable ==
    /\ At("maintenance", "preclaim") /\ CanLock("maintenance")
    /\ LET j == thread["maintenance"].job
       IN IF /\ jobs[j].status = "queued" /\ ~jobs[j].cancel_requested
             /\ j \in ToSet(queue) /\ active = 0
             /\ event_of(j) # 0 /\ peek_next(box, "task_request") = event_of(j)
          THEN /\ lock' = "maintenance"
               /\ Begin("maintenance", "complete", j, NoDecision, "unqueue")
          ELSE Goto("maintenance", "idle") /\ UNCHANGED lock
    /\ UNCHANGED <<durable, queue, active, exec, starting, bounds>>

\* mark_attempt_started: the attempt runs ...
StartAttempt ==
    /\ At("maintenance", "start_attempt")
    /\ append_attempt(thread["maintenance"].job, "running")
    /\ Goto("maintenance", "start_claim")
    /\ UNCHANGED <<jobs, messages, replies, box, memory, bounds>>

\* ... and its event is claimed; the result of the claim is not looked at.
StartClaim ==
    /\ At("maintenance", "start_claim")
    /\ LET j == thread["maintenance"].job
           e == event_of(j)
       IN /\ box' = IF ~is_pending(box, e) THEN rebuild_mailbox_summary(box)
                    ELSE IF box.inbox[e].status = "delivering" THEN box
                    ELSE claim(box, e)
          /\ set_message_state(message_of(j), "running")
    /\ Goto("maintenance", "start_running")
    /\ UNCHANGED <<jobs, attempts, replies, memory, bounds>>

StartRunning ==
    /\ At("maintenance", "start_running")
    /\ append_job(thread["maintenance"].job,
                  [thread["maintenance"].seen EXCEPT !.status = "running"])
    /\ Goto("maintenance", "start_execute")
    /\ UNCHANGED <<attempts, messages, replies, box, memory, bounds>>

\* The slot is taken and the provider is asked to start, unless the runtime
\* binding is not actionable.
StartExecute ==
    /\ At("maintenance", "start_execute")
    /\ active' = thread["maintenance"].job
    /\ \/ /\ "skipped" \in StartOutcomes
          /\ Goto("maintenance", "idle")
          /\ UNCHANGED starting
       \/ /\ starting' = thread["maintenance"].job
          /\ Goto("maintenance", "start_return")
    /\ UNCHANGED <<durable, queue, exec, lock, bounds>>

\* The provider has accepted: the job runs unless a cancellation revoked the
\* start meanwhile.  Or it has raised, and the job fails.
StartReturn(outcome) ==
    /\ At("maintenance", "start_return") /\ outcome \in StartOutcomes
    /\ LET j == thread["maintenance"].job
       IN \/ /\ outcome = "submitted"
             /\ exec' = IF starting = j THEN exec \cup {j} ELSE exec
             /\ Goto("maintenance", "idle")
          \/ /\ outcome = "raised"
             /\ Begin("maintenance", "complete", j, NoDecision, "finish")
             /\ UNCHANGED exec
    /\ starting' = 0
    /\ UNCHANGED <<durable, queue, active, lock, bounds>>
-----------------------------------------------------------------------------
(* Completion: poll_completion_updates, complete_job.                      *)

PollDecision(j, decision) ==
    /\ Free("maintenance") /\ j \in exec /\ ~is_terminal(j)
    /\ Begin("maintenance", "complete", j, decision, "finish")
    /\ UNCHANGED <<durable, memory, bounds>>

\* An update for a job that has ended only clears the execution.
PollStale(j) ==
    /\ Free("maintenance") /\ j \in exec /\ is_terminal(j)
    /\ exec' = exec \ {j}
    /\ UNCHANGED <<durable, queue, active, starting, lock, thread, bounds>>

\* The job heartbeat gives up on the running job after enough intervals of
\* silence (JobHeartbeat says when).
HeartbeatTimeout ==
    /\ Free("maintenance") /\ active # 0 /\ is_running(active)
    /\ Begin("maintenance", "complete", active,
             [status |-> "incomplete", retryable |-> FALSE], "finish")
    /\ UNCHANGED <<durable, memory, bounds>>

\* complete_job: nothing for a job that has ended, else its terminal record.
Complete(t) ==
    /\ At(t, "complete") /\ CanLock(t)
    /\ LET j == thread[t].job
       IN IF is_terminal(j)
          THEN /\ Goto(t, "idle")
               /\ UNCHANGED <<jobs, active, lock>>
          ELSE /\ append_job(j, [jobs[j] EXCEPT !.status = thread[t].decision.status])
               /\ clear_active(j)
               /\ lock' = t
               /\ Goto(t, "attempt_terminal")
    /\ UNCHANGED <<attempts, messages, replies, box, queue, exec, starting, bounds>>

\* record_attempt_terminal, for completions and cancellations.  A job whose
\* submission was cut short has no attempt: nothing is recorded for it.
AttemptTerminal(t) ==
    /\ At(t, "attempt_terminal")
    /\ IF attempts[thread[t].job].state = "none"
       THEN Goto(t, "reply") /\ UNCHANGED attempts
       ELSE /\ append_attempt(thread[t].job, thread[t].decision.status)
            /\ Goto(t, "event_terminal")
    /\ UNCHANGED <<jobs, messages, replies, box, memory, bounds>>

\* automatic_retry_plan: a retryable failure with attempts left.
\* Mutant: one attempt too many.
retry_planned_off_by_one(j, decision) ==
    decision.retryable /\ attempts[j].retry_index < MaxAttempts

retry_planned(j, decision) ==
    decision.retryable /\ attempts[j].retry_index + 1 < MaxAttempts

\* A cancelled job's event that was never claimed is abandoned.
terminal_event_status(j, status) ==
    IF status = "cancelled" /\ box.inbox[event_of(j)].status \in Claimable
    THEN "abandoned" ELSE "consumed"

EventTerminal(t) ==
    /\ At(t, "event_terminal")
    /\ LET j == thread[t].job
           decision == thread[t].decision
           m == message_of(j)
       IN /\ box' = IF event_of(j) # 0 /\ is_pending(box, event_of(j))
                    THEN mark_terminal(box, event_of(j),
                                       terminal_event_status(j, decision.status))
                    ELSE rebuild_mailbox_summary(box)
          /\ set_message_state(m, next_message_state(m, replies))
          /\ Goto(t, IF retry_planned(j, decision) THEN "retry_check" ELSE "reply")
    /\ UNCHANGED <<jobs, attempts, replies, memory, bounds>>

\* record_reply, the last write under the lock; _fail_unstartable_job keeps
\* the lock until the job has left the queue.
Reply(t) ==
    /\ At(t, "reply")
    /\ LET j == thread[t].job
           m == message_of(j)
           rs == Append(replies, [job |-> j, status |-> thread[t].decision.status])
       IN IF m = 0
          THEN UNCHANGED <<replies, messages>>
          ELSE /\ replies' = rs
               /\ set_message_state(m, next_message_state(m, rs))
    /\ lock' = IF thread[t].then = "unqueue" THEN lock ELSE "none"
    /\ Goto(t, thread[t].then)
    /\ UNCHANGED <<jobs, attempts, box, queue, active, exec, starting, bounds>>

\* finish_terminal_runtime.
Finish(t) ==
    /\ thread[t].pc \in {"finish", "restored"}
    /\ exec' = exec \ {thread[t].job}
    /\ Goto(t, "idle")
    /\ UNCHANGED <<durable, queue, active, starting, lock, bounds>>

Unqueue(t) ==
    /\ At(t, "unqueue")
    /\ exec' = exec \ {thread[t].job}
    /\ remove_queued(thread[t].job)
    /\ lock' = "none"
    /\ Goto(t, "idle")
    /\ UNCHANGED <<durable, active, starting, bounds>>
-----------------------------------------------------------------------------
(* Cancellation: cancel_job, cancel_with_decision; ack of a request.       *)

CancelLoad(t, j) ==
    /\ Free(t) /\ cancels < MaxCancels /\ ~is_terminal(j)
    /\ cancels' = cancels + 1
    /\ thread' = [thread EXCEPT ![t] =
            [Idle EXCEPT !.pc = "cancel_mark", !.job = j, !.seen = jobs[j],
                         !.decision = [status |-> "cancelled", retryable |-> FALSE]]]
    /\ UNCHANGED <<durable, memory, retries, crashes, limits>>

\* The loaded record is written back with the request to cancel, outside the
\* lock, and the execution is told to stop.
CancelMark(t) ==
    /\ At(t, "cancel_mark")
    /\ append_job(thread[t].job,
                  [thread[t].seen EXCEPT !.cancel_requested = TRUE])
    /\ exec' = exec \ {thread[t].job}
    /\ starting' = IF starting = thread[t].job THEN 0 ELSE starting
    /\ Goto(t, "cancel_decide")
    /\ UNCHANGED <<attempts, messages, replies, box, queue, active, lock, bounds>>

CancelDecide(t) ==
    /\ At(t, "cancel_decide") /\ CanLock(t)
    /\ LET j == thread[t].job
       IN IF is_terminal(j)
          THEN /\ Goto(t, "idle")
               /\ UNCHANGED <<jobs, queue, active, lock>>
          ELSE /\ append_job(j, [jobs[j] EXCEPT !.status = "cancelled",
                                                !.cancel_requested = TRUE])
               /\ remove_queued(j) /\ clear_active(j)
               /\ lock' = t
               /\ Goto(t, "attempt_terminal")
    /\ UNCHANGED <<attempts, messages, replies, box, exec, starting, bounds>>

\* The health monitor cancels the active job of an agent that has degraded,
\* in the heartbeat and beside whatever cancel the socket is in.
CancelDegraded == active # 0 /\ CancelLoad("maintenance", active)

\* The head request of an attempt that has ended may be acknowledged by hand.
AckTerminalRequest ==
    /\ Free("socket")
    /\ LET e == head_pending_event(box)
           j == box.inbox[e].ref
       IN /\ e # 0 /\ attempts[j].state \in Ended
          /\ box' = mark_terminal(box, e, terminal_event_status(j, attempts[j].state))
    /\ UNCHANGED <<jobs, attempts, messages, replies, memory, thread, bounds>>
-----------------------------------------------------------------------------
(* Restart and the lease sweep.                                            *)

\* _admission_ordered: mailbox order, then the order of the job store.
admission_position(j) ==
    IF event_of(j) # 0 /\ is_pending(box, event_of(j))
    THEN event_of(j)
    ELSE Len(box.inbox) + j

\* The pending jobs, each once, by position (no two have the same one).
admission_ordered ==
    LET pending == {j \in DOMAIN jobs : jobs[j].status = "queued"}
    IN {q \in [1 .. Cardinality(pending) -> pending] :
            \A i, k \in DOMAIN q :
                i < k => admission_position(q[i]) < admission_position(q[k])}

\* The process ends and a new one rebuilds its state from the stores: the
\* last RUNNING job takes the slot, the pending ones are queued.
Crash ==
    /\ crashes < MaxCrashes
    /\ crashes' = crashes + 1
    /\ LET running == {j \in DOMAIN jobs : is_running(j)}
           last == IF running = {} THEN 0
                   ELSE CHOOSE j \in running : \A k \in running : k <= j
       IN /\ active' = last
          /\ thread' = [thread EXCEPT
                !["socket"] = Idle,
                !["maintenance"] = IF last = 0 THEN Idle
                                   ELSE [Idle EXCEPT !.pc = "restore", !.job = last]]
    /\ queue' \in admission_ordered
    /\ exec' = {} /\ starting' = 0 /\ lock' = "none"
    /\ UNCHANGED <<durable, retries, cancels, limits>>

\* restore_running_jobs: the provider resumes the job ...
RestoreResumed ==
    /\ At("maintenance", "restore")
    /\ exec' = exec \cup {thread["maintenance"].job}
    /\ Goto("maintenance", "idle")
    /\ UNCHANGED <<durable, queue, active, starting, lock, bounds>>

\* ... or the job ends: with a decision that was pending, as INCOMPLETE, or
\* as FAILED when the provider restarted without replay.
RestoreEnds(decision) ==
    /\ At("maintenance", "restore")
    /\ Begin("maintenance", "complete", thread["maintenance"].job, decision, "restored")
    /\ UNCHANGED <<durable, memory, bounds>>

\* Mutant: the sweep does not ask whether the agent is busy.
Sweep_ignores_running ==
    /\ Free("maintenance") /\ holds_lease(box)
    /\ box' = expire_lease(box)
    /\ UNCHANGED <<jobs, attempts, messages, replies, memory, thread, bounds>>

\* The heartbeat expires a lease past its deadline while the agent runs no job.
Sweep ==
    /\ Free("maintenance") /\ holds_lease(box)
    /\ ~(active # 0 /\ is_running(active))
    /\ box' = expire_lease(box)
    /\ UNCHANGED <<jobs, attempts, messages, replies, memory, thread, bounds>>
-----------------------------------------------------------------------------
Step(t) ==
    \/ Enqueue(t) \/ RecordAttempt(t) \/ RecordEvent(t) \/ RetryCheck(t)
    \/ Complete(t) \/ AttemptTerminal(t) \/ EventTerminal(t) \/ Reply(t)
    \/ Finish(t) \/ Unqueue(t) \/ CancelMark(t) \/ CancelDecide(t)

Handler ==
    \/ Submit \/ AckTerminalRequest
    \/ \E j \in DOMAIN jobs : Retry(j) \/ CancelLoad("socket", j)

Heartbeat ==
    \/ StartLoad \/ Sweep \/ HeartbeatTimeout \/ CancelDegraded
    \/ \E j \in exec : PollStale(j) \/ \E d \in Decisions : PollDecision(j, d)

StartStep ==
    \/ StartAllowed \/ StartBlocked \/ StartUnstartable \/ StartAttempt
    \/ StartClaim \/ StartRunning \/ StartExecute
    \/ \E outcome \in {"submitted", "raised"} : StartReturn(outcome)

RestoreStep == RestoreResumed \/ \E d \in Decisions : RestoreEnds(d)

Next ==
    \/ Handler \/ Heartbeat \/ StartStep \/ RestoreStep
    \/ \E t \in Threads : Step(t)
    \/ Crash

Spec == Init /\ [][Next]_vars
(* The environment: the heartbeat keeps running (a failing step of it is   *)
(* caught and the next one goes on), a handler runs to its end, a provider *)
(* that accepted a job ends its turn, and a pane is not occupied for ever. *)
FairSpec ==
    /\ Spec
    /\ \A t \in Threads : WF_vars(Step(t))
    /\ WF_vars(RestoreStep) /\ WF_vars(StartStep)
    /\ WF_vars(StartLoad) /\ SF_vars(StartAllowed)
    /\ WF_vars(Sweep) /\ WF_vars(HeartbeatTimeout)
    /\ WF_vars(\E j \in exec : PollStale(j) \/ \E d \in Decisions : PollDecision(j, d))
-----------------------------------------------------------------------------
AllIdle == \A t \in Threads : At(t, "idle")

(* A job that has ended stays as it ended: a cancelled job is not started, *)
(* a completed one is not cancelled (start.py, cancellation.py and         *)
(* complete_job each read the record before they write it).                *)
TerminalIsFinal ==
    [][\A j \in DOMAIN jobs :
        jobs[j].status \in Ended => jobs'[j].status = jobs[j].status]_vars

(* No attempt is answered twice, whatever ends it and whenever the daemon  *)
(* stops: complete_job and cancel_with_decision record the reply.          *)
OneReplyPerAttempt ==
    \A i, k \in DOMAIN replies : replies[i].job = replies[k].job => i = k

(* At most one job record is RUNNING, and its event is the one in delivery *)
(* under the lease.  DispatcherState.rebuild keeps one RUNNING job per     *)
(* agent and forgets any other; the sweep must not take its lease.         *)
RunningOwnsLane ==
    \A j \in DOMAIN jobs : is_running(j) =>
        /\ \A k \in DOMAIN jobs : is_running(k) => k = j
        /\ box.inbox[event_of(j)].status = "delivering"
        /\ holds_lease(box) /\ box.lease.event = event_of(j)

(* The queue in memory is the queued jobs of the store, each once, but for *)
(* the job between the queue and its RUNNING or terminal record.           *)
QueueMatchesStore ==
    LET inHand == {thread["maintenance"].job}
    IN /\ \A i, k \in DOMAIN queue : queue[i] = queue[k] => i = k
       /\ {j \in DOMAIN jobs : jobs[j].status = "queued"} \ inHand
            = ToSet(queue) \ inHand

(* The jobs of the queue whose events are pending in the mailbox are in    *)
(* the mailbox's order, after a restart too.                               *)
QueueInMailboxOrder ==
    \A i, k \in DOMAIN queue :
        /\ i < k
        /\ is_pending(box, event_of(queue[i])) /\ is_pending(box, event_of(queue[k]))
        => event_of(queue[i]) < event_of(queue[k])

(* The attempts of a message are numbered 0, 1, 2 ... without a gap or a   *)
(* duplicate, and all but the last have ended without success: a retry     *)
(* makes a new attempt of the latest one, and only when it has failed.     *)
LineageIsALine ==
    \A m \in DOMAIN messages :
        /\ {attempts[j].retry_index : j \in lineage(m)} = 0 .. Cardinality(lineage(m)) - 1
        /\ \A j, k \in lineage(m) :
            attempts[j].retry_index < attempts[k].retry_index =>
                attempts[j].state \in Ended \ {"completed"}

(* Automatic retries stay within max_attempts; only a user goes beyond.    *)
RetryBudget ==
    \A m \in DOMAIN messages : Cardinality(lineage(m)) <= MaxAttempts + retries

(* A message shown as ended has been answered for its latest attempt, and  *)
(* one shown as open has an attempt that is open, as long as the daemon    *)
(* has not been stopped: refresh_message_state, set_message_state.         *)
SettledIsAnswered ==
    AllIdle /\ crashes = 0 =>
        \A m \in DOMAIN messages : \A j \in lineage(m) :
            is_latest_attempt(j) =>
                /\ messages[m] = "ended" <=> attempts[j].state \in Ended
                /\ messages[m] = "ended" => \E i \in DOMAIN replies : replies[i].job = j

Answered(m) ==
    /\ \A j \in lineage(m) : attempts[j].state \in Ended
    /\ \E i \in DOMAIN replies : message_of(replies[i].job) = m

(* An attempt that has been started ends, whatever happens to the daemon:  *)
(* a restart recovers mailbox, lease and attempt state.                    *)
StartedAttemptsEnd ==
    \A j \in 1 .. MaxMessages * MaxAttempts :
        (j \in DOMAIN jobs /\ attempts[j].state = "running") ~>
            (j \in DOMAIN jobs /\ attempts[j].state \in Ended)

(* Every message that is recorded is answered in the end, and its attempts *)
(* have ended, unless the daemon is stopped: no job waits for ever in the  *)
(* queue, in the slot or behind a lease.                                   *)
EveryMessageAnswered ==
    \A m \in 1 .. MaxMessages :
        m \in DOMAIN messages ~> Answered(m) \/ crashes > 0
=============================================================================
