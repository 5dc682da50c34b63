--------------------------- MODULE ReplyDelivery ---------------------------
(***************************************************************************)
(* Automatic delivery of replies to an agent.  A TASK_REPLY event at the   *)
(* head of the agent's mailbox gets a delivery job: prepare_reply_         *)
(* deliveries builds it and names it in the event's payload, tick_jobs     *)
(* claims the event and starts the job, and its end consumes the event or  *)
(* puts it back for another job, within a budget of transport failures.    *)
(*                                                                         *)
(* Durable state: box, the mailbox (ref: the delivery job that the event   *)
(* names); jobs, the latest record of every delivery job; anchored, the    *)
(* jobs whose snapshot has seen the prompt in a provider turn; requeues,   *)
(* how many reply_delivery_requeued events an inbound event has.  In       *)
(* memory: queued and active (DispatcherState), starting and exec          *)
(* (_starting and _active of the execution service) and, for each thread,  *)
(* the steps its operation still has to do.  started remembers the jobs    *)
(* with a job_started event, acked the events acknowledged by hand.        *)
(*                                                                         *)
(* A step ends where the other thread or a crash can see the difference.   *)
(* A kernel operation is one step, but rewrite_head and expire_lease,      *)
(* whose two writes matter here, are two.  Under its lock, complete and    *)
(* cancel make one write that deliveries depend on, so the lock is left    *)
(* out.  Also left out: requests in the same mailbox (Dispatcher has       *)
(* them), attempts and messages of delivery jobs, which decide nothing     *)
(* here, and a decision that was persisted by a poll which then failed.    *)
(***************************************************************************)
EXTENDS MailboxOps, SequencesExt

CONSTANTS MaxReplies,     \* bound on the replies that arrive
          MaxRequeues,    \* _MAX_PRE_DELIVERY_TRANSPORT_REQUEUES (3 in the code)
          MaxOverlap,     \* bound on the threads inside an operation
          Limits          \* the bounds that a behaviour chooses one of

ASSUME ReplyDeliveryAssumption ==
    /\ MaxReplies \in Nat \ {0} /\ MaxRequeues \in Nat
    /\ MaxOverlap \in Nat \ {0}
    /\ Limits \subseteq [replies : 1 .. MaxReplies, cancels : Nat,
                         recovers : Nat, crashes : Nat]

\* limits: how many replies arrive and how many cancellations, recoveries
\* and crashes there are at most in this behaviour; it never changes.
VARIABLES limits, box, jobs, anchored, requeues,
          queued, active, starting, exec, thread,
          started, acked, cancels, recovers, crashes

durable == <<box, jobs, anchored, requeues>>
memory == <<queued, active, starting, exec>>
history == <<limits, started, acked, cancels, recovers, crashes>>
vars == <<limits, box, jobs, anchored, requeues, queued, active, starting, exec,
          thread, started, acked, cancels, recovers, crashes>>

Threads == {"socket", "maintenance"}
\* "failed" stands for FAILED and INCOMPLETE, which nobody here tells apart.
Ended == {"completed", "failed", "cancelled"}
\* reached: the terminal decision has evidence of a provider turn.
Job == [status : {"queued", "running"} \cup Ended, event : Nat, reached : BOOLEAN]
Decision == [status : Ended, reached : BOOLEAN]
NoDecision == [status |-> "failed", reached |-> FALSE]
\* What a provider may decide; a completed delivery needs no evidence.
Decisions == {[status |-> "completed", reached |-> TRUE],
              [status |-> "failed", reached |-> TRUE], NoDecision}
Labels == {"repair", "prepare", "enqueue", "rewrite", "release", "start",
           "preclaim", "start_running", "start_execute", "start_return",
           "restore", "complete", "finish", "resolve", "requeued",
           "cancel_mark", "cancel_decide", "recover", "ack", "sweep"}

\* todo: the steps to come; job and event: what they work on; seen: the job
\* record as loaded.
Local == [todo : Seq(Labels), job : Nat, event : Nat, seen : Job,
          decision : Decision]
NoJob == [status |-> "queued", event |-> 0, reached |-> FALSE]
Idle == [todo |-> << >>, job |-> 0, event |-> 0, seen |-> NoJob,
         decision |-> NoDecision]

TypeOK ==
    /\ box \in Mailbox /\ jobs \in Seq(Job)
    /\ requeues \in [1 .. MaxReplies -> 0 .. MaxRequeues]
    /\ anchored \cup queued \cup starting \cup exec \cup started \subseteq DOMAIN jobs
    /\ active \in {0} \cup DOMAIN jobs
    /\ thread \in [Threads -> Local]
    /\ acked \subseteq 1 .. MaxReplies
    /\ limits \in Limits
    /\ cancels \in 0 .. limits.cancels /\ recovers \in 0 .. limits.recovers
    /\ crashes \in 0 .. limits.crashes

Init ==
    /\ limits \in Limits
    /\ box = EmptyMailbox /\ jobs = << >> /\ anchored = {}
    /\ requeues = [e \in 1 .. MaxReplies |-> 0]
    /\ queued = {} /\ active = 0 /\ starting = {} /\ exec = {}
    /\ thread = [t \in Threads |-> Idle]
    /\ started = {} /\ acked = {} /\ cancels = 0 /\ recovers = 0 /\ crashes = 0
-----------------------------------------------------------------------------
(* Control.                                                                *)

IsIdle(t) == thread[t].todo = << >>
At(t, label) == ~IsIdle(t) /\ Head(thread[t].todo) = label

\* Until the running job is restored the socket accepts ping only.
Bootstrapping == "restore" \in ToSet(thread["maintenance"].todo)

Free(t) ==
    /\ IsIdle(t) /\ ~Bootstrapping
    /\ Cardinality({u \in Threads : ~IsIdle(u)}) < MaxOverlap

Begin(t, todo, j, e) ==
    thread' = [thread EXCEPT ![t] =
                [Idle EXCEPT !.todo = todo, !.job = j, !.event = e,
                             !.seen = IF j = 0 THEN NoJob ELSE jobs[j]]]

\* The steps of the operation after the current one.
rest(t) == Tail(thread[t].todo)

\* The step is done and others come before the rest of the operation.
Then(t, labels) ==
    thread' = [thread EXCEPT ![t] =
                IF labels \o rest(t) = << >> THEN Idle
                ELSE [@ EXCEPT !.todo = labels \o rest(t)]]

Complete_(t, j, decision) ==
    thread' = [thread EXCEPT ![t] =
                [@ EXCEPT !.todo = <<"complete">> \o rest(t), !.job = j,
                          !.decision = decision]]

\* The operation is over.
Leave(t) == thread' = [thread EXCEPT ![t] = Idle]
-----------------------------------------------------------------------------
(* Reads.                                                                  *)

is_terminal(j) == jobs[j].status \in Ended

\* head_reply_event: the head of the mailbox if it is a reply, else 0.
head_reply_event ==
    IF head_pending_event(box) # 0
       /\ box.inbox[head_pending_event(box)].type = "task_reply"
    THEN head_pending_event(box) ELSE 0

\* The delivery job the head names, 0 if none.
delivery_job == IF head_reply_event = 0 THEN 0 ELSE box.inbox[head_reply_event].ref

execution_job_is_live(j) == j \in exec

delivery_never_reached_provider(j) == j \notin exec \cup started
-----------------------------------------------------------------------------
(* rewrite_reply_head: the record first, the lease and the summary next.   *)

RewriteRecord(e, ref) ==
    box' = IF is_pending(box, e) THEN append_rewrite(box, e, "queued", ref) ELSE box

Release(t) ==
    /\ At(t, "release")
    /\ LET e == thread[t].event
       IN box' = IF is_pending(box, e)
                 THEN rewrite_summary(release_matching_lease(box, e), e)
                 ELSE rebuild_mailbox_summary(box)
    /\ Then(t, << >>)
    /\ UNCHANGED <<jobs, anchored, requeues, memory, history>>
-----------------------------------------------------------------------------
(* A reply arrives: queue_reply_delivery of some completion.               *)

Arrive ==
    /\ Len(box.inbox) < limits.replies
    /\ box' = record_inbound(box, "task_reply", 0)
    /\ UNCHANGED <<jobs, anchored, requeues, memory, thread, history>>

\* tick: repair, prepare, start.
Tick ==
    /\ Free("maintenance") /\ head_pending_event(box) # 0
    /\ Begin("maintenance", <<"repair", "prepare", "start">>, 0, 0)
    /\ UNCHANGED <<durable, memory, history>>
-----------------------------------------------------------------------------
(* repair_agent_reply_delivery_head.                                       *)

\* The head goes back to queued, naming ref, and its lease is released; a
\* lease on another event, which has ended, is expired before.
RepairRewrite(t, e, ref) ==
    /\ box' = append_rewrite(IF box.lease.event = e THEN box ELSE expire_lease(box),
                             e, "queued", ref)
    /\ thread' = [thread EXCEPT ![t] =
                    [@ EXCEPT !.todo = <<"release">> \o rest(t), !.event = e]]

\* _repair_orphaned_lease: any lease file that names the head, acquired or not.
orphaned_lease(e) == box.lease.state # "none" /\ box.lease.event = e

\* _repair_pending_stall, after its 300 seconds.
pending_stall(j) ==
    /\ active = 0 /\ holds_lease(box) /\ delivery_never_reached_provider(j)
    /\ \/ box.lease.event = head_reply_event
       \/ ~is_pending(box, box.lease.event)

stale_running(j) == jobs[j].status = "running" /\ ~execution_job_is_live(j)

Repair(t) ==
    /\ At(t, "repair")
    /\ LET e == head_reply_event
           j == delivery_job
       IN \/ /\ e # 0 /\ j = 0 /\ orphaned_lease(e)
             /\ RepairRewrite(t, e, 0)
          \/ /\ j # 0 /\ jobs[j].status = "queued" /\ pending_stall(j)
             /\ RepairRewrite(t, e, j)
          \/ /\ j # 0 /\ stale_running(j)
             /\ Complete_(t, j, NoDecision)
             /\ UNCHANGED box
          \* Nothing to repair, or the job is not stalled long enough.
          \/ /\ ~(e # 0 /\ j = 0 /\ orphaned_lease(e))
             /\ ~(j # 0 /\ stale_running(j))
             /\ Then(t, << >>) /\ UNCHANGED box
    /\ UNCHANGED <<jobs, anchored, requeues, memory, history>>
-----------------------------------------------------------------------------
(* prepare_agent_reply_delivery, build_reply_delivery_job.                 *)

\* Mutant: a job that has ended is waited for as well.
existing_delivery_any(j) == j # 0 /\ jobs[j].status # "completed"

existing_delivery(j) == j # 0 /\ jobs[j].status \in {"queued", "running"}

Prepare(t) ==
    /\ At(t, "prepare")
    /\ LET e == head_reply_event
           j == delivery_job
           build == thread' = [thread EXCEPT ![t] =
                        [@ EXCEPT !.todo = <<"enqueue", "rewrite", "release">> \o rest(t),
                                  !.event = e]]
       IN \/ /\ e = 0 \/ existing_delivery(j)
             /\ Then(t, << >>) /\ UNCHANGED box
          \/ /\ e # 0 /\ j = 0
             /\ build /\ UNCHANGED box
          \* A completed delivery whose end was not resolved.
          \/ /\ j # 0 /\ jobs[j].status = "completed"
             /\ box' = mark_terminal(box, e, "consumed")
             /\ Then(t, << >>)
          \* Any other end: the head is reset and gets a new job.
          \/ /\ j # 0 /\ ~existing_delivery(j) /\ jobs[j].status # "completed"
             /\ box' = rewrite_head(box, e, "queued", 0)
             /\ build
    /\ UNCHANGED <<jobs, anchored, requeues, memory, history>>

Enqueue(t) ==
    /\ At(t, "enqueue")
    /\ jobs' = Append(jobs, [NoJob EXCEPT !.event = thread[t].event])
    /\ queued' = queued \cup {Len(jobs) + 1}
    /\ thread' = [thread EXCEPT ![t] =
                    [@ EXCEPT !.todo = rest(t), !.job = Len(jobs) + 1]]
    /\ UNCHANGED <<box, anchored, requeues, active, starting, exec, history>>

Rewrite(t) ==
    /\ At(t, "rewrite")
    /\ RewriteRecord(thread[t].event, thread[t].job)
    /\ Then(t, << >>)
    /\ UNCHANGED <<jobs, anchored, requeues, memory, history>>
-----------------------------------------------------------------------------
(* tick_jobs: _claim_reply_delivery, start_running_job.                    *)

\* The head's pending job is a candidate; its pane is inspected.
Start(t) ==
    /\ At(t, "start")
    /\ IF /\ active = 0 /\ delivery_job \in queued
          /\ jobs[delivery_job].status = "queued"
       THEN thread' = [thread EXCEPT ![t] =
                [@ EXCEPT !.todo = <<"preclaim">> \o rest(t), !.job = delivery_job,
                          !.seen = jobs[delivery_job]]]
       ELSE Then(t, << >>)
    /\ UNCHANGED <<durable, memory, history>>

still_claimable(j, seen) ==
    jobs[j].status = seen.status /\ j \in queued /\ active = 0

\* The job's event is the head and the kernel hands it out.
claim_reply_delivery_start(j) ==
    head_reply_event = jobs[j].event /\ claim_returns(box, jobs[j].event)

PreclaimAllowed(t) ==
    /\ At(t, "preclaim")
    /\ LET j == thread[t].job
       IN /\ still_claimable(j, thread[t].seen)
          /\ claim_reply_delivery_start(j)
          /\ box' = IF claim_succeeds(box, jobs[j].event)
                    THEN claim(box, jobs[j].event) ELSE box
          /\ queued' = queued \ {j}
    /\ Then(t, <<"start_running", "start_execute", "start_return">>)
    /\ UNCHANGED <<jobs, anchored, requeues, active, starting, exec, history>>

\* The pane is occupied, the job has changed, or the claim is refused.
PreclaimBlocked(t) ==
    /\ At(t, "preclaim")
    /\ Then(t, << >>)
    /\ UNCHANGED <<durable, memory, history>>

StartRunning(t) ==
    /\ At(t, "start_running")
    /\ jobs' = [jobs EXCEPT ![thread[t].job] = [thread[t].seen EXCEPT !.status = "running"]]
    /\ started' = started \cup {thread[t].job}
    /\ thread' = [thread EXCEPT ![t] =
                    [@ EXCEPT !.todo = rest(t), !.seen = NoJob]]
    /\ UNCHANGED <<box, anchored, requeues, memory, limits, acked, cancels, recovers, crashes>>

\* The slot is taken and the provider is asked to start; with no actionable
\* runtime binding there is no submission.
StartExecute(t) ==
    /\ At(t, "start_execute")
    /\ active' = thread[t].job
    /\ starting' = starting \cup {thread[t].job}
    /\ Then(t, << >>)
    /\ UNCHANGED <<durable, queued, exec, history>>

\* The provider took the prompt and the start was not revoked meanwhile ...
StartSubmitted(t) ==
    /\ At(t, "start_return") /\ thread[t].job \in starting
    /\ exec' = exec \cup {thread[t].job}
    /\ starting' = starting \ {thread[t].job}
    /\ Then(t, << >>)
    /\ UNCHANGED <<durable, queued, active, history>>

\* ... or it raised, answered in error or passive mode, was revoked or was
\* not asked: the job ends before delivery.
StartFailed(t) ==
    /\ At(t, "start_return")
    /\ starting' = starting \ {thread[t].job}
    /\ Complete_(t, thread[t].job, NoDecision)
    /\ UNCHANGED <<durable, queued, active, exec, history>>
-----------------------------------------------------------------------------
(* The end of a delivery: complete_job, resolve_reply_delivery_terminal.   *)

\* The snapshot sees the prompt in a turn.
PollAnchor(j) ==
    /\ Free("maintenance") /\ j \in exec \ anchored /\ ~is_terminal(j)
    /\ anchored' = anchored \cup {j}
    /\ UNCHANGED <<box, jobs, requeues, memory, thread, history>>

\* The provider decides, with or without evidence of a turn of its own.
\* _reply_delivery_turn_end_outcome has made an empty turn a completed one.
PollDecision(j, decision) ==
    /\ Free("maintenance") /\ j \in exec /\ ~is_terminal(j)
    /\ thread' = [thread EXCEPT !["maintenance"] =
            [Idle EXCEPT !.todo = <<"complete">>, !.job = j, !.decision = decision]]
    /\ UNCHANGED <<durable, memory, history>>

\* An update for a job that has ended only clears the execution.
PollStale(j) ==
    /\ Free("maintenance") /\ j \in exec /\ is_terminal(j)
    /\ exec' = exec \ {j}
    /\ UNCHANGED <<durable, queued, active, starting, thread, history>>

\* Mutant: the anchor the snapshot saw is not merged into the decision.
merge_terminal_decision_unmerged(j, decision) == decision

\* An anchor seen by the snapshot counts for the decision.
merge_terminal_decision(j, decision) ==
    [decision EXCEPT !.reached = @ \/ j \in anchored]

Complete(t) ==
    /\ At(t, "complete")
    /\ LET j == thread[t].job
           decision == merge_terminal_decision(j, thread[t].decision)
       IN IF is_terminal(j)
          THEN Then(t, << >>) /\ UNCHANGED <<jobs, active, box>>
          ELSE /\ jobs' = [jobs EXCEPT ![j].status = decision.status,
                                       ![j].reached = decision.reached]
               /\ active' = IF active = j THEN 0 ELSE active
               /\ box' = rebuild_mailbox_summary(box)
               /\ thread' = [thread EXCEPT ![t] =
                    [@ EXCEPT !.event = jobs[j].event, !.decision = NoDecision,
                              !.todo = <<"finish", "resolve", "repair", "prepare">> \o rest(t)]]
    /\ UNCHANGED <<anchored, requeues, queued, starting, exec, history>>

Finish(t) ==
    /\ At(t, "finish")
    /\ exec' = exec \ {thread[t].job} /\ starting' = starting \ {thread[t].job}
    /\ Then(t, << >>)
    /\ UNCHANGED <<durable, queued, active, history>>

\* Mutant: one requeue too many.
budget_spent_off_by_one(e) == requeues[e] > MaxRequeues

budget_spent(e) == requeues[e] >= MaxRequeues

\* Mutant: a transport failure ends the delivery.
terminal_disposition_never_requeues(j) == "consumed"

terminal_disposition(j) ==
    IF jobs[j].status \in {"completed", "cancelled"} \/ jobs[j].reached
    THEN "consumed"
    ELSE IF budget_spent(jobs[j].event) THEN "abandoned" ELSE "requeued"

Resolve(t) ==
    /\ At(t, "resolve")
    /\ LET e == jobs[thread[t].job].event
       IN IF terminal_disposition(thread[t].job) = "requeued"
          THEN /\ RewriteRecord(e, 0)
               /\ thread' = [thread EXCEPT ![t] =
                    [@ EXCEPT !.event = e,
                              !.todo = <<"release", "requeued">> \o rest(t)]]
          ELSE /\ box' = mark_terminal(box, e, "consumed")
               /\ Then(t, << >>)
    /\ UNCHANGED <<jobs, anchored, requeues, memory, history>>

\* The event by which requeues are counted.
Requeued(t) ==
    /\ At(t, "requeued")
    /\ requeues' = [requeues EXCEPT ![thread[t].event] = @ + 1]
    /\ Then(t, << >>)
    /\ UNCHANGED <<box, jobs, anchored, memory, history>>
-----------------------------------------------------------------------------
(* Handlers of the control socket: cancel, ack, comms_recover.             *)

CancelLoad(j) ==
    /\ Free("socket") /\ cancels < limits.cancels /\ ~is_terminal(j)
    /\ cancels' = cancels + 1
    /\ Begin("socket", <<"cancel_mark", "cancel_decide">>, j, 0)
    /\ UNCHANGED <<durable, memory, limits, started, acked, recovers, crashes>>

\* The loaded record is written back, and the execution is told to stop.
CancelMark ==
    /\ At("socket", "cancel_mark")
    /\ LET j == thread["socket"].job
       IN /\ jobs' = [jobs EXCEPT ![j] = thread["socket"].seen]
          /\ exec' = exec \ {j} /\ starting' = starting \ {j}
    /\ Then("socket", << >>)
    /\ UNCHANGED <<box, anchored, requeues, queued, active, history>>

CancelDecide ==
    /\ At("socket", "cancel_decide")
    /\ LET j == thread["socket"].job
       IN IF is_terminal(j)
          THEN /\ Leave("socket")
               /\ UNCHANGED <<jobs, queued, active, box>>
          ELSE /\ jobs' = [jobs EXCEPT ![j].status = "cancelled"]
               /\ queued' = queued \ {j}
               /\ active' = IF active = j THEN 0 ELSE active
               /\ box' = rebuild_mailbox_summary(box)
               /\ Then("socket", <<"resolve">>)
    /\ UNCHANGED <<anchored, requeues, starting, exec, history>>

\* Mutant: a reply whose delivery is scheduled may be acknowledged as well.
may_ack_scheduled(e) == TRUE

\* _validate_reply_head.
may_ack(e) == box.inbox[e].ref = 0

AckCheck ==
    /\ Free("socket") /\ head_reply_event # 0 /\ may_ack(head_reply_event)
    /\ Begin("socket", <<"ack">>, 0, head_reply_event)
    /\ UNCHANGED <<durable, memory, history>>

Ack ==
    /\ At("socket", "ack")
    /\ box' = ack_reply(box, thread["socket"].event)
    /\ acked' = acked \cup {thread["socket"].event}
    /\ Leave("socket")
    /\ UNCHANGED <<jobs, anchored, requeues, memory, limits, started,
                   cancels, recovers, crashes>>

\* Mutant: only a completed delivery stands against a recovery.
already_retried_completed(e, j) ==
    box.inbox[e].ref \notin {0, j} /\ jobs[box.inbox[e].ref].status = "completed"

\* A later job delivers the event.
already_retried(e, j) ==
    /\ box.inbox[e].ref \notin {0, j}
    /\ jobs[box.inbox[e].ref].status \in {"queued", "running", "completed"}

\* comms_recover of a failed delivery: its event goes back to the queue,
\* unless it is consumed or a later job delivers it; then prepare and tick.
\* The second prepare, for when the first made no job, is left out.
Recover(j) ==
    /\ Free("socket") /\ recovers < limits.recovers
    /\ jobs[j].status \in Ended \ {"completed"}
    /\ recovers' = recovers + 1
    /\ Begin("socket", <<"recover">>, j, jobs[j].event)
    /\ UNCHANGED <<durable, memory, limits, started, acked, cancels, crashes>>

RecoverRewrite ==
    /\ At("socket", "recover")
    /\ LET e == thread["socket"].event
       IN IF box.inbox[e].status = "consumed" \/ already_retried(e, thread["socket"].job)
          THEN Leave("socket") /\ UNCHANGED box
          ELSE /\ RewriteRecord(e, 0)
               /\ Then("socket", <<"release", "repair", "prepare", "start">>)
    /\ UNCHANGED <<jobs, anchored, requeues, memory, history>>
-----------------------------------------------------------------------------
(* The lease sweep, crash and restart.                                     *)

\* A lease past its deadline while the agent runs no job: expired ...
SweepLease ==
    /\ Free("maintenance") /\ holds_lease(box)
    /\ ~(active # 0 /\ jobs[active].status = "running")
    /\ IF is_pending(box, box.lease.event)
       THEN /\ box' = [box EXCEPT !.lease.state = "expired"]
            /\ Begin("maintenance", <<"sweep">>, 0, box.lease.event)
       ELSE box' = expire_lease(box) /\ UNCHANGED thread
    /\ UNCHANGED <<jobs, anchored, requeues, memory, history>>

\* ... and its event abandoned.
SweepEvent ==
    /\ At("maintenance", "sweep")
    /\ box' = mark_terminal(box, thread["maintenance"].event, "abandoned")
    /\ Leave("maintenance")
    /\ UNCHANGED <<jobs, anchored, requeues, memory, history>>

Crash ==
    /\ crashes < limits.crashes
    /\ crashes' = crashes + 1
    /\ LET running == {j \in DOMAIN jobs : jobs[j].status = "running"}
           last == IF running = {} THEN 0
                   ELSE CHOOSE j \in running : \A k \in running : k <= j
       IN /\ active' = last
          /\ thread' = [thread EXCEPT
                !["socket"] = Idle,
                !["maintenance"] = IF last = 0 THEN Idle
                    ELSE [Idle EXCEPT !.todo = <<"restore">>, !.job = last]]
    /\ queued' = {j \in DOMAIN jobs : jobs[j].status = "queued"}
    /\ exec' = {} /\ starting' = {}
    /\ UNCHANGED <<durable, limits, started, acked, cancels, recovers>>

\* A delivery does not resume.
Restore ==
    /\ At("maintenance", "restore")
    /\ Complete_("maintenance", thread["maintenance"].job, NoDecision)
    /\ UNCHANGED <<durable, memory, history>>
-----------------------------------------------------------------------------
Step(t) ==
    \/ Repair(t) \/ Prepare(t) \/ Enqueue(t) \/ Rewrite(t) \/ Release(t)
    \/ Start(t) \/ PreclaimAllowed(t) \/ PreclaimBlocked(t)
    \/ StartRunning(t) \/ StartExecute(t) \/ StartSubmitted(t) \/ StartFailed(t)
    \/ Complete(t) \/ Finish(t) \/ Resolve(t) \/ Requeued(t)

Poll(j) ==
    \/ PollStale(j)
    \/ \E decision \in Decisions : PollDecision(j, decision)

Handler ==
    \/ AckCheck
    \/ \E j \in DOMAIN jobs : CancelLoad(j) \/ Recover(j)

HandlerStep == CancelMark \/ CancelDecide \/ Ack \/ RecoverRewrite

Next ==
    \/ Arrive \/ Tick \/ Handler \/ HandlerStep
    \/ \E t \in Threads : Step(t)
    \/ \E j \in exec : PollAnchor(j) \/ Poll(j)
    \/ SweepLease \/ SweepEvent \/ Crash \/ Restore

Spec == Init /\ [][Next]_vars
(* The stages of the heartbeat take turns, so neither the tick nor the     *)
(* poll is passed over for ever; an operation runs to its end, a provider  *)
(* that took a prompt ends its turn and a pane is not occupied for ever.   *)
FairSpec ==
    /\ Spec
    /\ SF_vars(Tick) /\ SF_vars(\E j \in exec : Poll(j))
    /\ \A t \in Threads : WF_vars(Step(t)) /\ SF_vars(PreclaimAllowed(t))
    /\ WF_vars(HandlerStep) /\ WF_vars(SweepEvent) /\ WF_vars(Restore)
-----------------------------------------------------------------------------
AllIdle == \A t \in Threads : IsIdle(t)

deliveries(e) == {j \in DOMAIN jobs : jobs[j].event = e}

(* A delivery that runs is alone, it is the job the head reply names, and  *)
(* its event is in delivery: neither a repair nor a recovery nor a restart *)
(* takes the head from under it (claims.py, repair.py).  Only the cancel   *)
(* of a job that a crash left behind does: resolve_reply_delivery_terminal *)
(* does not ask which job the event names.                                 *)
RunningDeliversHead ==
    \A j \in DOMAIN jobs :
      jobs[j].status = "running" /\ (crashes = 0 \/ cancels = 0) =>
        /\ \A k \in DOMAIN jobs : jobs[k].status = "running" => k = j
        /\ head_reply_event = jobs[j].event
        /\ delivery_job = j
        /\ box.inbox[jobs[j].event].status = "delivering"

(* The transport budget bounds the jobs made for a reply: one, and one for *)
(* each counted requeue, and at most one more for each crash, which may    *)
(* lose a count or a half-built job (terminal.py, preparation_message.py). *)
DeliveryBudget ==
    \A e \in 1 .. MaxReplies :
        Cardinality(deliveries(e)) <= MaxRequeues + 1 + crashes

(* Between operations, a queued delivery job is the one its pending event  *)
(* names, except for one job per crash: no job is left behind in the queue *)
(* (build_reply_delivery_job, cancel_with_decision, ack).                  *)
OrphansOnlyByCrash ==
    AllIdle =>
        Cardinality({j \in DOMAIN jobs :
            /\ jobs[j].status = "queued"
            /\ ~(is_pending(box, jobs[j].event) /\ box.inbox[jobs[j].event].ref = j)})
        <= crashes

(* A reply is consumed for a reason: a delivery of it completed, was       *)
(* cancelled or failed in the provider's turn, its transport budget was    *)
(* spent, or it was acknowledged by hand.  Replies are only abandoned by   *)
(* the sweep, after a crash (terminal.py, lease_expiry.py).                *)
ConsumedForAReason ==
    \A e \in events(box) :
        /\ box.inbox[e].status = "consumed" =>
            \/ e \in acked
            \/ \E j \in deliveries(e) :
                \/ jobs[j].status \in {"completed", "cancelled"}
                \/ is_terminal(j) /\ jobs[j].reached
                \/ is_terminal(j) /\ requeues[e] = MaxRequeues
        /\ box.inbox[e].status = "abandoned" => crashes > 0

(* As long as the daemon is not stopped, a delivery that was cancelled, or *)
(* whose prompt entered a provider turn, is the last one of its reply      *)
(* (_terminal_disposition).                                                *)
EndsOnce ==
    crashes = 0 =>
        \A i, k \in DOMAIN jobs :
            jobs[i].event = jobs[k].event /\ i < k =>
                /\ jobs[i].status = "failed"
                /\ ~jobs[i].reached /\ i \notin anchored

(* Every reply leaves the mailbox in the end, delivered or given up, over  *)
(* crashes, cancellations and recoveries.                                  *)
EveryReplyLeaves ==
    \A e \in 1 .. MaxReplies :
        e \in pending_events(box) ~> e \notin pending_events(box)
=============================================================================
