------------------------------ MODULE Callbacks ------------------------------
(***************************************************************************)
(* Result chains (ask --chain): a running job delegates to another agent   *)
(* and ends without a reply of its own; when the child has ended, a        *)
(* continuation job on the parent's message carries the child's result     *)
(* back to the parent's agent, and the reply of the continuation answers   *)
(* the original caller.  callbacks.py and callback_edges.py, with the      *)
(* parts of submission, completion, cancellation and retry that call them. *)
(*                                                                         *)
(* Durable: jobs (JobStore, with the attempt and the request event of each *)
(* job: message is 0 before the attempt is written, event FALSE before the *)
(* event is), edges (CallbackEdgeStore, latest records), replies.  The     *)
(* queue and the active jobs are what a restart reads from the job store   *)
(* (Dispatcher shows that they agree with it).                             *)
(* In memory: work, the handler that holds _chain_transition_lock.  Every  *)
(* handler of this module runs under that lock, so no two of them mix; a   *)
(* crash can end one between any two of its writes, each of which is a     *)
(* step.  Starting a queued job takes no lock and mixes with all of them.  *)
(*                                                                         *)
(* Left out: message states, texts, artifacts, the restricted targets and  *)
(* the workspace binding of workflow jobs, independent (--silence) asks,   *)
(* retries a user asks for, and the silent cancellation of recovery.       *)
(***************************************************************************)
EXTENDS Naturals, Sequences, FiniteSets, FiniteSetsExt

CONSTANTS Agents,        \* the configured agents
          Entry,         \* the agents the user asks
          User,          \* the actor outside the project
          MaxDepth,      \* max_callback_depth (5 by default)
          MaxAttempts,   \* retry_policy max_attempts (3 in the code)
          Limits,        \* the bounds a behaviour may run under
          MaxJobs, MaxEdges    \* bounds on the jobs and edges (for fairness)

ASSUME CallbacksAssumption ==
    /\ IsFiniteSet(Agents) /\ Entry \subseteq Agents /\ User \notin Agents
    /\ MaxDepth \in Nat \ {0} /\ MaxAttempts \in Nat \ {0}
    /\ MaxJobs \in Nat /\ MaxEdges \in Nat
    /\ Limits \subseteq [asks : Nat, chains : Nat, cancels : Nat, crashes : Nat, retries : Nat]

VARIABLES jobs, edges, replies, work,
          limits,    \* rigid: the bounds of this behaviour
          messages, asks, cancels, crashes, retries,
          lost       \* history: a crash has hit where nothing repairs

durable == <<jobs, edges, replies, messages>>
bounds == <<limits, asks, cancels, crashes, retries>>
vars == <<jobs, edges, replies, work, limits, messages,
          asks, cancels, crashes, retries, lost>>

Ended == {"completed", "failed", "cancelled"}
Closed == {"done", "failed"}

\* Mutant: a failed edge may still be continued.
TERMINAL_CALLBACK_STATES_but_failed == {"continuation_submitted", "done"}

\* _TERMINAL_CALLBACK_STATES: no continuation is submitted any more.
TERMINAL_CALLBACK_STATES == {"continuation_submitted"} \cup Closed
EdgeStates == {"pending", "child_completed"} \cup TERMINAL_CALLBACK_STATES

\* chain_edge: the edge a continuation job continues, 0 for other jobs;
\* retried: the job is an automatic retry.
Job == [agent : Agents, from_actor : Agents \cup {User},
        status : {"queued", "running"} \cup Ended,
        message : Nat, event : BOOLEAN, retry_index : Nat,
        chain_edge : Nat, retried : BOOLEAN]
Edge == [parent_job : Nat, parent_message : Nat, child_job : Nat, child_message : Nat,
         original_caller : Agents \cup {User}, state : EdgeStates,
         child_reply : Nat, continuation_job : Nat]
Reply == [job : Nat, message : Nat, notice : BOOLEAN, delivered : BOOLEAN]

Labels == {"idle", "attempt", "event", "register", "result", "retry", "cancel_edge",
           "reply", "continue", "cont_job", "cont_edge", "notice", "done", "prior"}

\* pc: the next step; job: the job that ended (submission: the parent);
\* edge: the edge continued; new: the job being enqueued, for message;
\* retryable, notice: what the decision says; then, after: where to go on
\* when the new job is recorded, and when the continuation is submitted.
Work == [pc : Labels, job : Nat, edge : Nat, new : Nat, message : Nat, reply : Nat,
         retryable : BOOLEAN, notice : BOOLEAN, then : Labels, after : Labels]
Idle == [pc |-> "idle", job |-> 0, edge |-> 0, new |-> 0, message |-> 0, reply |-> 0,
         retryable |-> FALSE, notice |-> FALSE, then |-> "idle", after |-> "idle"]

TypeOK ==
    /\ jobs \in Seq(Job) /\ edges \in Seq(Edge) /\ replies \in Seq(Reply)
    /\ \A e \in DOMAIN edges :
        /\ {edges[e].parent_job, edges[e].child_job} \subseteq DOMAIN jobs
        /\ edges[e].child_reply \in {0} \cup DOMAIN replies
        /\ edges[e].continuation_job \in {0} \cup DOMAIN jobs
    /\ \A j \in DOMAIN jobs : jobs[j].retry_index < MaxAttempts + limits.chains
    /\ work \in Work
    /\ limits \in Limits /\ messages \in Nat
    /\ asks \in 0 .. limits.asks /\ cancels \in 0 .. limits.cancels
    /\ crashes \in 0 .. limits.crashes /\ retries \in 0 .. limits.retries
    /\ lost \in BOOLEAN

Init ==
    /\ jobs = << >> /\ edges = << >> /\ replies = << >> /\ work = Idle
    /\ limits \in Limits
    /\ messages = 0 /\ asks = 0 /\ cancels = 0 /\ crashes = 0 /\ retries = 0 /\ lost = FALSE
-----------------------------------------------------------------------------
(* Reads.                                                                  *)

Goto(pc) == work' = IF pc = "idle" THEN Idle ELSE [work EXCEPT !.pc = pc]
At(pc) == work.pc = pc

\* The first of the edges in E, 0 if there is none.
First(E) == IF E = {} THEN 0 ELSE Min(E)

active_job(a) == First({j \in DOMAIN jobs : jobs[j].agent = a /\ jobs[j].status = "running"})

callback_edge_for_child_message(m) ==
    First({e \in DOMAIN edges : m # 0 /\ edges[e].child_message = m})

\* The edge out of job j.
delegated_parent_edge(j) == First({e \in DOMAIN edges : edges[e].parent_job = j})

\* Mutant: a retry of the child is not recognised by its message.
callback_child_edge_by_job(j) == First({e \in DOMAIN edges : edges[e].child_job = j})

\* The edge into job j: by the job, or by its message.
callback_child_edge(j) ==
    LET e == First({e \in DOMAIN edges : edges[e].child_job = j})
    IN IF e # 0 THEN e ELSE callback_edge_for_child_message(jobs[j].message)

\* The edges from the message m up to its root.
callback_chain_for_parent(m) ==
    LET up[k \in 0 .. messages] ==
            LET e == callback_edge_for_child_message(k)
            IN IF e = 0 THEN {} ELSE {e} \cup up[edges[e].parent_message]
    IN up[m]

\* Mutant: the store is not searched for a continuation.
existing_continuation_none(e) == 0

\* The last job in the store that continues edge e, 0 if there is none.
existing_continuation(e) ==
    LET J == {j \in DOMAIN jobs : jobs[j].chain_edge = e}
    IN IF J = {} THEN 0 ELSE Max(J)

\* The reply the edge names, or the last of the child's that is no notice.
latest_child_reply(e) ==
    LET R == {r \in DOMAIN replies :
                replies[r].message = edges[e].child_message /\ ~replies[r].notice}
    IN IF edges[e].child_reply # 0 THEN edges[e].child_reply
       ELSE IF R = {} THEN 0 ELSE Max(R)

job_is_outstanding(j) == jobs[j].status \in {"queued", "running"}

\* A queued job whose attempt or event was not recorded before a crash.
attempt_missing(j) == j # 0 /\ jobs[j].status = "queued" /\ ~jobs[j].event

pending_edge_waits_on_child(e) ==
    edges[e].state = "pending" /\ job_is_outstanding(edges[e].child_job)

\* Mutant: only the edges whose child is known to have ended are repaired.
repair_candidate_but_pending(e) ==
    /\ edges[e].state = "child_completed"
    /\ edges[e].continuation_job = 0

\* An edge that repair_callback_edges continues: its child has a result, or
\* its continuation is in the store and the edge does not name it.
repair_candidate(e) ==
    /\ edges[e].state \in {"pending", "child_completed"}
    /\ edges[e].continuation_job = 0
    /\ ~pending_edge_waits_on_child(e)
    /\ \/ existing_continuation(e) # 0
       \/ /\ latest_child_reply(e) # 0
          /\ jobs[replies[latest_child_reply(e)].job].status \in Ended

\* Mutant: the jobs of all messages are counted.
next_retry_index_of_all(m) == Len(jobs)

next_retry_index(m) ==
    LET R == {jobs[j].retry_index : j \in {k \in DOMAIN jobs : jobs[k].message = m}}
    IN IF R = {} THEN 0 ELSE Max(R) + 1
-----------------------------------------------------------------------------
(* Submission: submit_jobs, record_submission, register_callback_edge.     *)

NewJob(a, from, edge, retried) ==
    [agent |-> a, from_actor |-> from, status |-> "queued", message |-> 0,
     event |-> FALSE, retry_index |-> 0, chain_edge |-> edge, retried |-> retried]

\* A user's request: an ordinary submission.
Submit(a) ==
    /\ At("idle") /\ asks < limits.asks
    /\ jobs' = Append(jobs, NewJob(a, User, 0, FALSE))
    /\ asks' = asks + 1 /\ messages' = messages + 1
    /\ work' = [Idle EXCEPT !.pc = "attempt", !.new = Len(jobs) + 1,
                            !.message = messages + 1]
    /\ UNCHANGED <<edges, replies, limits, cancels, crashes, retries, lost>>

\* What ask --chain requires of the running job p and of the target.
validate_callback_request(p, target) ==
    /\ p # 0
    /\ delegated_parent_edge(p) = 0
    /\ jobs[p].chain_edge # 0 =>
        target # edges[jobs[p].chain_edge].original_caller
    /\ LET chain == callback_chain_for_parent(jobs[p].message)
           actors == {jobs[edges[e].parent_job].agent : e \in chain}
                     \cup {jobs[edges[e].child_job].agent : e \in chain}
       IN Cardinality(chain) + 1 <= MaxDepth /\ target \notin actors \cup {jobs[p].agent}

SubmitChain(a, target) ==
    /\ At("idle") /\ Len(edges) < limits.chains
    /\ validate_callback_request(active_job(a), target)
    /\ jobs' = Append(jobs, NewJob(target, a, 0, FALSE))
    /\ messages' = messages + 1
    /\ work' = [Idle EXCEPT !.pc = "attempt", !.job = active_job(a),
                            !.new = Len(jobs) + 1, !.message = messages + 1,
                            !.then = "register"]
    /\ UNCHANGED <<edges, replies, bounds, lost>>

\* The attempt and then the event of the new job: record_submission and
\* record_retry_attempt.  An attempt that is there already is kept.
RecordAttempt ==
    /\ At("attempt")
    /\ jobs' = IF jobs[work.new].message # 0 THEN jobs
               ELSE [jobs EXCEPT ![work.new].message = work.message,
                                 ![work.new].retry_index = next_retry_index(work.message)]
    /\ Goto("event")
    /\ UNCHANGED <<edges, replies, messages, bounds, lost>>

RecordEvent ==
    /\ At("event")
    /\ jobs' = [jobs EXCEPT ![work.new].event = TRUE]
    /\ Goto(work.then)
    /\ UNCHANGED <<edges, replies, messages, bounds, lost>>

\* The request is validated again: the parent must still be active.
RegisterEdge ==
    /\ At("register")
    /\ edges' = Append(edges,
            [parent_job |-> work.job, parent_message |-> jobs[work.job].message,
             child_job |-> work.new, child_message |-> work.message,
             original_caller |-> jobs[work.job].from_actor, state |-> "pending",
             child_reply |-> 0, continuation_job |-> 0])
    /\ Goto("idle")
    /\ UNCHANGED <<jobs, replies, messages, bounds, lost>>
-----------------------------------------------------------------------------
(* The start of the first request in an agent's mailbox.  A tick repairs   *)
(* the edges before it starts a job; it does not wait for a handler that   *)
(* takes the lock after its repair, and continues an edge meanwhile.       *)

owns_mailbox_head(j) ==
    /\ jobs[j].status = "queued" /\ jobs[j].event
    /\ active_job(jobs[j].agent) = 0
    /\ \A e \in DOMAIN edges \ {work.edge} : ~repair_candidate(e)
    /\ \A k \in 1 .. j - 1 :
        jobs[k].agent = jobs[j].agent /\ jobs[k].event => jobs[k].status \in Ended

Start(j) ==
    /\ owns_mailbox_head(j)
    /\ jobs' = [jobs EXCEPT ![j].status = "running"]
    /\ UNCHANGED <<edges, replies, work, messages, bounds, lost>>
-----------------------------------------------------------------------------
(* The end of a job: complete_job and cancel_with_decision.                *)

EndJob(j, status, retryable) ==
    /\ jobs' = [jobs EXCEPT ![j].status = status]
    /\ work' = [Idle EXCEPT !.pc = "result", !.job = j, !.retryable = retryable,
                            !.after = "done"]
    /\ UNCHANGED <<edges, replies, messages, limits, asks, cancels, crashes, lost>>

\* The terminal record of the running job; "completed" stands for every end
\* that is not retried.  _fail_unstartable_job ends the head of the queue.
Complete(j) ==
    /\ At("idle") /\ (jobs[j].status = "running" \/ owns_mailbox_head(j))
    /\ EndJob(j, "completed", FALSE)
    /\ UNCHANGED retries

\* A failure the retry policy calls retryable.
CompleteRetryable(j) ==
    /\ At("idle") /\ jobs[j].status = "running" /\ retries < limits.retries
    /\ retries' = retries + 1
    /\ EndJob(j, "failed", TRUE)

\* notice: the cancelled turn has left no output.
Cancel(j, notice) ==
    /\ At("idle") /\ job_is_outstanding(j) /\ cancels < limits.cancels
    /\ jobs' = [jobs EXCEPT ![j].status = "cancelled"]
    /\ cancels' = cancels + 1
    /\ work' = [Idle EXCEPT !.pc = "cancel_edge", !.job = j, !.notice = notice,
                            !.after = "done"]
    /\ UNCHANGED <<edges, replies, limits, messages, asks, crashes, retries, lost>>

\* Mutant: a job that has delegated answers for itself.
delegated_ignored(j) == FALSE

\* The job waits for its child, or for the continuation: it gives no reply.
delegated(j) ==
    /\ delegated_parent_edge(j) # 0
    /\ edges[delegated_parent_edge(j)].state \notin Closed

retry_planned(j) == work.retryable /\ jobs[j].retry_index + 1 < MaxAttempts

\* record_message_bureau_completion: delegated, retried, or answered.
Result ==
    /\ At("result")
    /\ Goto(CASE delegated(work.job) -> "idle"
              [] ~delegated(work.job) /\ retry_planned(work.job) -> "retry"
              [] OTHER -> "reply")
    /\ UNCHANGED <<durable, bounds, lost>>

\* retry_attempt: the same request again, on the same message.
RetryJob ==
    /\ At("retry")
    /\ LET j == jobs[work.job]
       IN /\ jobs' = Append(jobs, NewJob(j.agent, j.from_actor, j.chain_edge, TRUE))
          /\ work' = [work EXCEPT !.pc = "attempt", !.new = Len(jobs) + 1,
                                  !.message = j.message, !.then = "idle"]
    /\ UNCHANGED <<edges, replies, messages, bounds, lost>>

terminalizes(e) == edges[e].state \notin TERMINAL_CALLBACK_STATES

\* terminalize_cancelled_parent_edge, then the reply.
CancelEdge ==
    /\ At("cancel_edge")
    /\ LET e == delegated_parent_edge(work.job)
       IN edges' = IF e # 0 /\ terminalizes(e)
                   THEN [edges EXCEPT ![e].state = "failed"] ELSE edges
    /\ Goto("reply")
    /\ UNCHANGED <<jobs, replies, messages, bounds, lost>>

\* record_reply: delivered to the caller, except for a chain child.  A job
\* without an attempt has no reply.
RecordReply ==
    /\ At("reply")
    /\ LET e == callback_child_edge(work.job)
           recorded == jobs[work.job].message # 0
       IN /\ replies' = IF ~recorded THEN replies
                        ELSE Append(replies,
                                [job |-> work.job, message |-> jobs[work.job].message,
                                 notice |-> work.notice, delivered |-> e = 0])
          /\ work' = [work EXCEPT !.pc = IF e = 0 THEN "done" ELSE "continue",
                                  !.edge = e,
                                  !.reply = IF recorded THEN Len(replies) + 1 ELSE 0]
    /\ UNCHANGED <<jobs, edges, messages, bounds, lost>>

\* mark_callback_done, for the end of a continuation ...
MarkDone ==
    /\ At("done")
    /\ LET e == jobs[work.job].chain_edge
           open == e # 0 /\ edges[e].state \notin Closed
       IN /\ edges' = IF open THEN [edges EXCEPT ![e].state = "done"] ELSE edges
          /\ work' = IF open THEN [work EXCEPT !.pc = "prior", !.edge = e] ELSE Idle
    /\ UNCHANGED <<jobs, replies, messages, bounds, lost>>

\* ... and, one by one, of the earlier continuations of the same message.
MarkPrior ==
    /\ At("prior")
    /\ LET E == {e \in DOMAIN edges \ {work.edge} :
                    /\ edges[e].parent_message = edges[work.edge].parent_message
                    /\ edges[e].state = "continuation_submitted"}
       IN IF E = {} THEN Goto("idle") /\ UNCHANGED edges
          ELSE edges' = [edges EXCEPT ![Min(E)].state = "done"] /\ UNCHANGED work
    /\ UNCHANGED <<jobs, replies, messages, bounds, lost>>
-----------------------------------------------------------------------------
(* submit_callback_continuation, at the end of the child or in a repair.   *)

\* An edge that is closed stays; a continuation that is in the store is
\* linked; else the child's result is recorded and the job submitted.
Continue ==
    /\ At("continue")
    /\ LET e == work.edge
           c == existing_continuation(e)
       IN \/ /\ edges[e].state \in TERMINAL_CALLBACK_STATES
             /\ Goto(work.after)
             /\ UNCHANGED edges
          \/ /\ edges[e].state \notin TERMINAL_CALLBACK_STATES /\ c = 0
             /\ edges' = [edges EXCEPT ![e].state = "child_completed",
                                       ![e].child_reply = work.reply]
             /\ Goto("cont_job")
          \/ /\ edges[e].state \notin TERMINAL_CALLBACK_STATES /\ c # 0
             /\ work' = [work EXCEPT !.pc = IF attempt_missing(c) THEN "attempt" ELSE "cont_edge",
                                     !.new = c, !.message = edges[e].parent_message,
                                     !.then = "cont_edge"]
             /\ UNCHANGED edges
    /\ UNCHANGED <<jobs, replies, messages, bounds, lost>>

\* Mutant: the attempt of the continuation is not recorded.
ContinuationJob_unrecorded ==
    /\ At("cont_job")
    /\ LET e == edges[work.edge]
       IN jobs' = Append(jobs, NewJob(jobs[e.parent_job].agent, e.original_caller,
                                      work.edge, FALSE))
    /\ work' = [work EXCEPT !.pc = "cont_edge", !.new = Len(jobs) + 1]
    /\ UNCHANGED <<edges, replies, messages, bounds, lost>>

\* _submit_continuation_job: the job, for the agent of the parent and on
\* behalf of the original caller.
ContinuationJob ==
    /\ At("cont_job")
    /\ LET e == edges[work.edge]
       IN /\ jobs' = Append(jobs, NewJob(jobs[e.parent_job].agent, e.original_caller,
                                         work.edge, FALSE))
          /\ work' = [work EXCEPT !.pc = "attempt", !.new = Len(jobs) + 1,
                                  !.message = e.parent_message, !.then = "cont_edge"]
    /\ UNCHANGED <<edges, replies, messages, bounds, lost>>

\* The target is not available: fail_callback_edge, then a notice to the
\* original caller.
ContinuationFails ==
    /\ At("cont_job")
    /\ edges' = [edges EXCEPT ![work.edge].state = "failed"]
    /\ Goto("notice")
    /\ UNCHANGED <<jobs, replies, messages, bounds, lost>>

FailureNotice ==
    /\ At("notice")
    /\ LET p == edges[work.edge].parent_job
       IN replies' = Append(replies, [job |-> p, message |-> jobs[p].message,
                                      notice |-> TRUE, delivered |-> TRUE])
    /\ Goto(work.after)
    /\ UNCHANGED <<jobs, edges, messages, bounds, lost>>

\* The edge names its continuation.  One that has ended before it was linked
\* closes the edge when the child ends, and not in a repair.
LinkContinuation ==
    /\ At("cont_edge")
    /\ edges' = [edges EXCEPT ![work.edge].state =
                    IF work.after = "done" /\ jobs[work.new].status \in Ended
                    THEN "done" ELSE "continuation_submitted",
                              ![work.edge].continuation_job = work.new,
                              ![work.edge].child_reply =
                    IF work.reply # 0 THEN work.reply ELSE @]
    /\ Goto(work.after)
    /\ UNCHANGED <<jobs, replies, messages, bounds, lost>>

\* repair_callback_edges, in every tick, for an edge whose continuation a
\* crash has prevented.  (It also records the attempt of a queued continuation
\* that is linked without one; ContinuationHasResult shows that none is.)
Repair(e) ==
    /\ At("idle") /\ repair_candidate(e)
    /\ work' = [Idle EXCEPT !.pc = "continue", !.edge = e, !.reply = latest_child_reply(e)]
    /\ UNCHANGED <<durable, bounds, lost>>
-----------------------------------------------------------------------------
(* Crash.                                                                  *)

\* The windows nothing repairs: a request, or a retry, that is not in the
\* mailbox yet; the end of a job before its reply, or with no more than a
\* notice for a reply; the end of a continuation before its edge is closed.
unrepaired ==
    \/ (At("attempt") \/ At("event")) /\ work.then # "cont_edge"
    \/ At("result") \/ At("retry") \/ At("cancel_edge") \/ At("reply")
    \/ At("continue") /\ work.notice
    \/ At("prior")
    \/ work.after = "done" /\ jobs[work.job].chain_edge # 0

Crash ==
    /\ crashes < limits.crashes
    /\ crashes' = crashes + 1
    /\ lost' = (lost \/ unrepaired)
    /\ work' = Idle
    /\ UNCHANGED <<durable, limits, asks, cancels, retries>>
-----------------------------------------------------------------------------
Step ==
    \/ RecordAttempt \/ RecordEvent \/ RegisterEdge
    \/ Result \/ RetryJob \/ CancelEdge \/ RecordReply \/ MarkDone \/ MarkPrior
    \/ Continue \/ ContinuationJob \/ ContinuationFails \/ FailureNotice
    \/ LinkContinuation

Next ==
    \/ \E a \in Entry : Submit(a)
    \/ \E a, b \in Agents : SubmitChain(a, b)
    \/ Step
    \/ \E j \in DOMAIN jobs : Start(j)
    \/ \E j \in DOMAIN jobs : Complete(j)
    \/ \E j \in DOMAIN jobs : CompleteRetryable(j)
    \/ \E j \in DOMAIN jobs, notice \in BOOLEAN : Cancel(j, notice)
    \/ \E e \in DOMAIN edges : Repair(e)
    \/ Crash

Spec == Init /\ [][Next]_vars

\* The heartbeat ticks, the mailbox head is started, a provider comes to an
\* end of its turn (or the job heartbeat ends it), and a handler that holds
\* the lock goes on.
FairSpec ==
    /\ Spec
    /\ WF_vars(Step)
    /\ \A j \in 1 .. MaxJobs : WF_vars(j \in DOMAIN jobs /\ Start(j))
    /\ \A j \in 1 .. MaxJobs : WF_vars(j \in DOMAIN jobs /\ Complete(j))
    /\ \A e \in 1 .. MaxEdges : WF_vars(e \in DOMAIN edges /\ Repair(e))
-----------------------------------------------------------------------------
(* Properties.                                                             *)

\* Whatever crashes between the continuation's writes and however often the
\* repair comes round, an edge gets one continuation (and its retries).
OneContinuation ==
    \A e \in DOMAIN edges :
        Cardinality({j \in DOMAIN jobs : jobs[j].chain_edge = e /\ ~jobs[j].retried}) <= 1

\* The caller of a message has at most one answer to it: the job that
\* delegated is silent, and its continuation answers.  A cancellation may add
\* one: the cancelled parent of a submitted continuation answers too.
AnsweredOnce ==
    \A m \in 1 .. messages :
        \/ Cardinality({r \in DOMAIN replies : /\ replies[r].message = m
                                             /\ replies[r].delivered
                                             /\ ~replies[r].notice}) <= 1
        \/ \E j \in DOMAIN jobs : jobs[j].message = m /\ jobs[j].status = "cancelled"

\* A chain child, retried or not, never replies to its caller's mailbox: its
\* result reaches the parent in the continuation only.
ChildReplyStaysInside ==
    \A e \in DOMAIN edges, r \in DOMAIN replies :
        replies[r].message = edges[e].child_message /\ ~replies[r].notice
            => ~replies[r].delivered

\* A continuation carries a recorded result of the child's message, and one
\* that its edge names is in the mailbox of the parent's agent, unless it was
\* cancelled after a crash had kept it out of the mailbox.
ContinuationHasResult ==
    \A e \in DOMAIN edges :
        /\ existing_continuation(e) # 0 =>
            /\ edges[e].child_reply # 0
            /\ replies[edges[e].child_reply].message = edges[e].child_message
        /\ edges[e].continuation_job # 0 =>
            \/ jobs[edges[e].continuation_job].event
            \/ jobs[edges[e].continuation_job].status = "cancelled"

\* An edge that has failed, because the parent was cancelled or the target is
\* gone, is not continued afterwards, whenever the child ends and whatever a
\* repair finds.
FailedIsNotContinued ==
    [][\A e \in DOMAIN edges :
        edges[e].state = "failed" /\ existing_continuation(e) = 0
            => existing_continuation(e)' = 0 /\ edges'[e].state = "failed"]_vars

Open(e) == e \in DOMAIN edges /\ edges[e].state \notin Closed

\* A continuation could not be submitted: its edge failed with the result of
\* the child in hand.
SubmitFailed ==
    \E e \in DOMAIN edges : edges[e].state = "failed" /\ edges[e].child_reply # 0

\* Every edge is closed, unless a crash has hit a window nothing repairs or a
\* continuation could not be submitted, which fails that edge only: the edges
\* above it, and the earlier ones of its message, stay as they are.
EdgeSettles ==
    \A e \in 1 .. MaxEdges : Open(e) ~> (~Open(e) \/ lost \/ SubmitFailed)

\* A pending edge does not stay pending: repair recovers or fails it.
PendingEdgeSettles ==
    \A e \in 1 .. MaxEdges :
        LET pending == e \in DOMAIN edges /\ edges[e].state = "pending"
        IN pending ~> ~pending
=============================================================================
