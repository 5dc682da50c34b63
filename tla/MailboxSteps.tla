---------------------------- MODULE MailboxSteps ----------------------------
(***************************************************************************)
(* The mailbox kernel at the grain of its file operations.  MailboxKernel  *)
(* runs every operation to its end; here each load, append, save and       *)
(* remove is a step, because that is what the daemon does: two threads use *)
(* the kernel on the same files and no lock covers its operations.         *)
(*                                                                         *)
(*   "socket"       ccbd-socket-worker: ack and cancel requests            *)
(*   "maintenance"  ccbd-maintenance-worker: the dispatcher's tick, the    *)
(*                  end of a job, reply deliveries and the lease sweep     *)
(*                                                                         *)
(* Crash ends the process between two file operations: what the threads    *)
(* had loaded is lost and the files stay as they are.  running is the      *)
(* event of the RUNNING job record of the job store.                       *)
(*                                                                         *)
(* The cached summary is left out: no decision about an event reads it.    *)
(***************************************************************************)
EXTENDS Naturals, Sequences, FiniteSets

CONSTANTS Limits,       \* the bounds a behaviour may be under
          MaxClaims     \* bound on the claims begun

ASSUME MailboxStepsAssumption ==
    /\ MaxClaims \in Nat
    /\ \A l \in Limits :
        /\ l.events \in Nat \ {0} /\ l.overlap \in Nat \ {0}
        /\ l.crashes \in Nat

VARIABLES inbox,     \* latest record of each event, in order of arrival
          lease,     \* the lease file
          running,   \* the event of the running job, 0 if none
          thread,    \* what each thread is doing and has loaded
          crashes, claims,
          limits

\* The bounds of this behaviour: on the events recorded, on the operations
\* in progress at once and on the crashes.
MaxEvents == limits.events
MaxOverlap == limits.overlap
MaxCrashes == limits.crashes

vars == <<inbox, lease, running, thread, crashes, claims, limits>>

Threads == {"socket", "maintenance"}
Terminal == {"consumed", "abandoned"}
Record == [type : {"task_request", "task_reply"},
           status : {"queued", "delivering"} \cup Terminal,
           scheduled : BOOLEAN]
NoRecord == [type |-> "task_request", status |-> "queued", scheduled |-> FALSE]

Labels == {"idle", "claim_load", "claim_lease", "claim_head", "claim_append",
           "claim_save", "start", "term_load", "term_append", "term_lease",
           "term_remove", "rewrite_load", "rewrite_append", "expire_load",
           "expire_remove", "expire_save"}

\* pc: the next file operation; e: the event; current: the record loaded;
\* goal: the terminal status to write; then: where the caller goes on, with
\* the event arg.
Local == [pc : Labels, e : 0 .. MaxEvents, current : Record,
          goal : Terminal, then : Labels, arg : 0 .. MaxEvents]
Idle == [pc |-> "idle", e |-> 0, current |-> NoRecord, goal |-> "consumed",
         then |-> "idle", arg |-> 0]

TypeOK ==
    /\ inbox \in Seq(Record) /\ Len(inbox) <= MaxEvents
    /\ lease \in [event : 0 .. MaxEvents, state : {"none", "acquired", "expired"}]
    /\ running \in 0 .. MaxEvents
    /\ thread \in [Threads -> Local]
    /\ crashes \in 0 .. MaxCrashes /\ claims \in 0 .. MaxClaims
    /\ limits \in Limits

Init ==
    /\ inbox = << >>
    /\ lease = [event |-> 0, state |-> "none"]
    /\ running = 0
    /\ thread = [t \in Threads |-> Idle]
    /\ crashes = 0 /\ claims = 0 /\ limits \in Limits

Pending == {e \in DOMAIN inbox : inbox[e].status \notin Terminal}

\* Mutant: any pending event passes for the head.
IsHead_any_pending(e) == e \in Pending
IsHead(e) == e \in Pending /\ \A f \in Pending : e <= f
Acquired == lease.state = "acquired"

At(t, pc) == thread[t].pc = pc
Goto(t, pc) == thread' = [thread EXCEPT ![t] = IF pc = "idle" THEN Idle
                                               ELSE [@ EXCEPT !.pc = pc]]
\* The operation ends and its caller goes on.
Return(t) ==
    thread' = [thread EXCEPT ![t] =
                IF thread[t].then = "idle" THEN Idle
                ELSE [thread[t] EXCEPT !.pc = thread[t].then, !.then = "idle"]]
Load(t, pc, e) ==
    thread' = [thread EXCEPT ![t].pc = pc, ![t].e = e, ![t].current = inbox[e]]

\* Thread t begins an operation on e at label pc.
Begin(t, pc, e, goal, then) ==
    /\ At(t, "idle")
    /\ Cardinality({u \in Threads : ~At(u, "idle")}) < MaxOverlap
    /\ thread' = [thread EXCEPT ![t] = [Idle EXCEPT !.pc = pc, !.e = e,
                                        !.goal = goal, !.then = then,
                                        !.arg = e]]

CountClaim == claims < MaxClaims /\ claims' = claims + 1
-----------------------------------------------------------------------------
(* What the callers of the kernel begin, by thread.                        *)

\* message_bureau appends a request or a reply.
RecordEvent(type) ==
    /\ Len(inbox) < MaxEvents
    /\ inbox' = Append(inbox, [type |-> type, status |-> "queued",
                               scheduled |-> FALSE])
    /\ UNCHANGED <<lease, running, thread, crashes, claims, limits>>

\* ack of the head reply: refused when its delivery has been scheduled.
BeginAck(e) ==
    /\ IsHead(e) /\ inbox[e].type = "task_reply" /\ ~inbox[e].scheduled
    /\ \/ /\ inbox[e].status = "delivering"
          /\ Begin("socket", "term_load", e, "consumed", "idle")
          /\ UNCHANGED claims
       \/ /\ inbox[e].status = "queued"
          /\ CountClaim
          /\ Begin("socket", "claim_load", e, "consumed", "term_load")
    /\ UNCHANGED <<inbox, lease, running, crashes, limits>>

\* cancel of the job of a request, queued or running.
BeginCancel(e) ==
    /\ e \in Pending /\ inbox[e].type = "task_request"
    /\ Begin("socket", "term_load", e,
             IF inbox[e].status = "queued" THEN "abandoned" ELSE "consumed",
             "idle")
    /\ running' = IF running = e THEN 0 ELSE running
    /\ UNCHANGED <<inbox, lease, crashes, claims, limits>>

\* The tick starts the job of the head: a request or a scheduled reply.
BeginStart(e) ==
    /\ running = 0
    /\ IsHead(e) /\ inbox[e].status = "queued"
    /\ inbox[e].type = "task_request" \/ inbox[e].scheduled
    /\ CountClaim
    /\ Begin("maintenance", "claim_load", e, "consumed", "start")
    /\ UNCHANGED <<inbox, lease, running, crashes, limits>>

\* The running job ends.
BeginComplete ==
    /\ running # 0
    /\ Begin("maintenance", "term_load", running, "consumed", "idle")
    /\ running' = 0
    /\ UNCHANGED <<inbox, lease, crashes, claims, limits>>

\* A delivery job is made for the head reply: its record is rewritten.
BeginPrepare(e) ==
    /\ IsHead(e) /\ inbox[e].type = "task_reply" /\ ~inbox[e].scheduled
    /\ Begin("maintenance", "rewrite_load", e, "consumed", "idle")
    /\ UNCHANGED <<inbox, lease, running, crashes, claims, limits>>

\* A delivery job that never started while an orphaned lease is held.
BeginRepairStall(e) ==
    /\ IsHead(e) /\ inbox[e].type = "task_reply" /\ inbox[e].scheduled
    /\ running = 0 /\ Acquired
    /\ \/ /\ lease.event = e
          /\ Begin("maintenance", "rewrite_load", e, "consumed", "idle")
       \/ /\ lease.event # e /\ inbox[lease.event].status \in Terminal
          /\ Begin("maintenance", "expire_load", e, "abandoned", "rewrite_load")
    /\ UNCHANGED <<inbox, lease, running, crashes, claims, limits>>

\* The sweep expires a lease whose time is over, unless a job is running.
BeginSweep ==
    /\ Acquired /\ running = 0
    /\ Begin("maintenance", "expire_load", lease.event, "abandoned", "idle")
    /\ UNCHANGED <<inbox, lease, running, crashes, claims, limits>>
-----------------------------------------------------------------------------
(* claim, one file operation at a time.                                    *)

\* claim returned nothing.  Only the start of a request goes on regardless.
AfterClaimFailed(t) ==
    IF thread[t].then = "start" /\ thread[t].current.type = "task_request"
    THEN "start" ELSE "idle"

ClaimLoad(t) ==
    /\ At(t, "claim_load")
    /\ Load(t, "claim_lease", thread[t].e)
    /\ UNCHANGED <<inbox, lease, running, crashes, claims, limits>>

ClaimLease(t) ==
    LET current == thread[t].current
        conflict == Acquired /\ lease.event # thread[t].e
    IN /\ At(t, "claim_lease")
       /\ \/ /\ current.status \in Terminal \/ conflict
             /\ Goto(t, AfterClaimFailed(t))
          \/ /\ current.status = "delivering" /\ ~conflict
             /\ Return(t)
          \/ /\ current.status = "queued" /\ ~conflict
             /\ Goto(t, "claim_head")
       /\ UNCHANGED <<inbox, lease, running, crashes, claims, limits>>

ClaimHead(t) ==
    /\ At(t, "claim_head")
    /\ Goto(t, IF IsHead(thread[t].e) THEN "claim_append" ELSE AfterClaimFailed(t))
    /\ UNCHANGED <<inbox, lease, running, crashes, claims, limits>>

ClaimAppend(t) ==
    /\ At(t, "claim_append")
    /\ inbox' = [inbox EXCEPT ![thread[t].e] =
                    [thread[t].current EXCEPT !.status = "delivering"]]
    /\ Goto(t, "claim_save")
    /\ UNCHANGED <<lease, running, crashes, claims, limits>>

ClaimSave(t) ==
    /\ At(t, "claim_save")
    /\ lease' = [event |-> thread[t].e, state |-> "acquired"]
    /\ Return(t)
    /\ UNCHANGED <<inbox, running, crashes, claims, limits>>

\* The RUNNING record of the job.
StartAppend(t) ==
    /\ At(t, "start")
    /\ running' = thread[t].e
    /\ Goto(t, "idle")
    /\ UNCHANGED <<inbox, lease, crashes, claims, limits>>
-----------------------------------------------------------------------------
(* mark_terminal, rewrite_head and expire_lease.                           *)

TermLoad(t) ==
    /\ At(t, "term_load")
    /\ IF inbox[thread[t].e].status \in Terminal
       THEN Return(t)
       ELSE Load(t, "term_append", thread[t].e)
    /\ UNCHANGED <<inbox, lease, running, crashes, claims, limits>>

TermAppend(t) ==
    /\ At(t, "term_append")
    /\ inbox' = [inbox EXCEPT ![thread[t].e] =
                    [thread[t].current EXCEPT !.status = thread[t].goal]]
    /\ Goto(t, "term_lease")
    /\ UNCHANGED <<lease, running, crashes, claims, limits>>

TermLease(t) ==
    /\ At(t, "term_lease")
    /\ IF Acquired /\ lease.event = thread[t].e
       THEN Goto(t, "term_remove")
       ELSE Return(t)
    /\ UNCHANGED <<inbox, lease, running, crashes, claims, limits>>

\* The file is removed whatever it holds by now.
TermRemove(t) ==
    /\ At(t, "term_remove")
    /\ lease' = [event |-> 0, state |-> "none"]
    /\ Return(t)
    /\ UNCHANGED <<inbox, running, crashes, claims, limits>>

RewriteLoad(t) ==
    /\ At(t, "rewrite_load")
    /\ IF inbox[thread[t].arg].status \in Terminal
       THEN Goto(t, "idle")
       ELSE Load(t, "rewrite_append", thread[t].arg)
    /\ UNCHANGED <<inbox, lease, running, crashes, claims, limits>>

RewriteAppend(t) ==
    /\ At(t, "rewrite_append")
    /\ inbox' = [inbox EXCEPT ![thread[t].e] =
                    [thread[t].current EXCEPT !.status = "queued",
                                              !.scheduled = TRUE]]
    /\ Goto(t, "term_lease")
    /\ UNCHANGED <<lease, running, crashes, claims, limits>>

\* Mutant: a lease whose event is terminal is left alone.
ExpireLoad_skips_terminal(t) ==
    /\ At(t, "expire_load")
    /\ Goto(t, "idle")
    /\ UNCHANGED <<inbox, lease, running, crashes, claims, limits>>

ExpireLoad(t) ==
    /\ At(t, "expire_load")
    /\ IF Acquired
       THEN Load(t, IF inbox[lease.event].status \in Terminal
                    THEN "expire_remove" ELSE "expire_save", lease.event)
       ELSE Return(t)
    /\ UNCHANGED <<inbox, lease, running, crashes, claims, limits>>

ExpireRemove(t) ==
    /\ At(t, "expire_remove")
    /\ lease' = [event |-> 0, state |-> "none"]
    /\ Return(t)
    /\ UNCHANGED <<inbox, running, crashes, claims, limits>>

ExpireSave(t) ==
    /\ At(t, "expire_save")
    /\ lease' = [event |-> thread[t].e, state |-> "expired"]
    /\ Goto(t, "term_load")
    /\ UNCHANGED <<inbox, running, crashes, claims, limits>>
-----------------------------------------------------------------------------
\* The process dies; the files and the job store stay.
Crash ==
    /\ crashes < MaxCrashes
    /\ crashes' = crashes + 1
    /\ thread' = [t \in Threads |-> Idle]
    /\ UNCHANGED <<inbox, lease, running, claims, limits>>

Step(t) ==
    \/ ClaimLoad(t) \/ ClaimLease(t) \/ ClaimHead(t) \/ ClaimAppend(t)
    \/ ClaimSave(t) \/ StartAppend(t) \/ TermLoad(t) \/ TermAppend(t)
    \/ TermLease(t) \/ TermRemove(t) \/ RewriteLoad(t) \/ RewriteAppend(t)
    \/ ExpireLoad(t) \/ ExpireRemove(t) \/ ExpireSave(t)

Next ==
    \/ \E type \in {"task_request", "task_reply"} : RecordEvent(type)
    \/ \E e \in Pending : \/ BeginAck(e) \/ BeginCancel(e) \/ BeginStart(e)
                          \/ BeginPrepare(e) \/ BeginRepairStall(e)
    \/ BeginComplete
    \/ BeginSweep
    \/ \E t \in Threads : Step(t)
    \/ Crash

(* A thread that has begun an operation goes on with it.  The sweep is one *)
(* stage of every heartbeat, so it is not passed over for ever while a     *)
(* lease is overdue.                                                       *)
Fairness ==
    /\ \A t \in Threads : WF_vars(Step(t))
    /\ WF_vars(BeginComplete)
    /\ SF_vars(BeginSweep)

Spec == Init /\ [][Next]_vars /\ Fairness
-----------------------------------------------------------------------------
(* At most one inbound event of the agent is being delivered.              *)
OneInDelivery ==
    Cardinality({e \in DOMAIN inbox : inbox[e].status = "delivering"}) <= 1

(* The lease never lets an event overtake an older one: its event has left *)
(* the inbox, or it is the oldest one pending.                             *)
LeaseNeverSkips ==
    Acquired => \A f \in Pending : lease.event <= f

(* As long as operations do not overlap, a crash between any two file      *)
(* operations neither puts two events in delivery nor lets a lease skip.   *)
SerialLane == MaxOverlap = 1 => OneInDelivery /\ LeaseNeverSkips

(* A lease that a crash left on a finished event blocks every claim of the *)
(* agent; the sweep or a repair always takes it away.                      *)
StaleLease == Acquired /\ lease.event \notin Pending

StaleLeaseGoes == StaleLease ~> ~StaleLease
=============================================================================
