---------------------------- MODULE MailboxKernel ----------------------------
(***************************************************************************)
(* The mailbox of one agent under the operations of MailboxKernelService   *)
(* (lib/mailbox_kernel/service.py) and the two ways message_bureau puts an *)
(* event into it, each operation run to its end before the next one.       *)
(***************************************************************************)
EXTENDS MailboxOps

CONSTANTS MaxEvents,   \* bound on the events recorded
          MaxLease,    \* bound on lease_version
          Refs         \* delivery jobs a payload_ref may name (0: none)

ASSUME MailboxKernelAssumption ==
    /\ MaxEvents \in Nat \ {0}
    /\ MaxLease \in Nat \ {0}
    /\ Refs \subseteq Nat
    /\ 0 \in Refs

VARIABLE box

vars == box

\* Ids a caller may pass: recorded ones and one that is unknown.
Ids == 1 .. MaxEvents

TypeOK == box \in Mailbox

Init == box = EmptyMailbox

RecordRequest ==
    /\ Len(box.inbox) < MaxEvents
    /\ box' = record_inbound(box, "task_request", 0)

RecordReply ==
    /\ Len(box.inbox) < MaxEvents
    /\ box' = record_inbound(box, "task_reply", 0)

\* The notice of a silent cancellation is recorded consumed.
RecordConsumedNotice ==
    /\ Len(box.inbox) < MaxEvents
    /\ box' = append_event(box, "completion_notice", "consumed", 0)

CanLease == next_lease_version(box) <= MaxLease

Claim(e) == CanLease /\ box' = claim(box, e)

ClaimNext(type) == CanLease /\ box' = claim_next(box, type)

AckReply(e) == CanLease /\ box' = ack_reply(box, e)

Consume(e) == box' = mark_terminal(box, e, "consumed")

Abandon(e) == box' = mark_terminal(box, e, "abandoned")

Supersede(e) == box' = mark_terminal(box, e, "superseded")

RewriteHead(e, ref) == box' = rewrite_head(box, e, "queued", ref)

ExpireLease == box' = expire_lease(box)

RefreshMailbox == box' = rebuild_mailbox_summary(box)

Next ==
    \/ RecordRequest \/ RecordReply \/ RecordConsumedNotice
    \/ \E e \in Ids : Claim(e) \/ AckReply(e) \/ Consume(e)
                        \/ Abandon(e) \/ Supersede(e)
    \/ \E e \in Ids, ref \in Refs : RewriteHead(e, ref)
    \/ \E type \in EventTypes \cup {"any"} : ClaimNext(type)
    \/ ExpireLease
    \/ RefreshMailbox

Spec == Init /\ [][Next]_vars
-----------------------------------------------------------------------------
(* The cached summary that list, inbox and queue views read is kept by     *)
(* increments (mark_terminal, claim, rewrite_head, record).  It always     *)
(* equals what rebuild_mailbox_summary would compute from the history.     *)
SummaryExact ==
    box.summary.present => box.summary = project_mailbox_summary(box)

(* An event is being delivered exactly when the mailbox holds an acquired  *)
(* lease, the lease is on that event, and it is the head of the inbox:     *)
(* inbound events are consumed one at a time, in order.                    *)
LeaseGuardsDelivery ==
    \A e \in events(box) :
        box.inbox[e].status = "delivering" <=>
            holds_lease(box) /\ box.lease.event = e /\ e = head_pending_event(box)

(* No lease version is granted twice, even when the lease file of the      *)
(* earlier grant has been removed: the summary remembers it.               *)
LeaseVersionsGrow ==
    [][(box').lease # box.lease /\ (box').lease.state = "acquired"
        => /\ (box').lease.version > box.lease.version
           /\ (box').lease.version > box.summary.lease_version]_vars

(* The mailbox is a serial lane: the refinement mapping reads the pending  *)
(* events and the event under the acquired lease.                          *)
Lane == INSTANCE MailboxLane WITH
            arrived <- Len(box.inbox),
            waiting <- pending_events(box),
            serving <- IF holds_lease(box) THEN box.lease.event ELSE 0

ImplementsLane == Lane!LaneSpec
=============================================================================
