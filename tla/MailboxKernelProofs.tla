------------------------- MODULE MailboxKernelProofs -------------------------
(***************************************************************************)
(* Proofs about MailboxKernel, for every number of events, every lease     *)
(* bound and every set of delivery jobs.                                   *)
(*                                                                         *)
(* SummaryExact is not inductive: an increment is right only if the lease, *)
(* the head and the counts agree before it.  Consistent (OperatorLemmas) *)
(* is the strengthening.                                                   *)
(***************************************************************************)
EXTENDS MailboxKernel, OperatorLemmas

Inv == Consistent(box)

\* The empty mailbox is consistent.
LEMMA InitConsistent == Init => Inv
  BY EmptyConsistent DEF Init, Inv

\* Every operation keeps the mailbox consistent.
LEMMA NextConsistent ==
    ASSUME Consistent(box), [Next]_vars
    PROVE  Consistent(box')
<1> USE MailboxKernelAssumption
<1>1. /\ "task_request" \in EventTypes /\ "task_reply" \in EventTypes
      /\ "consumed" \in TerminalStatuses /\ "abandoned" \in TerminalStatuses
      /\ "superseded" \in TerminalStatuses
  BY DEF EventTypes, TerminalStatuses
<1>2. CASE RecordRequest
  BY <1>1, <1>2, RecordInboundConsistent DEF RecordRequest
<1>3. CASE RecordReply
  BY <1>1, <1>3, RecordInboundConsistent DEF RecordReply
<1>4. CASE RecordConsumedNotice
  BY <1>4, ConsumedNoticeConsistent DEF RecordConsumedNotice
<1>5. ASSUME NEW e \in Ids, Claim(e)
      PROVE  Consistent(box')
  BY <1>5, ClaimConsistent DEF Claim
<1>6. ASSUME NEW e \in Ids, AckReply(e)
      PROVE  Consistent(box')
  BY <1>6, AckReplyConsistent DEF AckReply
<1>7. ASSUME NEW e \in Ids, Consume(e) \/ Abandon(e) \/ Supersede(e)
      PROVE  Consistent(box')
  BY <1>1, <1>7, MarkTerminalConsistent DEF Consume, Abandon, Supersede
<1>8. ASSUME NEW e \in Ids, NEW ref \in Refs, RewriteHead(e, ref)
      PROVE  Consistent(box')
  BY <1>8, RewriteHeadConsistent DEF RewriteHead
<1>9. ASSUME NEW type \in EventTypes \cup {"any"}, ClaimNext(type)
      PROVE  Consistent(box')
  BY <1>9, ClaimNextConsistent DEF ClaimNext
<1>10. CASE ExpireLease
  BY <1>10, ExpireLeaseConsistent DEF ExpireLease
<1>11. CASE RefreshMailbox
  BY <1>11, RebuildConsistent DEF RefreshMailbox, Consistent
<1>12. CASE UNCHANGED vars
  BY <1>12 DEF vars
<1> QED
  BY <1>2, <1>3, <1>4, <1>5, <1>6, <1>7, <1>8, <1>9, <1>10, <1>11, <1>12
     DEF Next

\* The strengthening is an invariant.
THEOREM ConsistentAlways == Spec => []Inv
<1>1. Inv /\ [Next]_vars => Inv'
  BY NextConsistent DEF Inv
<1> QED BY <1>1, InitConsistent, PTL DEF Spec

(* The stores only ever hold well-formed records: in particular no counter *)
(* of the summary that is decremented on consume ever passes zero.         *)
THEOREM TypeCorrect == Spec => []TypeOK
<1>1. Inv => TypeOK
  BY DEF Inv, Consistent, TypeOK
<1> QED BY <1>1, ConsistentAlways, PTL

(* The incrementally kept summary equals the one a rebuild from the inbox  *)
(* and the lease would give, after any sequence of kernel operations.      *)
THEOREM SummaryIsExact == Spec => []SummaryExact
<1>1. Inv => SummaryExact
  BY DEF Inv, Consistent, SummaryOK, SummaryExact
<1> QED BY <1>1, ConsistentAlways, PTL

(* The leased event, the delivering event and the head are one.            *)
THEOREM DeliveryIsLeased == Spec => []LeaseGuardsDelivery
<1>1. Inv => LeaseGuardsDelivery
  BY DEF Inv, Consistent, LeaseOK, LeaseGuardsDelivery
<1> QED BY <1>1, ConsistentAlways, PTL
-----------------------------------------------------------------------------
\* Every step is one of the lane, and a lease that is granted has a version
\* of its own.
LEMMA NextStep ==
    ASSUME Consistent(box), [Next]_vars
    PROVE  StepOK(box, box')
<1> USE MailboxKernelAssumption
<1>0. /\ EventTypes = {"task_request", "task_reply", "completion_notice"}
      /\ {"consumed", "abandoned", "superseded"} = TerminalStatuses
      /\ 0 \in Nat
  BY DEF EventTypes, TerminalStatuses
<1>1. ASSUME NEW type \in EventTypes, box' = record_inbound(box, type, 0)
      PROVE  StepOK(box, box')
  <2> DEFINE a == append_event(box, type, "queued", 0)
  <2>1. a \in Mailbox
    BY <1>0, AppendEvent DEF Consistent, Statuses, Claimable
  <2> HIDE DEF a
  <2>2. (box').inbox = a.inbox /\ (box').lease = a.lease
    BY <1>1, <2>1, SummaryWrites DEF record_inbound, a
  <2> QED BY <1>0, <2>2, RecordStep DEF a
<1>2. CASE RecordRequest
  BY <1>0, <1>1, <1>2 DEF RecordRequest
<1>3. CASE RecordReply
  BY <1>0, <1>1, <1>3 DEF RecordReply
<1>4. CASE RecordConsumedNotice
  BY <1>0, <1>4, RecordStep DEF RecordConsumedNotice
<1>5. ASSUME NEW e \in Ids, Claim(e)
      PROVE  StepOK(box, box')
  BY <1>5, ClaimStep DEF Claim
<1>6. ASSUME NEW e \in Ids, AckReply(e)
      PROVE  StepOK(box, box')
  BY <1>6, AckReplyStep DEF AckReply
<1>7. ASSUME NEW e \in Ids, Consume(e) \/ Abandon(e) \/ Supersede(e)
      PROVE  StepOK(box, box')
  BY <1>0, <1>7, TerminalStep DEF Consume, Abandon, Supersede
<1>8. ASSUME NEW e \in Ids, NEW ref \in Refs, RewriteHead(e, ref)
      PROVE  StepOK(box, box')
  BY <1>8, RewriteHeadStep DEF RewriteHead
<1>9. ASSUME NEW type \in EventTypes \cup {"any"}, ClaimNext(type)
      PROVE  StepOK(box, box')
  BY <1>9, ClaimNextStep DEF ClaimNext
<1>10. CASE ExpireLease
  BY <1>10, ExpireLeaseStep DEF ExpireLease
<1>11. CASE RefreshMailbox
  BY <1>11, RefreshStep DEF RefreshMailbox, Consistent
<1>12. CASE UNCHANGED vars
  BY <1>12, KeepsLane DEF vars
<1> QED
  BY <1>2, <1>3, <1>4, <1>5, <1>6, <1>7, <1>8, <1>9, <1>10, <1>11, <1>12
     DEF Next

(* A lease version is granted once, whether the file of the last grant is  *)
(* still there or only the summary remembers it.                           *)
THEOREM VersionsGrow == Spec => LeaseVersionsGrow
<1>1. Inv /\ [Next]_vars =>
        [(box').lease # box.lease /\ (box').lease.state = "acquired"
            => /\ (box').lease.version > box.lease.version
               /\ (box').lease.version > box.summary.lease_version]_vars
  BY NextStep DEF Inv, StepOK, GrantGrows
<1> QED BY <1>1, ConsistentAlways, PTL DEF Spec, LeaseVersionsGrow

(* Every operation of the kernel is a step of the serial lane or changes   *)
(* nothing in it.                                                          *)
THEOREM KernelImplementsLane == Spec => ImplementsLane
<1>1. Init => Lane!LaneInit
  BY DEF Init, EmptyMailbox, Lane!LaneInit, pending_events, events,
         holds_lease, NoLease
<1>2. Inv /\ [Next]_vars => [Lane!LaneNext]_(Lane!laneVars)
  <2> SUFFICES ASSUME Inv, [Next]_vars
               PROVE  Lane!LaneNext \/ UNCHANGED Lane!laneVars
    OBVIOUS
  <2>1. LaneStep(box, box')
    BY NextStep DEF Inv, StepOK
  <2> QED
    BY <2>1 DEF LaneStep, SameLane, Serving, Lane!LaneNext, Lane!laneVars,
                Lane!Arrive, Lane!Serve, Lane!Leave, Lane!PutBack
<1> QED BY <1>1, <1>2, ConsistentAlways, PTL
        DEF Spec, ImplementsLane, Lane!LaneSpec
=============================================================================
