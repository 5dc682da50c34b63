----------------------------- MODULE MailboxOps -----------------------------
(***************************************************************************)
(* The mailbox kernel (lib/mailbox_kernel) as functions on the mailbox of  *)
(* one agent.  A mailbox is three files of the agent's runtime directory:  *)
(*   inbox    inbox.jsonl, an append-only log.  latest_events keeps the    *)
(*            last record of each event in the order of the events' first  *)
(*            records, so the log is modelled by what a reader gets from   *)
(*            it: a sequence of latest records.  The index of an event in  *)
(*            the sequence is its inbound_event_id (0: no event).          *)
(*   lease    the DeliveryLease file; state "none" when there is no file.  *)
(*   summary  mailbox.json, the cached MailboxRecord; present = FALSE when *)
(*            there is no file.                                            *)
(* ref is the delivery job that payload_ref names (0: none).  Timestamps,  *)
(* message and attempt ids and the summary's source are left out.  A       *)
(* summary is saved by compare-and-save on its version, which always       *)
(* succeeds when nobody interleaves, so the version is left out as well;   *)
(* MailboxSteps models the interleavings.                                  *)
(***************************************************************************)
EXTENDS Naturals, Sequences, FiniteSets

EventTypes == {"task_request", "task_reply", "completion_notice"}
Claimable == {"created", "queued"}
TerminalStatuses == {"consumed", "superseded", "abandoned"}
Statuses == Claimable \cup {"delivering"} \cup TerminalStatuses

Event == [type : EventTypes, status : Statuses, ref : Nat]

Lease == [event : Nat, version : Nat, state : {"none", "acquired", "expired"}]
NoLease == [event |-> 0, version |-> 0, state |-> "none"]

SummaryHead == [event : Nat, status : Statuses \cup {"none"}, ref : Nat]
EmptyHead == [event |-> 0, status |-> "none", ref |-> 0]

Summary == [present : BOOLEAN, active : Nat, depth : Nat, replies : Nat,
            head : SummaryHead, state : {"idle", "blocked", "delivering"},
            lease_version : Nat]
NoSummary == [present |-> FALSE, active |-> 0, depth |-> 0, replies |-> 0,
              head |-> EmptyHead, state |-> "idle", lease_version |-> 0]

Mailbox == [inbox : Seq(Event), lease : Lease, summary : Summary]
EmptyMailbox == [inbox |-> << >>, lease |-> NoLease, summary |-> NoSummary]
-----------------------------------------------------------------------------
(* Queries (service_runtime/queries.py).                                   *)

events(b) == 1 .. Len(b.inbox)

\* The ids of the events that are not terminal.
pending_events(b) ==
    {e \in events(b) : b.inbox[e].status \notin TerminalStatuses}

pending_replies(b) ==
    {e \in pending_events(b) : b.inbox[e].type = "task_reply"}

\* The first pending event, 0 if there is none.
head_pending_event(b) ==
    IF pending_events(b) = {}
    THEN 0
    ELSE CHOOSE e \in pending_events(b) : \A f \in pending_events(b) : e <= f

\* The head if it can be claimed and has the wanted type ("any": no filter).
peek_next(b, type) ==
    LET head == head_pending_event(b)
    IN IF /\ head # 0
          /\ type = "any" \/ b.inbox[head].type = type
          /\ b.inbox[head].status \in Claimable
       THEN head
       ELSE 0

is_pending(b, e) == e \in pending_events(b)

holds_lease(b) == b.lease.state = "acquired"
-----------------------------------------------------------------------------
(* The summary (service_runtime/summary.py and mailbox.py).                *)

summary_head_from_event(b, e) ==
    IF e = 0
    THEN EmptyHead
    ELSE [event |-> e, status |-> b.inbox[e].status, ref |-> b.inbox[e].ref]

derive_mailbox_state(has_active, depth) ==
    IF has_active THEN "delivering"
    ELSE IF depth > 0 THEN "blocked" ELSE "idle"

build_mailbox_summary_record(b, depth, replies, active, head) ==
    [present |-> TRUE,
     active |-> active,
     depth |-> depth,
     replies |-> replies,
     head |-> head,
     state |-> derive_mailbox_state(holds_lease(b) \/ active # 0, depth),
     lease_version |-> IF b.lease.state = "none"
                       THEN b.summary.lease_version
                       ELSE b.lease.version]

\* The summary the stored history implies.
project_mailbox_summary(b) ==
    build_mailbox_summary_record(
        b,
        Cardinality(pending_events(b)),
        Cardinality(pending_replies(b)),
        IF holds_lease(b) THEN b.lease.event ELSE 0,
        summary_head_from_event(b, head_pending_event(b)))

rebuild_mailbox_summary(b) ==
    [b EXCEPT !.summary = project_mailbox_summary(b)]

\* Mutant: every event counts as a reply, and the count has no floor.
MinusFloor_always_one(a, d) == a - 1

\* max(0, a - d) as the code writes it.
MinusFloor(a, d) == IF a >= d THEN a - d ELSE 0

\* One more pending event, of the given type; the head is read again.
apply_incremental_summary_update(b, type) ==
    [b EXCEPT !.summary =
        build_mailbox_summary_record(
            b,
            b.summary.depth + 1,
            b.summary.replies + (IF type = "task_reply" THEN 1 ELSE 0),
            b.summary.active,
            summary_head_from_event(b, head_pending_event(b)))]

apply_transition_summary_update(b, depth, replies, active, head) ==
    [b EXCEPT !.summary =
        build_mailbox_summary_record(b, depth, replies, active, head)]
-----------------------------------------------------------------------------
(* Writes, in the order the operations make them.                          *)

append_event(b, type, status, ref) ==
    [b EXCEPT !.inbox =
        Append(@, [type |-> type, status |-> status, ref |-> ref])]

\* A newer record of event e: readers see the latest one.
append_record(b, e, record) == [b EXCEPT !.inbox[e] = record]

append_rewrite(b, e, status, ref) ==
    append_record(b, e, [type |-> b.inbox[e].type,
                         status |-> status, ref |-> ref])

append_status(b, e, status) == append_rewrite(b, e, status, b.inbox[e].ref)

\* Mutant: the summary's memory of the last version is forgotten.
next_lease_version_lease_file_only(b) == b.lease.version + 1

next_lease_version(b) ==
    IF b.lease.state = "none"
    THEN b.summary.lease_version + 1
    ELSE b.lease.version + 1

save_lease(b, e) ==
    [b EXCEPT !.lease = [event |-> e,
                         version |-> next_lease_version(b),
                         state |-> "acquired"]]

release_matching_lease(b, e) ==
    IF holds_lease(b) /\ b.lease.event = e
    THEN [b EXCEPT !.lease = NoLease]
    ELSE b

\* The summary writes of _claim_current, mark_terminal and rewrite_head.
claim_summary(b, e) ==
    IF ~b.summary.present \/ b.summary.depth = 0 \/ b.summary.head.event # e
    THEN rebuild_mailbox_summary(b)
    ELSE apply_transition_summary_update(
            b, b.summary.depth, b.summary.replies, e,
            summary_head_from_event(b, e))

\* Mutant: the active event is left in the summary.
ClearActive_dropped(b, e) == b.summary.active

ClearActive(b, e) == IF b.summary.active = e THEN 0 ELSE b.summary.active

terminal_summary(b, e) ==
    LET depth == MinusFloor(b.summary.depth, 1)
        replies == MinusFloor(b.summary.replies,
                              IF b.inbox[e].type = "task_reply" THEN 1 ELSE 0)
        next_head == head_pending_event(b)
        head == IF b.summary.head.event # e THEN b.summary.head
                ELSE IF depth = 0 THEN EmptyHead
                ELSE summary_head_from_event(b, next_head)
    IN IF \/ ~b.summary.present
          \/ b.summary.depth = 0
          \/ b.summary.head.event = e /\ depth > 1 /\ next_head = 0
       THEN rebuild_mailbox_summary(b)
       ELSE apply_transition_summary_update(b, depth, replies,
                                            ClearActive(b, e), head)

rewrite_summary(b, e) ==
    IF ~b.summary.present \/ b.summary.head.event # e \/ b.summary.depth = 0
    THEN rebuild_mailbox_summary(b)
    ELSE apply_transition_summary_update(
            b, b.summary.depth, b.summary.replies, ClearActive(b, e),
            summary_head_from_event(b, e))
-----------------------------------------------------------------------------
(* Operations (service_runtime/transitions_runtime, lease_expiry.py).      *)

\* Mutant: any pending event may be claimed, not only the head.
claim_succeeds_any_position(b, e) ==
    /\ is_pending(b, e)
    /\ ~(holds_lease(b) /\ b.lease.event # e)
    /\ b.inbox[e].status \in Claimable

\* claim gets past its checks and writes.
claim_succeeds(b, e) ==
    /\ is_pending(b, e)
    /\ ~(holds_lease(b) /\ b.lease.event # e)
    /\ b.inbox[e].status \in Claimable
    /\ head_pending_event(b) = e

\* claim returns a record: it claimed the event, or the event was delivering.
claim_returns(b, e) ==
    \/ claim_succeeds(b, e)
    \/ /\ is_pending(b, e)
       /\ ~(holds_lease(b) /\ b.lease.event # e)
       /\ b.inbox[e].status = "delivering"

claim(b, e) ==
    IF claim_succeeds(b, e)
    THEN claim_summary(save_lease(append_status(b, e, "delivering"), e), e)
    ELSE rebuild_mailbox_summary(b)

claim_next(b, type) ==
    IF peek_next(b, type) = 0
    THEN rebuild_mailbox_summary(b)
    ELSE claim(b, peek_next(b, type))

mark_terminal(b, e, status) ==
    IF is_pending(b, e)
    THEN terminal_summary(
            release_matching_lease(append_status(b, e, status), e), e)
    ELSE rebuild_mailbox_summary(b)

ack_reply(b, e) ==
    IF head_pending_event(b) # e \/ b.inbox[e].type # "task_reply"
    THEN rebuild_mailbox_summary(b)
    ELSE IF b.inbox[e].status = "delivering"
    THEN mark_terminal(b, e, "consumed")
    ELSE IF claim_returns(b, e)
    THEN mark_terminal(claim(b, e), e, "consumed")
    ELSE rebuild_mailbox_summary(claim(b, e))

rewrite_head(b, e, status, ref) ==
    IF is_pending(b, e)
    THEN rewrite_summary(
            release_matching_lease(append_rewrite(b, e, status, ref), e), e)
    ELSE rebuild_mailbox_summary(b)

expire_lease(b) ==
    IF ~holds_lease(b)
    THEN b
    ELSE IF ~is_pending(b, b.lease.event)
    THEN rebuild_mailbox_summary([b EXCEPT !.lease = NoLease])
    ELSE mark_terminal([b EXCEPT !.lease.state = "expired"],
                       b.lease.event, "abandoned")

(* Recording an inbound event (message_bureau): the event is appended, then *)
(* the summary is moved on.                                                 *)
record_inbound(b, type, ref) ==
    apply_incremental_summary_update(append_event(b, type, "queued", ref), type)
=============================================================================
