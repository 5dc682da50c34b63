--------------------------- MODULE OperatorLemmas ---------------------------
(***************************************************************************)
(* Lemmas about the operators that the models are built from, used by the  *)
(* proofs of several components.  First what they keep needing about       *)
(* finite sets of naturals: the stores number their records, and the code  *)
(* looks for the first, the last or the only one that meets a condition.   *)
(* Then what the operations of the mailbox kernel do to any consistent     *)
(* mailbox.  These lemmas are on a mailbox b and not on a variable, so     *)
(* that they can speak of the intermediate mailboxes an operation goes     *)
(* through, and so that MailboxKernelProofs, DispatcherProofs and          *)
(* ReplyDeliveryProofs can all use them.                                   *)
(***************************************************************************)
EXTENDS MailboxOps, FiniteSetsExt, FiniteSetTheorems, WellFoundedInduction,
        TLAPS

(* A set of naturals that is not empty has a least element.                *)
LEMMA LeastNat ==
    ASSUME NEW S \in SUBSET Nat, S # {}
    PROVE  \E m \in S : \A n \in S : m <= n
  <1>1. PICK m \in S : \A n \in S : ~(<<n, m>> \in OpToRel(<, Nat))
    BY WFMin, NatLessThanWellFounded, Zenon
  <1>2. \A n \in S : <<n, m>> \in OpToRel(<, Nat) <=> n < m
    BY DEF OpToRel
  <1>3. \A n \in S : ~(n < m)
    BY <1>1, <1>2, Zenon
  <1> QED BY <1>3

(* If it is finite too it has a greatest: of the non-empty subsets without *)
(* one, take a smallest and remove an element.                             *)
LEMMA GreatestNat ==
    ASSUME NEW S \in SUBSET Nat, IsFiniteSet(S), S # {}
    PROVE  \E m \in S : \A n \in S : n <= m
  <1> DEFINE HasMax(T) == \E m \in T : \A n \in T : n <= m
             Bad == {T \in SUBSET S : T # {} /\ ~HasMax(T)}
             Sizes == {Cardinality(T) : T \in Bad}
  <1>1. \A T \in SUBSET S : IsFiniteSet(T) /\ Cardinality(T) \in Nat
    BY FS_Subset, FS_CardinalityType
  <1>2. SUFFICES ASSUME Bad # {} PROVE FALSE
    BY DEF HasMax
  <1>3. Sizes \in SUBSET Nat /\ Sizes # {}
    BY <1>1, <1>2
  <1>4. PICK T \in Bad : \A U \in Bad : Cardinality(T) <= Cardinality(U)
    <2>1. PICK k \in Sizes : \A l \in Sizes : k <= l
      BY <1>3, LeastNat
    <2> QED BY <2>1
  <1>5. PICK x \in T : TRUE
    BY <1>4
  <1>6. T \in SUBSET S /\ T \in SUBSET Nat /\ x \in Nat /\ ~HasMax(T)
    BY <1>4, <1>5
  <1>7. IsFiniteSet(T \ {x}) /\ Cardinality(T \ {x}) = Cardinality(T) - 1
    BY <1>1, <1>5, <1>6, FS_RemoveElement
  <1>8. T \ {x} \notin Bad
    <2>1. Cardinality(T) \in Nat
      BY <1>1, <1>6
    <2>2. ~(Cardinality(T) <= Cardinality(T \ {x}))
      BY <1>7, <2>1
    <2> QED BY <1>4, <2>2
  <1>9. CASE T \ {x} = {}
    BY <1>5, <1>6, <1>9
  <1>10. CASE T \ {x} # {}
    <2>1. HasMax(T \ {x})
      BY <1>6, <1>8, <1>10
    <2>2. PICK m \in T \ {x} : \A n \in T \ {x} : n <= m
      BY <2>1
    <2>3. CASE m <= x
      BY <1>6, <2>2, <2>3
    <2>4. CASE x <= m
      BY <1>6, <2>2, <2>4
    <2> QED BY <1>6, <2>2, <2>3, <2>4
  <1> QED BY <1>9, <1>10

(* Min and Max of the community modules choose such elements.              *)
LEMMA MinNat ==
    ASSUME NEW S \in SUBSET Nat, S # {}
    PROVE  Min(S) \in S /\ \A n \in S : Min(S) <= n
  BY LeastNat DEF Min

\* Max of a finite set of numbers is its greatest member.
LEMMA MaxNat ==
    ASSUME NEW S \in SUBSET Nat, IsFiniteSet(S), S # {}
    PROVE  Max(S) \in S /\ \A n \in S : n <= Max(S)
  <1>1. PICK m \in S : \A n \in S : m >= n
    BY GreatestNat
  <1> QED BY <1>1 DEF Max

(* The records of a store that meet a condition.                           *)
LEMMA IndicesFinite ==
    ASSUME NEW T, NEW s \in Seq(T), NEW S \in SUBSET DOMAIN s
    PROVE  S \in SUBSET Nat /\ IsFiniteSet(S)
  <1>1. Len(s) \in Nat /\ DOMAIN s = 1 .. Len(s)
    OBVIOUS
  <1>2. IsFiniteSet(1 .. Len(s))
    BY <1>1, FS_Interval
  <1> QED BY <1>1, <1>2, FS_Subset

(* One element at most has cardinality one at most.                        *)
LEMMA AtMostOne ==
    ASSUME NEW S, \A x, y \in S : x = y
    PROVE  IsFiniteSet(S) /\ Cardinality(S) <= 1
  <1>1. CASE S = {}
    BY <1>1, FS_EmptySet
  <1>2. CASE S # {}
    <2>1. PICK x \in S : TRUE
      BY <1>2
    <2>2. S = {x}
      BY <2>1
    <2>3. IsFiniteSet({x}) /\ Cardinality({x}) = 1
      BY FS_Singleton
    <2> QED BY <2>2, <2>3
  <1> QED BY <1>1, <1>2

(* ... and conversely.                                                     *)
LEMMA OnlyOne ==
    ASSUME NEW S, IsFiniteSet(S), Cardinality(S) <= 1, NEW x \in S, NEW y \in S
    PROVE  x = y
  <1> SUFFICES ASSUME x # y PROVE FALSE
    OBVIOUS
  <1>1. IsFiniteSet(S \ {x}) /\ Cardinality(S \ {x}) = Cardinality(S) - 1
    BY FS_RemoveElement
  <1>2. Cardinality(S) \in Nat /\ Cardinality(S \ {x}) \in Nat
    BY <1>1, FS_CardinalityType
  <1>3. Cardinality(S \ {x}) = 0
    BY <1>1, <1>2
  <1>4. S \ {x} = {}
    BY <1>1, <1>3, FS_EmptySet
  <1> QED BY <1>4
-----------------------------------------------------------------------------
(* Mailboxes.                                                              *)

\* The lease is on the head, and exactly the leased event is delivering.
LeaseOK(b) ==
    /\ holds_lease(b) => /\ b.lease.event \in pending_events(b)
                         /\ b.lease.event = head_pending_event(b)
    /\ \A e \in events(b) : b.inbox[e].status = "delivering" <=>
                                holds_lease(b) /\ b.lease.event = e
    /\ b.lease.state = "none" => b.lease = NoLease

\* The summary is absent from a mailbox nothing has entered, or exact.
SummaryOK(b) ==
    IF b.summary.present
    THEN b.summary = project_mailbox_summary(b)
    ELSE /\ b.summary = NoSummary
         /\ b.lease.state = "none"
         /\ pending_events(b) = {}

Consistent(b) == b \in Mailbox /\ LeaseOK(b) /\ SummaryOK(b)
-----------------------------------------------------------------------------
(* The head of the inbox.                                                  *)

\* head_pending_event returns the least pending event, 0 if there is none.
LEMMA HeadIsLeast ==
    ASSUME NEW b \in Mailbox
    PROVE  /\ pending_events(b) = {} => head_pending_event(b) = 0
           /\ pending_events(b) # {} =>
                /\ head_pending_event(b) \in pending_events(b)
                /\ \A f \in pending_events(b) : head_pending_event(b) <= f
<1>1. pending_events(b) \in SUBSET Nat
  BY DEF pending_events, events, Mailbox
<1>2. CASE pending_events(b) # {}
  BY <1>1, <1>2, LeastNat DEF head_pending_event
<1> QED BY <1>2 DEF head_pending_event

\* Any least pending event is the head.
LEMMA LeastIsHead ==
    ASSUME NEW b \in Mailbox, NEW h \in pending_events(b),
           \A f \in pending_events(b) : h <= f
    PROVE  head_pending_event(b) = h
<1>1. pending_events(b) \in SUBSET Nat
  BY DEF pending_events, events, Mailbox
<1> QED BY <1>1, HeadIsLeast

\* Pending events are ids of the log, which are positive.
LEMMA PendingIds ==
    ASSUME NEW b \in Mailbox
    PROVE  /\ pending_events(b) \in SUBSET events(b)
           /\ events(b) \in SUBSET (Nat \ {0})
           /\ \A e \in events(b) : b.inbox[e] \in Event
           /\ head_pending_event(b) \in Nat
<1>1. /\ pending_events(b) \in SUBSET events(b)
      /\ events(b) \in SUBSET (Nat \ {0})
      /\ \A e \in events(b) : b.inbox[e] \in Event
  BY DEF pending_events, events, Mailbox
<1> QED BY <1>1, HeadIsLeast

\* Counting pending events is counting a finite set.
LEMMA PendingFinite ==
    ASSUME NEW b \in Mailbox
    PROVE  /\ IsFiniteSet(pending_events(b))
           /\ IsFiniteSet(pending_replies(b))
           /\ Cardinality(pending_events(b)) \in Nat
           /\ Cardinality(pending_replies(b)) \in Nat
<1>1. IsFiniteSet(1 .. Len(b.inbox))
  BY FS_Interval DEF Mailbox
<1>2. /\ pending_events(b) \subseteq 1 .. Len(b.inbox)
      /\ pending_replies(b) \subseteq 1 .. Len(b.inbox)
  BY DEF pending_events, pending_replies, events
<1>3. IsFiniteSet(pending_events(b)) /\ IsFiniteSet(pending_replies(b))
  BY <1>1, <1>2, FS_Subset, Zenon
<1> QED BY <1>3, FS_CardinalityType, Zenon
-----------------------------------------------------------------------------
(* The writes: what each changes, field by field.                          *)

\* project_mailbox_summary reads the summary only for its lease version.
LEMMA ProjectReads ==
    ASSUME NEW b, NEW c, c.inbox = b.inbox, c.lease = b.lease,
           c.lease.state = "none" =>
                c.summary.lease_version = b.summary.lease_version
    PROVE  project_mailbox_summary(c) = project_mailbox_summary(b)
<1>1. /\ pending_events(c) = pending_events(b)
      /\ pending_replies(c) = pending_replies(b)
      /\ holds_lease(c) = holds_lease(b)
  BY DEF pending_events, pending_replies, events, holds_lease
<1>2. head_pending_event(c) = head_pending_event(b)
  BY <1>1 DEF head_pending_event
<1>3. summary_head_from_event(c, head_pending_event(c)) =
        summary_head_from_event(b, head_pending_event(b))
  BY <1>2 DEF summary_head_from_event
<1> QED BY <1>1, <1>3 DEF project_mailbox_summary, build_mailbox_summary_record

\* The lease part reads only the inbox and the lease.
LEMMA LeaseReads ==
    ASSUME NEW b, NEW c, c.inbox = b.inbox, c.lease = b.lease, LeaseOK(b)
    PROVE  LeaseOK(c)
BY DEF LeaseOK, holds_lease, pending_events, events, head_pending_event

\* The head of a summary that is made from an event of the inbox.
LEMMA HeadType ==
    ASSUME NEW b \in Mailbox, NEW e \in events(b) \cup {0}
    PROVE  summary_head_from_event(b, e) \in SummaryHead
<1>1. e # 0 => b.inbox[e] \in Event
  BY PendingIds
<1>2. e \in Nat
  BY PendingIds
<1> QED
  BY <1>1, <1>2 DEF summary_head_from_event, SummaryHead, EmptyHead, Event

\* A record built from naturals and a head is a summary.
LEMMA BuildType ==
    ASSUME NEW b \in Mailbox, NEW depth \in Nat, NEW replies \in Nat,
           NEW active \in Nat, NEW head \in SummaryHead
    PROVE  build_mailbox_summary_record(b, depth, replies, active, head)
                \in Summary
BY DEF build_mailbox_summary_record, derive_mailbox_state, Summary, Mailbox,
       Lease

\* project_mailbox_summary returns a summary.
LEMMA ProjectType ==
    ASSUME NEW b \in Mailbox
    PROVE  project_mailbox_summary(b) \in Summary
<1>1. head_pending_event(b) \in events(b) \cup {0}
  BY HeadIsLeast, PendingIds
<1>2. (IF holds_lease(b) THEN b.lease.event ELSE 0) \in Nat
  BY DEF Mailbox, Lease
<1> QED BY <1>1, <1>2, HeadType, BuildType, PendingFinite
        DEF project_mailbox_summary

\* Saving a summary changes nothing else.
LEMMA SaveSummary ==
    ASSUME NEW b \in Mailbox, NEW s \in Summary, NEW c,
           c = [b EXCEPT !.summary = s]
    PROVE  /\ c \in Mailbox
           /\ c.inbox = b.inbox /\ c.lease = b.lease /\ c.summary = s
BY DEF Mailbox

\* Saving the projected summary of a mailbox makes its summary exact.
LEMMA SaveExact ==
    ASSUME NEW b \in Mailbox, LeaseOK(b),
           NEW s, s = project_mailbox_summary(b)
    PROVE  Consistent([b EXCEPT !.summary = s])
<1> DEFINE c == [b EXCEPT !.summary = s]
<1>1. /\ c \in Mailbox
      /\ c.inbox = b.inbox /\ c.lease = b.lease /\ c.summary = s
  BY SaveSummary, ProjectType
<1>2. s.present /\ (b.lease.state = "none" =>
                        s.lease_version = b.summary.lease_version)
  BY DEF project_mailbox_summary, build_mailbox_summary_record
<1> HIDE DEF c
<1>3. project_mailbox_summary(c) = s
  BY <1>1, <1>2, ProjectReads
<1>4. LeaseOK(c)
  BY <1>1, LeaseReads
<1>5. Consistent(c)
  BY <1>1, <1>2, <1>3, <1>4 DEF Consistent, SummaryOK
<1> QED BY <1>5 DEF c

\* A rebuilt summary is exact whatever it was before.
LEMMA RebuildConsistent ==
    ASSUME NEW b \in Mailbox, LeaseOK(b)
    PROVE  Consistent(rebuild_mailbox_summary(b))
BY SaveExact DEF rebuild_mailbox_summary

\* A record of the inbox that is written again.
LEMMA AppendRecord ==
    ASSUME NEW b \in Mailbox, NEW e \in events(b), NEW r \in Event, NEW c,
           c = append_record(b, e, r)
    PROVE  /\ c \in Mailbox
           /\ events(c) = events(b)
           /\ Len(c.inbox) = Len(b.inbox)
           /\ c.lease = b.lease /\ c.summary = b.summary
           /\ c.inbox[e] = r
           /\ \A f \in events(b) \ {e} : c.inbox[f] = b.inbox[f]
<1> DEFINE s == [b.inbox EXCEPT ![e] = r]
<1>1. b.inbox \in Seq(Event) /\ e \in 1 .. Len(b.inbox)
  BY DEF Mailbox, events
<1>2. s \in Seq(Event) /\ Len(s) = Len(b.inbox)
  BY <1>1
<1>3. s[e] = r /\ \A f \in 1 .. Len(b.inbox) : f # e => s[f] = b.inbox[f]
  BY <1>1
<1>4. append_record(b, e, r) =
        [inbox |-> s, lease |-> b.lease, summary |-> b.summary]
  <2>1. \A t : [b EXCEPT !.inbox = t] =
                [inbox |-> t, lease |-> b.lease, summary |-> b.summary]
    BY DEF Mailbox
  <2>2. append_record(b, e, r) = [b EXCEPT !.inbox = s]
    BY DEF append_record
  <2> HIDE DEF s
  <2> QED BY <2>1, <2>2
<1> HIDE DEF s
<1> QED BY <1>2, <1>3, <1>4 DEF events, Mailbox

\* append_rewrite changes the status and the reference of one event.
LEMMA AppendRewrite ==
    ASSUME NEW b \in Mailbox, NEW e \in events(b), NEW st \in Statuses,
           NEW ref \in Nat, NEW c,
           c = append_rewrite(b, e, st, ref)
    PROVE  /\ c \in Mailbox
           /\ events(c) = events(b)
           /\ Len(c.inbox) = Len(b.inbox)
           /\ c.lease = b.lease /\ c.summary = b.summary
           /\ c.inbox[e] = [type |-> b.inbox[e].type, status |-> st,
                                ref |-> ref]
           /\ \A f \in events(b) \ {e} : c.inbox[f] = b.inbox[f]
<1>1. b.inbox[e] \in Event
  BY PendingIds
<1>2. [type |-> b.inbox[e].type, status |-> st, ref |-> ref] \in Event
  BY <1>1 DEF Event
<1> QED BY <1>2, AppendRecord DEF append_rewrite

\* A new status is a rewrite that keeps the reference.
LEMMA StatusIsRewrite ==
    ASSUME NEW b \in Mailbox, NEW e \in events(b), NEW st \in Statuses
    PROVE  /\ b.inbox[e].ref \in Nat
           /\ append_status(b, e, st) =
                append_rewrite(b, e, st, b.inbox[e].ref)
<1>1. b.inbox[e] \in Event
  BY PendingIds
<1> QED BY <1>1 DEF append_status, Event

\* A new record at the end of the inbox.
LEMMA AppendEvent ==
    ASSUME NEW b \in Mailbox, NEW type \in EventTypes, NEW st \in Statuses,
           NEW ref \in Nat, NEW c, c = append_event(b, type, st, ref),
           NEW n, n = Len(b.inbox) + 1
    PROVE  /\ c \in Mailbox
           /\ n \in Nat
           /\ events(c) = events(b) \cup {n}
           /\ n \notin events(b)
           /\ \A f \in events(b) : f < n
           /\ Len(c.inbox) = n
           /\ c.lease = b.lease /\ c.summary = b.summary
           /\ c.inbox[n] = [type |-> type, status |-> st, ref |-> ref]
           /\ \A f \in events(b) : c.inbox[f] = b.inbox[f]
<1> DEFINE r == [type |-> type, status |-> st, ref |-> ref]
           s == Append(b.inbox, r)
<1>1. b.inbox \in Seq(Event) /\ r \in Event
  BY DEF Mailbox, Event
<1> HIDE DEF r
<1>2. /\ s \in Seq(Event) /\ Len(s) = Len(b.inbox) + 1
      /\ Len(b.inbox) \in Nat
      /\ s[Len(b.inbox) + 1] = r
      /\ \A f \in 1 .. Len(b.inbox) : s[f] = b.inbox[f]
  BY <1>1
<1>3. append_event(b, type, st, ref) =
        [inbox |-> s, lease |-> b.lease, summary |-> b.summary]
  <2>1. \A t : [b EXCEPT !.inbox = t] =
                [inbox |-> t, lease |-> b.lease, summary |-> b.summary]
    BY DEF Mailbox
  <2>2. append_event(b, type, st, ref) = [b EXCEPT !.inbox = s]
    BY Zenon DEF append_event, r
  <2> QED BY <2>1, <2>2
<1> HIDE DEF s
<1>4. 1 .. (Len(b.inbox) + 1) = (1 .. Len(b.inbox)) \cup {Len(b.inbox) + 1}
  BY <1>2
<1> QED BY <1>2, <1>3, <1>4 DEF events, Mailbox, r
-----------------------------------------------------------------------------
(* What a write does to the pending events, the head and the counts.       *)

\* Two mailboxes with one inbox have one view of it.
LEMMA InboxReads ==
    ASSUME NEW b, NEW c, c.inbox = b.inbox
    PROVE  /\ events(c) = events(b)
           /\ pending_events(c) = pending_events(b)
           /\ pending_replies(c) = pending_replies(b)
           /\ head_pending_event(c) = head_pending_event(b)
           /\ \A e : summary_head_from_event(c, e) =
                        summary_head_from_event(b, e)
BY DEF events, pending_events, pending_replies, head_pending_event,
       summary_head_from_event

\* c is b with a newer record of e of the same type.
Rewritten(b, c, e) ==
    /\ b \in Mailbox /\ c \in Mailbox
    /\ e \in pending_events(b)
    /\ events(c) = events(b)
    /\ c.inbox[e].type = b.inbox[e].type
    /\ \A f \in events(b) \ {e} : c.inbox[f] = b.inbox[f]

\* An event that was ended is pending no more; the others still are.
LEMMA RewrittenTerminal ==
    ASSUME NEW b, NEW c, NEW e, Rewritten(b, c, e),
           c.inbox[e].status \in TerminalStatuses
    PROVE  /\ pending_events(c) = pending_events(b) \ {e}
           /\ pending_replies(c) = pending_replies(b) \ {e}
           /\ head_pending_event(b) # e =>
                head_pending_event(c) = head_pending_event(b)
<1>1. /\ pending_events(c) = pending_events(b) \ {e}
      /\ pending_replies(c) = pending_replies(b) \ {e}
  BY DEF Rewritten, pending_events, pending_replies
<1>2. ASSUME head_pending_event(b) # e
      PROVE  head_pending_event(c) = head_pending_event(b)
  <2>1. /\ head_pending_event(b) \in pending_events(b)
        /\ \A f \in pending_events(b) : head_pending_event(b) <= f
    BY HeadIsLeast DEF Rewritten
  <2> QED BY <1>1, <1>2, <2>1, LeastIsHead DEF Rewritten
<1> QED BY <1>1, <1>2

\* An event that was rewritten and not ended stays pending.
LEMMA RewrittenPending ==
    ASSUME NEW b, NEW c, NEW e, Rewritten(b, c, e),
           c.inbox[e].status \notin TerminalStatuses
    PROVE  /\ pending_events(c) = pending_events(b)
           /\ pending_replies(c) = pending_replies(b)
           /\ head_pending_event(c) = head_pending_event(b)
<1>1. /\ pending_events(c) = pending_events(b)
      /\ pending_replies(c) = pending_replies(b)
  BY DEF Rewritten, pending_events, pending_replies
<1> QED BY <1>1 DEF head_pending_event

\* How the counts drop when an event stops being pending.
LEMMA CountsDrop ==
    ASSUME NEW b \in Mailbox, NEW c, NEW e \in pending_events(b),
           pending_events(c) = pending_events(b) \ {e},
           pending_replies(c) = pending_replies(b) \ {e}
    PROVE  /\ Cardinality(pending_events(b)) >= 1
           /\ Cardinality(pending_events(c)) =
                Cardinality(pending_events(b)) - 1
           /\ b.inbox[e].type = "task_reply" =>
                /\ Cardinality(pending_replies(b)) >= 1
                /\ Cardinality(pending_replies(c)) =
                        Cardinality(pending_replies(b)) - 1
           /\ b.inbox[e].type # "task_reply" =>
                pending_replies(c) = pending_replies(b)
<1>1. IsFiniteSet(pending_events(b)) /\ IsFiniteSet(pending_replies(b))
  BY PendingFinite
<1>2. e \in pending_replies(b) <=> b.inbox[e].type = "task_reply"
  BY DEF pending_replies
<1>3. /\ Cardinality(pending_events(c)) = Cardinality(pending_events(b)) - 1
      /\ e \in pending_replies(b) => Cardinality(pending_replies(c)) =
                                        Cardinality(pending_replies(b)) - 1
  BY <1>1, FS_RemoveElement
<1>4. Cardinality(pending_events(b)) # 0 /\
      (e \in pending_replies(b) => Cardinality(pending_replies(b)) # 0)
  BY <1>1, FS_EmptySet
<1>5. e \notin pending_replies(b) => pending_replies(c) = pending_replies(b)
  BY Zenon
<1> QED BY <1>2, <1>3, <1>4, <1>5, PendingFinite

\* Releasing a lease touches only the lease.
LEMMA ReleaseMatching ==
    ASSUME NEW b \in Mailbox, NEW e, NEW c,
           c = release_matching_lease(b, e)
    PROVE  /\ c \in Mailbox
           /\ c.inbox = b.inbox /\ c.summary = b.summary
           /\ c.lease = IF holds_lease(b) /\ b.lease.event = e
                            THEN NoLease ELSE b.lease
BY DEF release_matching_lease, Mailbox, Lease, NoLease
-----------------------------------------------------------------------------
(* mark_terminal.  Its precondition is weaker than Consistent: expire_lease *)
(* calls it when the lease of e has already been marked expired.           *)

ReadyToEnd(b, e) ==
    /\ b \in Mailbox
    /\ e \in pending_events(b)
    /\ holds_lease(b) => /\ b.lease.event \in pending_events(b)
                         /\ b.lease.event = head_pending_event(b)
    /\ \A f \in events(b) \ {e} : b.inbox[f].status = "delivering" <=>
                                    holds_lease(b) /\ b.lease.event = f
    /\ b.lease.state = "none" => b.lease = NoLease
    /\ b.summary.present
    /\ b.summary.depth = Cardinality(pending_events(b))
    /\ b.summary.replies = Cardinality(pending_replies(b))
    /\ b.summary.head = summary_head_from_event(b, head_pending_event(b))
    /\ \/ b.summary.active = IF holds_lease(b) THEN b.lease.event ELSE 0
       \/ b.summary.active = e /\ ~holds_lease(b)

\* In a consistent mailbox every pending event may be ended.
LEMMA ConsistentReady ==
    ASSUME NEW b, Consistent(b), NEW e \in pending_events(b)
    PROVE  ReadyToEnd(b, e)
<1>1. b.summary.present /\ b.summary = project_mailbox_summary(b)
  BY DEF Consistent, SummaryOK
<1>2. /\ b.summary.depth = Cardinality(pending_events(b))
      /\ b.summary.replies = Cardinality(pending_replies(b))
      /\ b.summary.head = summary_head_from_event(b, head_pending_event(b))
      /\ b.summary.active = IF holds_lease(b) THEN b.lease.event ELSE 0
  BY <1>1 DEF project_mailbox_summary, build_mailbox_summary_record
<1> QED BY <1>1, <1>2 DEF Consistent, LeaseOK, ReadyToEnd

\* The summary of a mailbox that lost its pending event e.
LEMMA TerminalSummary ==
    ASSUME NEW b, NEW e, ReadyToEnd(b, e), NEW c, Rewritten(b, c, e),
           c.inbox[e].status \in TerminalStatuses,
           c.summary = b.summary, LeaseOK(c),
           c.lease = IF holds_lease(b) /\ b.lease.event = e
                     THEN NoLease ELSE b.lease
    PROVE  Consistent(terminal_summary(c, e))
<1> DEFINE one == IF c.inbox[e].type = "task_reply" THEN 1 ELSE 0
           depth == MinusFloor(c.summary.depth, 1)
           replies == MinusFloor(c.summary.replies, one)
           next == head_pending_event(c)
           head == IF c.summary.head.event # e THEN c.summary.head
                   ELSE IF depth = 0 THEN EmptyHead
                   ELSE summary_head_from_event(c, next)
<1>0. b \in Mailbox /\ c \in Mailbox /\ e \in pending_events(b)
  BY DEF ReadyToEnd, Rewritten
<1>1. /\ pending_events(c) = pending_events(b) \ {e}
      /\ pending_replies(c) = pending_replies(b) \ {e}
      /\ head_pending_event(b) # e =>
            head_pending_event(c) = head_pending_event(b)
  BY RewrittenTerminal
<1>2. depth = Cardinality(pending_events(c))
  BY <1>0, <1>1, CountsDrop, PendingFinite, ZenonT(30) DEF MinusFloor, ReadyToEnd
<1>3. replies = Cardinality(pending_replies(c))
  <2>1. c.inbox[e].type = b.inbox[e].type
    BY DEF Rewritten
  <2>2. /\ c.summary.replies = Cardinality(pending_replies(b))
        /\ Cardinality(pending_replies(b)) \in Nat
    BY <1>0, PendingFinite DEF ReadyToEnd
  <2>3. CASE b.inbox[e].type = "task_reply"
    BY <1>0, <1>1, <2>1, <2>2, <2>3, CountsDrop DEF MinusFloor
  <2>4. CASE b.inbox[e].type # "task_reply"
    <3>1. pending_replies(c) = pending_replies(b)
      BY <1>0, <1>1, <2>4, CountsDrop
    <3> QED BY <2>1, <2>2, <2>4, <3>1 DEF MinusFloor
  <2> QED BY <2>3, <2>4
<1>4. ClearActive(c, e) = IF holds_lease(c) THEN c.lease.event ELSE 0
  <2>1. e # 0
    BY <1>0, PendingIds
  <2> QED BY <2>1 DEF ClearActive, ReadyToEnd, holds_lease, NoLease
<1>5. head = summary_head_from_event(c, head_pending_event(c))
  <2>1. head_pending_event(b) \in pending_events(b) /\ 0 \notin events(b)
    BY <1>0, HeadIsLeast, PendingIds
  <2>2. /\ c.summary.head = summary_head_from_event(b, head_pending_event(b))
        /\ c.summary.head.event = head_pending_event(b)
    BY <1>0, <2>1, PendingIds DEF ReadyToEnd, summary_head_from_event
  <2>3. CASE head_pending_event(b) # e
    <3>1. head_pending_event(b) \in events(b) \ {e}
      BY <2>1, <2>3 DEF pending_events
    <3>2. c.inbox[head_pending_event(b)] = b.inbox[head_pending_event(b)]
      BY <3>1 DEF Rewritten
    <3> QED BY <1>1, <2>2, <2>3, <3>2 DEF summary_head_from_event
  <2>4. CASE head_pending_event(b) = e
    <3>1. depth = 0 => pending_events(c) = {}
      BY <1>0, <1>2, PendingFinite, FS_EmptySet
    <3>2. depth = 0 => head_pending_event(c) = 0
      BY <1>0, <3>1, HeadIsLeast
    <3> QED BY <2>2, <2>4, <3>2 DEF summary_head_from_event
  <2> QED BY <2>3, <2>4
<1>6. build_mailbox_summary_record(c, depth, replies, ClearActive(c, e), head)
        = project_mailbox_summary(c)
  BY <1>2, <1>3, <1>4, <1>5, Zenon DEF project_mailbox_summary
<1>7. \/ terminal_summary(c, e) = rebuild_mailbox_summary(c)
      \/ terminal_summary(c, e) =
            [c EXCEPT !.summary = build_mailbox_summary_record(
                                    c, depth, replies, ClearActive(c, e), head)]
  BY Zenon DEF terminal_summary, apply_transition_summary_update
<1> HIDE DEF one, depth, replies, next, head
<1> QED BY <1>0, <1>6, <1>7, RebuildConsistent, SaveExact

\* Ending an event releases its lease and refreshes the summary.
LEMMA MarkTerminal ==
    ASSUME NEW b, NEW e, ReadyToEnd(b, e), NEW st \in TerminalStatuses
    PROVE  Consistent(mark_terminal(b, e, st))
<1> DEFINE a == append_status(b, e, st)
           c == release_matching_lease(a, e)
<1>0. b \in Mailbox /\ e \in pending_events(b) /\ e \in events(b)
      /\ st \in Statuses
  BY PendingIds DEF ReadyToEnd, Statuses
<1>1. /\ a \in Mailbox /\ events(a) = events(b)
      /\ a.lease = b.lease /\ a.summary = b.summary
      /\ a.inbox[e].type = b.inbox[e].type /\ a.inbox[e].status = st
      /\ \A f \in events(b) \ {e} : a.inbox[f] = b.inbox[f]
  <2>1. a = append_rewrite(b, e, st, b.inbox[e].ref) /\ b.inbox[e].ref \in Nat
    BY <1>0, StatusIsRewrite
  <2> HIDE DEF a, c
  <2>2. /\ a \in Mailbox /\ events(a) = events(b)
        /\ a.lease = b.lease /\ a.summary = b.summary
        /\ a.inbox[e] = [type |-> b.inbox[e].type, status |-> st,
                         ref |-> b.inbox[e].ref]
        /\ \A f \in events(b) \ {e} : a.inbox[f] = b.inbox[f]
    BY <1>0, <2>1, AppendRewrite
  <2> QED BY <2>2
<1>2. /\ c \in Mailbox /\ c.inbox = a.inbox /\ c.summary = a.summary
      /\ c.lease = IF holds_lease(a) /\ a.lease.event = e
                   THEN NoLease ELSE a.lease
  BY <1>1, ReleaseMatching
<1> HIDE DEF a, c
<1>3. Rewritten(b, c, e) /\ c.inbox[e].status = st
  BY <1>0, <1>1, <1>2, InboxReads DEF Rewritten
<1>4. c.lease = IF holds_lease(b) /\ b.lease.event = e
                THEN NoLease ELSE b.lease
  BY <1>1, <1>2 DEF holds_lease
<1>5. LeaseOK(c)
  <2>1. holds_lease(c) => /\ c.lease = b.lease
                          /\ holds_lease(b) /\ b.lease.event # e
    BY <1>4 DEF holds_lease, NoLease
  <2>2. holds_lease(c) => /\ c.lease.event \in pending_events(c)
                          /\ c.lease.event = head_pending_event(c)
    BY <1>3, <2>1, RewrittenTerminal DEF ReadyToEnd
  <2>3. \A f \in events(c) : c.inbox[f].status = "delivering" <=>
                                holds_lease(c) /\ c.lease.event = f
    <3>1. c.inbox[e].status # "delivering"
      BY <1>3 DEF TerminalStatuses
    <3>2. \A f \in events(b) \ {e} : /\ c.inbox[f] = b.inbox[f]
                                     /\ holds_lease(b) /\ b.lease.event = f
                                            <=> holds_lease(c) /\ c.lease.event = f
      BY <1>3, <1>4, <2>1 DEF Rewritten, holds_lease
    <3> QED BY <1>3, <2>1, <3>1, <3>2 DEF Rewritten, ReadyToEnd
  <2>4. c.lease.state = "none" => c.lease = NoLease
    BY <1>4 DEF ReadyToEnd
  <2> QED BY <2>2, <2>3, <2>4 DEF LeaseOK
<1>6. Consistent(terminal_summary(c, e))
  BY <1>1, <1>2, <1>3, <1>4, <1>5, TerminalSummary
<1> QED BY <1>0, <1>6 DEF mark_terminal, is_pending, a, c
\* mark_terminal keeps a mailbox consistent, whatever id it is given.
LEMMA MarkTerminalConsistent ==
    ASSUME NEW b, Consistent(b), NEW e, NEW st \in TerminalStatuses
    PROVE  Consistent(mark_terminal(b, e, st))
<1>1. CASE e \in pending_events(b)
  BY <1>1, ConsistentReady, MarkTerminal
<1>2. CASE e \notin pending_events(b)
  BY <1>2, RebuildConsistent DEF mark_terminal, is_pending, Consistent
<1> QED BY <1>1, <1>2
-----------------------------------------------------------------------------
(* The other operations.                                                   *)

\* A claim that succeeds leases the event it marks as delivering.
LEMMA ClaimSucceeds ==
    ASSUME NEW b, Consistent(b), NEW e, claim_succeeds(b, e)
    PROVE  Consistent(claim(b, e))
<1> DEFINE a == append_status(b, e, "delivering")
           c == save_lease(a, e)
<1>0. /\ b \in Mailbox /\ e \in pending_events(b) /\ e \in events(b)
      /\ e \in Nat /\ "delivering" \in Statuses
      /\ head_pending_event(b) = e
      /\ b.inbox[e].status # "delivering"
  BY PendingIds DEF Consistent, claim_succeeds, is_pending, Statuses, Claimable
<1>1. /\ a \in Mailbox /\ events(a) = events(b)
      /\ a.lease = b.lease /\ a.summary = b.summary
      /\ a.inbox[e] = [type |-> b.inbox[e].type, status |-> "delivering",
                       ref |-> b.inbox[e].ref]
      /\ \A f \in events(b) \ {e} : a.inbox[f] = b.inbox[f]
  <2>1. /\ a = append_rewrite(b, e, "delivering", b.inbox[e].ref)
        /\ b.inbox[e].ref \in Nat
    BY <1>0, StatusIsRewrite
  <2> HIDE DEF a, c
  <2> QED BY <1>0, <2>1, AppendRewrite
<1>2. /\ c \in Mailbox /\ c.inbox = a.inbox /\ c.summary = b.summary
      /\ c.lease.event = e /\ c.lease.state = "acquired"
  <2> HIDE DEF a
  <2>1. next_lease_version(a) \in Nat
    BY <1>1 DEF next_lease_version, Mailbox, Lease, Summary
  <2> QED BY <1>0, <1>1, <2>1 DEF save_lease, Mailbox, Lease
<1> HIDE DEF a, c
<1>3. Rewritten(b, c, e) /\ c.inbox[e].status = "delivering"
  BY <1>0, <1>1, <1>2, InboxReads DEF Rewritten
<1>4. /\ pending_events(c) = pending_events(b)
      /\ pending_replies(c) = pending_replies(b)
      /\ head_pending_event(c) = e
  BY <1>0, <1>3, RewrittenPending DEF TerminalStatuses
<1>5. ~holds_lease(b)
  BY <1>0 DEF claim_succeeds, Consistent, LeaseOK
<1>6. LeaseOK(c)
  BY <1>0, <1>2, <1>3, <1>4, <1>5
     DEF LeaseOK, holds_lease, Consistent, Rewritten, NoLease
<1>7. /\ b.summary.depth = Cardinality(pending_events(c))
      /\ b.summary.replies = Cardinality(pending_replies(c))
  BY <1>0, <1>4, ConsistentReady DEF ReadyToEnd
<1>8. build_mailbox_summary_record(c, c.summary.depth, c.summary.replies, e,
                                   summary_head_from_event(c, e)) =
        project_mailbox_summary(c)
  BY <1>2, <1>4, <1>7 DEF project_mailbox_summary, holds_lease
<1>9. Consistent(claim_summary(c, e))
  BY <1>2, <1>6, <1>8, RebuildConsistent, SaveExact
     DEF claim_summary, apply_transition_summary_update
<1> QED BY <1>9 DEF claim, a, c

\* A claim keeps the mailbox consistent, whether it succeeds or not.
LEMMA ClaimConsistent ==
    ASSUME NEW b, Consistent(b), NEW e
    PROVE  Consistent(claim(b, e))
<1>1. CASE claim_succeeds(b, e)
  BY <1>1, ClaimSucceeds
<1>2. CASE ~claim_succeeds(b, e)
  BY <1>2, RebuildConsistent DEF claim, Consistent
<1> QED BY <1>1, <1>2

\* So does a claim of the head of a type.
LEMMA ClaimNextConsistent ==
    ASSUME NEW b, Consistent(b), NEW type
    PROVE  Consistent(claim_next(b, type))
BY ClaimConsistent, RebuildConsistent DEF claim_next, Consistent

\* So does the acknowledgement of a reply.
LEMMA AckReplyConsistent ==
    ASSUME NEW b, Consistent(b), NEW e
    PROVE  Consistent(ack_reply(b, e))
<1>1. "consumed" \in TerminalStatuses
  BY DEF TerminalStatuses
<1>2. /\ Consistent(claim(b, e))
      /\ Consistent(rebuild_mailbox_summary(b))
      /\ Consistent(mark_terminal(b, e, "consumed"))
  BY <1>1, ClaimConsistent, RebuildConsistent, MarkTerminalConsistent
     DEF Consistent
<1>3. /\ Consistent(mark_terminal(claim(b, e), e, "consumed"))
      /\ Consistent(rebuild_mailbox_summary(claim(b, e)))
  BY <1>1, <1>2, RebuildConsistent, MarkTerminalConsistent DEF Consistent
<1> QED BY <1>2, <1>3 DEF ack_reply

\* So does the return of a head to the queue.
LEMMA RewriteHeadConsistent ==
    ASSUME NEW b, Consistent(b), NEW e, NEW ref \in Nat
    PROVE  Consistent(rewrite_head(b, e, "queued", ref))
<1> DEFINE a == append_rewrite(b, e, "queued", ref)
           c == release_matching_lease(a, e)
<1>1. CASE e \notin pending_events(b)
  BY <1>1, RebuildConsistent DEF rewrite_head, is_pending, Consistent
<1>2. CASE e \in pending_events(b)
  <2>0. /\ b \in Mailbox /\ e \in events(b) /\ e # 0
        /\ "queued" \in Statuses
    BY <1>2, PendingIds DEF Consistent, Statuses, Claimable
  <2>1. /\ a \in Mailbox /\ events(a) = events(b)
        /\ a.lease = b.lease /\ a.summary = b.summary
        /\ a.inbox[e] = [type |-> b.inbox[e].type, status |-> "queued",
                         ref |-> ref]
        /\ \A f \in events(b) \ {e} : a.inbox[f] = b.inbox[f]
    BY <2>0, AppendRewrite
  <2>2. /\ c \in Mailbox /\ c.inbox = a.inbox /\ c.summary = b.summary
        /\ c.lease = IF holds_lease(b) /\ b.lease.event = e
                     THEN NoLease ELSE b.lease
    BY <2>1, ReleaseMatching DEF holds_lease
  <2> HIDE DEF a, c
  <2>3. Rewritten(b, c, e) /\ c.inbox[e].status = "queued"
    BY <1>2, <2>0, <2>1, <2>2, InboxReads DEF Rewritten
  <2>4. /\ pending_events(c) = pending_events(b)
        /\ pending_replies(c) = pending_replies(b)
        /\ head_pending_event(c) = head_pending_event(b)
    BY <2>3, RewrittenPending DEF TerminalStatuses
  <2>5. LeaseOK(c)
    BY <1>2, <2>0, <2>2, <2>3, <2>4
       DEF LeaseOK, holds_lease, Consistent, Rewritten, NoLease
  <2>6. /\ b.summary.depth = Cardinality(pending_events(c))
        /\ b.summary.replies = Cardinality(pending_replies(c))
        /\ b.summary.head =
                summary_head_from_event(b, head_pending_event(b))
        /\ \/ b.summary.active = IF holds_lease(b) THEN b.lease.event ELSE 0
           \/ b.summary.active = e /\ ~holds_lease(b)
    BY <1>2, <2>4, ConsistentReady DEF ReadyToEnd
  <2>7. ClearActive(c, e) = IF holds_lease(c) THEN c.lease.event ELSE 0
    BY <2>0, <2>2, <2>6 DEF ClearActive, holds_lease, NoLease
  <2>8. c.summary.head.event = e => head_pending_event(c) = e
    BY <1>2, <2>0, <2>2, <2>4, <2>6, HeadIsLeast
       DEF summary_head_from_event, EmptyHead
  <2>9. c.summary.head.event = e =>
            build_mailbox_summary_record(
                c, c.summary.depth, c.summary.replies, ClearActive(c, e),
                summary_head_from_event(c, e)) = project_mailbox_summary(c)
    BY <2>2, <2>6, <2>7, <2>8 DEF project_mailbox_summary
  <2>10. Consistent(rewrite_summary(c, e))
    BY <2>2, <2>5, <2>9, RebuildConsistent, SaveExact
       DEF rewrite_summary, apply_transition_summary_update
  <2> QED BY <1>2, <2>10 DEF rewrite_head, is_pending, a, c
<1> QED BY <1>1, <1>2

\* So does the expiry of a lease.
LEMMA ExpireLeaseConsistent ==
    ASSUME NEW b, Consistent(b)
    PROVE  Consistent(expire_lease(b))
<1> DEFINE c == [b EXCEPT !.lease.state = "expired"]
           e == b.lease.event
<1>1. CASE ~holds_lease(b)
  BY <1>1 DEF expire_lease
<1>2. CASE holds_lease(b)
  <2>1. is_pending(b, e)
    BY <1>2 DEF Consistent, LeaseOK, is_pending
  <2>2. /\ c \in Mailbox /\ c.inbox = b.inbox /\ c.summary = b.summary
        /\ c.lease.event = e /\ c.lease.state = "expired"
    BY DEF Consistent, Mailbox, Lease
  <2> HIDE DEF c
  <2>3. ReadyToEnd(b, e)
    BY <2>1, ConsistentReady DEF is_pending
  <2>4. ReadyToEnd(c, e)
    BY <1>2, <2>2, <2>3, InboxReads DEF ReadyToEnd, holds_lease
  <2>5. Consistent(mark_terminal(c, e, "abandoned"))
    BY <2>4, MarkTerminal DEF TerminalStatuses
  <2> QED BY <1>2, <2>1, <2>5 DEF expire_lease, c
<1> QED BY <1>1, <1>2
\* A queued event enters the mailbox.
LEMMA RecordInboundConsistent ==
    ASSUME NEW b, Consistent(b), NEW type \in EventTypes, NEW ref \in Nat
    PROVE  Consistent(record_inbound(b, type, ref))
<1> DEFINE c == append_event(b, type, "queued", ref)
           n == Len(b.inbox) + 1
           one == IF type = "task_reply" THEN 1 ELSE 0
<1>0. b \in Mailbox /\ "queued" \in Statuses
  BY DEF Consistent, Statuses, Claimable
<1>1. /\ c \in Mailbox /\ n \in Nat
      /\ events(c) = events(b) \cup {n} /\ n \notin events(b)
      /\ \A f \in events(b) : f < n
      /\ c.lease = b.lease /\ c.summary = b.summary
      /\ c.inbox[n] = [type |-> type, status |-> "queued", ref |-> ref]
      /\ \A f \in events(b) : c.inbox[f] = b.inbox[f]
  BY <1>0, AppendEvent
<1> HIDE DEF c, n
<1>2. /\ pending_events(c) = pending_events(b) \cup {n}
      /\ n \notin pending_events(b)
      /\ pending_replies(c) = IF type = "task_reply"
                              THEN pending_replies(b) \cup {n}
                              ELSE pending_replies(b)
      /\ n \notin pending_replies(b)
  BY <1>1 DEF pending_events, pending_replies, TerminalStatuses
<1>3. pending_events(b) # {} => head_pending_event(c) = head_pending_event(b)
  <2>1. ASSUME pending_events(b) # {}
        PROVE  head_pending_event(c) = head_pending_event(b)
    <3>1. /\ head_pending_event(b) \in pending_events(b)
          /\ \A f \in pending_events(b) : head_pending_event(b) <= f
          /\ head_pending_event(b) \in events(b)
      BY <1>0, <2>1, HeadIsLeast, PendingIds
    <3>2. head_pending_event(b) <= n
      BY <1>0, <1>1, <3>1, PendingIds
    <3> QED BY <1>1, <1>2, <3>1, <3>2, LeastIsHead
  <2> QED BY <2>1
<1>4. LeaseOK(c)
  BY <1>1, <1>2, <1>3 DEF LeaseOK, Consistent, holds_lease, pending_events
<1>5. /\ Cardinality(pending_events(c)) = Cardinality(pending_events(b)) + 1
      /\ Cardinality(pending_replies(c)) =
            Cardinality(pending_replies(b)) + one
  <2>1. \A S : IsFiniteSet(S) /\ n \notin S =>
                    Cardinality(S \cup {n}) = Cardinality(S) + 1
    BY FS_AddElement
  <2>2. Cardinality(pending_replies(b)) + 0 = Cardinality(pending_replies(b))
    BY <1>0, PendingFinite
  <2> QED BY <1>0, <1>2, <2>1, <2>2, PendingFinite
<1>6. /\ c.summary.depth = Cardinality(pending_events(b))
      /\ c.summary.replies = Cardinality(pending_replies(b))
      /\ c.summary.active = IF holds_lease(c) THEN c.lease.event ELSE 0
  <2>1. CASE b.summary.present
    BY <1>1, <2>1 DEF Consistent, SummaryOK, project_mailbox_summary,
                      build_mailbox_summary_record, holds_lease
  <2>2. CASE ~b.summary.present
    <3>1. pending_events(b) = {} /\ pending_replies(b) = {}
      BY <2>2 DEF Consistent, SummaryOK, pending_replies
    <3> QED BY <1>1, <2>2, <3>1, FS_EmptySet
            DEF Consistent, SummaryOK, NoSummary, holds_lease
  <2> QED BY <2>1, <2>2
<1>7. build_mailbox_summary_record(
            c, c.summary.depth + 1, c.summary.replies + one, c.summary.active,
            summary_head_from_event(c, head_pending_event(c))) =
        project_mailbox_summary(c)
  BY <1>5, <1>6 DEF project_mailbox_summary
<1> HIDE DEF one
<1>8. Consistent([c EXCEPT !.summary =
        build_mailbox_summary_record(
            c, c.summary.depth + 1, c.summary.replies + one, c.summary.active,
            summary_head_from_event(c, head_pending_event(c)))])
  BY <1>1, <1>4, <1>7, SaveExact
<1> QED BY <1>8 DEF record_inbound, apply_incremental_summary_update, c, one

\* An event that is recorded already consumed.
LEMMA ConsumedNoticeConsistent ==
    ASSUME NEW b, Consistent(b), NEW c,
           c = append_event(b, "completion_notice", "consumed", 0)
    PROVE  Consistent(c)
<1> DEFINE n == Len(b.inbox) + 1
<1>0. /\ b \in Mailbox /\ "consumed" \in Statuses
      /\ "completion_notice" \in EventTypes
  BY DEF Consistent, Statuses, TerminalStatuses, EventTypes
<1>1. /\ c \in Mailbox /\ n \in Nat
      /\ events(c) = events(b) \cup {n} /\ n \notin events(b)
      /\ c.lease = b.lease /\ c.summary = b.summary
      /\ c.inbox[n] = [type |-> "completion_notice", status |-> "consumed",
                       ref |-> 0]
      /\ \A f \in events(b) : c.inbox[f] = b.inbox[f]
  BY <1>0, AppendEvent
<1> HIDE DEF n
<1>2. /\ pending_events(c) = pending_events(b)
      /\ pending_replies(c) = pending_replies(b)
  BY <1>1 DEF pending_events, pending_replies, TerminalStatuses
<1>3. /\ head_pending_event(c) = head_pending_event(b)
      /\ head_pending_event(b) \in events(b) \cup {0}
  BY <1>0, <1>2, HeadIsLeast, PendingIds DEF head_pending_event
<1>4. summary_head_from_event(c, head_pending_event(c)) =
        summary_head_from_event(b, head_pending_event(b))
  BY <1>1, <1>3 DEF summary_head_from_event
<1>5. holds_lease(c) = holds_lease(b)
  BY <1>1 DEF holds_lease
<1>6. project_mailbox_summary(c) = project_mailbox_summary(b)
  BY <1>1, <1>2, <1>4, <1>5
     DEF project_mailbox_summary, build_mailbox_summary_record
<1>7. LeaseOK(c)
  BY <1>1, <1>2, <1>3, <1>5, <1>0, PendingIds
     DEF LeaseOK, Consistent
<1> QED BY <1>1, <1>2, <1>6, <1>7 DEF Consistent, SummaryOK
-----------------------------------------------------------------------------
(* What one operation does to the lane and to the lease.                   *)

Serving(b) == IF holds_lease(b) THEN b.lease.event ELSE 0

SameLane(b, c) ==
    /\ Len(c.inbox) = Len(b.inbox)
    /\ pending_events(c) = pending_events(b)

LaneStep(b, c) ==
    \/ SameLane(b, c) /\ Serving(c) = Serving(b)
    \/ /\ Len(c.inbox) = Len(b.inbox) + 1
       /\ pending_events(c) \in
            {pending_events(b), pending_events(b) \cup {Len(b.inbox) + 1}}
       /\ Serving(c) = Serving(b)
    \/ \E e \in pending_events(b) :
          /\ SameLane(b, c)
          /\ Serving(b) = 0
          /\ \A f \in pending_events(b) : e <= f
          /\ Serving(c) = e
    \/ \E e \in pending_events(b) :
          /\ Len(c.inbox) = Len(b.inbox)
          /\ pending_events(c) = pending_events(b) \ {e}
          /\ Serving(c) = IF Serving(b) = e THEN 0 ELSE Serving(b)
    \/ SameLane(b, c) /\ Serving(c) = 0

GrantGrows(b, c) ==
    c.lease # b.lease /\ c.lease.state = "acquired" =>
        /\ c.lease.version > b.lease.version
        /\ c.lease.version > b.summary.lease_version

StepOK(b, c) == LaneStep(b, c) /\ GrantGrows(b, c)

\* No write of the summary touches the inbox or the lease.
LEMMA SummaryWrites ==
    ASSUME NEW b \in Mailbox, NEW e
    PROVE  /\ rebuild_mailbox_summary(b).inbox = b.inbox
           /\ rebuild_mailbox_summary(b).lease = b.lease
           /\ claim_summary(b, e).inbox = b.inbox
           /\ claim_summary(b, e).lease = b.lease
           /\ terminal_summary(b, e).inbox = b.inbox
           /\ terminal_summary(b, e).lease = b.lease
           /\ rewrite_summary(b, e).inbox = b.inbox
           /\ rewrite_summary(b, e).lease = b.lease
           /\ apply_incremental_summary_update(b, e).inbox = b.inbox
           /\ apply_incremental_summary_update(b, e).lease = b.lease
<1>1. \A s : /\ [b EXCEPT !.summary = s].inbox = b.inbox
             /\ [b EXCEPT !.summary = s].lease = b.lease
  BY DEF Mailbox
<1>2. /\ rebuild_mailbox_summary(b).inbox = b.inbox
      /\ rebuild_mailbox_summary(b).lease = b.lease
  BY <1>1 DEF rebuild_mailbox_summary
<1>3. \A d, r, a, h :
        /\ apply_transition_summary_update(b, d, r, a, h).inbox = b.inbox
        /\ apply_transition_summary_update(b, d, r, a, h).lease = b.lease
  BY <1>1 DEF apply_transition_summary_update
<1>4. /\ claim_summary(b, e).inbox = b.inbox
      /\ claim_summary(b, e).lease = b.lease
  BY <1>2, <1>3 DEF claim_summary
<1>5. /\ terminal_summary(b, e).inbox = b.inbox
      /\ terminal_summary(b, e).lease = b.lease
  BY <1>2, <1>3 DEF terminal_summary
<1>6. /\ rewrite_summary(b, e).inbox = b.inbox
      /\ rewrite_summary(b, e).lease = b.lease
  BY <1>2, <1>3 DEF rewrite_summary
<1>7. /\ apply_incremental_summary_update(b, e).inbox = b.inbox
      /\ apply_incremental_summary_update(b, e).lease = b.lease
  BY <1>1 DEF apply_incremental_summary_update
<1> QED BY <1>2, <1>4, <1>5, <1>6, <1>7

\* What touches neither inbox nor lease is no step of the lane.
LEMMA KeepsLane ==
    ASSUME NEW b, NEW c, c.inbox = b.inbox, c.lease = b.lease
    PROVE  StepOK(b, c)
BY InboxReads DEF StepOK, LaneStep, SameLane, Serving, holds_lease, GrantGrows

\* A refresh of the summary is no step of the lane.
LEMMA RefreshStep ==
    ASSUME NEW b \in Mailbox
    PROVE  StepOK(b, rebuild_mailbox_summary(b))
BY SummaryWrites, KeepsLane

\* What mark_terminal leaves of the pending events and of the lease.
LEMMA TerminalOutcome ==
    ASSUME NEW b \in Mailbox, NEW e \in pending_events(b),
           NEW st \in TerminalStatuses, NEW c, c = mark_terminal(b, e, st)
    PROVE  /\ Len(c.inbox) = Len(b.inbox)
           /\ pending_events(c) = pending_events(b) \ {e}
           /\ c.lease = IF holds_lease(b) /\ b.lease.event = e
                        THEN NoLease ELSE b.lease
<1> DEFINE a == append_status(b, e, st)
           d == release_matching_lease(a, e)
<1>0. e \in events(b) /\ st \in Statuses
  BY PendingIds DEF Statuses
<1>1. a = append_rewrite(b, e, st, b.inbox[e].ref) /\ b.inbox[e].ref \in Nat
  BY <1>0, StatusIsRewrite
<1>2. c = terminal_summary(d, e)
  BY DEF mark_terminal, is_pending
<1> HIDE DEF a
<1>3. /\ a \in Mailbox /\ events(a) = events(b)
      /\ Len(a.inbox) = Len(b.inbox)
      /\ a.lease = b.lease
      /\ a.inbox[e] = [type |-> b.inbox[e].type, status |-> st,
                       ref |-> b.inbox[e].ref]
      /\ \A f \in events(b) \ {e} : a.inbox[f] = b.inbox[f]
  BY <1>0, <1>1, AppendRewrite
<1>4. d \in Mailbox /\ d.inbox = a.inbox
      /\ d.lease = IF holds_lease(b) /\ b.lease.event = e
                   THEN NoLease ELSE b.lease
  BY <1>3, ReleaseMatching DEF holds_lease
<1> HIDE DEF d
<1>5. pending_events(a) = pending_events(b) \ {e}
  BY <1>3, RewrittenTerminal, SMTT(20) DEF Rewritten
<1> QED BY <1>2, <1>3, <1>4, <1>5, SummaryWrites, InboxReads

\* The end of an event is a step of the lane.
LEMMA TerminalStep ==
    ASSUME NEW b, Consistent(b), NEW e, NEW st \in TerminalStatuses
    PROVE  StepOK(b, mark_terminal(b, e, st))
<1>0. b \in Mailbox
  BY DEF Consistent
<1>1. CASE e \in pending_events(b)
  <2> DEFINE c == mark_terminal(b, e, st)
  <2>1. /\ Len(c.inbox) = Len(b.inbox)
        /\ pending_events(c) = pending_events(b) \ {e}
        /\ c.lease = IF holds_lease(b) /\ b.lease.event = e
                     THEN NoLease ELSE b.lease
    BY <1>0, <1>1, TerminalOutcome
  <2> HIDE DEF c
  <2>2. e # 0
    BY <1>0, <1>1, PendingIds
  <2>3. Serving(c) = IF Serving(b) = e THEN 0 ELSE Serving(b)
    BY <2>1, <2>2 DEF Serving, holds_lease, NoLease
  <2>4. GrantGrows(b, c)
    BY <2>1 DEF GrantGrows, NoLease
  <2>5. StepOK(b, c)
    BY <1>1, <2>1, <2>3, <2>4 DEF StepOK, LaneStep
  <2> QED BY <2>5 DEF c
<1>2. CASE e \notin pending_events(b)
  BY <1>0, <1>2, RefreshStep DEF mark_terminal, is_pending
<1> QED BY <1>1, <1>2
\* What a claim leaves of the pending events and of the lease.
LEMMA ClaimOutcome ==
    ASSUME NEW b, Consistent(b), NEW e, claim_succeeds(b, e),
           NEW c, c = claim(b, e)
    PROVE  /\ SameLane(b, c)
           /\ c.lease = [event |-> e, version |-> next_lease_version(b),
                         state |-> "acquired"]
<1> DEFINE a == append_status(b, e, "delivering")
           d == save_lease(a, e)
<1>0. /\ b \in Mailbox /\ e \in pending_events(b) /\ e \in events(b)
      /\ e \in Nat /\ "delivering" \in Statuses
  BY PendingIds DEF Consistent, claim_succeeds, is_pending, Statuses
<1>1. /\ a = append_rewrite(b, e, "delivering", b.inbox[e].ref)
      /\ b.inbox[e].ref \in Nat
  BY <1>0, StatusIsRewrite
<1>2. c = claim_summary(d, e)
  BY DEF claim
<1> HIDE DEF a
<1>3. /\ a \in Mailbox /\ events(a) = events(b)
      /\ Len(a.inbox) = Len(b.inbox)
      /\ a.lease = b.lease /\ a.summary = b.summary
      /\ a.inbox[e] = [type |-> b.inbox[e].type, status |-> "delivering",
                       ref |-> b.inbox[e].ref]
      /\ \A f \in events(b) \ {e} : a.inbox[f] = b.inbox[f]
  BY <1>0, <1>1, AppendRewrite
<1>4. next_lease_version(a) = next_lease_version(b)
      /\ next_lease_version(b) \in Nat
  BY <1>0, <1>3 DEF next_lease_version, Mailbox, Lease, Summary
<1>5. /\ d \in Mailbox /\ d.inbox = a.inbox
      /\ d.lease = [event |-> e, version |-> next_lease_version(b),
                    state |-> "acquired"]
  BY <1>0, <1>3, <1>4 DEF save_lease, Mailbox, Lease
<1> HIDE DEF d
<1>6. pending_events(a) = pending_events(b)
  BY <1>0, <1>3, RewrittenPending, SMTT(30) DEF Rewritten, TerminalStatuses
<1> QED BY <1>2, <1>3, <1>5, <1>6, SummaryWrites, InboxReads DEF SameLane

\* A claim is a step of the lane.
LEMMA ClaimStep ==
    ASSUME NEW b, Consistent(b), NEW e
    PROVE  StepOK(b, claim(b, e))
<1>0. b \in Mailbox
  BY DEF Consistent
<1>1. CASE claim_succeeds(b, e)
  <2> DEFINE c == claim(b, e)
  <2>1. /\ SameLane(b, c)
        /\ c.lease = [event |-> e, version |-> next_lease_version(b),
                      state |-> "acquired"]
    BY <1>1, ClaimOutcome
  <2> HIDE DEF c
  <2>2. /\ e \in pending_events(b)
        /\ \A f \in pending_events(b) : e <= f
    BY <1>0, <1>1, HeadIsLeast DEF claim_succeeds, is_pending
  <2>3. ~holds_lease(b)
    BY <1>1, <2>2 DEF claim_succeeds, Claimable, Consistent, LeaseOK,
                      pending_events
  <2>4. Serving(b) = 0 /\ Serving(c) = e
    BY <2>1, <2>3 DEF Serving, holds_lease
  <2>5. GrantGrows(b, c)
    <3>1. CASE b.lease.state = "none"
      BY <1>0, <2>1, <3>1 DEF GrantGrows, next_lease_version, Consistent,
                              LeaseOK, NoLease, Mailbox, Summary
    <3>2. CASE b.lease.state # "none"
      <4>1. b.summary.lease_version = b.lease.version
        BY <3>2 DEF Consistent, SummaryOK, project_mailbox_summary,
                    build_mailbox_summary_record
      <4> QED BY <1>0, <2>1, <3>2, <4>1
              DEF GrantGrows, next_lease_version, Mailbox, Lease
    <3> QED BY <3>1, <3>2
  <2>6. StepOK(b, c)
    BY <2>1, <2>2, <2>4, <2>5 DEF StepOK, LaneStep
  <2> QED BY <2>6 DEF c
<1>2. CASE ~claim_succeeds(b, e)
  BY <1>0, <1>2, RefreshStep DEF claim
<1> QED BY <1>1, <1>2

\* A claim of the head of a type is a step of the lane.
LEMMA ClaimNextStep ==
    ASSUME NEW b, Consistent(b), NEW type
    PROVE  StepOK(b, claim_next(b, type))
BY ClaimStep, RefreshStep DEF claim_next, Consistent

\* An ack that claims and consumes in one call is one Leave of the lane.
LEMMA AckReplyStep ==
    ASSUME NEW b, Consistent(b), NEW e
    PROVE  StepOK(b, ack_reply(b, e))
<1>0. b \in Mailbox /\ "consumed" \in TerminalStatuses
  BY DEF Consistent, TerminalStatuses
<1>1. CASE head_pending_event(b) # e \/ b.inbox[e].type # "task_reply"
  BY <1>0, <1>1, RefreshStep DEF ack_reply
<1>2. CASE /\ ~(head_pending_event(b) # e \/ b.inbox[e].type # "task_reply")
           /\ b.inbox[e].status = "delivering"
  BY <1>0, <1>2, TerminalStep DEF ack_reply
<1>3. CASE /\ ~(head_pending_event(b) # e \/ b.inbox[e].type # "task_reply")
           /\ b.inbox[e].status # "delivering"
           /\ claim_returns(b, e)
  <2> DEFINE d == claim(b, e)
             c == mark_terminal(d, e, "consumed")
  <2>1. claim_succeeds(b, e)
    BY <1>3 DEF claim_returns
  <2>2. /\ SameLane(b, d) /\ Consistent(d)
        /\ d.lease.event = e /\ d.lease.state = "acquired"
    <3>1. /\ SameLane(b, d)
          /\ d.lease = [event |-> e, version |-> next_lease_version(b),
                        state |-> "acquired"]
      BY <2>1, ClaimOutcome
    <3>2. Consistent(d)
      BY ClaimConsistent
    <3> HIDE DEF d
    <3> QED BY <3>1, <3>2
  <2> HIDE DEF d
  <2>3. e \in pending_events(b) /\ e \in pending_events(d) /\ d \in Mailbox
    BY <2>1, <2>2 DEF claim_succeeds, is_pending, SameLane, Consistent
  <2>4. /\ Len(c.inbox) = Len(b.inbox)
        /\ pending_events(c) = pending_events(b) \ {e}
        /\ c.lease = NoLease
    BY <1>0, <2>2, <2>3, TerminalOutcome DEF SameLane, holds_lease
  <2> HIDE DEF c
  <2>5. ~holds_lease(b)
    BY <1>3, <2>1, <2>3 DEF claim_succeeds, Consistent, LeaseOK,
                            pending_events
  <2>6. Serving(c) = 0 /\ Serving(b) = 0
    BY <2>4, <2>5 DEF Serving, holds_lease, NoLease
  <2>7. GrantGrows(b, c)
    BY <2>4 DEF GrantGrows, NoLease
  <2>8. StepOK(b, c)
    BY <2>3, <2>4, <2>6, <2>7 DEF StepOK, LaneStep
  <2> QED BY <1>3, <2>8 DEF ack_reply, c, d
<1>4. CASE /\ ~(head_pending_event(b) # e \/ b.inbox[e].type # "task_reply")
           /\ b.inbox[e].status # "delivering"
           /\ ~claim_returns(b, e)
  <2>1. claim(b, e) = rebuild_mailbox_summary(b)
    BY <1>4 DEF claim, claim_returns
  <2>2. rebuild_mailbox_summary(b) \in Mailbox
    BY <1>0, RebuildConsistent DEF Consistent
  <2>3. ack_reply(b, e) = rebuild_mailbox_summary(rebuild_mailbox_summary(b))
    BY <1>4, <2>1 DEF ack_reply
  <2> QED BY <1>0, <2>2, <2>3, SummaryWrites, KeepsLane
<1> QED BY <1>1, <1>2, <1>3, <1>4

\* The return of a head to the queue is a step of the lane.
LEMMA RewriteHeadStep ==
    ASSUME NEW b, Consistent(b), NEW e, NEW ref \in Nat
    PROVE  StepOK(b, rewrite_head(b, e, "queued", ref))
<1> DEFINE a == append_rewrite(b, e, "queued", ref)
           d == release_matching_lease(a, e)
           c == rewrite_summary(d, e)
<1>0. b \in Mailbox
  BY DEF Consistent
<1>1. CASE e \notin pending_events(b)
  BY <1>0, <1>1, RefreshStep DEF rewrite_head, is_pending
<1>2. CASE e \in pending_events(b)
  <2>0. e \in events(b) /\ e # 0 /\ "queued" \in Statuses
    BY <1>0, <1>2, PendingIds DEF Statuses, Claimable
  <2>1. /\ a \in Mailbox /\ events(a) = events(b)
        /\ Len(a.inbox) = Len(b.inbox) /\ a.lease = b.lease
        /\ a.inbox[e] = [type |-> b.inbox[e].type, status |-> "queued",
                         ref |-> ref]
        /\ \A f \in events(b) \ {e} : a.inbox[f] = b.inbox[f]
    BY <1>0, <2>0, AppendRewrite
  <2> HIDE DEF a
  <2>2. /\ d \in Mailbox /\ d.inbox = a.inbox
        /\ d.lease = IF holds_lease(b) /\ b.lease.event = e
                     THEN NoLease ELSE b.lease
    BY <2>1, ReleaseMatching DEF holds_lease
  <2> HIDE DEF d
  <2>3. pending_events(a) = pending_events(b)
    BY <1>0, <1>2, <2>1, RewrittenPending DEF Rewritten, TerminalStatuses
  <2>4. SameLane(b, c) /\ c.lease = d.lease
    BY <2>1, <2>2, <2>3, SummaryWrites, InboxReads DEF SameLane
  <2> HIDE DEF c
  <2>5. Serving(c) = 0 \/ Serving(c) = Serving(b)
    BY <2>2, <2>4 DEF Serving, holds_lease, NoLease
  <2>6. GrantGrows(b, c)
    BY <2>2, <2>4 DEF GrantGrows, NoLease
  <2>7. StepOK(b, c)
    BY <2>4, <2>5, <2>6 DEF StepOK, LaneStep
  <2> QED BY <1>2, <2>7 DEF rewrite_head, is_pending, a, c, d
<1> QED BY <1>1, <1>2

\* The expiry of a lease is a step of the lane.
LEMMA ExpireLeaseStep ==
    ASSUME NEW b, Consistent(b)
    PROVE  StepOK(b, expire_lease(b))
<1> DEFINE d == [b EXCEPT !.lease.state = "expired"]
           e == b.lease.event
           c == mark_terminal(d, e, "abandoned")
<1>1. CASE ~holds_lease(b)
  BY <1>1, KeepsLane DEF expire_lease
<1>2. CASE holds_lease(b)
  <2>1. e \in pending_events(b)
    BY <1>2 DEF Consistent, LeaseOK
  <2>2. /\ d \in Mailbox /\ d.inbox = b.inbox
        /\ d.lease.state = "expired"
    BY DEF Consistent, Mailbox, Lease
  <2> HIDE DEF d
  <2>3. /\ Len(c.inbox) = Len(b.inbox)
        /\ pending_events(c) = pending_events(b) \ {e}
        /\ c.lease = d.lease
    BY <2>1, <2>2, TerminalOutcome, InboxReads
       DEF holds_lease, TerminalStatuses
  <2> HIDE DEF c
  <2>4. Serving(b) = e /\ Serving(c) = 0
    BY <1>2, <2>2, <2>3 DEF Serving, holds_lease
  <2>5. GrantGrows(b, c)
    BY <2>2, <2>3 DEF GrantGrows
  <2>6. StepOK(b, c)
    BY <2>1, <2>3, <2>4, <2>5 DEF StepOK, LaneStep
  <2> QED BY <1>2, <2>1, <2>6 DEF expire_lease, is_pending, c, d
<1> QED BY <1>1, <1>2

\* Recording an event, queued or consumed, is an arrival.
LEMMA RecordStep ==
    ASSUME NEW b, Consistent(b), NEW type \in EventTypes,
           NEW st \in {"queued", "consumed"}, NEW ref \in Nat, NEW c,
           c.inbox = append_event(b, type, st, ref).inbox,
           c.lease = append_event(b, type, st, ref).lease
    PROVE  StepOK(b, c)
<1> DEFINE a == append_event(b, type, st, ref)
           n == Len(b.inbox) + 1
<1>0. b \in Mailbox /\ st \in Statuses
  BY DEF Consistent, Statuses, Claimable, TerminalStatuses
<1>1. /\ Len(a.inbox) = n /\ a.lease = b.lease
      /\ events(a) = events(b) \cup {n} /\ n \notin events(b)
      /\ a.inbox[n] = [type |-> type, status |-> st, ref |-> ref]
      /\ \A f \in events(b) : a.inbox[f] = b.inbox[f]
  BY <1>0, AppendEvent
<1> HIDE DEF a
<1>2. pending_events(a) \in {pending_events(b), pending_events(b) \cup {n}}
  BY <1>1 DEF pending_events
<1>3. c.inbox = a.inbox /\ c.lease = b.lease
  BY <1>1 DEF a
<1> QED BY <1>1, <1>2, <1>3, InboxReads
        DEF StepOK, LaneStep, Serving, holds_lease, GrantGrows
-----------------------------------------------------------------------------
(* What a user of the mailbox sees of an operation: the requests, which of *)
(* them are pending, and the one that is served.                           *)

SameEvents(b, c) ==
    /\ Len(c.inbox) = Len(b.inbox)
    /\ \A e \in events(b) : /\ c.inbox[e].ref = b.inbox[e].ref
                            /\ c.inbox[e].type = b.inbox[e].type

\* A mailbox nothing has entered is consistent.
LEMMA EmptyConsistent == Consistent(EmptyMailbox)
<1> DEFINE b == EmptyMailbox
<1>1. b \in Mailbox
  BY DEF EmptyMailbox, Mailbox, NoLease, Lease, NoSummary, Summary,
         EmptyHead, SummaryHead
<1>2. events(b) = {} /\ pending_events(b) = {}
  BY DEF EmptyMailbox, events, pending_events
<1>3. LeaseOK(b) /\ SummaryOK(b)
  BY <1>2 DEF EmptyMailbox, LeaseOK, SummaryOK, NoLease, holds_lease, NoSummary
<1> QED BY <1>1, <1>3 DEF Consistent

\* The event that is served is the head, and pending events that are not
\* served can be claimed.
LEMMA ServedIsHead ==
    ASSUME NEW b, Consistent(b)
    PROVE  /\ Serving(b) # 0 <=> holds_lease(b)
           /\ Serving(b) # 0 => /\ Serving(b) \in pending_events(b)
                                /\ Serving(b) = head_pending_event(b)
                                /\ Serving(b) = b.lease.event
                                /\ b.inbox[Serving(b)].status = "delivering"
           /\ \A e \in pending_events(b) :
                e # Serving(b) => b.inbox[e].status \in Claimable
           /\ \A e \in pending_events(b) :
                b.inbox[e].status \in Claimable => e # Serving(b)
<1>1. b \in Mailbox /\ LeaseOK(b)
  BY DEF Consistent
<1>2. \A e \in pending_events(b) : e \in events(b) /\ e \in Nat /\ e # 0
  BY <1>1, PendingIds
<1>3. holds_lease(b) => /\ b.lease.event \in pending_events(b)
                        /\ b.lease.event = head_pending_event(b)
  BY <1>1 DEF LeaseOK
<1>4. \A e \in pending_events(b) :
        b.inbox[e].status = "delivering" <=> holds_lease(b) /\ b.lease.event = e
  BY <1>1, <1>2 DEF LeaseOK
<1>5. \A e \in pending_events(b) :
        b.inbox[e].status \in Claimable \/ b.inbox[e].status = "delivering"
  BY <1>1, <1>2, PendingIds DEF pending_events, Event, Statuses
<1>6. "delivering" \notin Claimable
  BY DEF Claimable
<1> QED BY <1>2, <1>3, <1>4, <1>5, <1>6 DEF Serving

\* A rewrite of the summary changes nothing a user sees.
LEMMA RebuildSeen ==
    ASSUME NEW b \in Mailbox, NEW c, c = rebuild_mailbox_summary(b)
    PROVE  /\ SameEvents(b, c)
           /\ pending_events(c) = pending_events(b)
           /\ Serving(c) = Serving(b)
<1>1. c.inbox = b.inbox /\ c.lease = b.lease
  BY SummaryWrites
<1> QED BY <1>1, InboxReads DEF SameEvents, Serving, holds_lease

\* The log after mark_terminal, which rewrites the record of one event.
LEMMA TerminalSeen ==
    ASSUME NEW b \in Mailbox, NEW e \in pending_events(b),
           NEW st \in TerminalStatuses, NEW c, c = mark_terminal(b, e, st)
    PROVE  /\ SameEvents(b, c)
           /\ pending_events(c) = pending_events(b) \ {e}
           /\ Serving(c) = IF Serving(b) = e THEN 0 ELSE Serving(b)
<1> DEFINE a == append_status(b, e, st)
           d == release_matching_lease(a, e)
<1>0. e \in events(b) /\ st \in Statuses /\ e # 0
  BY PendingIds DEF Statuses
<1>1. a = append_rewrite(b, e, st, b.inbox[e].ref) /\ b.inbox[e].ref \in Nat
  BY <1>0, StatusIsRewrite
<1>2. c = terminal_summary(d, e)
  BY DEF mark_terminal, is_pending
<1> HIDE DEF a
<1>3. /\ a \in Mailbox /\ events(a) = events(b)
      /\ Len(a.inbox) = Len(b.inbox)
      /\ a.inbox[e] = [type |-> b.inbox[e].type, status |-> st,
                       ref |-> b.inbox[e].ref]
      /\ \A f \in events(b) \ {e} : a.inbox[f] = b.inbox[f]
  BY <1>0, <1>1, AppendRewrite
<1>4. d \in Mailbox /\ d.inbox = a.inbox
  BY <1>3, ReleaseMatching
<1> HIDE DEF d
<1>5. c.inbox = a.inbox
  BY <1>2, <1>4, SummaryWrites
<1>6. SameEvents(b, c)
  BY <1>3, <1>5 DEF SameEvents
<1>7. /\ pending_events(c) = pending_events(b) \ {e}
      /\ c.lease = IF holds_lease(b) /\ b.lease.event = e
                   THEN NoLease ELSE b.lease
  BY TerminalOutcome
<1> QED BY <1>0, <1>6, <1>7 DEF Serving, holds_lease, NoLease

\* A claim of the head serves it.
LEMMA ClaimSeen ==
    ASSUME NEW b, Consistent(b), NEW e, claim_succeeds(b, e),
           NEW c, c = claim(b, e)
    PROVE  /\ SameEvents(b, c)
           /\ pending_events(c) = pending_events(b)
           /\ Serving(c) = e
<1> DEFINE a == append_status(b, e, "delivering")
           d == save_lease(a, e)
<1>0. /\ b \in Mailbox /\ e \in pending_events(b) /\ e \in events(b)
      /\ e \in Nat /\ "delivering" \in Statuses
  BY PendingIds DEF Consistent, claim_succeeds, is_pending, Statuses
<1>1. a = append_rewrite(b, e, "delivering", b.inbox[e].ref)
      /\ b.inbox[e].ref \in Nat
  BY <1>0, StatusIsRewrite
<1>2. c = claim_summary(d, e)
  BY DEF claim
<1> HIDE DEF a
<1>3. /\ a \in Mailbox /\ events(a) = events(b)
      /\ Len(a.inbox) = Len(b.inbox)
      /\ a.inbox[e] = [type |-> b.inbox[e].type, status |-> "delivering",
                       ref |-> b.inbox[e].ref]
      /\ \A f \in events(b) \ {e} : a.inbox[f] = b.inbox[f]
  BY <1>0, <1>1, AppendRewrite
<1>4. next_lease_version(a) \in Nat
  BY <1>3 DEF next_lease_version, Mailbox, Lease, Summary
<1>5. d \in Mailbox /\ d.inbox = a.inbox
  BY <1>0, <1>3, <1>4 DEF save_lease, Mailbox, Lease
<1> HIDE DEF d
<1>6. c.inbox = a.inbox
  BY <1>2, <1>5, SummaryWrites
<1>7. SameEvents(b, c)
  BY <1>3, <1>6 DEF SameEvents
<1>8. /\ SameLane(b, c)
      /\ c.lease = [event |-> e, version |-> next_lease_version(b),
                    state |-> "acquired"]
  BY ClaimOutcome
<1>9. c.lease.event = e /\ c.lease.state = "acquired"
  BY <1>8
<1> QED BY <1>7, <1>8, <1>9 DEF Serving, holds_lease, SameLane

\* An expired lease ends the event it was on.
LEMMA ExpireSeen ==
    ASSUME NEW b, Consistent(b), holds_lease(b), NEW c, c = expire_lease(b)
    PROVE  /\ SameEvents(b, c)
           /\ pending_events(c) = pending_events(b) \ {Serving(b)}
           /\ Serving(c) = 0
<1> DEFINE d == [b EXCEPT !.lease.state = "expired"]
           e == b.lease.event
<1>1. e \in pending_events(b) /\ e = Serving(b)
  BY DEF Consistent, LeaseOK, Serving
<1>2. d \in Mailbox /\ d.inbox = b.inbox /\ d.lease.state = "expired"
  BY DEF Consistent, Mailbox, Lease
<1>3. c = mark_terminal(d, e, "abandoned")
  BY <1>1 DEF expire_lease, is_pending
<1> HIDE DEF d
<1>4. pending_events(d) = pending_events(b) /\ events(d) = events(b)
  BY <1>2, InboxReads DEF events
<1>5. Serving(d) = 0 /\ "abandoned" \in TerminalStatuses
  BY <1>2 DEF Serving, holds_lease, TerminalStatuses
<1>6. /\ SameEvents(d, c)
      /\ pending_events(c) = pending_events(d) \ {e}
      /\ Serving(c) = IF Serving(d) = e THEN 0 ELSE Serving(d)
  BY <1>1, <1>2, <1>3, <1>4, <1>5, TerminalSeen
<1> QED BY <1>1, <1>2, <1>4, <1>5, <1>6 DEF SameEvents

\* A new request goes to the end of the log, pending and not served.
LEMMA RecordSeen ==
    ASSUME NEW b \in Mailbox, NEW type \in EventTypes, NEW ref \in Nat,
           NEW c, c = record_inbound(b, type, ref)
    PROVE  /\ Len(c.inbox) = Len(b.inbox) + 1
           /\ \A e \in events(b) : c.inbox[e] = b.inbox[e]
           /\ c.inbox[Len(b.inbox) + 1].ref = ref
           /\ c.inbox[Len(b.inbox) + 1].type = type
           /\ pending_events(c) = pending_events(b) \cup {Len(b.inbox) + 1}
           /\ Serving(c) = Serving(b)
<1> DEFINE a == append_event(b, type, "queued", ref)
           n == Len(b.inbox) + 1
<1>0. "queued" \in Statuses /\ "queued" \notin TerminalStatuses
  BY DEF Statuses, Claimable, TerminalStatuses
<1>1. /\ a \in Mailbox /\ Len(a.inbox) = n /\ a.lease = b.lease
      /\ events(a) = events(b) \cup {n} /\ n \notin events(b)
      /\ a.inbox[n] = [type |-> type, status |-> "queued", ref |-> ref]
      /\ \A f \in events(b) : a.inbox[f] = b.inbox[f]
  BY <1>0, AppendEvent
<1> HIDE DEF a
<1>2. pending_events(a) = pending_events(b) \cup {n}
  BY <1>0, <1>1 DEF pending_events
<1>3. c.inbox = a.inbox /\ c.lease = a.lease
  BY <1>1, SummaryWrites DEF record_inbound, a
<1> QED BY <1>1, <1>2, <1>3, InboxReads DEF Serving, holds_lease
=============================================================================
