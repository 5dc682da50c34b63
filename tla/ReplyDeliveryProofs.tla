------------------------ MODULE ReplyDeliveryProofs ------------------------
(***************************************************************************)
(* Proofs about the delivery of replies.  An operation is an agenda, the   *)
(* list of the steps a thread has yet to make, so the first part is about  *)
(* agendas: which shapes they have, and where a step takes its thread      *)
(* (Moves, Rests, Lands).  The second is about mailboxes: what each kernel *)
(* operation does to the inbox and to the lease when the summary and the   *)
(* lease may be those that a crash left behind (Kept, Wrote, Freed).  The  *)
(* invariant Inv says what a thread knows at each of its steps (WorkOK)    *)
(* and, of the jobs and the events, everything the properties need.        *)
(*                                                                         *)
(* The many actions make few kinds of steps: a record of the head is       *)
(* written, a job is written or added, a lease is released, a count goes   *)
(* up.  Kinds puts every action under one of them, and the lemmas ...Whole *)
(* show once for each kind that the invariant is kept.                     *)
(*                                                                         *)
(* The theorems are about operations that do not overlap (MaxOverlap = 1), *)
(* in any order and cut short by crashes anywhere.                         *)
(***************************************************************************)
EXTENDS ReplyDelivery, OperatorLemmas, SequenceTheorems

-----------------------------------------------------------------------------
(* The agenda of a thread: a few steps that belong together, then steps of *)
(* the tick that each stand alone.                                         *)

Plain == {"repair", "prepare", "start"}
Loose == Plain \cup {"idle"}
Single == {"release", "requeued", "complete", "resolve", "preclaim", "start_return",
           "cancel_decide", "ack", "recover", "sweep", "restore"}
Pairs == {<<"release", "requeued">>, <<"finish", "resolve">>, <<"rewrite", "release">>,
          <<"start_execute", "start_return">>, <<"cancel_mark", "cancel_decide">>}
Triples == {<<"enqueue", "rewrite", "release">>,
            <<"start_running", "start_execute", "start_return">>}

\* Behind its first n steps an agenda has plain ones.
PlainFrom(s, n) == \A i \in 1 .. Len(s) : n < i => s[i] \in Plain
Shape(s) ==
    \/ PlainFrom(s, 0)
    \/ PlainFrom(s, 1) /\ 1 <= Len(s) /\ s[1] \in Single
    \/ PlainFrom(s, 2) /\ 2 <= Len(s) /\ <<s[1], s[2]>> \in Pairs
    \/ PlainFrom(s, 3) /\ 3 <= Len(s) /\ <<s[1], s[2], s[3]>> \in Triples

\* The step a thread is at, and whether it has a requeue to count.
label(s) == IF s = << >> THEN "idle" ELSE Head(s)
counts(s) == \/ label(s) = "requeued"
             \/ label(s) = "release" /\ 2 <= Len(s) /\ s[2] = "requeued"
pc(t) == label(thread[t].todo)
Counting(t) == counts(thread[t].todo)

\* Steps are words that may be at the head of an agenda.
LEMMA Words == Plain \cup Single \subseteq Labels /\ "idle" \notin Labels
  BY DEF Plain, Single, Labels

\* The place of each step of an agenda without its first.
LEMMA TailAt ==
    ASSUME NEW s \in Seq(Labels), s # << >>
    PROVE  /\ Tail(s) \in Seq(Labels) /\ Len(Tail(s)) = Len(s) - 1
           /\ Len(s) \in Nat /\ 1 <= Len(s) /\ Head(s) = s[1]
           /\ \A i \in 1 .. Len(s) - 1 : Tail(s)[i] = s[i + 1]
  OBVIOUS

\* The place of each step of two agendas in a row.
LEMMA ConcatAt ==
    ASSUME NEW p \in Seq(Labels), NEW r \in Seq(Labels), NEW q, q = p \o r
    PROVE  /\ q \in Seq(Labels) /\ Len(q) = Len(p) + Len(r)
           /\ \A i \in 1 .. Len(p) : q[i] = p[i]
           /\ \A i \in 1 .. Len(r) : q[Len(p) + i] = r[i]
  OBVIOUS

\* What a step leaves of the agenda it was the first of.
LEMMA AgendaTail ==
    ASSUME NEW s \in Seq(Labels), Shape(s), s # << >>, NEW r, r = Tail(s)
    PROVE  /\ r \in Seq(Labels) /\ Shape(r)
           /\ Head(s) \in (Plain \cup Single) \ {"release"} => PlainFrom(r, 0)
           /\ Head(s) = "release" /\ ~counts(s) => PlainFrom(r, 0)
           /\ Head(s) = "release" /\ counts(s) => label(r) = "requeued" /\ PlainFrom(r, 1)
           /\ Head(s) = "enqueue" => label(r) = "rewrite" /\ PlainFrom(r, 2)
           /\ Head(s) = "rewrite" => label(r) = "release" /\ ~counts(r) /\ PlainFrom(r, 1)
           /\ Head(s) = "finish" => label(r) = "resolve" /\ PlainFrom(r, 1)
           /\ Head(s) = "start_running" => label(r) = "start_execute"
           /\ Head(s) = "start_execute" => label(r) = "start_return" /\ PlainFrom(r, 1)
           /\ Head(s) = "cancel_mark" => label(r) = "cancel_decide" /\ PlainFrom(r, 1)
  <1>1. /\ r \in Seq(Labels) /\ Len(r) = Len(s) - 1
        /\ Len(s) \in Nat /\ 1 <= Len(s) /\ Head(s) = s[1]
        /\ \A i \in 1 .. Len(s) - 1 : r[i] = s[i + 1]
    BY TailAt
  <1>2. PICK n \in Nat : n = Len(r) /\ Len(s) = n + 1
    <2>1. Len(r) \in Nat
      BY <1>1
    <2>2. \A a, b \in Nat : a = b - 1 => b = a + 1
      OBVIOUS
    <2> QED BY ONLY <1>1, <2>1, <2>2
  <1>3. /\ \A i \in 1 .. n : r[i] = s[i + 1]
        /\ r # << >> <=> 1 <= n
        /\ r # << >> => Head(r) = r[1]
    <2>1. 1 .. Len(s) - 1 = 1 .. n
      BY <1>2
    <2>2. \A i \in 1 .. n : r[i] = s[i + 1]
      BY <1>1, <2>1, Zenon
    <2>3. r # << >> <=> 1 <= n
      <3>1. \A q \in Seq(Labels) : q # << >> <=> Len(q) # 0
        BY ONLY EmptySeq
      <3>2. \A k \in Nat : k # 0 <=> 1 <= k
        OBVIOUS
      <3> QED BY ONLY <1>1, <1>2, <3>1, <3>2, n \in Nat
    <2>4. r # << >> => Head(r) = r[1]
      BY <1>1
    <2> QED BY <2>2, <2>3, <2>4
  <1>4. \A k \in Nat : PlainFrom(s, k + 1) => PlainFrom(r, k)
    <2> SUFFICES ASSUME NEW k \in Nat, PlainFrom(s, k + 1), NEW i \in 1 .. n, k < i
                 PROVE  r[i] \in Plain
      BY <1>2 DEF PlainFrom
    <2>1. i + 1 \in 1 .. n + 1 /\ k + 1 < i + 1
      OBVIOUS
    <2>2. s[i + 1] \in Plain
      BY <1>2, <2>1 DEF PlainFrom
    <2> QED BY <1>3, <2>2
  <1>5. PlainFrom(s, 0) => PlainFrom(s, 1)
    BY <1>1 DEF PlainFrom
  <1>6. PlainFrom(s, 1) => PlainFrom(r, 0)
    BY <1>4
  <1>7. PlainFrom(s, 2) => PlainFrom(r, 1)
    BY <1>4
  <1>8. PlainFrom(s, 3) => PlainFrom(r, 2)
    BY <1>4
  <1>9. 1 <= n => r[1] = s[2]
    BY <1>3
  <1>10. 2 <= n => r[2] = s[3]
    <2>1. 2 <= n => 2 \in 1 .. n
      BY <1>2
    <2>2. 2 + 1 = 3
      OBVIOUS
    <2> QED BY ONLY <1>3, <2>1, <2>2
  <1>11. label(s) = s[1]
    BY <1>1 DEF label
  <1>12. label(r) = IF 1 <= n THEN s[2] ELSE "idle"
    BY <1>3, <1>9 DEF label
  <1>13. CASE PlainFrom(s, 0) \/ (PlainFrom(s, 1) /\ s[1] \in Single)
    <2>1. PlainFrom(r, 0)
      BY <1>5, <1>6, <1>13
    <2>2. Shape(r)
      BY <2>1 DEF Shape
    <2>3. s[1] \in Plain \cup Single
      BY <1>1, <1>2, <1>13 DEF PlainFrom
    <2>4. 1 <= n => s[2] \in Plain
      BY <1>1, <1>2, <1>9, <2>1 DEF PlainFrom
    <2>5. ~(s[1] = "release" /\ counts(s))
      BY <1>2, <1>11, <2>4 DEF counts, Plain
    <2> QED BY <1>1, <2>1, <2>2, <2>3, <2>5 DEF Plain, Single
  <1>14. CASE PlainFrom(s, 2) /\ 2 <= Len(s) /\ <<s[1], s[2]>> \in Pairs
    <2>1. PlainFrom(r, 1) /\ 1 <= n
      BY <1>2, <1>7, <1>14
    <2>2. label(r) = s[2] /\ r[1] = s[2]
      BY <1>9, <1>12, <2>1
    <2>3. \/ s[1] = "release" /\ s[2] = "requeued"
          \/ s[1] = "finish" /\ s[2] = "resolve"
          \/ s[1] = "rewrite" /\ s[2] = "release"
          \/ s[1] = "start_execute" /\ s[2] = "start_return"
          \/ s[1] = "cancel_mark" /\ s[2] = "cancel_decide"
      BY <1>14 DEF Pairs
    <2>4. Shape(r)
      BY <1>2, <2>1, <2>2, <2>3 DEF Shape, Single
    <2>5. 2 <= n => r[2] \in Plain
      BY <1>2, <2>1 DEF PlainFrom
    <2>6. label(r) # "requeued" => ~counts(r)
      BY <1>2, <2>5 DEF counts, Plain
    <2>7. s[1] = "release" => counts(s)
      BY <1>11, <1>14, <2>3 DEF counts
    <2> QED BY <1>1, <2>1, <2>2, <2>3, <2>4, <2>6, <2>7 DEF Plain, Single
  <1>15. CASE PlainFrom(s, 3) /\ 3 <= Len(s) /\ <<s[1], s[2], s[3]>> \in Triples
    <2>1. PlainFrom(r, 2) /\ 2 <= n
      BY <1>2, <1>8, <1>15
    <2>2. label(r) = s[2] /\ r[1] = s[2] /\ r[2] = s[3]
      BY ONLY <1>9, <1>10, <1>12, <2>1, n \in Nat
    <2>3. \/ s[1] = "enqueue" /\ s[2] = "rewrite" /\ s[3] = "release"
          \/ s[1] = "start_running" /\ s[2] = "start_execute" /\ s[3] = "start_return"
      BY <1>15 DEF Triples
    <2>4. Shape(r)
      BY <1>2, <2>1, <2>2, <2>3 DEF Shape, Pairs
    <2> QED BY <1>1, <2>1, <2>2, <2>3, <2>4 DEF Plain, Single
  <1> QED BY <1>2, <1>13, <1>14, <1>15 DEF Shape

\* What comes before plain steps may be put before them.
LEMMA AgendaPush ==
    ASSUME NEW p \in Seq(Labels), Shape(p), p # << >>,
           NEW r \in Seq(Labels), PlainFrom(r, 0), NEW q, q = p \o r
    PROVE  q \in Seq(Labels) /\ Shape(q) /\ label(q) = p[1] /\ q # << >>
           /\ (counts(q) <=> counts(p))
  <1>1. /\ q \in Seq(Labels) /\ Len(q) = Len(p) + Len(r)
        /\ \A i \in 1 .. Len(p) : q[i] = p[i]
        /\ \A i \in 1 .. Len(r) : q[Len(p) + i] = r[i]
    BY ConcatAt
  <1>2. /\ p # << >> <=> Len(p) # 0
        /\ q # << >> <=> Len(q) # 0
    BY ONLY <1>1, p \in Seq(Labels), EmptySeq
  <1>3. PICK m \in Nat, n \in Nat : m = Len(p) /\ n = Len(r)
    OBVIOUS
  <1>4. 1 <= m /\ Len(q) = m + n /\ q # << >>
    <2>1. \A a, b \in Nat : a # 0 => 1 <= a /\ a + b # 0
      OBVIOUS
    <2> QED BY ONLY <1>1, <1>2, <1>3, <2>1, p # << >>, m \in Nat, n \in Nat
  <1>5. \A i \in 1 .. m + n : i \in 1 .. m \/ \E k \in 1 .. n : i = m + k
    <2> SUFFICES ASSUME NEW i \in 1 .. m + n, i \notin 1 .. m PROVE \E k \in 1 .. n : i = m + k
      OBVIOUS
    <2>1. i - m \in 1 .. n /\ i = m + (i - m)
      BY ONLY i \in 1 .. m + n, i \notin 1 .. m, m \in Nat, n \in Nat
    <2> QED BY ONLY <2>1
  <1>6. \A k \in Nat : k <= m /\ PlainFrom(p, k) => PlainFrom(q, k)
    <2> SUFFICES ASSUME NEW k \in Nat, k <= m, PlainFrom(p, k), NEW i \in 1 .. m + n, k < i
                 PROVE  q[i] \in Plain
      BY <1>4 DEF PlainFrom
    <2>1. CASE i \in 1 .. m
      BY ONLY <1>1, <1>3, <2>1, k < i, PlainFrom(p, k) DEF PlainFrom
    <2>2. CASE \E l \in 1 .. n : i = m + l
      <3>1. PICK l \in 1 .. n : i = m + l
        BY <2>2
      <3>2. l \in 1 .. Len(r) /\ 0 < l
        BY ONLY <1>3, <3>1, l \in 1 .. n, n \in Nat
      <3>3. q[i] = r[l] /\ r[l] \in Plain
        BY ONLY <1>1, <1>3, <3>1, <3>2, PlainFrom(r, 0) DEF PlainFrom
      <3> QED BY <3>3
    <2> QED BY <1>5, <2>1, <2>2
  <1>7. /\ q[1] = p[1] /\ (2 <= m => q[2] = p[2]) /\ (3 <= m => q[3] = p[3])
        /\ label(q) = q[1] /\ label(p) = p[1]
    <2>1. 1 \in 1 .. m /\ (2 <= m => 2 \in 1 .. m) /\ (3 <= m => 3 \in 1 .. m)
      BY ONLY <1>4, m \in Nat
    <2>2. Head(q) = q[1] /\ Head(p) = p[1]
      BY ONLY <1>1, <1>4, p \in Seq(Labels), p # << >>
    <2> QED BY ONLY <1>1, <1>3, <1>4, <2>1, <2>2, p # << >> DEF label
  <1>8. PlainFrom(p, 0) => PlainFrom(q, 0)
    BY ONLY <1>4, <1>6, m \in Nat
  <1>9. PlainFrom(p, 1) => PlainFrom(q, 1)
    BY ONLY <1>4, <1>6, m \in Nat
  <1>10. PlainFrom(p, 2) /\ 2 <= m => PlainFrom(q, 2)
    BY ONLY <1>4, <1>6, m \in Nat
  <1>11. PlainFrom(p, 3) /\ 3 <= m => PlainFrom(q, 3)
    BY ONLY <1>4, <1>6, m \in Nat
  <1>12. 1 <= Len(q) /\ (2 <= m => 2 <= Len(q)) /\ (3 <= m => 3 <= Len(q))
    BY ONLY <1>4, m \in Nat, n \in Nat
  <1>13. Shape(q)
    <2>1. CASE PlainFrom(p, 0)
      BY ONLY <1>8, <2>1 DEF Shape
    <2>2. CASE PlainFrom(p, 1) /\ p[1] \in Single
      BY ONLY <1>7, <1>9, <1>12, <2>2 DEF Shape
    <2>3. CASE PlainFrom(p, 2) /\ 2 <= m /\ <<p[1], p[2]>> \in Pairs
      <3>1. <<q[1], q[2]>> = <<p[1], p[2]>>
        BY ONLY <1>7, <2>3
      <3> QED BY ONLY <1>10, <1>12, <2>3, <3>1 DEF Shape
    <2>4. CASE PlainFrom(p, 3) /\ 3 <= m /\ <<p[1], p[2], p[3]>> \in Triples
      <3>1. <<q[1], q[2], q[3]>> = <<p[1], p[2], p[3]>>
        <4>1. 2 <= m
          BY ONLY <2>4, m \in Nat
        <4> QED BY ONLY <1>7, <2>4, <4>1
      <3> QED BY ONLY <1>11, <1>12, <2>4, <3>1 DEF Shape
    <2> QED BY ONLY <1>3, <2>1, <2>2, <2>3, <2>4, Shape(p) DEF Shape
  <1>14. counts(q) <=> counts(p)
    <2>1. CASE 2 <= m
      <3>1. 2 <= Len(q)
        BY ONLY <1>12, <2>1, m \in Nat
      <3> QED BY ONLY <1>3, <1>7, <2>1, <3>1 DEF counts
    <2>2. CASE m = 1
      <3>1. ~(2 <= Len(p)) /\ Len(q) = 1 + n
        BY ONLY <1>3, <1>4, <2>2
      <3>2. 2 <= Len(q) => q[2] \in Plain
        <4>1. 2 <= Len(q) => 1 \in 1 .. Len(r) /\ 0 < 1
          BY ONLY <1>3, <3>1, n \in Nat
        <4>2. 2 <= Len(q) => q[Len(p) + 1] = r[1] /\ r[1] \in Plain
          BY ONLY <1>1, <4>1, PlainFrom(r, 0) DEF PlainFrom
        <4>3. Len(p) + 1 = 2
          BY ONLY <1>3, <2>2
        <4> QED BY ONLY <4>2, <4>3
      <3> QED BY ONLY <1>7, <3>1, <3>2 DEF counts, Plain
    <2>3. m = 1 \/ 2 <= m
      BY ONLY <1>4, m \in Nat
    <2> QED BY <2>1, <2>2, <2>3
  <1> QED BY ONLY <1>1, <1>4, <1>7, <1>13, <1>14

\* Plain steps, and what stands where there are none.
LEMMA AgendaLoose ==
    ASSUME NEW s \in Seq(Labels), PlainFrom(s, 0)
    PROVE  Shape(s) /\ label(s) \in Loose /\ ~counts(s)
  <1>1. s # << >> => 1 \in 1 .. Len(s) /\ Head(s) = s[1] /\ 0 < 1
    OBVIOUS
  <1>2. s # << >> => s[1] \in Plain
    BY ONLY <1>1, PlainFrom(s, 0) DEF PlainFrom
  <1> QED BY ONLY <1>1, <1>2, PlainFrom(s, 0) DEF Shape, label, Loose, counts, Plain

\* Nothing comes before plain steps.
LEMMA EmptyBefore == \A r \in Seq(Labels) : << >> \o r = r
  OBVIOUS
-----------------------------------------------------------------------------
(* What the operations of the kernel do to a mailbox whose lease and whose *)
(* summary may be those of an operation that a crash has cut short.        *)

\* c has the inbox and the lease of b; c has a newer record of event e.
Kept(b, c) == c \in Mailbox /\ c.inbox = b.inbox /\ c.lease = b.lease
Wrote(b, c, e, st, r) ==
    /\ c \in Mailbox /\ e \in events(b) /\ Len(c.inbox) = Len(b.inbox)
    /\ c.inbox[e] = [type |-> b.inbox[e].type, status |-> st, ref |-> r]
    /\ \A f \in events(b) \ {e} : c.inbox[f] = b.inbox[f]
Freed(b, c, e) == c.lease = IF holds_lease(b) /\ b.lease.event = e THEN NoLease ELSE b.lease

\* Each way of writing the summary writes nothing else.
LEMMA SummaryKept ==
    ASSUME NEW b \in Mailbox, NEW e \in events(b), NEW type
    PROVE  /\ Kept(b, rebuild_mailbox_summary(b)) /\ Kept(b, claim_summary(b, e))
           /\ Kept(b, terminal_summary(b, e)) /\ Kept(b, rewrite_summary(b, e))
           /\ Kept(b, apply_incremental_summary_update(b, type))
  <1>1. \A s \in Summary : Kept(b, [b EXCEPT !.summary = s])
    BY SaveSummary DEF Kept
  <1>2. /\ b.summary.depth \in Nat /\ b.summary.replies \in Nat /\ b.summary.active \in Nat
        /\ b.summary.head \in SummaryHead /\ e \in Nat
    BY DEF Mailbox, Summary, events
  <1>3. head_pending_event(b) \in events(b) \cup {0}
    BY HeadIsLeast, PendingIds
  <1>4. /\ summary_head_from_event(b, e) \in SummaryHead
        /\ summary_head_from_event(b, head_pending_event(b)) \in SummaryHead
        /\ EmptyHead \in SummaryHead
    BY <1>3, HeadType DEF EmptyHead, SummaryHead
  <1>5. Kept(b, rebuild_mailbox_summary(b))
    BY <1>1, ProjectType DEF rebuild_mailbox_summary
  <1>6. ClearActive(b, e) \in Nat
    BY <1>2 DEF ClearActive
  <1>7. \A d, r, a \in Nat : \A h \in SummaryHead :
            Kept(b, apply_transition_summary_update(b, d, r, a, h))
    BY <1>1, BuildType DEF apply_transition_summary_update
  <1>8. Kept(b, claim_summary(b, e))
    BY <1>2, <1>4, <1>5, <1>7 DEF claim_summary
  <1>9. Kept(b, rewrite_summary(b, e))
    BY <1>2, <1>4, <1>5, <1>6, <1>7 DEF rewrite_summary
  <1>10. \A n \in Nat : MinusFloor(n, 1) \in Nat /\ MinusFloor(n, 0) \in Nat
    BY DEF MinusFloor
  <1>11. Kept(b, terminal_summary(b, e))
    BY <1>2, <1>4, <1>5, <1>6, <1>7, <1>10 DEF terminal_summary
  <1>12. Kept(b, apply_incremental_summary_update(b, type))
    <2>1. /\ b.summary.depth + 1 \in Nat
          /\ b.summary.replies + (IF type = "task_reply" THEN 1 ELSE 0) \in Nat
      BY <1>2
    <2> QED BY <1>1, <1>2, <1>4, <2>1, BuildType DEF apply_incremental_summary_update
  <1> QED BY <1>5, <1>8, <1>9, <1>11, <1>12

\* A newer record of a pending event keeps or ends it, and no other.
LEMMA PendingAfter ==
    ASSUME NEW b \in Mailbox, NEW c, NEW e \in pending_events(b), NEW st, NEW r, Wrote(b, c, e, st, r)
    PROVE  /\ events(c) = events(b)
           /\ st \in TerminalStatuses => pending_events(c) = pending_events(b) \ {e}
           /\ st \notin TerminalStatuses => pending_events(c) = pending_events(b)
  BY DEF Wrote, pending_events, events

\* A new status of an event.
LEMMA StatusWrote ==
    ASSUME NEW b \in Mailbox, NEW e \in events(b), NEW st \in Statuses
    PROVE  /\ Wrote(b, append_status(b, e, st), e, st, b.inbox[e].ref)
           /\ append_status(b, e, st).lease = b.lease
  BY AppendRewrite, StatusIsRewrite DEF Wrote

\* The end of an event.
LEMMA TerminalDoes ==
    ASSUME NEW b \in Mailbox, NEW e, NEW st \in TerminalStatuses, NEW c, c = mark_terminal(b, e, st)
    PROVE  /\ ~is_pending(b, e) => Kept(b, c)
           /\ is_pending(b, e) => Wrote(b, c, e, st, b.inbox[e].ref) /\ Freed(b, c, e)
  <1>1. CASE ~is_pending(b, e)
    <2>1. c = rebuild_mailbox_summary(b)
      BY <1>1 DEF mark_terminal
    <2>2. Kept(b, rebuild_mailbox_summary(b))
      BY ProjectType, SaveSummary DEF rebuild_mailbox_summary, Kept
    <2> QED BY <1>1, <2>1, <2>2
  <1>2. CASE is_pending(b, e)
    <2> DEFINE a == append_status(b, e, st)
               d == release_matching_lease(a, e)
    <2>0. e \in events(b) /\ st \in Statuses
      BY <1>2, PendingIds DEF is_pending, Statuses
    <2>1. Wrote(b, a, e, st, b.inbox[e].ref) /\ a.lease = b.lease
      BY <2>0, StatusWrote
    <2> HIDE DEF a
    <2>2. /\ d \in Mailbox /\ d.inbox = a.inbox
          /\ d.lease = IF holds_lease(a) /\ a.lease.event = e THEN NoLease ELSE a.lease
      BY <2>1, ReleaseMatching DEF Wrote
    <2> HIDE DEF d
    <2>3. e \in events(d)
      BY <2>0, <2>1, <2>2 DEF Wrote, events
    <2>4. Kept(d, terminal_summary(d, e))
      BY <2>2, <2>3, SummaryKept
    <2>5. c = terminal_summary(d, e)
      BY <1>2 DEF mark_terminal, d, a
    <2>6. Wrote(b, c, e, st, b.inbox[e].ref)
      BY <2>1, <2>2, <2>4, <2>5 DEF Wrote, Kept
    <2>7. Freed(b, c, e)
      BY <2>1, <2>2, <2>4, <2>5 DEF Freed, Kept, holds_lease
    <2> QED BY <1>2, <2>6, <2>7
  <1> QED BY <1>1, <1>2

\* A claim.
LEMMA ClaimDoes ==
    ASSUME NEW b \in Mailbox, NEW e, claim_succeeds(b, e), NEW c, c = claim(b, e)
    PROVE  /\ Wrote(b, c, e, "delivering", b.inbox[e].ref)
           /\ c.lease.event = e /\ c.lease.state = "acquired"
  <1> DEFINE a == append_status(b, e, "delivering")
             d == save_lease(a, e)
  <1>0. e \in events(b) /\ "delivering" \in Statuses /\ e \in Nat
    BY PendingIds DEF claim_succeeds, is_pending, Statuses
  <1>1. Wrote(b, a, e, "delivering", b.inbox[e].ref) /\ a.lease = b.lease
    BY <1>0, StatusWrote
  <1>2. c = claim_summary(d, e)
    BY DEF claim
  <1> HIDE DEF a
  <1>3. a \in Mailbox /\ next_lease_version(a) \in Nat
    BY <1>1 DEF Wrote, next_lease_version, Mailbox, Lease, Summary
  <1>4. /\ d \in Mailbox /\ d.inbox = a.inbox /\ d.lease.event = e /\ d.lease.state = "acquired"
    BY <1>0, <1>3 DEF save_lease, Mailbox, Lease
  <1> HIDE DEF d
  <1>5. Kept(d, c)
    <2>1. e \in events(d)
      BY <1>0, <1>1, <1>4 DEF Wrote, events
    <2> QED BY <1>2, <1>4, <2>1, SummaryKept
  <1> QED BY <1>1, <1>4, <1>5 DEF Wrote, Kept

\* A record that goes back to the queue, and its lease.
LEMMA RewriteDoes ==
    ASSUME NEW b \in Mailbox, NEW e \in pending_events(b), NEW r \in Nat
    PROVE  /\ Wrote(b, append_rewrite(b, e, "queued", r), e, "queued", r)
           /\ append_rewrite(b, e, "queued", r).lease = b.lease
           /\ Wrote(b, rewrite_head(b, e, "queued", r), e, "queued", r)
           /\ Freed(b, rewrite_head(b, e, "queued", r), e)
  <1> DEFINE a == append_rewrite(b, e, "queued", r)
             d == release_matching_lease(a, e)
             c == rewrite_summary(d, e)
  <1>0. e \in events(b) /\ "queued" \in Statuses
    BY PendingIds DEF Statuses, Claimable
  <1>1. Wrote(b, a, e, "queued", r) /\ a.lease = b.lease
    BY <1>0, AppendRewrite DEF Wrote
  <1>2. rewrite_head(b, e, "queued", r) = c
    BY DEF rewrite_head, is_pending
  <1> HIDE DEF a
  <1>3. /\ d \in Mailbox /\ d.inbox = a.inbox
        /\ d.lease = IF holds_lease(a) /\ a.lease.event = e THEN NoLease ELSE a.lease
    BY <1>1, ReleaseMatching DEF Wrote
  <1> HIDE DEF d
  <1>4. Kept(d, c)
    <2>1. e \in events(d)
      BY <1>0, <1>1, <1>3 DEF Wrote, events
    <2> QED BY <1>3, <2>1, SummaryKept
  <1> HIDE DEF c
  <1>5. Wrote(b, c, e, "queued", r)
    BY <1>1, <1>3, <1>4 DEF Wrote, Kept
  <1>6. Freed(b, c, e)
    BY <1>1, <1>3, <1>4 DEF Freed, Kept, holds_lease
  <1> QED BY <1>1, <1>2, <1>5, <1>6 DEF a

\* The lease of an event that was rewritten is released.
LEMMA ReleaseDoes ==
    ASSUME NEW b \in Mailbox, NEW e \in pending_events(b), NEW c,
           c = rewrite_summary(release_matching_lease(b, e), e)
    PROVE  c \in Mailbox /\ c.inbox = b.inbox /\ Freed(b, c, e)
  <1> DEFINE d == release_matching_lease(b, e)
  <1>1. /\ d \in Mailbox /\ d.inbox = b.inbox
        /\ d.lease = IF holds_lease(b) /\ b.lease.event = e THEN NoLease ELSE b.lease
    BY ReleaseMatching
  <1> HIDE DEF d
  <1>2. e \in events(d)
    BY <1>1, PendingIds DEF events
  <1>3. Kept(d, c)
    BY <1>1, <1>2, SummaryKept DEF d
  <1> QED BY <1>1, <1>3 DEF Kept, Freed

\* The summary is derived again.
LEMMA RebuildDoes ==
    ASSUME NEW b \in Mailbox
    PROVE  Kept(b, rebuild_mailbox_summary(b))
  BY ProjectType, SaveSummary DEF rebuild_mailbox_summary, Kept

\* A lease on an event that has ended is given up.
LEMMA ExpireDoes ==
    ASSUME NEW b \in Mailbox, holds_lease(b), ~is_pending(b, b.lease.event), NEW c, c = expire_lease(b)
    PROVE  c \in Mailbox /\ c.inbox = b.inbox /\ c.lease = NoLease
  <1> DEFINE d == [b EXCEPT !.lease = NoLease]
  <1>1. d \in Mailbox /\ d.inbox = b.inbox /\ d.lease = NoLease
    BY DEF Mailbox, Lease, NoLease
  <1>2. c = rebuild_mailbox_summary(d)
    BY DEF expire_lease
  <1> HIDE DEF d
  <1> QED BY <1>1, <1>2, RebuildDoes DEF Kept

\* The acknowledgement of the head, which ends it or does nothing.
LEMMA AckDoes ==
    ASSUME NEW b \in Mailbox, NEW e \in pending_events(b), NEW c, c = ack_reply(b, e)
    PROVE  \/ Kept(b, c)
           \/ /\ Wrote(b, c, e, "consumed", b.inbox[e].ref)
              /\ Freed(b, c, e) \/ c.lease = NoLease
  <1>0. "consumed" \in TerminalStatuses /\ is_pending(b, e)
    BY DEF TerminalStatuses, is_pending
  <1>1. CASE head_pending_event(b) # e \/ b.inbox[e].type # "task_reply"
    BY <1>1, RebuildDoes DEF ack_reply
  <1>2. CASE ~(head_pending_event(b) # e \/ b.inbox[e].type # "task_reply")
    <2>1. CASE b.inbox[e].status = "delivering"
      <3>1. c = mark_terminal(b, e, "consumed")
        BY <1>2, <2>1 DEF ack_reply
      <3> QED BY <1>0, <3>1, TerminalDoes
    <2>2. CASE b.inbox[e].status # "delivering" /\ claim_returns(b, e)
      <3>1. claim_succeeds(b, e) /\ c = mark_terminal(claim(b, e), e, "consumed")
        BY <1>2, <2>2 DEF ack_reply, claim_returns
      <3>2. PICK d : d = claim(b, e)
        OBVIOUS
      <3>3. /\ Wrote(b, d, e, "delivering", b.inbox[e].ref)
            /\ d.lease.event = e /\ d.lease.state = "acquired"
        BY <3>1, <3>2, ClaimDoes
      <3>4. d \in Mailbox /\ is_pending(d, e) /\ holds_lease(d)
        BY <3>3, PendingAfter DEF Wrote, is_pending, holds_lease, TerminalStatuses
      <3>5. Wrote(d, c, e, "consumed", d.inbox[e].ref) /\ Freed(d, c, e)
        BY <1>0, <3>1, <3>2, <3>4, TerminalDoes
      <3>6. Wrote(b, c, e, "consumed", b.inbox[e].ref)
        BY <3>3, <3>5 DEF Wrote, events
      <3>7. c.lease = NoLease
        BY <3>3, <3>4, <3>5 DEF Freed
      <3> QED BY <3>6, <3>7
    <2>3. CASE b.inbox[e].status # "delivering" /\ ~claim_returns(b, e)
      <3>1. c = rebuild_mailbox_summary(claim(b, e)) /\ claim(b, e) = rebuild_mailbox_summary(b)
        BY <1>2, <2>3 DEF ack_reply, claim_returns, claim
      <3>2. PICK d : d = rebuild_mailbox_summary(b)
        OBVIOUS
      <3>3. Kept(b, d) /\ c = rebuild_mailbox_summary(d)
        BY <3>1, <3>2, RebuildDoes
      <3>4. Kept(d, c)
        BY <3>3, RebuildDoes DEF Kept
      <3> QED BY <3>3, <3>4 DEF Kept
    <2> QED BY <2>1, <2>2, <2>3
  <1> QED BY <1>1, <1>2

\* A reply arrives.
LEMMA RecordDoes ==
    ASSUME NEW b \in Mailbox, NEW c, c = record_inbound(b, "task_reply", 0), NEW n, n = Len(b.inbox) + 1
    PROVE  /\ c \in Mailbox /\ c.lease = b.lease /\ n \in Nat /\ Len(c.inbox) = n
           /\ events(c) = events(b) \cup {n} /\ \A f \in events(b) : f < n
           /\ \A f \in events(b) : c.inbox[f] = b.inbox[f]
           /\ c.inbox[n] = [type |-> "task_reply", status |-> "queued", ref |-> 0]
           /\ pending_events(c) = pending_events(b) \cup {n}
  <1> DEFINE a == append_event(b, "task_reply", "queued", 0)
  <1>0. "queued" \in Statuses \ TerminalStatuses /\ "task_reply" \in EventTypes
    BY DEF Statuses, Claimable, EventTypes, TerminalStatuses
  <1>1. /\ a \in Mailbox /\ n \in Nat /\ events(a) = events(b) \cup {n} /\ n \notin events(b)
        /\ \A f \in events(b) : f < n
        /\ Len(a.inbox) = n /\ a.lease = b.lease
        /\ a.inbox[n] = [type |-> "task_reply", status |-> "queued", ref |-> 0]
        /\ \A f \in events(b) : a.inbox[f] = b.inbox[f]
    BY <1>0, AppendEvent
  <1>2. c = apply_incremental_summary_update(a, "task_reply")
    BY DEF record_inbound
  <1> HIDE DEF a
  <1>3. Kept(a, c)
    BY <1>1, <1>2, SummaryKept
  <1>4. pending_events(a) = pending_events(b) \cup {n}
    BY <1>0, <1>1 DEF pending_events
  <1>5. events(c) = events(a) /\ pending_events(c) = pending_events(a)
    BY <1>3, InboxReads DEF Kept
  <1> QED BY <1>1, <1>3, <1>4, <1>5 DEF Kept
-----------------------------------------------------------------------------
(* How a step moves its thread.                                            *)

ThreadsOK == thread \in [Threads -> Local] /\ \A t \in Threads : Shape(thread[t].todo)

\* Only thread t has moved, to an agenda of the right shape.
Moves(t) ==
    /\ \A u \in Threads \ {t} : thread'[u] = thread[u]
    /\ thread' \in [Threads -> Local] /\ Shape(thread'[t].todo)

\* Thread t has plain steps left, or none.
Rests(t) == Moves(t) /\ pc(t)' \in Loose /\ ~Counting(t)'

\* Thread t is at a step, with a job and an event to work on.
Lands(t, at, j, e) ==
    /\ Moves(t) /\ pc(t)' = at
    /\ thread'[t].job = j /\ thread'[t].event = e

\* An agenda starts with p.
Starts(p) == p \in Seq(Labels) /\ Shape(p) /\ p # << >>

\* The agendas that operations start with.
LEMMA Beginnings ==
    /\ Starts(<<"release">>) /\ ~counts(<<"release">>)
    /\ Starts(<<"complete">>) /\ Starts(<<"preclaim">>) /\ Starts(<<"resolve">>)
    /\ Starts(<<"ack">>) /\ Starts(<<"recover">>) /\ Starts(<<"sweep">>) /\ Starts(<<"restore">>)
    /\ Starts(<<"release", "requeued">>) /\ counts(<<"release", "requeued">>)
    /\ Starts(<<"cancel_mark", "cancel_decide">>)
    /\ Starts(<<"enqueue", "rewrite", "release">>)
    /\ Starts(<<"start_running", "start_execute", "start_return">>)
    /\ Starts(<<"repair", "prepare", "start">>)
    /\ Starts(<<"finish", "resolve", "repair", "prepare">>)
    /\ Starts(<<"release", "repair", "prepare", "start">>)
    /\ ~counts(<<"release", "repair", "prepare", "start">>)
  <1>1. \A a \in Single : Starts(<<a>>)
    BY Words DEF Starts, Shape, PlainFrom
  <1>2. ~counts(<<"release">>) /\ counts(<<"release", "requeued">>)
        /\ ~counts(<<"release", "repair", "prepare", "start">>)
    BY DEF counts, label
  <1>3. \A a, b \in Labels : <<a, b>> \in Pairs => Starts(<<a, b>>)
    BY DEF Starts, Shape, PlainFrom
  <1>4. \A a, b, c \in Labels : <<a, b, c>> \in Triples => Starts(<<a, b, c>>)
    BY DEF Starts, Shape, PlainFrom
  <1>5. Starts(<<"release", "requeued">>) /\ Starts(<<"cancel_mark", "cancel_decide">>)
    BY <1>3 DEF Pairs, Labels
  <1>6. /\ Starts(<<"enqueue", "rewrite", "release">>)
        /\ Starts(<<"start_running", "start_execute", "start_return">>)
    BY <1>4 DEF Triples, Labels
  <1>7. Starts(<<"repair", "prepare", "start">>)
    BY DEF Starts, Shape, PlainFrom, Plain, Labels
  <1>8. Starts(<<"finish", "resolve", "repair", "prepare">>)
    <2> DEFINE p == <<"finish", "resolve", "repair", "prepare">>
    <2>1. p \in Seq(Labels) /\ p # << >> /\ Len(p) = 4
          /\ p[1] = "finish" /\ p[2] = "resolve" /\ p[3] = "repair" /\ p[4] = "prepare"
      BY DEF Labels
    <2> HIDE DEF p
    <2>2. PlainFrom(p, 2)
      BY <2>1 DEF PlainFrom, Plain
    <2>3. <<p[1], p[2]>> \in Pairs
      BY <2>1 DEF Pairs
    <2>4. Starts(p)
      BY <2>1, <2>2, <2>3 DEF Starts, Shape
    <2> QED BY <2>4 DEF p
  <1>9. Starts(<<"release", "repair", "prepare", "start">>)
    <2> DEFINE p == <<"release", "repair", "prepare", "start">>
    <2>1. p \in Seq(Labels) /\ p # << >> /\ Len(p) = 4
          /\ p[1] = "release" /\ p[2] = "repair" /\ p[3] = "prepare" /\ p[4] = "start"
      BY DEF Labels
    <2> HIDE DEF p
    <2>2. PlainFrom(p, 1) /\ p[1] \in Single
      BY <2>1 DEF PlainFrom, Plain, Single
    <2>3. Starts(p)
      BY <2>1, <2>2 DEF Starts, Shape
    <2> QED BY <2>3 DEF p
  <1>10. /\ Starts(<<"release">>) /\ Starts(<<"complete">>) /\ Starts(<<"preclaim">>)
         /\ Starts(<<"resolve">>) /\ Starts(<<"ack">>) /\ Starts(<<"recover">>)
         /\ Starts(<<"sweep">>) /\ Starts(<<"restore">>)
    BY <1>1 DEF Single
  <1> QED BY <1>2, <1>5, <1>6, <1>7, <1>8, <1>9, <1>10

\* A thread that is idle.
LEMMA IdleLocal ==
    /\ Idle \in Local /\ Idle.todo = << >> /\ Shape(Idle.todo) /\ label(Idle.todo) = "idle"
    /\ ~counts(Idle.todo) /\ NoJob \in Job /\ NoDecision \in Decision
  <1>1. << >> \in Seq(Labels) /\ Len(<< >>) = 0
    OBVIOUS
  <1>2. Idle \in Local /\ Idle.todo = << >> /\ NoJob \in Job /\ NoDecision \in Decision
    BY <1>1 DEF Idle, Local, NoJob, Job, NoDecision, Decision, Ended
  <1>3. PlainFrom(<< >>, 0)
    BY <1>1 DEF PlainFrom
  <1> QED BY <1>1, <1>2, <1>3, AgendaLoose DEF label

\* A record written in place of the old one of thread t.
LEMMA PutLocal ==
    ASSUME ThreadsOK, NEW t \in Threads, NEW r \in Local, Shape(r.todo),
           thread' = [thread EXCEPT ![t] = r]
    PROVE  Moves(t) /\ thread'[t] = r
  BY DEF ThreadsOK, Moves

\* A thread that is at a step.
LEMMA AtFacts ==
    ASSUME ThreadsOK, NEW t \in Threads, NEW h, At(t, h)
    PROVE  /\ thread[t] \in Local /\ thread[t].todo \in Seq(Labels) /\ thread[t].todo # << >>
           /\ Shape(thread[t].todo) /\ pc(t) = h /\ Head(thread[t].todo) = h /\ ~IsIdle(t)
           /\ thread[t].job \in Nat /\ thread[t].event \in Nat
           /\ thread[t].seen \in Job /\ thread[t].decision \in Decision
           /\ Tail(thread[t].todo) \in Seq(Labels) /\ Shape(Tail(thread[t].todo))
  <1>1. /\ thread[t] \in Local /\ Shape(thread[t].todo)
        /\ thread[t].todo # << >> /\ Head(thread[t].todo) = h
    BY DEF ThreadsOK, At, IsIdle
  <1>2. /\ thread[t].todo \in Seq(Labels) /\ thread[t].job \in Nat /\ thread[t].event \in Nat
        /\ thread[t].seen \in Job /\ thread[t].decision \in Decision
    BY <1>1 DEF Local
  <1>3. Tail(thread[t].todo) \in Seq(Labels) /\ Shape(Tail(thread[t].todo))
    BY <1>1, <1>2, AgendaTail
  <1>4. pc(t) = h /\ ~IsIdle(t)
    BY <1>1 DEF pc, label, IsIdle
  <1> QED BY <1>1, <1>2, <1>3, <1>4

\* Steps are put before plain ones.
LEMMA PushLands ==
    ASSUME ThreadsOK, NEW t \in Threads, NEW h \in Plain \cup Single, At(t, h), ~Counting(t) \/ h # "release",
           NEW p, Starts(p), NEW x \in Local, x.todo = p \o rest(t),
           thread' = [thread EXCEPT ![t] = x]
    PROVE  Lands(t, p[1], x.job, x.event) /\ (Counting(t)' <=> counts(p)) /\ thread'[t] = x
  <1>1. PICK r : r = rest(t)
    OBVIOUS
  <1>2. r \in Seq(Labels) /\ PlainFrom(r, 0)
    <2>1. /\ thread[t].todo \in Seq(Labels) /\ Shape(thread[t].todo) /\ thread[t].todo # << >>
          /\ Head(thread[t].todo) = h
      BY AtFacts
    <2>2. h # "release" \/ ~counts(thread[t].todo)
      BY DEF Counting
    <2> QED BY <1>1, <2>1, <2>2, AgendaTail DEF rest
  <1>3. PICK q : q = p \o r
    OBVIOUS
  <1>4. /\ q \in Seq(Labels) /\ Shape(q) /\ label(q) = p[1] /\ (counts(q) <=> counts(p))
    BY <1>2, <1>3, AgendaPush DEF Starts
  <1>5. x.todo = q
    BY <1>1, <1>3
  <1>6. Moves(t) /\ thread'[t] = x
    BY <1>4, <1>5, PutLocal
  <1> QED BY ONLY <1>4, <1>5, <1>6 DEF Lands, pc, Counting

\* The step is done and plain steps are left.
LEMMA ThenRests ==
    ASSUME ThreadsOK, NEW t \in Threads, NEW h \in Plain \cup Single, At(t, h), ~Counting(t) \/ h # "release",
           Then(t, << >>)
    PROVE  Rests(t)
  <1>1. PICK r : r = Tail(thread[t].todo)
    OBVIOUS
  <1>2. r \in Seq(Labels) /\ PlainFrom(r, 0)
    <2>1. /\ thread[t].todo \in Seq(Labels) /\ Shape(thread[t].todo) /\ thread[t].todo # << >>
          /\ Head(thread[t].todo) = h
      BY AtFacts
    <2>2. h # "release" \/ ~counts(thread[t].todo)
      BY DEF Counting
    <2> QED BY <1>1, <2>1, <2>2, AgendaTail
  <1>3. << >> \o r = r
    BY <1>2, EmptyBefore
  <1>4. PICK x : x = IF r = << >> THEN Idle ELSE [thread[t] EXCEPT !.todo = r]
    OBVIOUS
  <1>5. thread' = [thread EXCEPT ![t] = x]
    <2>1. PICK y : y = IF << >> \o rest(t) = << >> THEN Idle
                       ELSE [thread[t] EXCEPT !.todo = << >> \o rest(t)]
      OBVIOUS
    <2>2. thread' = [thread EXCEPT ![t] = y]
      BY ONLY <2>1, Then(t, << >>) DEF Then
    <2>3. y = x
      BY ONLY <1>1, <1>3, <1>4, <2>1 DEF rest
    <2> QED BY <2>2, <2>3
  <1>6. thread[t] \in Local
    BY AtFacts
  <1>7. x \in Local /\ (x.todo = r \/ x.todo = << >>)
    BY ONLY <1>2, <1>4, <1>6, IdleLocal DEF Local
  <1>8. Shape(x.todo) /\ label(x.todo) \in Loose /\ ~counts(x.todo)
    BY ONLY <1>2, <1>7, AgendaLoose, IdleLocal DEF Loose
  <1>9. Moves(t) /\ thread'[t] = x
    BY ONLY <1>5, <1>7, <1>8, ThreadsOK, t \in Threads, PutLocal
  <1> QED BY ONLY <1>8, <1>9 DEF Rests, pc, Counting

\* The step is done and the next of the same group comes.
LEMMA ThenNext ==
    ASSUME ThreadsOK, NEW t \in Threads, NEW h, At(t, h), Then(t, << >>),
           NEW r, r = Tail(thread[t].todo), label(r) # "idle"
    PROVE  /\ Lands(t, label(r), thread[t].job, thread[t].event) /\ (Counting(t)' <=> counts(r))
           /\ thread'[t].seen = thread[t].seen /\ thread'[t].decision = thread[t].decision
  <1>2. r \in Seq(Labels) /\ Shape(r) /\ r # << >>
    BY AtFacts DEF label
  <1>3. << >> \o r = r
    BY <1>2, EmptyBefore
  <1>4. PICK x : x = [thread[t] EXCEPT !.todo = r]
    OBVIOUS
  <1>5. thread' = [thread EXCEPT ![t] = x]
    <2>1. PICK y : y = IF << >> \o rest(t) = << >> THEN Idle
                       ELSE [thread[t] EXCEPT !.todo = << >> \o rest(t)]
      OBVIOUS
    <2>2. thread' = [thread EXCEPT ![t] = y]
      BY ONLY <2>1, Then(t, << >>) DEF Then
    <2>3. y = x
      BY ONLY <1>2, <1>3, <1>4, <2>1, r = Tail(thread[t].todo) DEF rest
    <2> QED BY <2>2, <2>3
  <1>6. thread[t] \in Local
    BY AtFacts
  <1>7. /\ x \in Local /\ x.todo = r /\ x.job = thread[t].job /\ x.event = thread[t].event
        /\ x.seen = thread[t].seen /\ x.decision = thread[t].decision
    BY ONLY <1>2, <1>4, <1>6 DEF Local
  <1>8. Moves(t) /\ thread'[t] = x
    BY ONLY <1>2, <1>5, <1>7, ThreadsOK, t \in Threads, PutLocal
  <1> QED BY ONLY <1>7, <1>8 DEF Lands, pc, Counting

\* The operation is over.
LEMMA LeaveRests ==
    ASSUME ThreadsOK, NEW t \in Threads, Leave(t)
    PROVE  Rests(t)
  <1>1. Moves(t) /\ thread'[t] = Idle
    BY PutLocal, IdleLocal DEF Leave
  <1> QED BY <1>1, IdleLocal DEF Rests, pc, Counting, Loose

\* An operation begins.
LEMMA BeginLands ==
    ASSUME ThreadsOK, NEW t \in Threads, NEW p, Starts(p), NEW x \in Local, x.todo = p,
           thread' = [thread EXCEPT ![t] = x]
    PROVE  Lands(t, p[1], x.job, x.event) /\ (Counting(t)' <=> counts(p)) /\ thread'[t] = x
  <1>1. Moves(t) /\ thread'[t] = x
    BY PutLocal DEF Starts
  <1>2. label(p) = p[1]
    BY DEF Starts, label
  <1> QED BY ONLY <1>1, <1>2, x.todo = p DEF Lands, pc, Counting
-----------------------------------------------------------------------------
(* The inductive invariant.                                                *)

\* Operations do not overlap.
OneBusy == \A t, u \in Threads : t # u => IsIdle(t) \/ IsIdle(u)

Running(j) == jobs[j].status = "running"
ref(e) == box.inbox[e].ref
standing(e) == box.inbox[e].status
Pending(e) == e \in pending_events(box)
First(e) == Pending(e) /\ \A f \in pending_events(box) : e <= f
NoneRuns == \A j \in DOMAIN jobs : ~Running(j)
Clean == crashes = 0 \/ cancels = 0

\* A pending event names the job j.
Named(j) == Pending(jobs[j].event) /\ ref(jobs[j].event) = j

\* An event names a job of its own, and only the head names one; a lease is
\* on a pending event.
BoxOK ==
    /\ Len(box.inbox) <= limits.replies
    /\ \A e \in events(box) :
        /\ box.inbox[e].type = "task_reply"
        /\ ref(e) # 0 => ref(e) \in DOMAIN jobs /\ jobs[ref(e)].event = e
    /\ \A e \in pending_events(box) : ref(e) # 0 => First(e)
    /\ \A j \in DOMAIN jobs : jobs[j].event \in events(box)
    /\ holds_lease(box) => Pending(box.lease.event)

HasJob == {"rewrite", "preclaim", "start_running", "start_execute", "start_return",
           "restore", "complete", "finish", "resolve", "cancel_mark", "cancel_decide",
           "recover"}

\* What a thread knows at each step of its operation.
WorkOK(t) ==
    LET j == thread[t].job
        e == thread[t].event
    IN /\ pc(t) \in HasJob => j \in DOMAIN jobs
       /\ pc(t) \in {"enqueue", "rewrite", "ack"} => First(e) /\ ref(e) = 0
       /\ pc(t) = "rewrite" => jobs[j].status = "queued" /\ jobs[j].event = e
       /\ pc(t) \in {"preclaim", "start_running", "cancel_mark"} => thread[t].seen = jobs[j]
       /\ pc(t) \in {"preclaim", "start_running"} =>
            jobs[j].status = "queued" /\ Named(j) /\ active = 0
       /\ pc(t) = "start_running" => standing(jobs[j].event) = "delivering"
       /\ pc(t) = "start_execute" => Running(j) /\ active = 0
       /\ pc(t) \in {"start_return", "complete", "restore"} => Running(j) /\ active = j
       /\ pc(t) = "complete" => thread[t].decision \in Decisions
       /\ pc(t) \in {"finish", "resolve"} =>
            /\ is_terminal(j)
            /\ Pending(jobs[j].event) => Named(j) \/ (pc(t) = "resolve" /\ jobs[j].status = "cancelled")
            /\ pc(t) = "finish" \/ Clean => NoneRuns
       /\ pc(t) \in {"cancel_mark", "cancel_decide"} => ~is_terminal(j) /\ cancels > 0
       /\ pc(t) = "recover" => e = jobs[j].event /\ jobs[j].status \in {"failed", "cancelled"}
       /\ pc(t) = "sweep" =>
            e \in events(box) /\ crashes > 0 /\ NoneRuns /\ ~holds_lease(box)
       /\ Counting(t) => e \in events(box) /\ requeues[e] < MaxRequeues

\* The running job has the slot and, if its event is pending, the event.
Executing(j) == \E t \in Threads : pc(t) = "start_execute" /\ thread[t].job = j
RunOK ==
    \A j \in DOMAIN jobs : Running(j) =>
        /\ active = j \/ Executing(j)
        /\ Pending(jobs[j].event) =>
            ref(jobs[j].event) = j /\ standing(jobs[j].event) = "delivering"
        /\ Clean => Pending(jobs[j].event)

\* Only what has run has a submission or an anchor, and an anchor counts.
ExecOK ==
    /\ \A j \in exec \cup anchored : jobs[j].status # "queued"
    /\ \A j \in anchored : is_terminal(j) => jobs[j].reached \/ jobs[j].status = "cancelled"

\* Event e may get another job; a job or a requeue of it is being counted.
Vacant(e) == Pending(e) /\ (ref(e) = 0 \/ jobs[ref(e)].status \in {"failed", "cancelled"})
Owed(e) == \E t \in Threads :
    \/ pc(t) \in {"finish", "resolve"} /\ jobs[thread[t].job].event = e
    \/ pc(t) = "rewrite" /\ thread[t].event = e
    \/ Counting(t) /\ thread[t].event = e
BudgetOK == \A e \in events(box) :
    /\ Cardinality(deliveries(e)) <= requeues[e] + 1 + crashes
    /\ Vacant(e) /\ ~Owed(e) => Cardinality(deliveries(e)) <= requeues[e] + crashes

\* The queued jobs that no pending event names; a job that its event may
\* soon name no more; each takes a crash.
Naming(j) == \E t \in Threads : pc(t) = "rewrite" /\ thread[t].job = j
Orphans == {j \in DOMAIN jobs : jobs[j].status = "queued" /\ ~Named(j) /\ ~Naming(j)}
Exempt(j) == \E t \in Threads :
    \/ pc(t) = "start_running" /\ thread[t].job = j
    \/ pc(t) = "release" /\ thread[t].event = jobs[j].event
Threat(j) == \E t \in Threads :
    \/ pc(t) = "sweep" /\ thread[t].event = jobs[j].event
    \/ pc(t) = "resolve" /\ jobs[thread[t].job].event = jobs[j].event
Risky(j) ==
    /\ jobs[j].status = "queued" /\ Named(j)
    /\ \/ holds_lease(box) /\ box.lease.event = jobs[j].event /\ ~Exempt(j)
       \/ Threat(j)
OrphanOK ==
    /\ Cardinality(Orphans) <= crashes
    /\ (\E j \in DOMAIN jobs : Risky(j)) => Cardinality(Orphans) + 1 <= crashes

\* Without crashes a lease has an owner.
Holding(e) == \E t \in Threads :
    \/ /\ pc(t) \in {"start_running", "start_execute", "finish", "resolve"}
       /\ jobs[thread[t].job].event = e
    \/ pc(t) = "release" /\ thread[t].event = e
LeaseOwned ==
    crashes = 0 /\ holds_lease(box) =>
        \/ active # 0 /\ Running(active) /\ box.lease.event = jobs[active].event
        \/ Holding(box.lease.event)

\* Without crashes, the jobs of a pending event but the one it names have
\* failed before delivery.
Spent(j) == jobs[j].status = "failed" /\ ~jobs[j].reached
Ending(j) == \E t \in Threads : pc(t) \in {"finish", "resolve"} /\ thread[t].job = j
EndsOK ==
    crashes = 0 =>
        /\ \A i, k \in DOMAIN jobs : jobs[i].event = jobs[k].event /\ i < k => Spent(i)
        /\ \A j \in DOMAIN jobs : Pending(jobs[j].event) =>
            /\ Spent(j) \/ Named(j) \/ Naming(j)
            /\ Named(j) /\ is_terminal(j) => Ending(j)

Types == TypeOK /\ ThreadsOK /\ OneBusy /\ BoxOK /\ MaxOverlap = 1
Inv ==
    /\ Types
    /\ \A t \in Threads : WorkOK(t)
    /\ RunOK /\ ExecOK /\ BudgetOK /\ OrphanOK /\ LeaseOwned /\ EndsOK
    /\ ConsumedForAReason
-----------------------------------------------------------------------------
(* Reading the state.                                                      *)

\* Jobs are numbered from one and have their fields.
LEMMA JobFacts ==
    ASSUME Types
    PROVE  /\ box \in Mailbox /\ jobs \in Seq(Job) /\ DOMAIN jobs \subseteq Nat \ {0}
           /\ DOMAIN jobs = 1 .. Len(jobs) /\ Len(jobs) \in Nat
           /\ \A j \in DOMAIN jobs : /\ jobs[j] \in Job /\ jobs[j].event \in Nat
                                     /\ jobs[j].status \in {"queued", "running"} \cup Ended
                                     /\ jobs[j].reached \in BOOLEAN
  <1>1. box \in Mailbox /\ jobs \in Seq(Job)
    BY DEF Types, TypeOK
  <1>2. /\ DOMAIN jobs \subseteq Nat \ {0} /\ DOMAIN jobs = 1 .. Len(jobs) /\ Len(jobs) \in Nat
        /\ \A j \in DOMAIN jobs : jobs[j] \in Job
    BY <1>1
  <1>3. \A r \in Job : /\ r.event \in Nat /\ r.status \in {"queued", "running"} \cup Ended
                       /\ r.reached \in BOOLEAN
    BY DEF Job
  <1> QED BY <1>1, <1>2, <1>3

\* Before an operation begins nobody is in one.
LEMMA FreeMeans ==
    ASSUME Types, NEW t \in Threads, Free(t)
    PROVE  \A u \in Threads : IsIdle(u) /\ pc(u) = "idle" /\ ~Counting(u)
  <1> DEFINE B == {u \in Threads : ~IsIdle(u)}
  <1>1. IsFiniteSet(Threads) /\ IsFiniteSet(B)
    <2>1. IsFiniteSet({"socket"}) /\ IsFiniteSet({"maintenance"})
      BY FS_Singleton
    <2>2. Threads = {"socket"} \cup {"maintenance"}
      BY DEF Threads
    <2>3. IsFiniteSet(Threads)
      BY <2>1, <2>2, FS_Union
    <2> QED BY <2>3, FS_Subset
  <1>2. Cardinality(B) < 1
    BY DEF Free, Types
  <1>3. Cardinality(B) \in Nat
    BY <1>1, FS_CardinalityType
  <1>4. Cardinality(B) = 0
    BY <1>2, <1>3
  <1>5. B = {}
    BY <1>1, <1>4, FS_EmptySet
  <1> QED BY <1>5 DEF IsIdle, pc, Counting, label, counts

\* While a thread is at a step the other one is idle.
LEMMA OthersIdle ==
    ASSUME Types, NEW t \in Threads, NEW h, At(t, h)
    PROVE  \A u \in Threads \ {t} : IsIdle(u) /\ pc(u) = "idle" /\ ~Counting(u)
  BY DEF Types, OneBusy, At, IsIdle, pc, Counting, label, counts

\* Idle is where the agenda is empty.
LEMMA IdleMeans ==
    ASSUME NEW t \in Threads
    PROVE  IsIdle(t) => pc(t) = "idle" /\ ~Counting(t)
  BY DEF IsIdle, pc, Counting, label, counts

\* The head of the mailbox is the first pending event, and all are replies.
LEMMA HeadFacts ==
    ASSUME Types
    PROVE  /\ head_reply_event = head_pending_event(box)
           /\ head_reply_event \in Nat
           /\ head_reply_event # 0 => First(head_reply_event) /\ head_reply_event \in events(box)
           /\ \A e : First(e) => e = head_reply_event /\ e # 0 /\ e \in events(box)
           /\ \A e \in pending_events(box) : e \in events(box) /\ e \in Nat \ {0} /\ ref(e) \in Nat
  <1>1. box \in Mailbox
    BY JobFacts
  <1>2. /\ pending_events(box) \subseteq events(box) /\ events(box) \subseteq Nat \ {0}
        /\ head_pending_event(box) \in Nat /\ \A e \in events(box) : box.inbox[e] \in Event
    BY <1>1, PendingIds
  <1>3. \A e \in events(box) : box.inbox[e].type = "task_reply"
    BY DEF Types, BoxOK
  <1>4. head_pending_event(box) # 0 => First(head_pending_event(box))
    BY <1>1, HeadIsLeast DEF First, Pending
  <1>5. head_reply_event = head_pending_event(box)
    BY <1>2, <1>3, <1>4 DEF head_reply_event, First, Pending
  <1>6. \A e : First(e) => e = head_pending_event(box)
    BY <1>1, LeastIsHead DEF First, Pending
  <1>7. \A e \in events(box) : ref(e) \in Nat
    BY <1>2 DEF ref, Event
  <1> QED BY <1>2, <1>4, <1>5, <1>6, <1>7 DEF First, Pending

\* The job the head names.
LEMMA DeliveryJob ==
    ASSUME Types
    PROVE  /\ delivery_job \in Nat
           /\ delivery_job # 0 =>
                /\ delivery_job \in DOMAIN jobs /\ Named(delivery_job)
                /\ head_reply_event # 0 /\ jobs[delivery_job].event = head_reply_event
                /\ ref(head_reply_event) = delivery_job
           /\ head_reply_event # 0 => ref(head_reply_event) = delivery_job
  <1>1. CASE head_reply_event = 0
    BY <1>1 DEF delivery_job
  <1>2. CASE head_reply_event # 0
    <2>1. First(head_reply_event) /\ head_reply_event \in events(box)
      BY <1>2, HeadFacts
    <2>2. delivery_job = ref(head_reply_event) /\ ref(head_reply_event) \in Nat
      BY <1>2, <2>1, HeadFacts DEF delivery_job, ref, First, Pending
    <2>3. ref(head_reply_event) # 0 => /\ ref(head_reply_event) \in DOMAIN jobs
                                       /\ jobs[ref(head_reply_event)].event = head_reply_event
      BY <2>1 DEF Types, BoxOK
    <2> QED BY <1>2, <2>1, <2>2, <2>3 DEF Named, First
  <1> QED BY <1>1, <1>2

\* Two jobs with pending events that name them are one.
LEMMA NamedOnce ==
    ASSUME Types, NEW j \in DOMAIN jobs, NEW k \in DOMAIN jobs, Named(j), Named(k)
    PROVE  j = k
  <1>1. j # 0 /\ k # 0
    BY JobFacts
  <1>2. First(jobs[j].event) /\ First(jobs[k].event)
    BY <1>1 DEF Named, Types, BoxOK, Pending
  <1>3. jobs[j].event = jobs[k].event
    BY <1>2, HeadFacts
  <1> QED BY <1>3 DEF Named
-----------------------------------------------------------------------------
(* Where each step takes its thread.                                       *)

\* Steps put before plain ones are an agenda.
LEMMA PushSeq ==
    ASSUME ThreadsOK, NEW t \in Threads, NEW h, At(t, h), NEW p, Starts(p)
    PROVE  p \o rest(t) \in Seq(Labels) /\ p \o rest(t) # << >>
  <1>1. PICK r : r = rest(t)
    OBVIOUS
  <1>2. p # << >> /\ p \in Seq(Labels) /\ r \in Seq(Labels)
    BY <1>1, AtFacts DEF Starts, rest
  <1> QED BY ONLY <1>1, <1>2

\* The step is done and others come first.
LEMMA ThenPush ==
    ASSUME ThreadsOK, NEW t \in Threads, NEW h \in Plain \cup Single, At(t, h), ~Counting(t) \/ h # "release",
           NEW p, Starts(p), Then(t, p)
    PROVE  /\ Lands(t, p[1], thread[t].job, thread[t].event) /\ (Counting(t)' <=> counts(p))
           /\ thread'[t].seen = thread[t].seen
  <1>1. p \o rest(t) \in Seq(Labels) /\ p \o rest(t) # << >>
    BY PushSeq
  <1>2. PICK q : q = p \o rest(t)
    OBVIOUS
  <1>3. PICK x : x = [thread[t] EXCEPT !.todo = q]
    OBVIOUS
  <1>4. thread' = [thread EXCEPT ![t] = x]
    BY ONLY <1>1, <1>2, <1>3, Then(t, p) DEF Then
  <1>5. /\ x \in Local /\ x.todo = q /\ x.job = thread[t].job /\ x.event = thread[t].event
        /\ x.seen = thread[t].seen
    <2>1. thread[t] \in Local /\ q \in Seq(Labels)
      BY <1>1, <1>2, AtFacts
    <2> QED BY ONLY <1>3, <2>1 DEF Local
  <1>6. x.todo = p \o rest(t)
    BY <1>2, <1>5
  <1>7. Lands(t, p[1], x.job, x.event) /\ (Counting(t)' <=> counts(p)) /\ thread'[t] = x
    BY <1>4, <1>5, <1>6, PushLands
  <1> QED BY <1>5, <1>7

\* A job is to be completed.
LEMMA CompleteLands ==
    ASSUME ThreadsOK, NEW t \in Threads, NEW h \in Plain \cup Single, At(t, h), h # "release",
           NEW j \in Nat, NEW d \in Decision, Complete_(t, j, d)
    PROVE  Lands(t, "complete", j, thread[t].event) /\ ~Counting(t)' /\ thread'[t].decision = d
  <1>0. Starts(<<"complete">>) /\ ~counts(<<"complete">>) /\ <<"complete">>[1] = "complete"
    BY Beginnings DEF counts, label
  <1>1. PICK q : q = <<"complete">> \o rest(t)
    OBVIOUS
  <1>2. PICK x : x = [thread[t] EXCEPT !.todo = q, !.job = j, !.decision = d]
    OBVIOUS
  <1>3. thread' = [thread EXCEPT ![t] = x]
    BY ONLY <1>1, <1>2, Complete_(t, j, d) DEF Complete_
  <1>4. x \in Local /\ x.todo = q /\ x.job = j /\ x.event = thread[t].event /\ x.decision = d
    <2>1. thread[t] \in Local /\ q \in Seq(Labels)
      BY <1>0, <1>1, PushSeq, AtFacts
    <2> QED BY ONLY <1>2, <2>1, j \in Nat, d \in Decision DEF Local
  <1>5. x.todo = <<"complete">> \o rest(t)
    BY <1>1, <1>4
  <1>6. /\ Lands(t, <<"complete">>[1], x.job, x.event)
        /\ (Counting(t)' <=> counts(<<"complete">>)) /\ thread'[t] = x
    BY <1>0, <1>3, <1>4, <1>5, PushLands
  <1> QED BY <1>0, <1>4, <1>6

\* A rewrite by repair or by the requeue of a failed delivery.
LEMMA RewriteLands ==
    ASSUME ThreadsOK, NEW t \in Threads, NEW h \in Plain \cup Single, At(t, h), h # "release",
           NEW p, Starts(p), NEW e \in Nat, NEW q, q = p \o rest(t), NEW x,
           thread' = [thread EXCEPT ![t] = x],
           \/ x = [thread[t] EXCEPT !.todo = q, !.event = e]
           \/ x = [thread[t] EXCEPT !.event = e, !.todo = q]
           \/ \E d \in Decision : x = [thread[t] EXCEPT !.event = e, !.decision = d, !.todo = q]
    PROVE  Lands(t, p[1], thread[t].job, e) /\ (Counting(t)' <=> counts(p))
  <1>1. thread[t] \in Local /\ q \in Seq(Labels)
    BY PushSeq, AtFacts
  <1>2. x \in Local /\ x.todo = q /\ x.job = thread[t].job /\ x.event = e
    <2>1. CASE x = [thread[t] EXCEPT !.todo = q, !.event = e]
      BY ONLY <1>1, <2>1, e \in Nat DEF Local
    <2>2. CASE x = [thread[t] EXCEPT !.event = e, !.todo = q]
      BY ONLY <1>1, <2>2, e \in Nat DEF Local
    <2>3. CASE \E d \in Decision : x = [thread[t] EXCEPT !.event = e, !.decision = d, !.todo = q]
      BY ONLY <1>1, <2>3, e \in Nat DEF Local
    <2> QED BY <2>1, <2>2, <2>3
  <1>3. Lands(t, p[1], x.job, x.event) /\ (Counting(t)' <=> counts(p))
    BY <1>2, PushLands
  <1> QED BY <1>2, <1>3

\* An operation begins with an agenda.
LEMMA OperationBegins ==
    ASSUME Types, NEW t \in Threads, NEW p, Starts(p), NEW j, j = 0 \/ j \in DOMAIN jobs, NEW e \in Nat,
           Begin(t, p, j, e)
    PROVE  /\ Lands(t, p[1], j, e) /\ (Counting(t)' <=> counts(p))
           /\ j # 0 => thread'[t].seen = jobs[j]
  <1>1. PICK s : s = IF j = 0 THEN NoJob ELSE jobs[j]
    OBVIOUS
  <1>2. s \in Job /\ j \in Nat
    BY <1>1, JobFacts, IdleLocal
  <1>3. PICK x : x = [Idle EXCEPT !.todo = p, !.job = j, !.event = e, !.seen = s]
    OBVIOUS
  <1>4. thread' = [thread EXCEPT ![t] = x]
    BY ONLY <1>1, <1>3, Begin(t, p, j, e) DEF Begin
  <1>5. x \in Local /\ x.todo = p /\ x.job = j /\ x.event = e /\ x.seen = s
    <2>1. Idle \in Local /\ p \in Seq(Labels)
      BY IdleLocal DEF Starts
    <2> QED BY ONLY <1>2, <1>3, <2>1, e \in Nat DEF Local
  <1>6. Lands(t, p[1], x.job, x.event) /\ (Counting(t)' <=> counts(p)) /\ thread'[t] = x
    <2>1. ThreadsOK
      BY DEF Types
    <2> QED BY <1>4, <1>5, <2>1, BeginLands
  <1> QED BY <1>1, <1>5, <1>6
-----------------------------------------------------------------------------
(* What a step does, in the terms of the invariant.                        *)

\* The steps that some part of the invariant makes an exception for.
Hot == {"finish", "resolve", "rewrite", "release", "requeued", "sweep",
        "start_running", "start_execute"}

\* What has run may get a submission, and then an anchor.
Seen ==
    /\ \A j \in exec' : j \in exec \/ (j \in DOMAIN jobs /\ Running(j))
    /\ \A j \in anchored' : j \in anchored \/ (j \in exec /\ ~is_terminal(j))
Base == Seen /\ (Clean' => Clean) /\ limits' = limits /\ acked \subseteq acked'
Still == Base /\ crashes' = crashes /\ active' = active /\ requeues' = requeues
SameBox == Kept(box, box')
SameJobs == jobs' = jobs

\* Thread t alone is in an operation.
Alone(t) == \A u \in Threads \ {t} :
    pc(u) = "idle" /\ ~Counting(u) /\ pc(u)' = "idle" /\ ~Counting(u)'

\* Nothing that the invariant looks at is written.
Quiet(t) ==
    /\ Still /\ SameJobs /\ SameBox
    /\ Moves(t) /\ pc(t) \notin Hot /\ pc(t)' \notin Hot /\ WorkOK(t)'

\* Thread t writes a new record of the pending event e.
Writes(t, e, st, r) ==
    /\ Still /\ SameJobs /\ Moves(t) /\ Pending(e) /\ Wrote(box, box', e, st, r)

LeaseGone == box'.lease \in {box.lease, NoLease}
Released(e) == holds_lease(box') => box'.lease = box.lease /\ box.lease.event # e

\* The head goes back to the queue without a job, ...
Clears(t, e) ==
    /\ Writes(t, e, "queued", 0) /\ LeaseGone /\ Vacant(e)
    /\ \/ pc(t) \in {"repair", "recover"} /\ pc(t)' = "release" /\ thread'[t].event = e /\ ~Counting(t)'
       \/ pc(t) = "prepare" /\ pc(t)' = "enqueue" /\ thread'[t].event = e /\ First(e) /\ Released(e)
\* ... after a failed start, ...
Requeues(t, e) ==
    /\ Writes(t, e, "queued", 0) /\ box'.lease = box.lease
    /\ pc(t) = "resolve" /\ e = jobs[thread[t].job].event /\ Spent(thread[t].job)
    /\ requeues[e] < MaxRequeues
    /\ pc(t)' = "release" /\ Counting(t)' /\ thread'[t].event = e
\* ... with the job it names, ...
Stalls(t, e) ==
    /\ Writes(t, e, "queued", ref(e)) /\ LeaseGone
    /\ ref(e) # 0 /\ jobs[ref(e)].status = "queued"
    /\ pc(t) = "repair" /\ pc(t)' = "release" /\ thread'[t].event = e /\ ~Counting(t)'
\* ... or with a new one.
Names(t) ==
    /\ Writes(t, thread[t].event, "queued", thread[t].job) /\ box'.lease = box.lease
    /\ pc(t) = "rewrite" /\ pc(t)' = "release" /\ ~Counting(t)'
    /\ thread'[t].event = thread[t].event

\* The event of a job is in delivery under the lease.
Claims(t) ==
    LET j == thread[t].job
        e == jobs[thread[t].job].event
    IN /\ pc(t) = "preclaim" /\ Lands(t, "start_running", j, thread[t].event)
       /\ thread'[t].seen = thread[t].seen
       /\ \/ /\ Writes(t, e, "delivering", ref(e))
             /\ box'.lease.event = e /\ box'.lease.state = "acquired"
          \/ /\ Still /\ SameJobs /\ SameBox /\ Pending(e)
             /\ box.inbox[e].status = "delivering"
             /\ holds_lease(box) => box.lease.event = e

\* An event ends.
Ends(t, e, st) ==
    /\ Writes(t, e, st, ref(e)) /\ Rests(t) /\ Released(e)
    /\ \/ /\ pc(t) = "resolve" /\ st = "consumed" /\ e = jobs[thread[t].job].event
          /\ terminal_disposition(thread[t].job) # "requeued"
       \/ /\ pc(t) = "prepare" /\ st = "consumed" /\ First(e)
          /\ ref(e) # 0 /\ jobs[ref(e)].status = "completed"
       \/ pc(t) = "ack" /\ st = "consumed" /\ e = thread[t].event /\ e \in acked'
       \/ pc(t) = "sweep" /\ st = "abandoned" /\ e = thread[t].event

\* Thread t makes a step that changes only where it is.
Goes(t, from, to) ==
    /\ Still /\ SameJobs /\ SameBox /\ pc(t) = from
    /\ Lands(t, to, thread[t].job, thread[t].event)
\* The event to abandon is not pending.
Spares(t) == Still /\ SameJobs /\ SameBox /\ pc(t) = "sweep" /\ Rests(t)
\* The event of the job that has ended is not pending.
Dismisses(t) ==
    LET e == jobs[thread[t].job].event
    IN /\ Still /\ SameJobs /\ SameBox /\ pc(t) = "resolve" /\ ~Pending(e)
       /\ \/ Rests(t)
          \/ /\ Moves(t) /\ pc(t)' = "release" /\ Counting(t)' /\ thread'[t].event = e
             /\ requeues[e] < MaxRequeues
Revives(t) ==
    /\ Still /\ SameJobs /\ SameBox /\ pc(t) = "recover" /\ Moves(t)
    /\ ~Pending(thread[t].event)
    /\ pc(t)' = "release" /\ ~Counting(t)' /\ thread'[t].event = thread[t].event

Counts(t) ==
    /\ SameJobs /\ SameBox /\ active' = active /\ Base /\ crashes' = crashes
    /\ pc(t) = "requeued" /\ Rests(t)
    /\ requeues' = [requeues EXCEPT ![thread[t].event] = @ + 1]
Frees(t) ==
    /\ Still /\ SameJobs /\ pc(t) = "release"
    /\ box' \in Mailbox /\ box'.inbox = box.inbox
    /\ IF Pending(thread[t].event) THEN Freed(box, box', thread[t].event) ELSE box'.lease = box.lease
    /\ \/ Rests(t) /\ ~Counting(t)
       \/ /\ Counting(t) /\ Lands(t, "requeued", thread[t].job, thread[t].event)
          /\ Counting(t)'
Sweeps ==
    /\ Still /\ SameJobs /\ box' \in Mailbox /\ box'.inbox = box.inbox
    /\ holds_lease(box) /\ Pending(box.lease.event)
    /\ ~(active # 0 /\ Running(active))
    /\ \A u \in Threads : pc(u) = "idle"
    /\ box'.lease.state = "expired" /\ box'.lease.event = box.lease.event
    /\ Lands("maintenance", "sweep", 0, box.lease.event)

\* Job j alone is written, and it keeps its event.
Sets(j) ==
    /\ DOMAIN jobs' = DOMAIN jobs /\ jobs' \in Seq(Job)
    /\ j \in DOMAIN jobs /\ jobs'[j].event = jobs[j].event
    /\ \A k \in DOMAIN jobs \ {j} : jobs'[k] = jobs[k]
Adds(t) ==
    LET n == Len(jobs) + 1
    IN /\ Still /\ SameBox /\ pc(t) = "enqueue" /\ Lands(t, "rewrite", n, thread[t].event)
       /\ jobs' \in Seq(Job) /\ DOMAIN jobs' = DOMAIN jobs \cup {n} /\ n \notin DOMAIN jobs /\ n \in Nat
       /\ \A k \in DOMAIN jobs : jobs'[k] = jobs[k] /\ k < n
       /\ jobs'[n] = [status |-> "queued", event |-> thread[t].event, reached |-> FALSE]
Runs(t) ==
    /\ Still /\ SameBox /\ pc(t) = "start_running" /\ Sets(thread[t].job)
    /\ Lands(t, "start_execute", thread[t].job, thread[t].event)
    /\ jobs'[thread[t].job].status = "running"
Takes(t) ==
    /\ SameJobs /\ SameBox /\ requeues' = requeues /\ Base /\ crashes' = crashes
    /\ pc(t) = "start_execute" /\ Lands(t, "start_return", thread[t].job, thread[t].event)
    /\ active' = thread[t].job
Completes(t) ==
    /\ SameBox /\ requeues' = requeues /\ Base /\ crashes' = crashes /\ anchored' = anchored
    /\ pc(t) = "complete" /\ Sets(thread[t].job)
    /\ Moves(t) /\ pc(t)' = "finish" /\ thread'[t].job = thread[t].job
    /\ active' = 0
    /\ jobs'[thread[t].job].status \in {"completed", "failed"}
    /\ thread[t].job \in anchored => jobs'[thread[t].job].reached
Cancels ==
    /\ SameBox /\ requeues' = requeues /\ Base /\ crashes' = crashes
    /\ pc("socket") = "cancel_decide" /\ Sets(thread["socket"].job)
    /\ Lands("socket", "resolve", thread["socket"].job, thread["socket"].event)
    /\ active' = IF active = thread["socket"].job THEN 0 ELSE active
    /\ jobs'[thread["socket"].job].status = "cancelled"
Crashes ==
    /\ SameJobs /\ box' = box /\ requeues' = requeues /\ Base
    /\ crashes' = crashes + 1
    /\ thread' \in [Threads -> Local] /\ pc("socket")' = "idle"
    /\ \/ /\ NoneRuns /\ active' = 0 /\ pc("maintenance")' = "idle"
       \/ /\ active' \in DOMAIN jobs /\ Running(active') /\ pc("maintenance")' = "restore"
          /\ thread'["maintenance"].job = active'
    /\ \A t \in Threads : Shape(thread'[t].todo)
Arrives ==
    /\ Still /\ SameJobs /\ thread' = thread /\ cancels' = cancels
    /\ Len(box.inbox) < limits.replies /\ box' = record_inbound(box, "task_reply", 0)
-----------------------------------------------------------------------------
(* Each action is a step of one of these kinds.                            *)

\* Only at two steps is there a requeue to count.
LEMMA CountingAt ==
    ASSUME NEW t \in Threads
    PROVE  /\ Counting(t) => pc(t) \in {"release", "requeued"}
           /\ Counting(t)' => pc(t)' \in {"release", "requeued"}
  BY DEF Counting, pc, counts

\* At a plain step, or at none, a thread need not know anything.
LEMMA WorkLoose ==
    ASSUME NEW t \in Threads, pc(t)' \in Loose \cup {"release", "requeued"}, ~Counting(t)'
    PROVE  WorkOK(t)'
  BY DEF WorkOK, HasJob, Loose, Plain

\* The step of a thread leaves the other one idle.
LEMMA AloneAt ==
    ASSUME Types, NEW t \in Threads, NEW h, At(t, h), Moves(t)
    PROVE  Alone(t) /\ pc(t) = h
  <1>1. \A u \in Threads \ {t} : IsIdle(u) /\ pc(u) = "idle" /\ ~Counting(u)
    BY OthersIdle
  <1>2. \A u \in Threads \ {t} : thread'[u] = thread[u]
    BY DEF Moves
  <1>3. \A u \in Threads \ {t} : pc(u)' = "idle" /\ ~Counting(u)'
    BY <1>1, <1>2 DEF pc, Counting
  <1>4. pc(t) = h
    BY DEF At, IsIdle, pc, label
  <1> QED BY <1>1, <1>3, <1>4 DEF Alone

\* So does the beginning of an operation.
LEMMA AloneFree ==
    ASSUME Types, NEW s \in Threads, Free(s), NEW t \in Threads, Moves(t)
    PROVE  Alone(t) /\ pc(t) = "idle" /\ ~Counting(t)
  <1>1. \A u \in Threads : pc(u) = "idle" /\ ~Counting(u)
    BY FreeMeans
  <1>2. \A u \in Threads \ {t} : thread'[u] = thread[u]
    BY DEF Moves
  <1>3. \A u \in Threads \ {t} : pc(u)' = "idle" /\ ~Counting(u)'
    BY <1>1, <1>2 DEF pc, Counting
  <1> QED BY <1>1, <1>3 DEF Alone

\* A step in which no thread moves.
LEMMA NobodyMoves ==
    ASSUME ThreadsOK, thread' = thread, NEW t \in Threads
    PROVE  Moves(t) /\ pc(t)' = pc(t) /\ Counting(t)' = Counting(t)
  BY DEF ThreadsOK, Moves, pc, Counting

\* A step that leaves the counters and the executions alone.
LEMMA StillFrame ==
    ASSUME UNCHANGED <<active, requeues, limits, crashes, cancels>>, acked \subseteq acked',
           exec' \subseteq exec, anchored' = anchored
    PROVE  Still
  BY DEF Still, Base, Seen, Clean

\* A mailbox that is not written.
LEMMA BoxUnwritten ==
    ASSUME Types, box' = box
    PROVE  SameBox
  BY JobFacts DEF SameBox, Kept

\* A step that ends in plain ones and writes nothing.
LEMMA QuietRests ==
    ASSUME Types, NEW t \in Threads, NEW h \in (Plain \cup Single) \ Hot, At(t, h), Rests(t), Still, SameJobs,
           SameBox
    PROVE  Quiet(t) /\ Alone(t)
  <1>1. pc(t)' \in Loose /\ ~Counting(t)' /\ Moves(t)
    BY DEF Rests
  <1>2. Alone(t) /\ pc(t) = h
    BY <1>1, AloneAt
  <1>3. WorkOK(t)'
    BY <1>1, WorkLoose
  <1>4. Loose \cap Hot = {}
    BY DEF Loose, Plain, Hot
  <1> QED BY <1>1, <1>2, <1>3, <1>4 DEF Quiet

\* The steps that write nothing and come to a step with a job or an event.
LEMMA QuietLands ==
    ASSUME Types, NEW t \in Threads, Still, SameJobs, SameBox, NEW at, at \notin Hot, Moves(t), pc(t)' = at,
           WorkOK(t)', \/ \E h \in (Plain \cup Single \cup {"cancel_mark"}) \ Hot : At(t, h)
                       \/ \E s \in Threads : Free(s)
    PROVE  Quiet(t) /\ Alone(t)
  <1>1. CASE \E h \in (Plain \cup Single \cup {"cancel_mark"}) \ Hot : At(t, h)
    BY <1>1, AloneAt DEF Quiet
  <1>2. CASE \E s \in Threads : Free(s)
    BY <1>2, AloneFree DEF Quiet, Hot
  <1> QED BY <1>1, <1>2

\* A tick begins.
LEMMA TickKind ==
    ASSUME Types, Tick
    PROVE  Quiet("maintenance") /\ Alone("maintenance")
  <1>0. "maintenance" \in Threads
    BY DEF Threads
  <1>1. PICK p : p = <<"repair", "prepare", "start">>
    OBVIOUS
  <1>2. Starts(p) /\ p[1] = "repair"
    BY <1>1, Beginnings
  <1>3. Free("maintenance") /\ Begin("maintenance", p, 0, 0)
        /\ UNCHANGED <<durable, memory, history>>
    BY <1>1 DEF Tick
  <1>4. Lands("maintenance", "repair", 0, 0)
    BY <1>0, <1>2, <1>3, OperationBegins
  <1>5. Moves("maintenance") /\ pc("maintenance")' = "repair"
    BY <1>4 DEF Lands
  <1>6. WorkOK("maintenance")'
    BY <1>0, <1>5, CountingAt, WorkLoose DEF Loose, Plain
  <1>7. Still /\ SameJobs /\ SameBox
    BY <1>3, StillFrame, BoxUnwritten DEF durable, memory, history, SameJobs
  <1> QED BY <1>0, <1>3, <1>5, <1>6, <1>7, QuietLands DEF Hot

\* What a cancellation or a recovery starts with.
LEMMA HandlerKind ==
    ASSUME Types, Handler
    PROVE  Quiet("socket") /\ Alone("socket")
  <1>0. "socket" \in Threads
    BY DEF Threads
  <1>1. CASE AckCheck
    <2>1. PICK p : p = <<"ack">>
      OBVIOUS
    <2>2. Starts(p) /\ p[1] = "ack"
      BY <2>1, Beginnings
    <2>3. /\ Free("socket") /\ Begin("socket", p, 0, head_reply_event)
          /\ UNCHANGED <<durable, memory, history>> /\ head_reply_event # 0 /\ may_ack(head_reply_event)
      BY <1>1, <2>1 DEF AckCheck
    <2>4. Lands("socket", "ack", 0, head_reply_event)
      BY <1>0, <2>2, <2>3, HeadFacts, OperationBegins
    <2>5. Moves("socket") /\ pc("socket")' = "ack" /\ thread'["socket"].event = head_reply_event
      BY <2>4 DEF Lands
    <2>6. ~Counting("socket")'
      BY <1>0, <2>5, CountingAt
    <2>7. First(head_reply_event) /\ ref(head_reply_event) = 0
      BY <2>3, HeadFacts DEF may_ack, ref
    <2>8. box' = box
      BY <2>3 DEF durable
    <2>9. First(head_reply_event)' /\ ref(head_reply_event)' = 0 /\ head_reply_event' = head_reply_event
      BY <2>7, <2>8 DEF First, Pending, ref, head_reply_event
    <2>10. WorkOK("socket")'
      BY <2>5, <2>6, <2>9 DEF WorkOK, HasJob
    <2>11. Still /\ SameJobs /\ SameBox
      BY <2>3, StillFrame, BoxUnwritten DEF durable, memory, history, SameJobs
    <2> QED BY <1>0, <2>3, <2>5, <2>10, <2>11, QuietLands DEF Hot
  <1>2. ASSUME NEW j \in DOMAIN jobs, CancelLoad(j)
        PROVE  Quiet("socket") /\ Alone("socket")
    <2>1. PICK p : p = <<"cancel_mark", "cancel_decide">>
      OBVIOUS
    <2>2. Starts(p) /\ p[1] = "cancel_mark"
      BY <2>1, Beginnings
    <2>3. /\ Free("socket") /\ Begin("socket", p, j, 0) /\ ~is_terminal(j) /\ cancels' = cancels + 1
          /\ UNCHANGED <<durable, memory, limits, started, acked, recovers, crashes>>
      BY <1>2, <2>1 DEF CancelLoad
    <2>4. j # 0 /\ j \in Nat
      BY JobFacts
    <2>5. Lands("socket", "cancel_mark", j, 0) /\ thread'["socket"].seen = jobs[j]
      BY <1>0, <2>2, <2>3, <2>4, OperationBegins
    <2>6. Moves("socket") /\ pc("socket")' = "cancel_mark" /\ thread'["socket"].job = j
      BY <2>5 DEF Lands
    <2>7. ~Counting("socket")'
      BY <1>0, <2>6, CountingAt
    <2>8. jobs' = jobs /\ cancels' > 0
      BY <2>3 DEF durable, Types, TypeOK
    <2>9. ~is_terminal(j)'
      BY <2>3, <2>8 DEF is_terminal
    <2>10. WorkOK("socket")'
      BY <2>5, <2>6, <2>7, <2>8, <2>9 DEF WorkOK, HasJob
    <2>11. SameJobs /\ SameBox
      BY <2>3, BoxUnwritten DEF durable, SameJobs
    <2>12. Still
      <3>1. Clean' => Clean
        BY <2>3, <2>8 DEF Clean
      <3> QED BY <2>3, <3>1 DEF Still, Base, Seen, durable, memory
    <2> QED BY <1>0, <2>3, <2>6, <2>10, <2>11, <2>12, QuietLands DEF Hot
  <1>3. ASSUME NEW j \in DOMAIN jobs, Recover(j)
        PROVE  Quiet("socket") /\ Alone("socket")
    <2>1. PICK p : p = <<"recover">>
      OBVIOUS
    <2>2. Starts(p) /\ p[1] = "recover"
      BY <2>1, Beginnings
    <2>3. /\ Free("socket") /\ Begin("socket", p, j, jobs[j].event)
          /\ jobs[j].status \in {"failed", "cancelled"}
          /\ UNCHANGED <<durable, memory, limits, started, acked, cancels, crashes>>
      BY <1>3, <2>1 DEF Recover, Ended
    <2>4. j # 0 /\ j \in Nat /\ jobs[j].event \in Nat
      BY JobFacts
    <2>5. Lands("socket", "recover", j, jobs[j].event)
      BY <1>0, <2>2, <2>3, <2>4, OperationBegins
    <2>6. /\ Moves("socket") /\ pc("socket")' = "recover" /\ thread'["socket"].job = j
          /\ thread'["socket"].event = jobs[j].event
      BY <2>5 DEF Lands
    <2>7. ~Counting("socket")'
      BY <1>0, <2>6, CountingAt
    <2>8. jobs' = jobs
      BY <2>3 DEF durable
    <2>10. WorkOK("socket")'
      BY <2>3, <2>6, <2>7, <2>8 DEF WorkOK, HasJob
    <2>11. Still /\ SameJobs /\ SameBox
      BY <2>3, StillFrame, BoxUnwritten DEF durable, memory, SameJobs
    <2> QED BY <1>0, <2>3, <2>6, <2>10, <2>11, QuietLands DEF Hot
  <1> QED BY <1>1, <1>2, <1>3 DEF Handler

\* What the poll sees of a submission.
LEMMA PollKind ==
    ASSUME Types, RunOK, ExecOK, NEW j \in exec, PollAnchor(j) \/ Poll(j)
    PROVE  Quiet("maintenance") /\ Alone("maintenance")
  <1>0. "maintenance" \in Threads /\ ThreadsOK /\ j \in DOMAIN jobs
    BY DEF Threads, Types, TypeOK
  <1>1. CASE PollAnchor(j)
    <2>1. /\ Free("maintenance") /\ ~is_terminal(j) /\ anchored' = anchored \cup {j}
          /\ UNCHANGED <<box, jobs, requeues, memory, thread, history>>
      BY <1>1 DEF PollAnchor
    <2>2. Moves("maintenance") /\ pc("maintenance")' = "idle" /\ ~Counting("maintenance")'
      BY <1>0, <2>1, FreeMeans, NobodyMoves
    <2>3. WorkOK("maintenance")'
      BY <1>0, <2>2, WorkLoose DEF Loose
    <2>4. Still /\ SameJobs
      BY <2>1 DEF Still, Base, Seen, Clean, memory, history, SameJobs
    <2>5. SameBox
      BY <2>1, BoxUnwritten
    <2> QED BY <1>0, <2>1, <2>2, <2>3, <2>4, <2>5, QuietLands DEF Hot
  <1>2. CASE PollStale(j)
    <2>1. /\ Free("maintenance") /\ exec' = exec \ {j}
          /\ UNCHANGED <<durable, queued, active, starting, thread, history>>
      BY <1>2 DEF PollStale
    <2>2. Moves("maintenance") /\ pc("maintenance")' = "idle" /\ ~Counting("maintenance")'
      BY <1>0, <2>1, FreeMeans, NobodyMoves
    <2>3. WorkOK("maintenance")'
      BY <1>0, <2>2, WorkLoose DEF Loose
    <2>4. Still /\ SameJobs /\ SameBox
      BY <2>1, StillFrame, BoxUnwritten DEF durable, history, SameJobs
    <2> QED BY <1>0, <2>1, <2>2, <2>3, <2>4, QuietLands DEF Hot
  <1>3. ASSUME NEW d \in Decisions, PollDecision(j, d), jobs[j].status # "queued"
        PROVE  Quiet("maintenance") /\ Alone("maintenance")
    <2>1. PICK p : p = <<"complete">>
      OBVIOUS
    <2>2. Starts(p) /\ p[1] = "complete"
      BY <2>1, Beginnings
    <2>3. PICK x : x = [Idle EXCEPT !.todo = p, !.job = j, !.decision = d]
      OBVIOUS
    <2>4. /\ Free("maintenance") /\ ~is_terminal(j) /\ thread' = [thread EXCEPT !["maintenance"] = x]
          /\ UNCHANGED <<durable, memory, history>>
      BY <1>3, <2>1, <2>3 DEF PollDecision
    <2>5. x \in Local /\ x.todo = p /\ x.job = j /\ x.decision = d
      <3>1. Idle \in Local /\ p \in Seq(Labels) /\ j \in Nat /\ d \in Decision
        <4>1. \A c \in Decisions : c \in Decision
          <5>1. [status |-> "completed", reached |-> TRUE] \in Decision
            BY DEF Decision, Ended
          <5>2. [status |-> "failed", reached |-> TRUE] \in Decision
            BY DEF Decision, Ended
          <5> QED BY <5>1, <5>2, IdleLocal DEF Decisions
        <4>2. d \in Decision
          BY <4>1
        <4>3. j \in Nat
          BY <1>0, JobFacts
        <4> QED BY <2>2, <4>2, <4>3, IdleLocal DEF Starts
      <3> QED BY ONLY <2>3, <3>1 DEF Local
    <2>6. Lands("maintenance", "complete", j, x.event) /\ thread'["maintenance"] = x
      <3>1. Lands("maintenance", p[1], x.job, x.event) /\ thread'["maintenance"] = x
        BY <1>0, <2>2, <2>4, <2>5, BeginLands
      <3> QED BY <2>2, <2>5, <3>1
    <2>7. /\ Moves("maintenance") /\ pc("maintenance")' = "complete"
          /\ thread'["maintenance"].job = j /\ thread'["maintenance"].decision = d
      BY <2>5, <2>6 DEF Lands
    <2>8. ~Counting("maintenance")'
      BY <1>0, <2>7, CountingAt
    <2>9. Running(j) /\ active = j
      <3>1. Running(j)
        BY <1>0, <1>3, <2>4, JobFacts DEF is_terminal, Running
      <3>2. \A u \in Threads : pc(u) # "start_execute"
        BY <1>0, <2>4, FreeMeans
      <3> QED BY <1>0, <3>1, <3>2 DEF RunOK, Executing
    <2>10. jobs' = jobs /\ active' = active
      BY <2>4 DEF durable, memory
    <2>11. WorkOK("maintenance")'
      BY <1>0, <2>7, <2>8, <2>9, <2>10 DEF WorkOK, HasJob, Running
    <2>12. Still /\ SameJobs /\ SameBox
      BY <2>4, StillFrame, BoxUnwritten DEF durable, memory, history, SameJobs
    <2> QED BY <1>0, <2>4, <2>7, <2>11, <2>12, QuietLands DEF Hot
  <1>4. jobs[j].status # "queued"
    BY DEF ExecOK
  <1> QED BY <1>1, <1>2, <1>3, <1>4 DEF Poll

\* The steps of the start that write nothing.
LEMMA StartKind ==
    ASSUME Types, NEW t \in Threads, WorkOK(t),
           \/ Start(t) \/ PreclaimBlocked(t) \/ StartSubmitted(t) \/ StartFailed(t)
    PROVE  Quiet(t) /\ Alone(t)
  <1>0. ThreadsOK
    BY DEF Types
  <1>1. CASE Start(t)
    <2>1. At(t, "start") /\ UNCHANGED <<durable, memory, history>>
      BY <1>1 DEF Start
    <2>2. Still /\ SameJobs /\ SameBox
      BY <2>1, StillFrame, BoxUnwritten DEF durable, memory, history, SameJobs
    <2>3. "start" \in (Plain \cup Single) \ Hot
      BY DEF Plain, Hot
    <2>4. CASE Then(t, << >>)
      BY <1>0, <2>1, <2>2, <2>3, <2>4, ThenRests, QuietRests
    <2>5. CASE ~Then(t, << >>)
      <3>1. PICK j : j = delivery_job
        OBVIOUS
      <3>2. PICK q : q = <<"preclaim">> \o rest(t)
        OBVIOUS
      <3>3. PICK x : x = [thread[t] EXCEPT !.todo = q, !.job = j, !.seen = jobs[j]]
        OBVIOUS
      <3>4. /\ active = 0 /\ j \in queued /\ jobs[j].status = "queued"
            /\ thread' = [thread EXCEPT ![t] = x]
        BY <1>1, <2>5, <3>1, <3>2, <3>3 DEF Start
      <3>5. j \in DOMAIN jobs /\ j \in Nat \ {0} /\ jobs[j] \in Job /\ Named(j)
        <4>1. j \in DOMAIN jobs
          BY <3>4 DEF Types, TypeOK
        <4>2. j # 0 /\ j \in Nat /\ jobs[j] \in Job
          BY <4>1, JobFacts
        <4> QED BY <3>1, <4>1, <4>2, DeliveryJob
      <3>6. Starts(<<"preclaim">>) /\ <<"preclaim">>[1] = "preclaim"
        BY Beginnings
      <3>7. x \in Local /\ x.todo = q /\ x.job = j /\ x.seen = jobs[j]
        <4>1. thread[t] \in Local /\ q \in Seq(Labels)
          BY <1>0, <2>1, <3>2, <3>6, AtFacts, PushSeq
        <4> QED BY ONLY <3>3, <3>5, <4>1 DEF Local
      <3>8. Lands(t, "preclaim", j, x.event) /\ thread'[t] = x
        <4>1. x.todo = <<"preclaim">> \o rest(t)
          BY <3>2, <3>7
        <4>2. Lands(t, <<"preclaim">>[1], x.job, x.event) /\ thread'[t] = x
          <5>1. PICK p : p = <<"preclaim">>
            OBVIOUS
          <5>2. Starts(p) /\ x.todo = p \o rest(t)
            BY <3>6, <4>1, <5>1
          <5>3. Lands(t, p[1], x.job, x.event) /\ thread'[t] = x
            BY ONLY <1>0, <2>1, <2>3, <3>4, <3>7, <5>2, PushLands, t \in Threads, Zenon
          <5> QED BY <5>1, <5>3
        <4> QED BY <3>6, <3>7, <4>2
      <3>9. Moves(t) /\ pc(t)' = "preclaim" /\ thread'[t].job = j /\ thread'[t].seen = jobs[j]
        BY <3>7, <3>8 DEF Lands
      <3>10. ~Counting(t)'
        BY <3>9, CountingAt
      <3>11. jobs' = jobs /\ active' = active /\ box' = box
        BY <2>1 DEF durable, memory
      <3>12. Named(j)'
        BY <3>5, <3>11 DEF Named, Pending, ref
      <3>13. WorkOK(t)'
        BY <3>4, <3>5, <3>9, <3>10, <3>11, <3>12 DEF WorkOK, HasJob
      <3> QED BY <2>1, <2>2, <2>3, <3>9, <3>13, QuietLands DEF Hot
    <2> QED BY <2>4, <2>5
  <1>2. CASE PreclaimBlocked(t)
    <2>1. At(t, "preclaim") /\ UNCHANGED <<durable, memory, history>> /\ Then(t, << >>)
      BY <1>2 DEF PreclaimBlocked
    <2>2. Still /\ SameJobs /\ SameBox
      BY <2>1, StillFrame, BoxUnwritten DEF durable, memory, history, SameJobs
    <2>3. "preclaim" \in (Plain \cup Single) \ Hot
      BY DEF Single, Hot
    <2> QED BY <1>0, <2>1, <2>2, <2>3, ThenRests, QuietRests
  <1>3. CASE StartSubmitted(t)
    <2>1. /\ At(t, "start_return") /\ exec' = exec \cup {thread[t].job} /\ Then(t, << >>)
          /\ UNCHANGED <<durable, queued, active, history>>
      BY <1>3 DEF StartSubmitted
    <2>2. Running(thread[t].job) /\ thread[t].job \in DOMAIN jobs
      BY <1>0, <2>1, AtFacts DEF WorkOK, HasJob
    <2>3. Still /\ SameJobs
      BY <2>1, <2>2 DEF Still, Base, Seen, Clean, durable, history, SameJobs
    <2>4. SameBox
      BY <2>1, BoxUnwritten DEF durable
    <2>5. "start_return" \in (Plain \cup Single) \ Hot
      BY DEF Single, Hot
    <2> QED BY <1>0, <2>1, <2>3, <2>4, <2>5, ThenRests, QuietRests
  <1>4. CASE StartFailed(t)
    <2>1. /\ At(t, "start_return") /\ Complete_(t, thread[t].job, NoDecision)
          /\ UNCHANGED <<durable, queued, active, exec, history>>
      BY <1>4 DEF StartFailed
    <2>2. /\ Running(thread[t].job) /\ thread[t].job \in DOMAIN jobs /\ active = thread[t].job
          /\ thread[t].job \in Nat
      BY <1>0, <2>1, AtFacts DEF WorkOK, HasJob
    <2>3. "start_return" \in (Plain \cup Single) \ Hot
      BY DEF Single, Hot
    <2>4. /\ Lands(t, "complete", thread[t].job, thread[t].event) /\ ~Counting(t)'
          /\ thread'[t].decision = NoDecision
      BY <1>0, <2>1, <2>2, <2>3, CompleteLands, IdleLocal
    <2>5. Moves(t) /\ pc(t)' = "complete" /\ thread'[t].job = thread[t].job
      BY <2>4 DEF Lands
    <2>6. jobs' = jobs /\ active' = active
      BY <2>1 DEF durable
    <2>7. WorkOK(t)'
      BY <2>2, <2>4, <2>5, <2>6 DEF WorkOK, HasJob, Running, Decisions
    <2>8. Still /\ SameJobs /\ SameBox
      BY <2>1, StillFrame, BoxUnwritten DEF durable, history, SameJobs
    <2> QED BY <2>1, <2>3, <2>5, <2>7, <2>8, QuietLands DEF Hot
  <1> QED BY <1>1, <1>2, <1>3, <1>4

\* The loaded record is the stored one when it is written back.
LEMMA MarkKind ==
    ASSUME Types, WorkOK("socket"), CancelMark
    PROVE  Quiet("socket") /\ Alone("socket")
  <1>0. ThreadsOK /\ "socket" \in Threads
    BY DEF Types, Threads
  <1>1. PICK j : j = thread["socket"].job
    OBVIOUS
  <1>2. /\ At("socket", "cancel_mark") /\ jobs' = [jobs EXCEPT ![j] = thread["socket"].seen]
        /\ exec' = exec \ {j} /\ Then("socket", << >>)
        /\ UNCHANGED <<box, anchored, requeues, queued, active, history>>
    BY <1>1 DEF CancelMark
  <1>3. pc("socket") = "cancel_mark"
    BY <1>0, <1>2, AtFacts
  <1>4. /\ j \in DOMAIN jobs /\ thread["socket"].seen = jobs[j] /\ ~is_terminal(j) /\ cancels > 0
    BY <1>1, <1>3 DEF WorkOK, HasJob
  <1>5. jobs' = jobs
    BY <1>2, <1>4, JobFacts
  <1>6. PICK r : r = Tail(thread["socket"].todo)
    OBVIOUS
  <1>7. label(r) = "cancel_decide"
    BY <1>0, <1>2, <1>6, AtFacts, AgendaTail
  <1>8. Lands("socket", "cancel_decide", j, thread["socket"].event)
    BY <1>0, <1>1, <1>2, <1>6, <1>7, ThenNext
  <1>9. Moves("socket") /\ pc("socket")' = "cancel_decide" /\ thread'["socket"].job = j
    BY <1>8 DEF Lands
  <1>10. ~Counting("socket")'
    BY <1>0, <1>9, CountingAt
  <1>11. ~is_terminal(j)' /\ cancels' = cancels
    BY <1>2, <1>4, <1>5 DEF is_terminal, history
  <1>12. WorkOK("socket")'
    BY <1>4, <1>5, <1>9, <1>10, <1>11 DEF WorkOK, HasJob
  <1>13. Still /\ SameJobs /\ SameBox
    BY <1>2, <1>5, StillFrame, BoxUnwritten DEF history, SameJobs
  <1>14. "cancel_mark" \in (Plain \cup Single \cup {"cancel_mark"}) \ Hot
    BY DEF Hot
  <1> QED BY <1>0, <1>2, <1>9, <1>12, <1>13, <1>14, QuietLands DEF Hot

\* A restart ends the delivery that was running.
LEMMA RestoreKind ==
    ASSUME Types, WorkOK("maintenance"), Restore
    PROVE  Quiet("maintenance") /\ Alone("maintenance")
  <1>0. ThreadsOK /\ "maintenance" \in Threads
    BY DEF Types, Threads
  <1>1. PICK j : j = thread["maintenance"].job
    OBVIOUS
  <1>2. /\ At("maintenance", "restore") /\ Complete_("maintenance", j, NoDecision)
        /\ UNCHANGED <<durable, memory, history>>
    BY <1>1 DEF Restore
  <1>3. Running(j) /\ j \in DOMAIN jobs /\ active = j /\ j \in Nat
    BY <1>0, <1>1, <1>2, AtFacts DEF WorkOK, HasJob
  <1>4. "restore" \in (Plain \cup Single) \ Hot
    BY DEF Single, Hot
  <1>5. /\ Lands("maintenance", "complete", j, thread["maintenance"].event) /\ ~Counting("maintenance")'
        /\ thread'["maintenance"].decision = NoDecision
    BY <1>0, <1>2, <1>3, <1>4, CompleteLands, IdleLocal
  <1>6. Moves("maintenance") /\ pc("maintenance")' = "complete" /\ thread'["maintenance"].job = j
    BY <1>5 DEF Lands
  <1>7. jobs' = jobs /\ active' = active
    BY <1>2 DEF durable, memory
  <1>8. WorkOK("maintenance")'
    BY <1>3, <1>5, <1>6, <1>7 DEF WorkOK, HasJob, Running, Decisions
  <1>9. Still /\ SameJobs /\ SameBox
    BY <1>2, StillFrame, BoxUnwritten DEF durable, memory, history, SameJobs
  <1> QED BY <1>0, <1>2, <1>4, <1>6, <1>8, <1>9, QuietLands DEF Hot

\* A lease that is freed of an event is not on it.
LEMMA FreedReleased ==
    ASSUME NEW e, Freed(box, box', e)
    PROVE  Released(e) /\ LeaseGone
  BY DEF Freed, Released, LeaseGone, holds_lease, NoLease

\* A rewrite whose release is the next step.
LEMMA RepairPush ==
    ASSUME Types, NEW t \in Threads, NEW h \in {"repair", "prepare"}, At(t, h),
           NEW e \in Nat, NEW p, Starts(p),
           thread' = [thread EXCEPT ![t] = [@ EXCEPT !.todo = p \o rest(t), !.event = e]]
    PROVE  /\ Moves(t) /\ Alone(t) /\ pc(t) = h /\ pc(t)' = p[1] /\ thread'[t].event = e
           /\ (Counting(t)' <=> counts(p))
  <1>0. ThreadsOK /\ h \in Plain \cup Single /\ h # "release"
    BY DEF Types, Plain
  <1>1. PICK q : q = p \o rest(t)
    OBVIOUS
  <1>2. PICK x : x = [thread[t] EXCEPT !.todo = q, !.event = e]
    OBVIOUS
  <1>3. thread' = [thread EXCEPT ![t] = x]
    BY <1>1, <1>2
  <1>4. Lands(t, p[1], thread[t].job, e) /\ (Counting(t)' <=> counts(p))
    BY <1>0, <1>1, <1>2, <1>3, RewriteLands
  <1>5. Moves(t) /\ pc(t)' = p[1] /\ thread'[t].event = e
    BY <1>4 DEF Lands
  <1> QED BY <1>4, <1>5, AloneAt

\* The repair of the head.
LEMMA RepairKind ==
    ASSUME Types, RunOK, NEW t \in Threads, Repair(t)
    PROVE  Alone(t) /\ (Quiet(t) \/ \E e \in events(box) : Clears(t, e) \/ Stalls(t, e))
  <1>0. ThreadsOK /\ At(t, "repair") /\ UNCHANGED <<jobs, anchored, requeues, memory, history>>
    BY DEF Types, Repair
  <1>1. Still /\ SameJobs
    BY <1>0, StillFrame DEF memory, history, SameJobs
  <1>2. PICK e, j : e = head_reply_event /\ j = delivery_job
    OBVIOUS
  <1>3. Starts(<<"release">>) /\ ~counts(<<"release">>) /\ <<"release">>[1] = "release"
    BY Beginnings
  <1>4. e \in Nat /\ j \in Nat /\ box \in Mailbox
    BY <1>2, HeadFacts, DeliveryJob, JobFacts
  <1>5. e # 0 => e \in events(box) /\ First(e) /\ Pending(e) /\ ref(e) = j /\ e \in pending_events(box)
    BY <1>2, HeadFacts, DeliveryJob DEF First, Pending
  <1>6. ASSUME NEW r \in Nat, e # 0, box.lease.event = e, RepairRewrite(t, e, r)
        PROVE  /\ Writes(t, e, "queued", r) /\ LeaseGone /\ Alone(t)
               /\ pc(t) = "repair" /\ pc(t)' = "release" /\ thread'[t].event = e /\ ~Counting(t)'
    <2>1. box' = append_rewrite(box, e, "queued", r)
      BY <1>6 DEF RepairRewrite
    <2>2. Wrote(box, box', e, "queued", r) /\ box'.lease = box.lease
      BY <1>4, <1>5, <1>6, <2>1, RewriteDoes
    <2>3. thread' = [thread EXCEPT ![t] = [@ EXCEPT !.todo = <<"release">> \o rest(t), !.event = e]]
      BY ONLY RepairRewrite(t, e, r) DEF RepairRewrite
    <2>4. /\ Moves(t) /\ Alone(t) /\ pc(t) = "repair" /\ pc(t)' = "release" /\ thread'[t].event = e
          /\ ~Counting(t)'
      <3>1. PICK p : p = <<"release">>
        OBVIOUS
      <3>2. thread' = [thread EXCEPT ![t] = [@ EXCEPT !.todo = p \o rest(t), !.event = e]]
        BY ONLY <2>3, <3>1
      <3>3. Starts(p) /\ ~counts(p) /\ p[1] = "release"
        BY <1>3, <3>1
      <3> QED BY <1>0, <1>4, <3>2, <3>3, RepairPush
    <2> QED BY <1>1, <1>5, <1>6, <2>2, <2>4 DEF Writes, LeaseGone
  <1>7. CASE e # 0 /\ j = 0 /\ orphaned_lease(e) /\ RepairRewrite(t, e, 0)
    <2>1. box.lease.event = e
      BY <1>7 DEF orphaned_lease
    <2>2. Vacant(e)
      BY <1>5, <1>7 DEF Vacant
    <2>3. Alone(t) /\ Clears(t, e)
      BY <1>6, <1>7, <2>1, <2>2 DEF Clears
    <2> QED BY <1>5, <1>7, <2>3
  <1>8. CASE j # 0 /\ jobs[j].status = "queued" /\ pending_stall(j) /\ RepairRewrite(t, e, j)
    <2>1. e # 0 /\ ref(e) = j
      BY <1>2, <1>8, DeliveryJob
    <2>2. box.lease.event = e
      BY <1>2, <1>8 DEF pending_stall, Types, BoxOK, is_pending, Pending
    <2>3. Alone(t) /\ Stalls(t, e)
      BY <1>4, <1>6, <1>8, <2>1, <2>2 DEF Stalls
    <2> QED BY <1>5, <2>1, <2>3
  <1>9. CASE j # 0 /\ stale_running(j) /\ Complete_(t, j, NoDecision) /\ UNCHANGED box
    <2>1. j \in DOMAIN jobs /\ Running(j)
      BY <1>2, <1>9, DeliveryJob DEF stale_running, Running
    <2>2. "repair" \in (Plain \cup Single) \ Hot /\ "repair" # "release"
      BY DEF Plain, Hot
    <2>3. /\ Lands(t, "complete", j, thread[t].event) /\ ~Counting(t)'
          /\ thread'[t].decision = NoDecision
      BY <1>0, <1>4, <1>9, <2>2, CompleteLands, IdleLocal
    <2>4. Moves(t) /\ pc(t)' = "complete" /\ thread'[t].job = j
      BY <2>3 DEF Lands
    <2>5. Alone(t) /\ pc(t) = "repair"
      BY <1>0, <2>4, AloneAt
    <2>6. active = j
      BY <2>1, <2>5 DEF RunOK, Executing, Alone
    <2>7. jobs' = jobs /\ active' = active
      BY <1>0 DEF memory
    <2>8. WorkOK(t)'
      BY <2>1, <2>3, <2>4, <2>6, <2>7 DEF WorkOK, HasJob, Running, Decisions
    <2>9. SameBox
      BY <1>9, BoxUnwritten
    <2>10. Quiet(t) /\ Alone(t)
      BY <1>0, <1>1, <2>2, <2>4, <2>8, <2>9, QuietLands DEF Hot
    <2> QED BY <2>10
  <1>10. CASE Then(t, << >>) /\ UNCHANGED box
    <2>1. SameBox
      BY <1>10, BoxUnwritten
    <2>2. "repair" \in (Plain \cup Single) \ Hot
      BY DEF Plain, Hot
    <2>3. Rests(t)
      BY <1>0, <1>10, <2>2, ThenRests
    <2> QED BY <1>0, <1>1, <2>1, <2>2, <2>3, QuietRests
  <1> QED BY <1>2, <1>7, <1>8, <1>9, <1>10 DEF Repair

\* The preparation of the head.
LEMMA PrepareKind ==
    ASSUME Types, NEW t \in Threads, Prepare(t)
    PROVE  /\ Alone(t)
           /\ Quiet(t) \/ \E e \in events(box) : Clears(t, e) \/ Ends(t, e, "consumed")
  <1>0. ThreadsOK /\ At(t, "prepare") /\ UNCHANGED <<jobs, anchored, requeues, memory, history>>
    BY DEF Types, Prepare
  <1>1. Still /\ SameJobs
    BY <1>0, StillFrame DEF memory, history, SameJobs
  <1>2. PICK e, j : e = head_reply_event /\ j = delivery_job
    OBVIOUS
  <1>3. PICK p : p = <<"enqueue", "rewrite", "release">>
    OBVIOUS
  <1>4. Starts(p) /\ p[1] = "enqueue"
    BY <1>3, Beginnings
  <1>5. e \in Nat /\ j \in Nat /\ box \in Mailbox
    BY <1>2, HeadFacts, DeliveryJob, JobFacts
  <1>6. e # 0 => e \in events(box) /\ First(e) /\ Pending(e) /\ ref(e) = j /\ e \in pending_events(box)
    BY <1>2, HeadFacts, DeliveryJob DEF First, Pending
  <1>7. "prepare" \in (Plain \cup Single) \ Hot
    BY DEF Plain, Hot
  <1> DEFINE build == thread' = [thread EXCEPT ![t] = [@ EXCEPT !.todo = p \o rest(t), !.event = e]]
  <1>8. \/ Then(t, << >>) /\ UNCHANGED box
        \/ e # 0 /\ j = 0 /\ build /\ UNCHANGED box
        \/ j # 0 /\ jobs[j].status = "completed" /\ box' = mark_terminal(box, e, "consumed") /\ Then(t, << >>)
        \/ j # 0 /\ ~existing_delivery(j) /\ jobs[j].status # "completed"
           /\ box' = rewrite_head(box, e, "queued", 0) /\ build
    BY <1>2, <1>3 DEF Prepare
  <1>9. build => /\ Moves(t) /\ Alone(t) /\ pc(t) = "prepare" /\ pc(t)' = "enqueue"
                 /\ thread'[t].event = e /\ ~Counting(t)'
    <2> HAVE build
    <2>1. /\ Moves(t) /\ Alone(t) /\ pc(t) = "prepare" /\ pc(t)' = "enqueue" /\ thread'[t].event = e
      BY <1>0, <1>4, <1>5, RepairPush
    <2> QED BY <2>1, CountingAt
  <1> HIDE DEF build
  <1>10. CASE Then(t, << >>) /\ UNCHANGED box
    <2>1. SameBox
      BY <1>10, BoxUnwritten
    <2>2. Rests(t)
      BY <1>0, <1>7, <1>10, ThenRests
    <2> QED BY <1>0, <1>1, <1>7, <2>1, <2>2, QuietRests
  <1>11. CASE e # 0 /\ j = 0 /\ build /\ UNCHANGED box
    <2>1. SameBox
      BY <1>11, BoxUnwritten
    <2>2. First(e)' /\ ref(e)' = 0
      BY <1>6, <1>11 DEF First, Pending, ref
    <2>3. WorkOK(t)'
      BY <1>9, <1>11, <2>2 DEF WorkOK, HasJob
    <2> QED BY <1>0, <1>1, <1>7, <1>9, <1>11, <2>1, <2>3, QuietLands DEF Hot
  <1>12. CASE j # 0 /\ jobs[j].status = "completed" /\ box' = mark_terminal(box, e, "consumed") /\ Then(t, << >>)
    <2>1. e # 0
      BY <1>2, <1>12, DeliveryJob
    <2>2. Wrote(box, box', e, "consumed", ref(e)) /\ Freed(box, box', e)
      BY <1>5, <1>6, <1>12, <2>1, TerminalDoes DEF TerminalStatuses, is_pending, ref
    <2>3. Rests(t)
      BY <1>0, <1>7, <1>12, ThenRests
    <2>4. Moves(t)
      BY <2>3 DEF Rests
    <2>5. Alone(t) /\ pc(t) = "prepare"
      BY <1>0, <2>4, AloneAt
    <2>6. Ends(t, e, "consumed")
      BY <1>1, <1>6, <1>12, <2>1, <2>2, <2>3, <2>4, <2>5, FreedReleased DEF Ends, Writes
    <2> QED BY <1>6, <2>1, <2>5, <2>6
  <1>13. CASE j # 0 /\ ~existing_delivery(j) /\ jobs[j].status # "completed"
              /\ box' = rewrite_head(box, e, "queued", 0) /\ build
    <2>1. e # 0 /\ j \in DOMAIN jobs
      BY <1>2, <1>13, DeliveryJob
    <2>2. Wrote(box, box', e, "queued", 0) /\ Freed(box, box', e)
      BY <1>5, <1>6, <1>13, <2>1, RewriteDoes
    <2>3. Vacant(e)
      BY <1>6, <1>13, <2>1, JobFacts DEF Vacant, existing_delivery, Ended
    <2>4. Clears(t, e)
      BY <1>1, <1>6, <1>9, <1>13, <2>1, <2>2, <2>3, FreedReleased DEF Clears, Writes
    <2> QED BY <1>6, <1>9, <1>13, <2>1, <2>4
  <1> QED BY <1>8, <1>10, <1>11, <1>12, <1>13

\* Delivery jobs and their events are numbered within the bounds.
LEMMA EventBound ==
    ASSUME Types
    PROVE  \A e \in events(box) : e \in 1 .. MaxReplies /\ requeues[e] \in 0 .. MaxRequeues
  <1>1. limits \in Limits /\ Len(box.inbox) <= limits.replies /\ Len(box.inbox) \in Nat
    BY JobFacts DEF Types, TypeOK, BoxOK, Mailbox
  <1>2. limits.replies \in 1 .. MaxReplies /\ MaxReplies \in Nat
    BY <1>1, ReplyDeliveryAssumption
  <1>3. \A e \in events(box) : e \in 1 .. MaxReplies
    BY <1>1, <1>2 DEF events
  <1> QED BY <1>3 DEF Types, TypeOK

\* What the groups of steps go on with.
LEMMA NextLabel ==
    ASSUME ThreadsOK, NEW t \in Threads, NEW h, At(t, h), NEW r, r = Tail(thread[t].todo)
    PROVE  /\ r \in Seq(Labels)
           /\ h = "enqueue" => label(r) = "rewrite"
           /\ h = "rewrite" => label(r) = "release" /\ ~counts(r)
           /\ h = "finish" => label(r) = "resolve"
           /\ h = "start_running" => label(r) = "start_execute"
           /\ h = "start_execute" => label(r) = "start_return"
           /\ h = "release" /\ Counting(t) => label(r) = "requeued"
  <1>1. PICK s : s = thread[t].todo
    OBVIOUS
  <1>2. s \in Seq(Labels) /\ Shape(s) /\ s # << >> /\ Head(s) = h /\ r = Tail(s)
    BY <1>1, AtFacts
  <1>3. Counting(t) => counts(s)
    BY <1>1 DEF Counting
  <1>4. /\ r \in Seq(Labels)
        /\ Head(s) = "enqueue" => label(r) = "rewrite"
        /\ Head(s) = "rewrite" => label(r) = "release" /\ ~counts(r)
        /\ Head(s) = "finish" => label(r) = "resolve"
        /\ Head(s) = "start_running" => label(r) = "start_execute"
        /\ Head(s) = "start_execute" => label(r) = "start_return"
        /\ Head(s) = "release" /\ counts(s) => label(r) = "requeued"
    BY ONLY <1>2, AgendaTail, Zenon
  <1> QED BY ONLY <1>2, <1>3, <1>4, Zenon

\* The next step of a group, with another job or another record loaded.
LEMMA NextLands ==
    ASSUME ThreadsOK, NEW t \in Threads, NEW h, At(t, h), NEW x \in Local,
           x.todo = rest(t), NEW at, label(rest(t)) = at,
           thread' = [thread EXCEPT ![t] = x]
    PROVE  Lands(t, at, x.job, x.event)
  <1>1. PICK r : r = rest(t)
    OBVIOUS
  <1>2. Shape(r)
    BY <1>1, AtFacts DEF rest
  <1>3. Shape(x.todo) /\ label(x.todo) = at
    BY <1>1, <1>2
  <1>4. Moves(t) /\ thread'[t] = x
    BY <1>3, PutLocal
  <1> QED BY <1>3, <1>4 DEF Lands, pc

\* A new job is stored and queued.
LEMMA EnqueueKind ==
    ASSUME Types, NEW t \in Threads, Enqueue(t)
    PROVE  Adds(t) /\ Alone(t)
  <1>0. ThreadsOK /\ At(t, "enqueue")
    BY DEF Types, Enqueue
  <1>1. PICK n, e : n = Len(jobs) + 1 /\ e = thread[t].event
    OBVIOUS
  <1>2. PICK y : y = [NoJob EXCEPT !.event = e]
    OBVIOUS
  <1>3. e \in Nat /\ thread[t] \in Local
    BY <1>0, <1>1, AtFacts
  <1>4. y = [status |-> "queued", event |-> e, reached |-> FALSE] /\ y \in Job
    BY <1>2, <1>3 DEF NoJob, Job
  <1>5. jobs' = Append(jobs, y)
    BY <1>1, <1>2 DEF Enqueue
  <1>6. jobs \in Seq(Job) /\ Len(jobs) \in Nat /\ DOMAIN jobs = 1 .. Len(jobs)
    BY JobFacts
  <1>7. /\ jobs' \in Seq(Job) /\ n \in Nat /\ DOMAIN jobs' = 1 .. n /\ jobs'[n] = y
        /\ \A k \in 1 .. Len(jobs) : jobs'[k] = jobs[k]
    BY ONLY <1>1, <1>4, <1>5, <1>6
  <1>8. /\ DOMAIN jobs' = DOMAIN jobs \cup {n} /\ n \notin DOMAIN jobs
        /\ \A k \in DOMAIN jobs : jobs'[k] = jobs[k] /\ k < n
    BY ONLY <1>1, <1>6, <1>7
  <1>9. Lands(t, "rewrite", n, e)
    <2>1. PICK q : q = rest(t)
      OBVIOUS
    <2>2. PICK x : x = [thread[t] EXCEPT !.todo = q, !.job = n]
      OBVIOUS
    <2>3. thread' = [thread EXCEPT ![t] = x]
      BY <1>1, <2>1, <2>2 DEF Enqueue
    <2>4. q \in Seq(Labels) /\ label(q) = "rewrite"
      BY <1>0, <2>1, NextLabel DEF rest
    <2>5. x \in Local /\ x.todo = q /\ x.job = n /\ x.event = e
      BY ONLY <1>1, <1>3, <1>7, <2>2, <2>4 DEF Local
    <2> QED BY <1>0, <2>1, <2>3, <2>4, <2>5, NextLands
  <1>10. Alone(t) /\ pc(t) = "enqueue"
    BY <1>0, <1>9, AloneAt DEF Lands
  <1>11. Still
    BY StillFrame DEF Enqueue, history
  <1>12. SameBox
    BY BoxUnwritten DEF Enqueue
  <1>13. jobs'[n] = [status |-> "queued", event |-> e, reached |-> FALSE]
    BY <1>4, <1>7
  <1> HIDE <1>2, <1>4, <1>5
  <1> QED BY <1>1, <1>7, <1>8, <1>9, <1>10, <1>11, <1>12, <1>13 DEF Adds

\* The head names the job.
LEMMA RewriteKind ==
    ASSUME Types, NEW t \in Threads, WorkOK(t), Rewrite(t)
    PROVE  Names(t) /\ Alone(t)
  <1>0. /\ ThreadsOK /\ At(t, "rewrite") /\ Then(t, << >>)
        /\ RewriteRecord(thread[t].event, thread[t].job)
        /\ UNCHANGED <<jobs, anchored, requeues, memory, history>>
    BY DEF Types, Rewrite
  <1>1. pc(t) = "rewrite" /\ thread[t].job \in Nat
    BY <1>0, AtFacts
  <1>2. Pending(thread[t].event)
    BY <1>1 DEF WorkOK, First
  <1>3. box' = append_rewrite(box, thread[t].event, "queued", thread[t].job)
    BY <1>0, <1>2 DEF RewriteRecord, is_pending, Pending
  <1>4. /\ Wrote(box, box', thread[t].event, "queued", thread[t].job) /\ box'.lease = box.lease
    BY <1>1, <1>2, <1>3, JobFacts, RewriteDoes DEF Pending
  <1>5. PICK r : r = Tail(thread[t].todo)
    OBVIOUS
  <1>6. label(r) = "release" /\ ~counts(r)
    BY <1>0, <1>5, NextLabel
  <1>7. Lands(t, "release", thread[t].job, thread[t].event) /\ ~Counting(t)'
    BY <1>0, <1>5, <1>6, ThenNext
  <1>8. Moves(t) /\ pc(t)' = "release" /\ thread'[t].event = thread[t].event
    BY <1>7 DEF Lands
  <1>9. Still /\ SameJobs
    BY <1>0, StillFrame DEF memory, history, SameJobs
  <1> QED BY <1>0, <1>1, <1>2, <1>4, <1>7, <1>8, <1>9, AloneAt DEF Names, Writes

\* The lease of a rewritten event is released.
LEMMA ReleaseKind ==
    ASSUME Types, NEW t \in Threads, Release(t)
    PROVE  Frees(t) /\ Alone(t)
  <1>0. ThreadsOK /\ At(t, "release") /\ Then(t, << >>) /\ UNCHANGED <<jobs, anchored, requeues, memory, history>>
    BY DEF Types, Release
  <1>1. PICK e : e = thread[t].event
    OBVIOUS
  <1>2. box' = IF is_pending(box, e)
               THEN rewrite_summary(release_matching_lease(box, e), e)
               ELSE rebuild_mailbox_summary(box)
    BY <1>1 DEF Release
  <1>3. /\ box' \in Mailbox /\ box'.inbox = box.inbox
        /\ IF Pending(e) THEN Freed(box, box', e) ELSE box'.lease = box.lease
    <2>1. CASE Pending(e)
      BY <1>2, <2>1, JobFacts, ReleaseDoes DEF is_pending, Pending
    <2>2. CASE ~Pending(e)
      BY <1>2, <2>2, JobFacts, RebuildDoes DEF is_pending, Pending, Kept
    <2> QED BY <2>1, <2>2
  <1>4. Still /\ SameJobs
    BY <1>0, StillFrame DEF memory, history, SameJobs
  <1>5. pc(t) = "release"
    BY <1>0, AtFacts
  <1>6. CASE ~Counting(t)
    <2>1. "release" \in Plain \cup Single
      BY DEF Single
    <2>2. Rests(t)
      BY <1>0, <1>6, <2>1, ThenRests
    <2>3. Moves(t)
      BY <2>2 DEF Rests
    <2> QED BY <1>0, <1>1, <1>3, <1>4, <1>5, <1>6, <2>2, <2>3, AloneAt DEF Frees
  <1>7. CASE Counting(t)
    <2>1. PICK r : r = Tail(thread[t].todo)
      OBVIOUS
    <2>2. label(r) = "requeued"
      BY <1>0, <1>7, <2>1, NextLabel
    <2>3. counts(r)
      BY <2>2 DEF counts
    <2>4. Lands(t, "requeued", thread[t].job, thread[t].event) /\ Counting(t)'
      BY <1>0, <2>1, <2>2, <2>3, ThenNext
    <2>5. Moves(t)
      BY <2>4 DEF Lands
    <2> QED BY <1>0, <1>1, <1>3, <1>4, <1>5, <1>7, <2>4, <2>5, AloneAt DEF Frees
  <1> QED BY <1>6, <1>7

\* The event of the job is claimed.
LEMMA PreclaimKind ==
    ASSUME Types, NEW t \in Threads, WorkOK(t), PreclaimAllowed(t)
    PROVE  Claims(t) /\ Alone(t)
  <1>0. /\ ThreadsOK /\ At(t, "preclaim") /\ UNCHANGED <<jobs, anchored, requeues, active, starting, exec, history>>
        /\ Then(t, <<"start_running", "start_execute", "start_return">>)
    BY DEF Types, PreclaimAllowed
  <1>1. PICK j, e : j = thread[t].job /\ e = jobs[j].event
    OBVIOUS
  <1>2. /\ claim_returns(box, e)
        /\ box' = IF claim_succeeds(box, e) THEN claim(box, e) ELSE box
    BY <1>1 DEF PreclaimAllowed, claim_reply_delivery_start
  <1>3. pc(t) = "preclaim"
    BY <1>0, AtFacts
  <1>4. PICK p : p = <<"start_running", "start_execute", "start_return">>
    OBVIOUS
  <1>5. Starts(p) /\ p[1] = "start_running" /\ Then(t, p)
    BY <1>0, <1>4, Beginnings
  <1>6. "preclaim" \in Plain \cup Single
    BY DEF Single
  <1>7. Lands(t, "start_running", j, thread[t].event) /\ thread'[t].seen = thread[t].seen
    BY <1>0, <1>1, <1>5, <1>6, ThenPush
  <1>8. Moves(t)
    BY <1>7 DEF Lands
  <1>9. Still /\ SameJobs
    BY <1>0, StillFrame DEF history, SameJobs
  <1>10. Pending(e)
    BY <1>2 DEF claim_returns, claim_succeeds, is_pending, Pending
  <1>11. CASE claim_succeeds(box, e)
    <2>1. Wrote(box, box', e, "delivering", ref(e)) /\ box'.lease.event = e /\ box'.lease.state = "acquired"
      BY <1>2, <1>11, JobFacts, ClaimDoes DEF ref
    <2>2. Writes(t, e, "delivering", ref(e))
      BY <1>8, <1>9, <1>10, <2>1 DEF Writes
    <2> QED BY <1>0, <1>1, <1>3, <1>7, <1>8, <2>1, <2>2, AloneAt DEF Claims
  <1>12. CASE ~claim_succeeds(box, e)
    <2>1. /\ box' = box /\ box.inbox[e].status = "delivering"
          /\ holds_lease(box) => box.lease.event = e
      BY <1>2, <1>12 DEF claim_returns
    <2>2. SameBox
      BY <2>1, BoxUnwritten
    <2> QED BY <1>0, <1>1, <1>3, <1>7, <1>8, <1>9, <1>10, <2>1, <2>2, AloneAt DEF Claims
  <1> QED BY <1>11, <1>12

\* The job runs.
LEMMA StartRunningKind ==
    ASSUME Types, NEW t \in Threads, WorkOK(t), StartRunning(t)
    PROVE  Runs(t) /\ Alone(t)
  <1>0. ThreadsOK /\ At(t, "start_running")
    BY DEF Types, StartRunning
  <1>1. PICK j : j = thread[t].job
    OBVIOUS
  <1>2. pc(t) = "start_running" /\ thread[t] \in Local
    BY <1>0, AtFacts
  <1>3. j \in DOMAIN jobs /\ thread[t].seen = jobs[j]
    BY <1>1, <1>2 DEF WorkOK, HasJob
  <1>4. PICK y : y = [jobs[j] EXCEPT !.status = "running"]
    OBVIOUS
  <1>5. jobs' = [jobs EXCEPT ![j] = y]
    BY <1>1, <1>3, <1>4 DEF StartRunning
  <1>6. y \in Job /\ y.status = "running" /\ y.event = jobs[j].event
    <2>1. jobs[j] \in Job
      BY <1>3, JobFacts
    <2> QED BY ONLY <1>4, <2>1 DEF Job
  <1>7. Sets(j) /\ jobs'[j].status = "running"
    <2>1. jobs \in Seq(Job)
      BY JobFacts
    <2> QED BY ONLY <1>3, <1>5, <1>6, <2>1 DEF Sets
  <1>8. Lands(t, "start_execute", j, thread[t].event)
    <2>1. PICK q : q = rest(t)
      OBVIOUS
    <2>2. PICK x : x = [thread[t] EXCEPT !.todo = q, !.seen = NoJob]
      OBVIOUS
    <2>3. thread' = [thread EXCEPT ![t] = x]
      BY <2>1, <2>2 DEF StartRunning
    <2>4. q \in Seq(Labels) /\ label(q) = "start_execute"
      BY <1>0, <2>1, NextLabel DEF rest
    <2>5. x \in Local /\ x.todo = q /\ x.job = j /\ x.event = thread[t].event
      <3>1. NoJob \in Job
        BY IdleLocal
      <3> QED BY ONLY <1>1, <1>2, <2>2, <2>4, <3>1 DEF Local
    <2>6. Lands(t, "start_execute", x.job, x.event)
      BY <1>0, <2>1, <2>3, <2>4, <2>5, NextLands
    <2> QED BY <2>5, <2>6
  <1>9. Alone(t)
    BY <1>0, <1>8, AloneAt DEF Lands
  <1>10. Still
    BY StillFrame DEF StartRunning, memory
  <1>11. SameBox
    BY BoxUnwritten DEF StartRunning
  <1> QED BY <1>1, <1>2, <1>7, <1>8, <1>9, <1>10, <1>11 DEF Runs

\* The job takes the slot.
LEMMA StartExecuteKind ==
    ASSUME Types, NEW t \in Threads, StartExecute(t)
    PROVE  Takes(t) /\ Alone(t)
  <1>0. /\ ThreadsOK /\ At(t, "start_execute") /\ Then(t, << >>) /\ active' = thread[t].job
        /\ UNCHANGED <<durable, queued, exec, history>>
    BY DEF Types, StartExecute
  <1>1. PICK r : r = Tail(thread[t].todo)
    OBVIOUS
  <1>2. label(r) = "start_return"
    BY <1>0, <1>1, NextLabel
  <1>3. Lands(t, "start_return", thread[t].job, thread[t].event)
    BY <1>0, <1>1, <1>2, ThenNext
  <1>4. Alone(t) /\ pc(t) = "start_execute"
    BY <1>0, <1>3, AloneAt DEF Lands
  <1>5. SameBox
    BY <1>0, BoxUnwritten DEF durable
  <1>6. Base /\ requeues' = requeues /\ crashes' = crashes /\ SameJobs
    BY <1>0 DEF Base, Seen, Clean, SameJobs, durable, history
  <1> QED BY <1>0, <1>3, <1>4, <1>5, <1>6 DEF Takes

\* The execution is over.
LEMMA FinishKind ==
    ASSUME Types, NEW t \in Threads, Finish(t)
    PROVE  Goes(t, "finish", "resolve") /\ Alone(t)
  <1>0. /\ ThreadsOK /\ At(t, "finish") /\ Then(t, << >>) /\ exec' \subseteq exec
        /\ UNCHANGED <<durable, queued, active, history>>
    BY DEF Types, Finish
  <1>1. PICK r : r = Tail(thread[t].todo)
    OBVIOUS
  <1>2. label(r) = "resolve"
    BY <1>0, <1>1, NextLabel
  <1>3. Lands(t, "resolve", thread[t].job, thread[t].event)
    BY <1>0, <1>1, <1>2, ThenNext
  <1>4. Alone(t) /\ pc(t) = "finish"
    BY <1>0, <1>3, AloneAt DEF Lands
  <1>5. Still /\ SameJobs /\ SameBox
    BY <1>0, StillFrame, BoxUnwritten DEF durable, history, SameJobs
  <1> QED BY <1>3, <1>4, <1>5 DEF Goes

\* A requeue is counted.
LEMMA RequeuedKind ==
    ASSUME Types, NEW t \in Threads, Requeued(t)
    PROVE  Counts(t) /\ Alone(t)
  <1>0. /\ ThreadsOK /\ At(t, "requeued") /\ Then(t, << >>)
        /\ requeues' = [requeues EXCEPT ![thread[t].event] = @ + 1]
        /\ UNCHANGED <<box, jobs, anchored, memory, history>>
    BY DEF Types, Requeued
  <1>1. "requeued" \in Plain \cup Single
    BY DEF Single
  <1>2. Rests(t)
    BY <1>0, <1>1, ThenRests
  <1>3. Alone(t) /\ pc(t) = "requeued"
    BY <1>0, <1>2, AloneAt DEF Rests
  <1>4. Base /\ active' = active /\ crashes' = crashes /\ SameJobs
    BY <1>0 DEF Base, Seen, Clean, SameJobs, memory, history
  <1>5. SameBox
    BY <1>0, BoxUnwritten
  <1> QED BY <1>0, <1>2, <1>3, <1>4, <1>5 DEF Counts

\* A running job ends with what the provider decided.
LEMMA CompleteKind ==
    ASSUME Types, NEW t \in Threads, WorkOK(t), Complete(t)
    PROVE  Completes(t) /\ Alone(t)
  <1>0. ThreadsOK /\ At(t, "complete") /\ UNCHANGED <<anchored, requeues, queued, starting, exec, history>>
    BY DEF Types, Complete
  <1>1. PICK j : j = thread[t].job
    OBVIOUS
  <1>2. pc(t) = "complete" /\ thread[t] \in Local
    BY <1>0, AtFacts
  <1>3. j \in DOMAIN jobs /\ Running(j) /\ active = j /\ thread[t].decision \in Decisions
    BY <1>1, <1>2 DEF WorkOK, HasJob
  <1>4. ~is_terminal(j)
    BY <1>3 DEF is_terminal, Running, Ended
  <1>5. PICK d : d = merge_terminal_decision(j, thread[t].decision)
    OBVIOUS
  <1>6. /\ d.status \in {"completed", "failed"} /\ d.reached \in BOOLEAN
        /\ j \in anchored => d.reached
    <2>1. \A c \in Decisions : c.status \in {"completed", "failed"} /\ c.reached \in BOOLEAN
      <3>1. \A c \in Decisions : c.status \in {"completed", "failed"}
        BY DEF Decisions, NoDecision
      <3>2. \A c \in Decisions : c.reached \in BOOLEAN
        <4>1. \A c \in Decisions : c.reached = TRUE \/ c.reached = FALSE
          BY DEF Decisions, NoDecision
        <4> QED BY <4>1
      <3> QED BY <3>1, <3>2
    <2>2. \A c \in Decisions : "reached" \in DOMAIN c /\ "status" \in DOMAIN c
      BY DEF Decisions, NoDecision
    <2>3. PICK c : c = thread[t].decision
      OBVIOUS
    <2>4. d = [c EXCEPT !.reached = c.reached \/ j \in anchored]
      BY <1>5, <2>3 DEF merge_terminal_decision
    <2>5. d.status = c.status /\ d.reached = (c.reached \/ j \in anchored)
      BY <1>3, <2>2, <2>3, <2>4
    <2> QED BY <1>3, <2>1, <2>3, <2>5
  <1>7. /\ jobs' = [jobs EXCEPT ![j].status = d.status, ![j].reached = d.reached]
        /\ active' = IF active = j THEN 0 ELSE active
        /\ box' = rebuild_mailbox_summary(box)
        /\ thread' = [thread EXCEPT ![t] =
                    [@ EXCEPT !.event = jobs[j].event, !.decision = NoDecision,
                              !.todo = <<"finish", "resolve", "repair", "prepare">> \o rest(t)]]
    BY <1>1, <1>4, <1>5 DEF Complete
  <1>8. /\ Sets(j) /\ jobs'[j].status = d.status /\ jobs'[j].reached = d.reached
    <2>1. jobs \in Seq(Job) /\ jobs[j] \in Job
      BY <1>3, JobFacts
    <2>2. PICK y : y = [jobs[j] EXCEPT !.status = d.status, !.reached = d.reached]
      OBVIOUS
    <2>3. y \in Job /\ y.event = jobs[j].event /\ y.status = d.status /\ y.reached = d.reached
      BY ONLY <1>6, <2>1, <2>2 DEF Job, Ended
    <2>4. jobs' = [jobs EXCEPT ![j] = y]
      BY ONLY <1>3, <1>7, <2>1, <2>2
    <2> QED BY ONLY <1>3, <2>1, <2>3, <2>4 DEF Sets
  <1>9. Moves(t) /\ pc(t)' = "finish" /\ thread'[t].job = j
    <2>1. PICK p : p = <<"finish", "resolve", "repair", "prepare">>
      OBVIOUS
    <2>2. Starts(p) /\ p[1] = "finish"
      BY <2>1, Beginnings
    <2>3. PICK q : q = p \o rest(t)
      OBVIOUS
    <2>4. PICK e : e = jobs[j].event
      OBVIOUS
    <2>5. PICK x : x = [thread[t] EXCEPT !.event = e, !.decision = NoDecision, !.todo = q]
      OBVIOUS
    <2>6. thread' = [thread EXCEPT ![t] = x]
      BY ONLY <1>7, <2>1, <2>3, <2>4, <2>5
    <2>7. e \in Nat /\ NoDecision \in Decision /\ "complete" \in Plain \cup Single
      BY <1>3, <2>4, JobFacts, IdleLocal DEF Single
    <2>8. Lands(t, p[1], thread[t].job, e)
      BY <1>0, <2>2, <2>3, <2>5, <2>6, <2>7, RewriteLands
    <2> QED BY <1>1, <2>2, <2>8 DEF Lands
  <1>10. Alone(t)
    BY <1>0, <1>9, AloneAt
  <1>11. SameBox
    BY <1>7, JobFacts, RebuildDoes DEF SameBox
  <1>12. Base /\ crashes' = crashes /\ requeues' = requeues /\ anchored' = anchored
    BY <1>0 DEF Base, Seen, Clean, history
  <1>13. active' = 0
    BY <1>3, <1>7
  <1> QED BY <1>1, <1>2, <1>6, <1>8, <1>9, <1>10, <1>11, <1>12, <1>13 DEF Completes

\* The end of a job is resolved.
LEMMA ResolveKind ==
    ASSUME Types, NEW t \in Threads, WorkOK(t), Resolve(t)
    PROVE  /\ Alone(t)
           /\ Dismisses(t) \/ \E e \in events(box) : Requeues(t, e) \/ Ends(t, e, "consumed")
  <1>0. ThreadsOK /\ At(t, "resolve") /\ UNCHANGED <<jobs, anchored, requeues, memory, history>>
    BY DEF Types, Resolve
  <1>1. PICK j, e : j = thread[t].job /\ e = jobs[j].event
    OBVIOUS
  <1>2. pc(t) = "resolve" /\ thread[t] \in Local
    BY <1>0, AtFacts
  <1>3. j \in DOMAIN jobs /\ is_terminal(j)
    BY <1>1, <1>2 DEF WorkOK, HasJob
  <1>4. e \in events(box) /\ e \in Nat /\ requeues[e] \in Nat /\ MaxRequeues \in Nat
    BY <1>1, <1>3, JobFacts, EventBound, ReplyDeliveryAssumption DEF Types, BoxOK
  <1>5. Still /\ SameJobs
    BY <1>0, StillFrame DEF memory, history, SameJobs
  <1>6. "resolve" \in Plain \cup Single
    BY DEF Single
  <1>7. CASE terminal_disposition(j) = "requeued"
    <2>1. RewriteRecord(e, 0) /\ thread' = [thread EXCEPT ![t] =
              [@ EXCEPT !.event = e, !.todo = <<"release", "requeued">> \o rest(t)]]
      BY <1>1, <1>7 DEF Resolve
    <2>2. /\ jobs[j].status \notin {"completed", "cancelled"} /\ ~jobs[j].reached
          /\ ~budget_spent(e)
      BY <1>1, <1>7 DEF terminal_disposition
    <2>3. Spent(j) /\ requeues[e] < MaxRequeues
      BY <1>3, <1>4, <2>2 DEF Spent, is_terminal, Ended, budget_spent
    <2>4. Moves(t) /\ pc(t)' = "release" /\ Counting(t)' /\ thread'[t].event = e
      <3>1. PICK p : p = <<"release", "requeued">>
        OBVIOUS
      <3>2. Starts(p) /\ counts(p) /\ p[1] = "release"
        BY <3>1, Beginnings
      <3>3. PICK q : q = p \o rest(t)
        OBVIOUS
      <3>4. PICK x : x = [thread[t] EXCEPT !.event = e, !.todo = q]
        OBVIOUS
      <3>5. thread' = [thread EXCEPT ![t] = x]
        BY ONLY <2>1, <3>1, <3>3, <3>4
      <3>6. Lands(t, p[1], thread[t].job, e) /\ (Counting(t)' <=> counts(p))
        BY <1>0, <1>4, <1>6, <3>2, <3>3, <3>4, <3>5, RewriteLands
      <3> QED BY <3>2, <3>6 DEF Lands
    <2>5. Alone(t)
      BY <1>0, <2>4, AloneAt
    <2>6. CASE Pending(e)
      <3>1. box' = append_rewrite(box, e, "queued", 0)
        BY <2>1, <2>6 DEF RewriteRecord, is_pending, Pending
      <3>2. Wrote(box, box', e, "queued", 0) /\ box'.lease = box.lease
        BY <2>6, <3>1, JobFacts, RewriteDoes DEF Pending
      <3>3. Requeues(t, e)
        BY <1>1, <1>2, <1>5, <2>3, <2>4, <2>6, <3>2 DEF Requeues, Writes
      <3> QED BY <1>4, <2>5, <3>3
    <2>7. CASE ~Pending(e)
      <3>1. SameBox
        BY <2>1, <2>7, BoxUnwritten DEF RewriteRecord, is_pending, Pending
      <3>2. Dismisses(t)
        BY <1>1, <1>2, <1>5, <2>3, <2>4, <2>7, <3>1 DEF Dismisses
      <3> QED BY <2>5, <3>2
    <2> QED BY <2>6, <2>7
  <1>8. CASE terminal_disposition(j) # "requeued"
    <2>1. box' = mark_terminal(box, e, "consumed") /\ Then(t, << >>)
      BY <1>1, <1>8 DEF Resolve
    <2>2. Rests(t)
      BY <1>0, <1>6, <2>1, ThenRests
    <2>3. Moves(t)
      BY <2>2 DEF Rests
    <2>4. Alone(t)
      BY <1>0, <2>3, AloneAt
    <2>5. CASE Pending(e)
      <3>1. Wrote(box, box', e, "consumed", ref(e)) /\ Freed(box, box', e)
        BY <2>1, <2>5, JobFacts, TerminalDoes DEF TerminalStatuses, is_pending, ref, Pending
      <3>2. Ends(t, e, "consumed")
        BY <1>1, <1>2, <1>5, <1>8, <2>2, <2>3, <2>5, <3>1, FreedReleased DEF Ends, Writes
      <3> QED BY <1>4, <2>4, <3>2
    <2>6. CASE ~Pending(e)
      <3>1. SameBox
        BY <2>1, <2>6, JobFacts, TerminalDoes DEF TerminalStatuses, is_pending, Pending, SameBox
      <3>2. Dismisses(t)
        BY <1>1, <1>2, <1>5, <2>2, <2>6, <3>1 DEF Dismisses
      <3> QED BY <2>4, <3>2
    <2> QED BY <2>5, <2>6
  <1> QED BY <1>7, <1>8

\* A cancellation is decided.
LEMMA CancelKind ==
    ASSUME Types, WorkOK("socket"), CancelDecide
    PROVE  Cancels /\ Alone("socket")
  <1>0. /\ ThreadsOK /\ "socket" \in Threads /\ At("socket", "cancel_decide")
        /\ UNCHANGED <<anchored, requeues, starting, exec, history>>
    BY DEF Types, CancelDecide, Threads
  <1>1. PICK j : j = thread["socket"].job
    OBVIOUS
  <1>2. pc("socket") = "cancel_decide" /\ thread["socket"] \in Local
    BY <1>0, AtFacts
  <1>3. j \in DOMAIN jobs /\ ~is_terminal(j)
    BY <1>1, <1>2 DEF WorkOK, HasJob
  <1>4. /\ jobs' = [jobs EXCEPT ![j].status = "cancelled"]
        /\ active' = IF active = j THEN 0 ELSE active
        /\ box' = rebuild_mailbox_summary(box)
        /\ Then("socket", <<"resolve">>)
    BY <1>1, <1>3 DEF CancelDecide
  <1>5. Sets(j) /\ jobs'[j].status = "cancelled"
    <2>1. jobs \in Seq(Job) /\ jobs[j] \in Job
      BY <1>3, JobFacts
    <2>2. PICK y : y = [jobs[j] EXCEPT !.status = "cancelled"]
      OBVIOUS
    <2>3. y \in Job /\ y.event = jobs[j].event /\ y.status = "cancelled"
      BY ONLY <2>1, <2>2 DEF Job, Ended
    <2>4. jobs' = [jobs EXCEPT ![j] = y]
      BY ONLY <1>3, <1>4, <2>1, <2>2
    <2> QED BY ONLY <1>3, <2>1, <2>3, <2>4 DEF Sets
  <1>6. Lands("socket", "resolve", j, thread["socket"].event)
    <2>1. PICK p : p = <<"resolve">>
      OBVIOUS
    <2>2. Starts(p) /\ p[1] = "resolve" /\ Then("socket", p)
      BY <1>4, <2>1, Beginnings
    <2>3. "cancel_decide" \in Plain \cup Single
      BY DEF Single
    <2> QED BY <1>0, <1>1, <2>2, <2>3, ThenPush
  <1>7. Alone("socket")
    BY <1>0, <1>6, AloneAt DEF Lands
  <1>8. SameBox
    BY <1>4, JobFacts, RebuildDoes DEF SameBox
  <1>9. Base /\ crashes' = crashes /\ requeues' = requeues
    BY <1>0 DEF Base, Seen, Clean, history
  <1> QED BY <1>1, <1>2, <1>4, <1>5, <1>6, <1>7, <1>8, <1>9 DEF Cancels

\* A reply is acknowledged.
LEMMA AckKind ==
    ASSUME Types, WorkOK("socket"), Ack
    PROVE  /\ Alone("socket")
           /\ Quiet("socket") \/ \E e \in events(box) : Ends("socket", e, "consumed")
  <1>0. /\ ThreadsOK /\ "socket" \in Threads /\ At("socket", "ack") /\ Leave("socket")
        /\ UNCHANGED <<jobs, anchored, requeues, memory, limits, started, cancels, recovers, crashes>>
    BY DEF Types, Ack, Threads
  <1>1. PICK e : e = thread["socket"].event
    OBVIOUS
  <1>2. box' = ack_reply(box, e) /\ acked' = acked \cup {e}
    BY <1>1 DEF Ack
  <1>3. pc("socket") = "ack"
    BY <1>0, AtFacts
  <1>4. First(e) /\ Pending(e) /\ e \in events(box) /\ e \in pending_events(box)
    BY <1>1, <1>3, HeadFacts DEF WorkOK, First, Pending
  <1>5. Still /\ SameJobs
    BY <1>0, <1>2, StillFrame DEF memory, SameJobs
  <1>6. Rests("socket")
    BY <1>0, LeaveRests
  <1>7. Moves("socket")
    BY <1>6 DEF Rests
  <1>8. Alone("socket")
    BY <1>0, <1>7, AloneAt
  <1>9. CASE Kept(box, box')
    <2>1. "ack" \in (Plain \cup Single) \ Hot
      BY DEF Single, Hot
    <2>2. SameBox
      BY <1>9 DEF SameBox
    <2> QED BY <1>0, <1>5, <1>6, <2>1, <2>2, QuietRests
  <1>10. CASE Wrote(box, box', e, "consumed", ref(e)) /\ (Freed(box, box', e) \/ box'.lease = NoLease)
    <2>1. Released(e)
      <3>1. CASE Freed(box, box', e)
        BY <3>1, FreedReleased
      <3>2. CASE box'.lease = NoLease
        BY <3>2 DEF Released, holds_lease, NoLease
      <3> QED BY <1>10, <3>1, <3>2
    <2>2. Ends("socket", e, "consumed")
      BY <1>1, <1>2, <1>3, <1>4, <1>5, <1>6, <1>7, <1>10, <2>1 DEF Ends, Writes
    <2> QED BY <1>4, <1>8, <2>2
  <1> QED BY <1>2, <1>4, <1>9, <1>10, JobFacts, AckDoes DEF ref

\* A failed delivery is recovered.
LEMMA RecoverKind ==
    ASSUME Types, WorkOK("socket"), RecoverRewrite
    PROVE  /\ Alone("socket")
           /\ \/ Quiet("socket") \/ Revives("socket")
              \/ \E e \in events(box) : Clears("socket", e)
  <1>0. /\ ThreadsOK /\ "socket" \in Threads /\ At("socket", "recover")
        /\ UNCHANGED <<jobs, anchored, requeues, memory, history>>
    BY DEF Types, RecoverRewrite, Threads
  <1>1. PICK e, j : e = thread["socket"].event /\ j = thread["socket"].job
    OBVIOUS
  <1>2. pc("socket") = "recover"
    BY <1>0, AtFacts
  <1>3. j \in DOMAIN jobs /\ e = jobs[j].event /\ jobs[j].status \in {"failed", "cancelled"}
    BY <1>1, <1>2 DEF WorkOK, HasJob
  <1>4. Still /\ SameJobs
    BY <1>0, StillFrame DEF memory, history, SameJobs
  <1>5. "recover" \in (Plain \cup Single) \ Hot
    BY DEF Single, Hot
  <1>6. CASE Leave("socket") /\ UNCHANGED box
    <2>1. SameBox
      BY <1>6, BoxUnwritten
    <2>2. Rests("socket")
      BY <1>0, <1>6, LeaveRests
    <2> QED BY <1>0, <1>4, <1>5, <2>1, <2>2, QuietRests
  <1>7. CASE ~already_retried(e, j) /\ RewriteRecord(e, 0)
             /\ Then("socket", <<"release", "repair", "prepare", "start">>)
    <2>1. PICK p : p = <<"release", "repair", "prepare", "start">>
      OBVIOUS
    <2>2. Starts(p) /\ ~counts(p) /\ p[1] = "release" /\ Then("socket", p)
      BY <1>7, <2>1, Beginnings
    <2>3. Lands("socket", "release", j, e) /\ ~Counting("socket")'
      BY <1>0, <1>1, <1>5, <2>2, ThenPush
    <2>4. Moves("socket") /\ pc("socket")' = "release" /\ thread'["socket"].event = e
      BY <2>3 DEF Lands
    <2>5. Alone("socket")
      BY <1>0, <2>4, AloneAt
    <2>6. CASE Pending(e)
      <3>1. box' = append_rewrite(box, e, "queued", 0)
        BY <1>7, <2>6 DEF RewriteRecord, is_pending, Pending
      <3>2. Wrote(box, box', e, "queued", 0) /\ box'.lease = box.lease
        BY <2>6, <3>1, JobFacts, RewriteDoes DEF Pending
      <3>3. e \in events(box)
        BY <2>6, HeadFacts DEF Pending
      <3>4. Vacant(e)
        <4>1. CASE ref(e) \in {0, j}
          BY <1>3, <2>6, <4>1 DEF Vacant
        <4>2. CASE ref(e) \notin {0, j}
          <5>1. ref(e) \in DOMAIN jobs
            BY <3>3, <4>2 DEF Types, BoxOK
          <5>2. jobs[ref(e)].status \notin {"queued", "running", "completed"}
            BY <1>7, <4>2 DEF already_retried, ref
          <5>3. jobs[ref(e)].status \in {"failed", "cancelled"}
            BY <5>1, <5>2, JobFacts DEF Ended
          <5> QED BY <2>6, <5>3 DEF Vacant
        <4> QED BY <4>1, <4>2
      <3>5. Clears("socket", e)
        BY <1>2, <1>4, <2>3, <2>4, <2>6, <3>2, <3>4 DEF Clears, Writes, LeaseGone
      <3> QED BY <2>5, <3>3, <3>5
    <2>7. CASE ~Pending(e)
      <3>1. SameBox
        BY <1>7, <2>7, BoxUnwritten DEF RewriteRecord, is_pending, Pending
      <3>2. Revives("socket")
        BY <1>1, <1>2, <1>4, <2>3, <2>4, <2>7, <3>1 DEF Revives
      <3> QED BY <2>5, <3>2
    <2> QED BY <2>6, <2>7
  <1> QED BY <1>1, <1>6, <1>7 DEF RecoverRewrite

\* The lease of an agent that runs nothing expires.
LEMMA SweepKind ==
    ASSUME Types, SweepLease
    PROVE  Sweeps /\ Alone("maintenance")
  <1>0. /\ ThreadsOK /\ "maintenance" \in Threads /\ Free("maintenance") /\ holds_lease(box)
        /\ ~(active # 0 /\ jobs[active].status = "running")
        /\ UNCHANGED <<jobs, anchored, requeues, memory, history>>
    BY DEF Types, SweepLease, Threads
  <1>1. Pending(box.lease.event)
    BY <1>0 DEF Types, BoxOK
  <1>2. /\ box' = [box EXCEPT !.lease.state = "expired"]
        /\ Begin("maintenance", <<"sweep">>, 0, box.lease.event)
    BY <1>1 DEF SweepLease, is_pending, Pending
  <1>3. /\ box' \in Mailbox /\ box'.inbox = box.inbox /\ box'.lease.state = "expired"
        /\ box'.lease.event = box.lease.event /\ box.lease.event \in Nat
    BY <1>2, JobFacts DEF Mailbox, Lease
  <1>4. Lands("maintenance", "sweep", 0, box.lease.event)
    <2>1. PICK p : p = <<"sweep">>
      OBVIOUS
    <2>2. Starts(p) /\ p[1] = "sweep" /\ Begin("maintenance", p, 0, box.lease.event)
      BY <1>2, <2>1, Beginnings
    <2> QED BY <1>0, <1>3, <2>2, OperationBegins
  <1>5. Alone("maintenance")
    BY <1>0, <1>4, AloneFree DEF Lands
  <1>6. \A u \in Threads : pc(u) = "idle"
    BY <1>0, FreeMeans
  <1>7. Still /\ SameJobs
    BY <1>0, StillFrame DEF memory, history, SameJobs
  <1> QED BY <1>0, <1>1, <1>3, <1>4, <1>5, <1>6, <1>7 DEF Sweeps, Running

\* Its event is abandoned.
LEMMA SweepEventKind ==
    ASSUME Types, WorkOK("maintenance"), SweepEvent
    PROVE  /\ Alone("maintenance")
           /\ \/ Spares("maintenance")
              \/ \E e \in events(box) : Ends("maintenance", e, "abandoned")
  <1>0. /\ ThreadsOK /\ "maintenance" \in Threads /\ At("maintenance", "sweep") /\ Leave("maintenance")
        /\ UNCHANGED <<jobs, anchored, requeues, memory, history>>
    BY DEF Types, SweepEvent, Threads
  <1>1. PICK e : e = thread["maintenance"].event
    OBVIOUS
  <1>2. box' = mark_terminal(box, e, "abandoned")
    BY <1>1 DEF SweepEvent
  <1>3. pc("maintenance") = "sweep"
    BY <1>0, AtFacts
  <1>4. Rests("maintenance")
    BY <1>0, LeaveRests
  <1>5. Moves("maintenance")
    BY <1>4 DEF Rests
  <1>6. Alone("maintenance")
    BY <1>0, <1>5, AloneAt
  <1>7. Still /\ SameJobs
    BY <1>0, StillFrame DEF memory, history, SameJobs
  <1>8. CASE Pending(e)
    <2>1. Wrote(box, box', e, "abandoned", ref(e)) /\ Freed(box, box', e)
      BY <1>2, <1>8, JobFacts, TerminalDoes DEF TerminalStatuses, is_pending, ref, Pending
    <2>2. Ends("maintenance", e, "abandoned")
      BY <1>1, <1>3, <1>4, <1>5, <1>7, <1>8, <2>1, FreedReleased DEF Ends, Writes
    <2>3. e \in events(box)
      BY <1>8, HeadFacts DEF Pending
    <2> QED BY <1>6, <2>2, <2>3
  <1>9. CASE ~Pending(e)
    <2>1. SameBox
      BY <1>2, <1>9, JobFacts, TerminalDoes DEF TerminalStatuses, is_pending, Pending, SameBox
    <2>2. Spares("maintenance")
      BY <1>3, <1>4, <1>7, <2>1 DEF Spares
    <2> QED BY <1>6, <2>2
  <1> QED BY <1>8, <1>9

\* At most one delivery runs.
LEMMA RunsOnce ==
    ASSUME Types, RunOK, \A t \in Threads : WorkOK(t),
           NEW j \in DOMAIN jobs, NEW k \in DOMAIN jobs, Running(j), Running(k)
    PROVE  j = k
  <1>0. j # 0 /\ k # 0
    BY JobFacts
  <1>1. \A i \in {j, k} : active = i \/ \E t \in Threads : pc(t) = "start_execute" /\ thread[t].job = i
    BY DEF RunOK, Executing
  <1>2. \A t \in Threads : pc(t) = "start_execute" => active = 0
    BY DEF WorkOK
  <1>3. \A t, u \in Threads : t # u => pc(t) = "idle" \/ pc(u) = "idle"
    BY IdleMeans DEF Types, OneBusy
  <1> QED BY <1>0, <1>1, <1>2, <1>3

\* A crash, and the restart after it.
LEMMA CrashKind ==
    ASSUME Types, RunOK, \A t \in Threads : WorkOK(t), Crash
    PROVE  Crashes
  <1>1. PICK R : R = {j \in DOMAIN jobs : jobs[j].status = "running"}
    OBVIOUS
  <1>2. PICK last : last = IF R = {} THEN 0 ELSE CHOOSE j \in R : \A k \in R : k <= j
    OBVIOUS
  <1>3. /\ crashes' = crashes + 1 /\ active' = last /\ exec' = {}
        /\ thread' = [thread EXCEPT
                !["socket"] = Idle,
                !["maintenance"] = IF last = 0 THEN Idle
                    ELSE [Idle EXCEPT !.todo = <<"restore">>, !.job = last]]
        /\ UNCHANGED <<durable, limits, started, acked, cancels, recovers>>
    BY <1>1, <1>2 DEF Crash
  <1>4. "socket" \in Threads /\ "maintenance" \in Threads /\ Threads = {"socket", "maintenance"}
    BY DEF Threads
  <1>5. thread \in [Threads -> Local]
    BY DEF Types, ThreadsOK
  <1>6. /\ Idle \in Local /\ Shape(Idle.todo) /\ label(Idle.todo) = "idle"
    BY IdleLocal
  <1>7. SameJobs /\ box' = box /\ requeues' = requeues
    BY <1>3 DEF SameJobs, durable
  <1>8. Base
    <2>0. crashes \in Nat
      BY DEF Types, TypeOK
    <2>1. Clean' => Clean
      BY <1>3, <2>0 DEF Clean
    <2> QED BY <1>3, <2>1 DEF Base, Seen, durable
  <1>9. CASE R = {}
    <2>1. last = 0 /\ NoneRuns
      BY <1>1, <1>2, <1>9 DEF NoneRuns, Running
    <2>2. thread' = [thread EXCEPT !["socket"] = Idle, !["maintenance"] = Idle]
      BY <1>3, <2>1
    <2>3. thread' \in [Threads -> Local] /\ \A t \in Threads : thread'[t] = Idle
      BY ONLY <1>4, <1>5, <1>6, <2>2
    <2>4. \A t \in Threads : pc(t)' = "idle" /\ Shape(thread'[t].todo)
      BY <1>6, <2>3 DEF pc
    <2> QED BY <1>3, <1>4, <1>7, <1>8, <2>1, <2>3, <2>4 DEF Crashes
  <1>10. CASE R # {}
    <2>1. PICK k \in R : TRUE
      BY <1>10
    <2>2. k \in DOMAIN jobs /\ Running(k) /\ \A i \in R : i = k
      BY <1>1, RunsOnce DEF Running
    <2>3. k \in Nat \ {0}
      BY <2>2, JobFacts
    <2>4. last = k
      <3>1. \A i \in R : i <= k
        BY <2>2, <2>3
      <3> QED BY <1>2, <1>10, <2>1, <2>2, <3>1
    <2>5. PICK p : p = <<"restore">>
      OBVIOUS
    <2>6. Starts(p) /\ label(p) = "restore"
      BY <2>5, Beginnings DEF label
    <2>7. PICK x : x = [Idle EXCEPT !.todo = p, !.job = k]
      OBVIOUS
    <2>8. x \in Local /\ x.todo = p /\ x.job = k
      <3>1. p \in Seq(Labels)
        BY <2>6 DEF Starts
      <3> QED BY ONLY <1>6, <2>3, <2>7, <3>1 DEF Local
    <2>9. thread' = [thread EXCEPT !["socket"] = Idle, !["maintenance"] = x]
      BY <1>3, <2>3, <2>4, <2>5, <2>7
    <2>10. thread' \in [Threads -> Local] /\ thread'["socket"] = Idle /\ thread'["maintenance"] = x
      BY ONLY <1>4, <1>5, <1>6, <2>8, <2>9
    <2>11. /\ pc("socket")' = "idle" /\ pc("maintenance")' = "restore"
           /\ \A t \in Threads : Shape(thread'[t].todo)
      BY <1>4, <1>6, <2>6, <2>8, <2>10 DEF pc, Starts
    <2>12. active' = k /\ thread'["maintenance"].job = k
      BY <1>3, <2>4, <2>8, <2>10
    <2> QED BY <1>3, <1>7, <1>8, <2>2, <2>10, <2>11, <2>12 DEF Crashes
  <1> QED BY <1>9, <1>10

\* A reply arrives.
LEMMA ArriveKind ==
    ASSUME Types, Arrive
    PROVE  Arrives
  <1>1. Still
    BY StillFrame DEF Arrive, memory, history
  <1> QED BY <1>1 DEF Arrive, Arrives, SameJobs, history

\* The kinds of steps thread t makes.
KindOf(t) ==
    \/ Quiet(t) \/ Names(t) \/ Claims(t) \/ Goes(t, "finish", "resolve") \/ Spares(t)
    \/ Dismisses(t) \/ Revives(t) \/ Counts(t) \/ Frees(t) \/ (t = "maintenance" /\ Sweeps)
    \/ Adds(t) \/ Runs(t) \/ Takes(t) \/ Completes(t) \/ (t = "socket" /\ Cancels)
    \/ \E e \in events(box) :
        \/ Clears(t, e) \/ Requeues(t, e) \/ Stalls(t, e)
        \/ Ends(t, e, "consumed") \/ Ends(t, e, "abandoned")

\* Every action is of one of the kinds.
LEMMA Kinds ==
    ASSUME Inv, Next
    PROVE  \/ \E t \in Threads : Alone(t) /\ KindOf(t)
           \/ Crashes \/ Arrives
  <1>0. Types /\ RunOK /\ ExecOK /\ \A t \in Threads : WorkOK(t)
    BY DEF Inv
  <1>1. "socket" \in Threads /\ "maintenance" \in Threads
    BY DEF Threads
  <1>2. ASSUME NEW t \in Threads, Step(t) PROVE Alone(t) /\ KindOf(t)
    <2>1. CASE Repair(t)
      BY <1>0, <2>1, RepairKind, Zenon DEF KindOf
    <2>2. CASE Prepare(t)
      BY <1>0, <2>2, PrepareKind, Zenon DEF KindOf
    <2>3. CASE Enqueue(t)
      BY <1>0, <2>3, EnqueueKind, Zenon DEF KindOf
    <2>4. CASE Rewrite(t)
      BY <1>0, <2>4, RewriteKind, Zenon DEF KindOf
    <2>5. CASE Release(t)
      BY <1>0, <2>5, ReleaseKind, Zenon DEF KindOf
    <2>6. CASE Start(t) \/ PreclaimBlocked(t) \/ StartSubmitted(t) \/ StartFailed(t)
      BY <1>0, <2>6, StartKind, Zenon DEF KindOf
    <2>7. CASE PreclaimAllowed(t)
      BY <1>0, <2>7, PreclaimKind, Zenon DEF KindOf
    <2>8. CASE StartRunning(t)
      BY <1>0, <2>8, StartRunningKind, Zenon DEF KindOf
    <2>9. CASE StartExecute(t)
      BY <1>0, <2>9, StartExecuteKind, Zenon DEF KindOf
    <2>10. CASE Complete(t)
      BY <1>0, <2>10, CompleteKind, Zenon DEF KindOf
    <2>11. CASE Finish(t)
      BY <1>0, <2>11, FinishKind, Zenon DEF KindOf
    <2>12. CASE Resolve(t)
      BY <1>0, <2>12, ResolveKind, Zenon DEF KindOf
    <2>13. CASE Requeued(t)
      BY <1>0, <2>13, RequeuedKind, Zenon DEF KindOf
    <2> QED BY <1>2, <2>1, <2>2, <2>3, <2>4, <2>5, <2>6, <2>7, <2>8, <2>9, <2>10, <2>11, <2>12, <2>13,
               Zenon DEF Step
  <1>3. CASE Arrive
    BY <1>0, <1>3, ArriveKind
  <1>4. CASE Tick
    BY <1>0, <1>1, <1>4, TickKind, Zenon DEF KindOf
  <1>5. CASE Handler
    BY <1>0, <1>1, <1>5, HandlerKind, Zenon DEF KindOf
  <1>6. CASE HandlerStep
    <2>1. CASE CancelMark
      BY <1>0, <1>1, <2>1, MarkKind, Zenon DEF KindOf
    <2>2. CASE CancelDecide
      BY <1>0, <1>1, <2>2, CancelKind, Zenon DEF KindOf
    <2>3. CASE Ack
      BY <1>0, <1>1, <2>3, AckKind, Zenon DEF KindOf
    <2>4. CASE RecoverRewrite
      BY <1>0, <1>1, <2>4, RecoverKind, Zenon DEF KindOf
    <2> QED BY <1>6, <2>1, <2>2, <2>3, <2>4 DEF HandlerStep
  <1>7. CASE \E j \in exec : PollAnchor(j) \/ Poll(j)
    <2>1. Quiet("maintenance") /\ Alone("maintenance")
      BY <1>0, <1>7, PollKind
    <2> QED BY <1>1, <2>1, Zenon DEF KindOf
  <1>8. CASE SweepLease
    BY <1>0, <1>1, <1>8, SweepKind, Zenon DEF KindOf
  <1>9. CASE SweepEvent
    BY <1>0, <1>1, <1>9, SweepEventKind, Zenon DEF KindOf
  <1>10. CASE Crash
    BY <1>0, <1>10, CrashKind
  <1>11. CASE Restore
    BY <1>0, <1>1, <1>11, RestoreKind, Zenon DEF KindOf
  <1> QED BY <1>2, <1>3, <1>4, <1>5, <1>6, <1>7, <1>8, <1>9, <1>10, <1>11 DEF Next
-----------------------------------------------------------------------------
(* What the invariant sees of a step.                                      *)

\* A step that leaves the inbox alone.
LEMMA BoxStays ==
    ASSUME box'.inbox = box.inbox
    PROVE  /\ events(box') = events(box)
           /\ \A f : /\ Pending(f)' <=> Pending(f)
                     /\ First(f)' <=> First(f)
                     /\ ref(f)' = ref(f) /\ standing(f)' = standing(f)
  <1>1. events(box') = events(box) /\ pending_events(box') = pending_events(box)
    BY DEF events, pending_events
  <1> QED BY <1>1 DEF Pending, First, ref, standing

\* A step that writes a new record of a pending event.
LEMMA BoxWrites ==
    ASSUME Types, NEW e, Pending(e), NEW st, NEW r, Wrote(box, box', e, st, r)
    PROVE  /\ events(box') = events(box) /\ e \in events(box)
           /\ st \notin TerminalStatuses => \A f : (Pending(f)' <=> Pending(f)) /\ (First(f)' <=> First(f))
           /\ st \in TerminalStatuses => \A f : /\ Pending(f)' <=> Pending(f) /\ f # e
                                                /\ First(f) /\ f # e => First(f)'
           /\ ref(e)' = r /\ standing(e)' = st
           /\ \A f \in events(box) \ {e} : ref(f)' = ref(f) /\ standing(f)' = standing(f)
           /\ \A f \in events(box) : box'.inbox[f].type = box.inbox[f].type
  <1>1. box \in Mailbox /\ e \in pending_events(box)
    BY JobFacts DEF Pending
  <1>2. /\ events(box') = events(box)
        /\ st \in TerminalStatuses => pending_events(box') = pending_events(box) \ {e}
        /\ st \notin TerminalStatuses => pending_events(box') = pending_events(box)
    BY <1>1, PendingAfter
  <1>3. e \in events(box)
    BY <1>1, PendingIds
  <1>4. /\ ref(e)' = r /\ standing(e)' = st
        /\ \A f \in events(box) \ {e} : ref(f)' = ref(f) /\ standing(f)' = standing(f)
        /\ \A f \in events(box) : box'.inbox[f].type = box.inbox[f].type
    BY DEF Wrote, ref, standing
  <1>5. st \notin TerminalStatuses => \A f : (Pending(f)' <=> Pending(f)) /\ (First(f)' <=> First(f))
    BY <1>2 DEF Pending, First
  <1>6. st \in TerminalStatuses => \A f : /\ Pending(f)' <=> Pending(f) /\ f # e
                                          /\ First(f) /\ f # e => First(f)'
    BY <1>2 DEF Pending, First
  <1> QED BY <1>2, <1>3, <1>4, <1>5, <1>6

\* A step that only adds an event.
LEMMA BoxArrives ==
    ASSUME Types, Arrives
    PROVE  /\ events(box) \subseteq events(box') /\ box'.lease = box.lease /\ box' \in Mailbox
           /\ \A f \in events(box) : /\ Pending(f)' <=> Pending(f)
                                     /\ ref(f)' = ref(f) /\ standing(f)' = standing(f)
                                     /\ box'.inbox[f].type = box.inbox[f].type
           /\ \A f \in events(box') \ events(box) :
                ref(f)' = 0 /\ standing(f)' = "queued" /\ box'.inbox[f].type = "task_reply"
           /\ \A f : First(f) => First(f)'
           /\ Len(box'.inbox) <= limits.replies
           /\ \A f : Pending(f)' => f \in events(box')
  <1>1. PICK n : n = Len(box.inbox) + 1
    OBVIOUS
  <1>2. /\ box' \in Mailbox /\ box'.lease = box.lease /\ n \in Nat /\ Len(box'.inbox) = n
        /\ events(box') = events(box) \cup {n} /\ \A f \in events(box) : f < n
        /\ \A f \in events(box) : box'.inbox[f] = box.inbox[f]
        /\ box'.inbox[n] = [type |-> "task_reply", status |-> "queued", ref |-> 0]
        /\ pending_events(box') = pending_events(box) \cup {n}
    BY <1>1, JobFacts, RecordDoes DEF Arrives
  <1>3. n \notin events(box) /\ events(box) \subseteq Nat
    BY <1>2 DEF events
  <1>4. \A f \in pending_events(box) : f \in events(box)
    BY HeadFacts
  <1>5. \A f \in events(box) : /\ Pending(f)' <=> Pending(f)
                               /\ ref(f)' = ref(f) /\ standing(f)' = standing(f)
                               /\ box'.inbox[f].type = box.inbox[f].type
    BY <1>2, <1>3 DEF Pending, ref, standing
  <1>6. ref(n)' = 0 /\ standing(n)' = "queued" /\ box'.inbox[n].type = "task_reply"
    BY <1>2 DEF ref, standing
  <1>7. \A f : First(f) => First(f)'
    <2>1. \A f \in events(box) : f <= n
      BY <1>2, <1>3
    <2> QED BY <1>2, <1>4, <2>1 DEF First, Pending
  <1>8. Len(box'.inbox) <= limits.replies
    <2>1. Len(box.inbox) \in Nat /\ limits.replies \in Nat
      <3>1. limits \in Limits /\ box \in Mailbox
        BY JobFacts DEF Types, TypeOK
      <3> QED BY <3>1, ReplyDeliveryAssumption DEF Mailbox
    <2> QED BY <1>1, <1>2, <2>1 DEF Arrives
  <1>9. \A f : Pending(f)' => f \in events(box')
    BY <1>2, <1>4 DEF Pending
  <1> QED BY <1>2, <1>5, <1>6, <1>7, <1>8, <1>9

\* The predicates about threads, when t alone is in an operation.
LEMMA AloneView ==
    ASSUME NEW t \in Threads, Alone(t)
    PROVE  /\ \A j : Executing(j) <=> pc(t) = "start_execute" /\ thread[t].job = j
           /\ \A j : Naming(j) <=> pc(t) = "rewrite" /\ thread[t].job = j
           /\ \A j : Ending(j) <=> pc(t) \in {"finish", "resolve"} /\ thread[t].job = j
           /\ \A j : Exempt(j) <=> \/ pc(t) = "start_running" /\ thread[t].job = j
                                   \/ pc(t) = "release" /\ thread[t].event = jobs[j].event
           /\ \A j : Threat(j) <=> \/ pc(t) = "sweep" /\ thread[t].event = jobs[j].event
                                   \/ pc(t) = "resolve" /\ jobs[thread[t].job].event = jobs[j].event
           /\ \A e : Owed(e) <=>
                \/ pc(t) \in {"finish", "resolve"} /\ jobs[thread[t].job].event = e
                \/ pc(t) = "rewrite" /\ thread[t].event = e
                \/ Counting(t) /\ thread[t].event = e
           /\ \A e : Holding(e) <=>
                \/ /\ pc(t) \in {"start_running", "start_execute", "finish", "resolve"}
                   /\ jobs[thread[t].job].event = e
                \/ pc(t) = "release" /\ thread[t].event = e
  BY DEF Alone, Executing, Naming, Ending, Exempt, Threat, Owed, Holding

\* The same after the step.
LEMMA AloneViewNext ==
    ASSUME NEW t \in Threads, Alone(t)
    PROVE  /\ \A j : Executing(j)' <=> pc(t)' = "start_execute" /\ thread'[t].job = j
           /\ \A j : Naming(j)' <=> pc(t)' = "rewrite" /\ thread'[t].job = j
           /\ \A j : Ending(j)' <=> pc(t)' \in {"finish", "resolve"} /\ thread'[t].job = j
           /\ \A j : Exempt(j)' <=> \/ pc(t)' = "start_running" /\ thread'[t].job = j
                                    \/ pc(t)' = "release" /\ thread'[t].event = jobs'[j].event
           /\ \A j : Threat(j)' <=> \/ pc(t)' = "sweep" /\ thread'[t].event = jobs'[j].event
                                    \/ pc(t)' = "resolve" /\ jobs'[thread'[t].job].event = jobs'[j].event
           /\ \A e : Owed(e)' <=>
                \/ pc(t)' \in {"finish", "resolve"} /\ jobs'[thread'[t].job].event = e
                \/ pc(t)' = "rewrite" /\ thread'[t].event = e
                \/ Counting(t)' /\ thread'[t].event = e
           /\ \A e : Holding(e)' <=>
                \/ /\ pc(t)' \in {"start_running", "start_execute", "finish", "resolve"}
                   /\ jobs'[thread'[t].job].event = e
                \/ pc(t)' = "release" /\ thread'[t].event = e
  BY DEF Alone, Executing, Naming, Ending, Exempt, Threat, Owed, Holding
-----------------------------------------------------------------------------
(* The invariant is kept: types and what a thread knows.                   *)

\* Only thread t can be in an operation after its step.
LEMMA ThreadsKept ==
    ASSUME Types, NEW t \in Threads, Alone(t), Moves(t)
    PROVE  ThreadsOK' /\ OneBusy'
  <1>1. ThreadsOK'
    BY DEF Types, ThreadsOK, Moves
  <1>2. \A u \in Threads : pc(u)' = "idle" => IsIdle(u)'
    <2>1. \A s : label(s) = "idle" => s = << >> \/ Head(s) = "idle"
      BY DEF label
    <2> SUFFICES ASSUME NEW u \in Threads, pc(u)' = "idle", ~IsIdle(u)' PROVE FALSE
      OBVIOUS
    <2>2. PICK s : s = thread'[u].todo
      OBVIOUS
    <2>3. s \in Seq(Labels) /\ s # << >> /\ Head(s) = "idle"
      BY <1>1, <2>1, <2>2 DEF ThreadsOK, Local, pc, IsIdle
    <2>4. Head(s) \in Labels
      BY ONLY <2>3
    <2> QED BY <2>3, <2>4, Words
  <1> QED BY <1>1, <1>2 DEF OneBusy, Alone

\* A thread that is at no step knows what it has to.
LEMMA WorkIdle ==
    ASSUME NEW t \in Threads, Alone(t), WorkOK(t)'
    PROVE  \A u \in Threads : WorkOK(u)'
  BY WorkLoose DEF Alone, Loose

\* The sets of jobs in memory, the counters and the history.
Sized ==
    /\ anchored \cup queued \cup starting \cup exec \cup started \subseteq DOMAIN jobs
    /\ acked \subseteq 1 .. MaxReplies
    /\ limits \in Limits
    /\ cancels \in 0 .. limits.cancels /\ recovers \in 0 .. limits.recovers
    /\ crashes \in 0 .. limits.crashes

\* They keep their types in every step.
LEMMA SizedKept ==
    ASSUME Inv, Next, DOMAIN jobs \subseteq DOMAIN jobs'
    PROVE  Sized'
  <1>0. Sized /\ Types /\ \A t \in Threads : WorkOK(t)
    BY DEF Inv, Types, TypeOK, Sized
  <1>1. ThreadsOK /\ "socket" \in Threads /\ "maintenance" \in Threads
    BY <1>0 DEF Types, Threads
  <1>2. limits.cancels \in Nat /\ limits.recovers \in Nat /\ limits.crashes \in Nat
    BY <1>0, ReplyDeliveryAssumption DEF Sized
  <1>3. CASE \E t \in Threads : Enqueue(t)
    <2>1. PICK t \in Threads : Enqueue(t)
      BY <1>3
    <2>2. Len(jobs) + 1 \in DOMAIN jobs'
      BY <1>0, <2>1, EnqueueKind DEF Adds
    <2> QED BY <1>0, <2>1, <2>2 DEF Sized, Enqueue, history
  <1>4. CASE \E t \in Threads : StartRunning(t)
    <2>1. PICK t \in Threads : StartRunning(t)
      BY <1>4
    <2>2. thread[t].job \in DOMAIN jobs
      <3>1. At(t, "start_running")
        BY <2>1 DEF StartRunning
      <3> QED BY <1>0, <1>1, <3>1, AtFacts DEF WorkOK, HasJob
    <2> QED BY <1>0, <2>1, <2>2 DEF Sized, StartRunning, memory
  <1>5. CASE \E t \in Threads : StartExecute(t) \/ StartSubmitted(t)
    <2>1. PICK t \in Threads : StartExecute(t) \/ StartSubmitted(t)
      BY <1>5
    <2>2. thread[t].job \in DOMAIN jobs
      <3>1. At(t, "start_execute") \/ At(t, "start_return")
        BY <2>1 DEF StartExecute, StartSubmitted
      <3> QED BY <1>0, <1>1, <3>1, AtFacts DEF WorkOK, HasJob
    <2> QED BY <1>0, <2>1, <2>2 DEF Sized, StartExecute, StartSubmitted, durable, history
  <1>6. CASE \E t \in Threads : Step(t)
    <2>1. PICK t \in Threads : Step(t)
      BY <1>6
    <2>2. \/ Enqueue(t) \/ StartRunning(t) \/ StartExecute(t) \/ StartSubmitted(t)
          \/ /\ UNCHANGED <<anchored, history>> /\ queued' \subseteq queued
             /\ starting' \subseteq starting /\ exec' \subseteq exec
      <3>1. CASE Repair(t) \/ Prepare(t) \/ Rewrite(t) \/ Release(t) \/ Resolve(t) \/ Requeued(t)
        BY <3>1, Zenon DEF Repair, Prepare, Rewrite, Release, Resolve, Requeued, memory
      <3>2. CASE Start(t) \/ PreclaimBlocked(t) \/ Complete(t)
        BY <3>2, Zenon DEF Start, PreclaimBlocked, Complete, memory, durable
      <3>3. CASE PreclaimAllowed(t)
        <4>1. queued' = queued \ {thread[t].job} /\ UNCHANGED <<anchored, history, starting, exec>>
          BY <3>3, Zenon DEF PreclaimAllowed
        <4> QED BY <4>1
      <3>4. CASE StartFailed(t) \/ Finish(t)
        <4>1. /\ starting' = starting \ {thread[t].job} /\ UNCHANGED <<durable, history, queued>>
              /\ exec' \in {exec, exec \ {thread[t].job}}
          BY <3>4 DEF StartFailed, Finish
        <4> QED BY <4>1 DEF durable
      <3> QED BY <2>1, <3>1, <3>2, <3>3, <3>4, Zenon DEF Step
    <2> QED BY <1>0, <1>3, <1>4, <1>5, <2>2 DEF Sized, history
  <1>7. CASE Handler
    <2>1. /\ UNCHANGED <<anchored, queued, starting, exec, started, acked, limits, crashes>>
          /\ \/ UNCHANGED <<cancels, recovers>>
             \/ cancels < limits.cancels /\ cancels' = cancels + 1 /\ UNCHANGED recovers
             \/ recovers < limits.recovers /\ recovers' = recovers + 1 /\ UNCHANGED cancels
      BY <1>7, Zenon DEF Handler, AckCheck, CancelLoad, Recover, durable, memory, history
    <2> QED BY <1>0, <1>2, <2>1 DEF Sized
  <1>8. CASE CancelMark \/ CancelDecide \/ RecoverRewrite
    BY <1>0, <1>8 DEF Sized, CancelMark, CancelDecide, RecoverRewrite, memory, history
  <1>9. CASE Ack
    <2>1. thread["socket"].event \in events(box)
      <3>1. At("socket", "ack")
        BY <1>9 DEF Ack
      <3>2. First(thread["socket"].event)
        BY <1>0, <1>1, <3>1, AtFacts DEF WorkOK
      <3> QED BY <1>0, <3>2, HeadFacts
    <2>2. thread["socket"].event \in 1 .. MaxReplies
      BY <1>0, <2>1, EventBound
    <2> QED BY <1>0, <1>9, <2>2 DEF Sized, Ack, memory
  <1>10. CASE Arrive \/ Tick \/ SweepLease \/ SweepEvent \/ Restore
    BY <1>0, <1>10 DEF Sized, Arrive, Tick, SweepLease, SweepEvent, Restore, durable, memory, history
  <1>11. CASE \E j \in exec : PollAnchor(j) \/ Poll(j)
    BY <1>0, <1>11 DEF Sized, PollAnchor, Poll, PollStale, PollDecision, durable, memory, history
  <1>12. CASE Crash
    <2>1. queued' \subseteq DOMAIN jobs /\ starting' = {} /\ exec' = {}
          /\ UNCHANGED <<durable, limits, started, acked, cancels, recovers>>
          /\ crashes' = crashes + 1 /\ crashes < limits.crashes
      BY <1>12 DEF Crash
    <2> QED BY <1>0, <1>2, <2>1 DEF Sized, durable
  <1> QED BY <1>6, <1>7, <1>8, <1>9, <1>10, <1>11, <1>12 DEF Next, HandlerStep
-----------------------------------------------------------------------------
(* The invariant is kept: the parts about jobs and events.                 *)

Boxed ==
    /\ box \in Mailbox /\ jobs \in Seq(Job) /\ BoxOK
    /\ requeues \in [1 .. MaxReplies -> 0 .. MaxRequeues]
    /\ active \in {0} \cup DOMAIN jobs
Core == RunOK /\ ExecOK /\ BudgetOK /\ OrphanOK /\ LeaseOwned /\ EndsOK
Whole(t) == Boxed' /\ WorkOK(t)' /\ Core' /\ ConsumedForAReason'

\* The number of deliveries of a reply and of jobs left behind.
LEMMA Counted ==
    ASSUME Types
    PROVE  /\ IsFiniteSet(DOMAIN jobs) /\ IsFiniteSet(Orphans) /\ Cardinality(Orphans) \in Nat
           /\ \A e : IsFiniteSet(deliveries(e)) /\ Cardinality(deliveries(e)) \in Nat
           /\ \A e \in events(box) : requeues[e] \in Nat
           /\ crashes \in Nat /\ Orphans \subseteq DOMAIN jobs /\ MaxRequeues \in Nat
  <1>1. DOMAIN jobs = 1 .. Len(jobs) /\ Len(jobs) \in Nat
    BY JobFacts
  <1>2. IsFiniteSet(DOMAIN jobs)
    BY <1>1, FS_Interval
  <1>3. Orphans \subseteq DOMAIN jobs /\ \A e : deliveries(e) \subseteq DOMAIN jobs
    BY DEF Orphans, deliveries
  <1>4. \A S \in SUBSET DOMAIN jobs : IsFiniteSet(S) /\ Cardinality(S) \in Nat
    BY <1>2, FS_Subset, FS_CardinalityType
  <1>5. \A e \in events(box) : requeues[e] \in Nat
    BY EventBound
  <1>6. crashes \in Nat
    BY DEF Types, TypeOK
  <1> QED BY <1>2, <1>3, <1>4, <1>5, <1>6, ReplyDeliveryAssumption

\* A reply stays consumed for the reason it was.
LEMMA ReasonKept ==
    ASSUME Types, ConsumedForAReason, acked \subseteq acked', DOMAIN jobs \subseteq DOMAIN jobs',
           \A j \in DOMAIN jobs : is_terminal(j) => jobs'[j] = jobs[j],
           \A e \in events(box) : requeues[e] = MaxRequeues => requeues'[e] = MaxRequeues,
           crashes > 0 => crashes' > 0,
           \A e \in events(box') :
              \/ standing(e)' \notin {"consumed", "abandoned"}
              \/ e \in events(box) /\ standing(e)' = standing(e)
              \/ /\ e \in events(box) /\ standing(e)' = "consumed"
                 /\ \/ e \in acked'
                    \/ \E j \in DOMAIN jobs : /\ jobs[j].event = e /\ is_terminal(j)
                                              /\ \/ jobs[j].status \in {"completed", "cancelled"}
                                                 \/ jobs[j].reached
                                                 \/ requeues[e] = MaxRequeues
              \/ standing(e)' = "abandoned" /\ crashes' > 0
    PROVE  ConsumedForAReason'
  <1> DEFINE Reason(e) == \E j \in DOMAIN jobs : /\ jobs[j].event = e /\ is_terminal(j)
                                                 /\ \/ jobs[j].status \in {"completed", "cancelled"}
                                                    \/ jobs[j].reached
                                                    \/ requeues[e] = MaxRequeues
  <1>1. \A e \in events(box) : standing(e) = "consumed" => e \in acked \/ Reason(e)
    BY DEF ConsumedForAReason, standing, deliveries, is_terminal, Ended
  <1>2. \A e \in events(box) : standing(e) = "abandoned" => crashes > 0
    BY DEF ConsumedForAReason, standing
  <1>3. \A e \in events(box') : standing(e)' = "consumed" => e \in acked' \/ (e \in events(box) /\ Reason(e))
    BY <1>1
  <1>4. \A e \in events(box') : standing(e)' = "abandoned" => crashes' > 0
    BY <1>2
  <1>5. ASSUME NEW e \in events(box), Reason(e)
        PROVE  \E j \in deliveries(e)' :
                 \/ jobs'[j].status \in {"completed", "cancelled"}
                 \/ is_terminal(j)' /\ jobs'[j].reached
                 \/ is_terminal(j)' /\ requeues'[e] = MaxRequeues
    <2>1. PICK j \in DOMAIN jobs : /\ jobs[j].event = e /\ is_terminal(j)
                                   /\ \/ jobs[j].status \in {"completed", "cancelled"}
                                      \/ jobs[j].reached
                                      \/ requeues[e] = MaxRequeues
      BY <1>5
    <2>2. j \in DOMAIN jobs' /\ jobs'[j] = jobs[j]
      BY <2>1
    <2>3. j \in deliveries(e)' /\ is_terminal(j)'
      BY <2>1, <2>2 DEF deliveries, is_terminal
    <2> QED BY <2>1, <2>2, <2>3
  <1> QED BY <1>3, <1>4, <1>5 DEF ConsumedForAReason, standing

\* No more deliveries than the budget allows.
LEMMA BudgetKept ==
    ASSUME Types, BudgetOK, events(box') = events(box), requeues' = requeues, crashes' = crashes,
           \A e : deliveries(e)' = deliveries(e),
           \A e \in events(box) : Vacant(e)' /\ ~Owed(e)' =>
              \/ Vacant(e) /\ ~Owed(e)
              \/ Cardinality(deliveries(e)) <= requeues[e] + crashes
    PROVE  BudgetOK'
  BY DEF BudgetOK

\* No more jobs are left behind than before.
LEMMA OrphansKept ==
    ASSUME Types, OrphanOK, crashes' = crashes, Orphans' \subseteq Orphans,
           \A j \in DOMAIN jobs' : Risky(j)' => j \in DOMAIN jobs /\ Risky(j)
    PROVE  OrphanOK'
  <1>1. IsFiniteSet(Orphans) /\ Cardinality(Orphans) \in Nat /\ crashes \in Nat
    BY Counted
  <1>2. Cardinality(Orphans') <= Cardinality(Orphans) /\ IsFiniteSet(Orphans')
    BY <1>1, FS_Subset
  <1>3. Cardinality(Orphans') \in Nat
    BY <1>2, FS_CardinalityType
  <1> QED BY <1>1, <1>2, <1>3 DEF OrphanOK

\* What has run has run.
LEMMA ExecKept ==
    ASSUME Types, ExecOK, Seen, jobs' = jobs
    PROVE  ExecOK'
  <1>1. exec \cup anchored \subseteq DOMAIN jobs
    BY DEF Types, TypeOK
  <1> QED BY <1>1 DEF ExecOK, Seen, Running, is_terminal

\* The owner of the lease stays.
LEMMA OwnedKept ==
    ASSUME LeaseOwned, jobs' = jobs, active' = active, crashes' = crashes,
           holds_lease(box') => holds_lease(box) /\ box'.lease.event = box.lease.event,
           crashes = 0 /\ holds_lease(box') =>
              \A e : box'.lease.event = e /\ Holding(e) => Holding(e)'
    PROVE  LeaseOwned'
  BY DEF LeaseOwned, Running

\* A step that changes neither which events are pending nor what they name.
LEMMA CalmKept ==
    ASSUME Inv, Still, SameJobs, events(box') = events(box),
           \A f : Pending(f)' <=> Pending(f),
           \A f \in events(box) : ref(f)' = ref(f),
           \A j \in DOMAIN jobs : Running(j) /\ Pending(jobs[j].event) =>
              standing(jobs[j].event)' = standing(jobs[j].event),
           \A j : (Executing(j) => Executing(j)') /\ (Naming(j)' <=> Naming(j)),
           \A e \in events(box) : Vacant(e) /\ Owed(e) => Owed(e)',
           \A j \in DOMAIN jobs : Risky(j)' => Risky(j),
           \A j \in DOMAIN jobs : Named(j) /\ Ending(j) => Ending(j)'
    PROVE  RunOK' /\ ExecOK' /\ BudgetOK' /\ OrphanOK' /\ EndsOK'
  <1>0. /\ Types /\ RunOK /\ ExecOK /\ BudgetOK /\ OrphanOK /\ EndsOK
        /\ jobs' = jobs /\ active' = active /\ requeues' = requeues /\ crashes' = crashes
        /\ Seen /\ (Clean' => Clean)
    BY DEF Inv, Still, Base, SameJobs
  <1>1. \A j \in DOMAIN jobs : jobs[j].event \in events(box)
    BY <1>0 DEF Types, BoxOK
  <1>2. \A j \in DOMAIN jobs : (Named(j)' <=> Named(j)) /\ (Running(j)' <=> Running(j))
    BY <1>0, <1>1 DEF Named, Running
  <1>3. RunOK'
    BY <1>0, <1>1, <1>2 DEF RunOK
  <1>4. ExecOK'
    BY <1>0, ExecKept
  <1>5. BudgetOK'
    <2>1. \A e : deliveries(e)' = deliveries(e)
      BY <1>0 DEF deliveries
    <2>2. \A e \in events(box) : Vacant(e)' <=> Vacant(e)
      BY <1>0 DEF Vacant
    <2> QED BY <1>0, <2>1, <2>2, BudgetKept
  <1>6. OrphanOK'
    <2>1. Orphans' = Orphans
      BY <1>0, <1>2 DEF Orphans
    <2> QED BY <1>0, <2>1, OrphansKept
  <1>7. EndsOK'
    BY <1>0, <1>1, <1>2 DEF EndsOK, Spent, is_terminal
  <1> QED BY <1>3, <1>4, <1>5, <1>6, <1>7

\* The parts of the invariant that a step starts from.
LEMMA Parts ==
    ASSUME Inv
    PROVE  /\ Types /\ RunOK /\ ExecOK /\ BudgetOK /\ OrphanOK /\ LeaseOwned /\ EndsOK
           /\ ConsumedForAReason /\ BoxOK /\ Boxed /\ \A t \in Threads : WorkOK(t)
  BY DEF Inv, Types, TypeOK, Boxed

\* A step that leaves the inbox and the jobs alone.
LEMMA InboxSame ==
    ASSUME Inv, Still, SameJobs, box' \in Mailbox, box'.inbox = box.inbox,
           holds_lease(box') => holds_lease(box) /\ box'.lease.event = box.lease.event,
           \A j : (Executing(j) => Executing(j)') /\ (Naming(j)' <=> Naming(j)),
           \A e \in events(box) : Vacant(e) /\ Owed(e) => Owed(e)',
           \A j \in DOMAIN jobs : jobs[j].status = "queued" /\ Named(j) =>
              /\ Threat(j)' => Risky(j)
              /\ holds_lease(box') /\ box.lease.event = jobs[j].event /\ Exempt(j) => Exempt(j)',
           \A j \in DOMAIN jobs : Named(j) /\ Ending(j) => Ending(j)',
           crashes = 0 /\ holds_lease(box') =>
              \A e : box.lease.event = e /\ Holding(e) => Holding(e)'
    PROVE  Boxed' /\ Core' /\ ConsumedForAReason'
  <1>0. /\ Types /\ LeaseOwned /\ ConsumedForAReason /\ BoxOK /\ Boxed
        /\ jobs' = jobs /\ active' = active /\ requeues' = requeues /\ crashes' = crashes
        /\ limits' = limits /\ acked \subseteq acked'
    BY Parts DEF Still, Base, SameJobs
  <1>1. /\ events(box') = events(box)
        /\ \A f : /\ (Pending(f)' <=> Pending(f)) /\ (First(f)' <=> First(f))
                  /\ ref(f)' = ref(f) /\ standing(f)' = standing(f)
    BY BoxStays
  <1>2. Boxed'
    <2>1. BoxOK'
      <3>1. \A f : f \in pending_events(box') <=> f \in pending_events(box)
        BY <1>1 DEF Pending
      <3>2. \A f : holds_lease(box') /\ box'.lease.event = f => Pending(f)'
        BY <1>0, <1>1 DEF BoxOK
      <3> QED BY <1>0, <1>1, <3>1, <3>2 DEF BoxOK
    <2> QED BY <1>0, <2>1 DEF Boxed
  <1>3. \A j \in DOMAIN jobs : Risky(j)' => Risky(j)
    <2>1. \A j \in DOMAIN jobs : Named(j)' <=> Named(j)
      BY <1>0, <1>1 DEF Named
    <2> QED BY <1>0, <2>1 DEF Risky
  <1>4. RunOK' /\ ExecOK' /\ BudgetOK' /\ OrphanOK' /\ EndsOK'
    BY <1>0, <1>1, <1>3, CalmKept
  <1>5. LeaseOwned'
    BY <1>0, OwnedKept
  <1>6. ConsumedForAReason'
    BY <1>0, <1>1, ReasonKept
  <1> QED BY <1>2, <1>4, <1>5, <1>6 DEF Core

\* Steps that write nothing.
LEMMA QuietWhole ==
    ASSUME Inv, NEW t \in Threads, Alone(t), Quiet(t)
    PROVE  Whole(t)
  <1>1. /\ Still /\ SameJobs /\ box' \in Mailbox /\ box'.inbox = box.inbox /\ box'.lease = box.lease
        /\ pc(t) \notin Hot /\ pc(t)' \notin Hot /\ WorkOK(t)'
    BY DEF Quiet, SameBox, Kept
  <1>2. ~Counting(t) /\ ~Counting(t)'
    BY <1>1, CountingAt DEF Hot
  <1>3. /\ \A j : ~Executing(j) /\ ~Naming(j) /\ ~Ending(j) /\ ~Exempt(j)
        /\ \A e : ~Owed(e) /\ ~Holding(e)
    BY <1>1, <1>2, AloneView DEF Hot
  <1>4. \A j : ~Naming(j)' /\ ~Threat(j)'
    BY <1>1, AloneViewNext DEF Hot
  <1>5. holds_lease(box') => holds_lease(box) /\ box'.lease.event = box.lease.event
    BY <1>1 DEF holds_lease
  <1>6. Boxed' /\ Core' /\ ConsumedForAReason'
    BY <1>1, <1>3, <1>4, <1>5, InboxSame
  <1> QED BY <1>1, <1>6 DEF Whole

\* The end of the execution.
LEMMA GoesWhole ==
    ASSUME Inv, NEW t \in Threads, Alone(t), Goes(t, "finish", "resolve")
    PROVE  Whole(t)
  <1>0. Types /\ WorkOK(t) /\ jobs' = jobs /\ crashes' = crashes
    BY Parts DEF Goes, Still, SameJobs
  <1>1. /\ Still /\ SameJobs /\ box' \in Mailbox /\ box'.inbox = box.inbox /\ box'.lease = box.lease
        /\ pc(t) = "finish" /\ pc(t)' = "resolve" /\ thread'[t].job = thread[t].job
    BY DEF Goes, Lands, SameBox, Kept
  <1>2. PICK k : k = thread[t].job
    OBVIOUS
  <1>3. ~Counting(t) /\ ~Counting(t)'
    BY <1>1, CountingAt
  <1>4. /\ k \in DOMAIN jobs /\ is_terminal(k) /\ NoneRuns
        /\ Pending(jobs[k].event) => Named(k)
    BY <1>0, <1>1, <1>2 DEF WorkOK, HasJob
  <1>5. /\ \A j : ~Executing(j) /\ ~Naming(j) /\ ~Exempt(j) /\ (Ending(j) <=> j = k)
        /\ \A e : (Owed(e) <=> e = jobs[k].event) /\ (Holding(e) <=> e = jobs[k].event)
    BY <1>1, <1>2, <1>3, AloneView
  <1>6. /\ \A j : /\ ~Naming(j)' /\ (Ending(j)' <=> j = k)
                  /\ Threat(j)' <=> jobs[j].event = jobs[k].event
        /\ \A e : (Owed(e)' <=> e = jobs[k].event) /\ (Holding(e)' <=> e = jobs[k].event)
    BY <1>0, <1>1, <1>2, <1>3, AloneViewNext
  <1>7. \A j \in DOMAIN jobs : jobs[j].status = "queued" /\ Named(j) => ~Threat(j)'
    BY <1>4, <1>6 DEF Named, is_terminal, Ended
  <1>8. Boxed' /\ Core' /\ ConsumedForAReason'
    <2>1. holds_lease(box') => holds_lease(box) /\ box'.lease.event = box.lease.event
      BY <1>1 DEF holds_lease
    <2> QED BY <1>1, <1>5, <1>6, <1>7, <2>1, InboxSame
  <1>9. WorkOK(t)'
    <2>1. \A f : (Pending(f)' <=> Pending(f)) /\ ref(f)' = ref(f)
      BY <1>1, BoxStays
    <2>2. Pending(jobs[k].event)' => Named(k)'
      BY <1>0, <1>4, <2>1 DEF Named
    <2>3. is_terminal(k)' /\ NoneRuns'
      BY <1>0, <1>4 DEF is_terminal, NoneRuns, Running
    <2> QED BY <1>0, <1>1, <1>2, <1>3, <1>4, <2>2, <2>3 DEF WorkOK, HasJob
  <1> QED BY <1>8, <1>9 DEF Whole

\* Steps that find an event ended: only the thread moves.
LEMMA DismissWhole ==
    ASSUME Inv, NEW t \in Threads, Alone(t), Spares(t) \/ Dismisses(t) \/ Revives(t)
    PROVE  Whole(t)
  <1>0. Types /\ WorkOK(t) /\ BoxOK
    BY Parts
  <1>1. /\ Still /\ SameJobs /\ box' \in Mailbox /\ box'.inbox = box.inbox /\ box'.lease = box.lease
        /\ pc(t) \in {"sweep", "resolve", "recover"}
        /\ Rests(t) \/ (pc(t)' = "release" /\ ~Pending(thread'[t].event))
    BY DEF Spares, Dismisses, Revives, SameBox, Kept
  <1>2. jobs' = jobs /\ requeues' = requeues /\ ~Counting(t)
    BY <1>1, CountingAt DEF Still, SameJobs
  <1>3. pc(t)' \in Loose \cup {"release"}
    BY <1>1 DEF Rests
  <1>4. /\ \A j : ~Executing(j) /\ ~Naming(j) /\ ~Exempt(j)
        /\ \A j : Ending(j) => pc(t) = "resolve" /\ thread[t].job = j
        /\ \A e : Owed(e) \/ Holding(e) => pc(t) = "resolve" /\ jobs[thread[t].job].event = e
    BY <1>1, <1>2, AloneView
  <1>5. \A j : ~Naming(j)' /\ ~Threat(j)'
    BY <1>3, AloneViewNext DEF Loose, Plain
  <1>6. pc(t) = "resolve" => ~Pending(jobs[thread[t].job].event)
    BY DEF Spares, Dismisses, Revives
  <1>7. Boxed' /\ Core' /\ ConsumedForAReason'
    <2>1. holds_lease(box') => holds_lease(box) /\ box'.lease.event = box.lease.event
      BY <1>1 DEF holds_lease
    <2>2. \A e \in events(box) : Vacant(e) => ~Owed(e)
      BY <1>4, <1>6 DEF Vacant
    <2>3. \A j \in DOMAIN jobs : Named(j) => ~Ending(j)
      BY <1>4, <1>6 DEF Named
    <2>4. holds_lease(box) => \A e : box.lease.event = e => ~Holding(e)
      BY <1>0, <1>4, <1>6 DEF BoxOK
    <2> QED BY <1>1, <1>4, <1>5, <2>1, <2>2, <2>3, <2>4, InboxSame
  <1>8. WorkOK(t)'
    <2>1. CASE ~Counting(t)'
      BY <1>3, <2>1, WorkLoose
    <2>2. CASE Counting(t)'
      <3>1. /\ pc(t) = "resolve" /\ pc(t)' = "release" /\ thread'[t].event = jobs[thread[t].job].event
            /\ requeues[jobs[thread[t].job].event] < MaxRequeues
        BY <2>2 DEF Spares, Dismisses, Revives, Rests
      <3>2. jobs[thread[t].job].event \in events(box)
        BY <1>0, <3>1 DEF WorkOK, HasJob, BoxOK
      <3>3. events(box') = events(box)
        BY <1>1, BoxStays
      <3> QED BY <1>2, <3>1, <3>2, <3>3 DEF WorkOK, HasJob
    <2> QED BY <2>1, <2>2
  <1> QED BY <1>7, <1>8 DEF Whole

\* The release of a lease.
LEMMA FreesWhole ==
    ASSUME Inv, NEW t \in Threads, Alone(t), Frees(t)
    PROVE  Whole(t)
  <1>0. Types /\ WorkOK(t) /\ BoxOK
    BY Parts
  <1>1. PICK e : e = thread[t].event
    OBVIOUS
  <1>2. /\ Still /\ SameJobs /\ box' \in Mailbox /\ box'.inbox = box.inbox /\ pc(t) = "release"
        /\ IF Pending(e) THEN Freed(box, box', e) ELSE box'.lease = box.lease
        /\ \/ pc(t)' \in Loose /\ ~Counting(t) /\ ~Counting(t)'
           \/ Counting(t) /\ Counting(t)' /\ pc(t)' = "requeued" /\ thread'[t].event = e
    BY <1>1 DEF Frees, Rests, Lands
  <1>3. jobs' = jobs /\ requeues' = requeues
    BY <1>2 DEF Still, SameJobs
  <1>4. /\ holds_lease(box') => holds_lease(box) /\ box'.lease.event = box.lease.event
        /\ holds_lease(box') /\ Pending(e) => box.lease.event # e
    <2>1. CASE Pending(e)
      BY <1>2, <2>1 DEF Freed, holds_lease, NoLease
    <2>2. CASE ~Pending(e)
      BY <1>2, <2>2 DEF holds_lease
    <2> QED BY <2>1, <2>2
  <1>5. holds_lease(box') => box.lease.event # e
    BY <1>0, <1>4 DEF BoxOK
  <1>6. /\ \A j : ~Executing(j) /\ ~Naming(j) /\ ~Ending(j)
        /\ \A j : Exempt(j) <=> jobs[j].event = e
        /\ \A f : (Owed(f) <=> Counting(t) /\ f = e) /\ (Holding(f) <=> f = e)
    BY <1>1, <1>2, AloneView
  <1>7. \A j : ~Naming(j)' /\ ~Threat(j)'
    BY <1>2, AloneViewNext DEF Loose, Plain
  <1>8. \A f : Owed(f) => Owed(f)'
    BY <1>2, <1>6, AloneViewNext
  <1>9. Boxed' /\ Core' /\ ConsumedForAReason'
    BY <1>2, <1>4, <1>5, <1>6, <1>7, <1>8, InboxSame
  <1>10. WorkOK(t)'
    <2>1. CASE ~Counting(t)'
      BY <1>2, <2>1, WorkLoose
    <2>2. CASE Counting(t)'
      <3>1. e \in events(box) /\ requeues[e] < MaxRequeues
        BY <1>0, <1>1, <1>2, <2>2 DEF WorkOK
      <3>2. events(box') = events(box)
        BY <1>2, BoxStays
      <3> QED BY <1>2, <1>3, <2>2, <3>1, <3>2 DEF WorkOK, HasJob
    <2> QED BY <2>1, <2>2
  <1> QED BY <1>9, <1>10 DEF Whole

\* The expiry of a lease.
LEMMA SweepsWhole ==
    ASSUME Inv, NEW t \in Threads, Alone(t), t = "maintenance", Sweeps
    PROVE  Whole(t)
  <1>0. Types /\ RunOK /\ LeaseOwned /\ BoxOK
    BY Parts
  <1>1. PICK e : e = box.lease.event
    OBVIOUS
  <1>2. /\ Still /\ SameJobs /\ box' \in Mailbox /\ box'.inbox = box.inbox /\ pc(t) = "idle"
        /\ holds_lease(box) /\ Pending(e) /\ ~holds_lease(box')
        /\ ~(active # 0 /\ Running(active)) /\ pc(t)' = "sweep" /\ thread'[t].event = e
    BY <1>1 DEF Sweeps, Lands, holds_lease
  <1>3. jobs' = jobs /\ crashes' = crashes /\ ~Counting(t) /\ ~Counting(t)'
    BY <1>2, CountingAt DEF Still, SameJobs
  <1>4. /\ \A j : ~Executing(j) /\ ~Naming(j) /\ ~Ending(j) /\ ~Exempt(j)
        /\ \A f : ~Owed(f) /\ ~Holding(f)
    BY <1>2, <1>3, AloneView
  <1>5. \A j : ~Naming(j)' /\ (Threat(j)' <=> jobs[j].event = e)
    BY <1>2, <1>3, AloneViewNext
  <1>6. \A j \in DOMAIN jobs : jobs[j].status = "queued" /\ Named(j) /\ Threat(j)' => Risky(j)
    BY <1>1, <1>2, <1>4, <1>5 DEF Risky
  <1>7. Boxed' /\ Core' /\ ConsumedForAReason'
    BY <1>2, <1>4, <1>5, <1>6, InboxSame
  <1>8. WorkOK(t)'
    <2>1. crashes > 0
      BY <1>0, <1>1, <1>2, <1>4, Counted DEF LeaseOwned
    <2>2. NoneRuns
      BY <1>0, <1>2, <1>4, JobFacts DEF NoneRuns, RunOK
    <2>3. NoneRuns' /\ e \in events(box')
      BY <1>0, <1>2, <1>3, <2>2, BoxStays, HeadFacts DEF NoneRuns, Running, Pending
    <2> QED BY <1>2, <1>3, <2>1, <2>3 DEF WorkOK, HasJob
  <1> QED BY <1>7, <1>8 DEF Whole

\* The mailbox after a new record of a pending event.
LEMMA BoxedWrites ==
    ASSUME Inv, NEW t \in Threads, NEW e, NEW st, NEW r, Writes(t, e, st, r),
           r = 0 \/ (r \in DOMAIN jobs /\ jobs[r].event = e /\ First(e)),
           \A f : holds_lease(box') /\ box'.lease.event = f => Pending(f)'
    PROVE  Boxed'
  <1>0. /\ Types /\ BoxOK /\ Boxed /\ jobs' = jobs /\ active' = active /\ requeues' = requeues
        /\ limits' = limits /\ Pending(e) /\ Wrote(box, box', e, st, r)
    BY Parts DEF Writes, Still, Base, SameJobs
  <1>1. /\ events(box') = events(box) /\ e \in events(box)
        /\ \A f : (Pending(f)' => Pending(f)) /\ (First(f) /\ Pending(f)' => First(f)')
        /\ ref(e)' = r /\ \A f \in events(box) \ {e} : ref(f)' = ref(f)
        /\ \A f \in events(box) : box'.inbox[f].type = box.inbox[f].type
    BY <1>0, BoxWrites
  <1>2. box' \in Mailbox /\ Len(box'.inbox) = Len(box.inbox)
    BY <1>0 DEF Wrote
  <1>3. \A f : /\ f \in pending_events(box') <=> Pending(f)'
               /\ f \in pending_events(box) <=> Pending(f)
               /\ Pending(f) => f \in events(box)
    BY <1>0, HeadFacts DEF Pending
  <1>4. BoxOK'
    <2>1. Len(box'.inbox) <= limits'.replies
      BY <1>0, <1>2 DEF BoxOK
    <2>2. \A f \in events(box') :
            /\ box'.inbox[f].type = "task_reply"
            /\ ref(f)' # 0 => ref(f)' \in DOMAIN jobs' /\ jobs'[ref(f)'].event = f
      BY <1>0, <1>1 DEF BoxOK
    <2>3. \A f \in pending_events(box') : ref(f)' # 0 => First(f)'
      BY <1>0, <1>1, <1>3 DEF BoxOK
    <2>4. \A j \in DOMAIN jobs' : jobs'[j].event \in events(box')
      BY <1>0, <1>1 DEF BoxOK
    <2> QED BY <2>1, <2>2, <2>3, <2>4 DEF BoxOK
  <1> QED BY <1>0, <1>2, <1>4 DEF Boxed

\* The head goes back to the queue with a job or without one.
LEMMA WriteKept ==
    ASSUME Inv, NEW t \in Threads, NEW e, NEW r, Writes(t, e, "queued", r),
           r = 0 \/ (r \in DOMAIN jobs /\ jobs[r].event = e /\ First(e) /\ jobs[r].status = "queued"),
           holds_lease(box') => box'.lease = box.lease,
           \A j \in DOMAIN jobs : jobs[j].event = e => ~Running(j) /\ ~(jobs[j].status = "queued" /\ Named(j)),
           \A j : ~Executing(j) /\ ~Exempt(j) /\ ~Naming(j)' /\ ~Threat(j)' /\ (Naming(j) => j = r),
           r # 0 => \A j : jobs[j].event = e => Exempt(j)',
           \A f : Owed(f) => f = e,
           r = 0 => (Vacant(e) /\ ~Owed(e)) \/ Owed(e)',
           \A f : Holding(f) => Holding(f)',
           \A j : Ending(j) => jobs[j].event = e,
           crashes = 0 => \A j \in DOMAIN jobs : jobs[j].event = e => Spent(j) \/ j = r
    PROVE  Boxed' /\ Core' /\ ConsumedForAReason'
  <1>0. /\ Types /\ RunOK /\ ExecOK /\ BudgetOK /\ OrphanOK /\ LeaseOwned /\ EndsOK /\ ConsumedForAReason
        /\ BoxOK /\ jobs' = jobs /\ active' = active /\ requeues' = requeues /\ crashes' = crashes
        /\ acked \subseteq acked' /\ Seen /\ (Clean' => Clean) /\ Pending(e) /\ Wrote(box, box', e, "queued", r)
    BY Parts DEF Writes, Still, Base, SameJobs
  <1>1. /\ events(box') = events(box) /\ e \in events(box)
        /\ \A f : Pending(f)' <=> Pending(f)
        /\ ref(e)' = r /\ standing(e)' = "queued"
        /\ \A f \in events(box) \ {e} : ref(f)' = ref(f) /\ standing(f)' = standing(f)
    BY <1>0, BoxWrites DEF TerminalStatuses
  <1>2. \A j \in DOMAIN jobs : j # 0 /\ jobs[j].event \in events(box)
    BY <1>0, JobFacts DEF BoxOK
  <1>3. \A j \in DOMAIN jobs : /\ Named(j)' <=> (IF jobs[j].event = e THEN j = r ELSE Named(j))
                               /\ Running(j)' <=> Running(j)
    BY <1>0, <1>1, <1>2 DEF Named, Running
  <1>4. Boxed'
    <2>1. \A f : holds_lease(box') /\ box'.lease.event = f => Pending(f)'
      BY <1>0, <1>1 DEF BoxOK, holds_lease
    <2> QED BY <2>1, BoxedWrites
  <1>5. RunOK'
    BY <1>0, <1>1, <1>2, <1>3 DEF RunOK
  <1>6. ExecOK'
    BY <1>0, ExecKept
  <1>7. BudgetOK'
    <2>1. \A f : deliveries(f)' = deliveries(f)
      BY <1>0 DEF deliveries
    <2>2. \A f \in events(box) \ {e} : (Vacant(f)' <=> Vacant(f)) /\ ~Owed(f)
      BY <1>0, <1>1 DEF Vacant
    <2>3. Vacant(e)' => r = 0
      BY <1>0, <1>1 DEF Vacant
    <2> QED BY <1>0, <1>1, <2>1, <2>2, <2>3, BudgetKept
  <1>8. OrphanOK'
    <2>1. Orphans' \subseteq Orphans
      BY <1>0, <1>2, <1>3 DEF Orphans
    <2>2. \A j \in DOMAIN jobs' : Risky(j)' => j \in DOMAIN jobs /\ Risky(j)
      BY <1>0, <1>2, <1>3 DEF Risky, holds_lease
    <2> QED BY <1>0, <2>1, <2>2, OrphansKept
  <1>9. LeaseOwned'
    BY <1>0, OwnedKept DEF holds_lease
  <1>10. EndsOK'
    <2> SUFFICES ASSUME crashes = 0
                 PROVE  /\ \A i, k \in DOMAIN jobs : jobs[i].event = jobs[k].event /\ i < k => Spent(i)'
                        /\ \A j \in DOMAIN jobs : Pending(jobs[j].event)' =>
                            /\ Spent(j)' \/ Named(j)' \/ Naming(j)'
                            /\ Named(j)' /\ is_terminal(j)' => Ending(j)'
      BY <1>0 DEF EndsOK
    <2>1. \A j : (Spent(j)' <=> Spent(j)) /\ (is_terminal(j)' <=> is_terminal(j))
      BY <1>0 DEF Spent, is_terminal
    <2>2. \A i, k \in DOMAIN jobs : jobs[i].event = jobs[k].event /\ i < k => Spent(i)
      BY <1>0 DEF EndsOK
    <2>3. ASSUME NEW j \in DOMAIN jobs, Pending(jobs[j].event), jobs[j].event # e
          PROVE  (Spent(j) \/ Named(j)') /\ ~(Named(j)' /\ is_terminal(j))
      <3>1. j # r /\ (Named(j)' <=> Named(j)) /\ ~Ending(j) /\ ~Naming(j)
        BY <1>2, <1>3, <2>3
      <3> QED BY <1>0, <2>3, <3>1 DEF EndsOK
    <2>4. ASSUME NEW j \in DOMAIN jobs, jobs[j].event = e
          PROVE  (Spent(j) \/ Named(j)') /\ ~(Named(j)' /\ is_terminal(j))
      BY <1>2, <1>3, <2>4 DEF is_terminal, Ended
    <2> QED BY <1>1, <1>0, <2>1, <2>2, <2>3, <2>4
  <1>11. ConsumedForAReason'
    BY <1>0, <1>1, ReasonKept
  <1> QED BY <1>4, <1>5, <1>6, <1>7, <1>8, <1>9, <1>10, <1>11 DEF Core

\* The head loses a job that has ended, or none.
LEMMA ClearsWhole ==
    ASSUME Inv, NEW t \in Threads, Alone(t), NEW e \in events(box), Clears(t, e)
    PROVE  Whole(t)
  <1>0. Types /\ RunOK /\ EndsOK /\ BoxOK
    BY Parts
  <1>1. /\ Writes(t, e, "queued", 0) /\ Vacant(e) /\ LeaseGone
        /\ pc(t) \in {"repair", "recover", "prepare"} /\ pc(t)' \in {"release", "enqueue"}
        /\ pc(t)' = "release" => ~Counting(t)'
        /\ pc(t)' = "enqueue" => First(e) /\ thread'[t].event = e
    BY DEF Clears
  <1>2. ~Counting(t) /\ ~Counting(t)'
    BY <1>1, CountingAt
  <1>3. /\ \A j : ~Executing(j) /\ ~Naming(j) /\ ~Ending(j) /\ ~Exempt(j)
        /\ \A f : ~Owed(f) /\ ~Holding(f)
    BY <1>1, <1>2, AloneView
  <1>4. \A j : ~Naming(j)' /\ ~Threat(j)'
    BY <1>1, AloneViewNext
  <1>5. holds_lease(box') => box'.lease = box.lease
    BY <1>1 DEF LeaseGone, holds_lease, NoLease
  <1>6. Pending(e) /\ (ref(e) # 0 => jobs[ref(e)].status \in {"failed", "cancelled"})
    BY <1>1 DEF Vacant
  <1>7. \A j \in DOMAIN jobs : jobs[j].event = e => ~Running(j) /\ ~(jobs[j].status = "queued" /\ Named(j))
    <2> SUFFICES ASSUME NEW j \in DOMAIN jobs, jobs[j].event = e, Running(j) \/ (jobs[j].status = "queued" /\ Named(j))
                 PROVE  FALSE
      OBVIOUS
    <2>1. ref(e) = j /\ j # 0
      BY <1>0, <1>6, JobFacts DEF RunOK, Named
    <2> QED BY <1>6, <2>1 DEF Running
  <1>8. crashes = 0 => \A j \in DOMAIN jobs : jobs[j].event = e => Spent(j)
    <2> SUFFICES ASSUME crashes = 0, NEW j \in DOMAIN jobs, jobs[j].event = e PROVE Spent(j)
      OBVIOUS
    <2>1. Spent(j) \/ Named(j)
      BY <1>0, <1>3, <1>6 DEF EndsOK
    <2>2. Named(j) => ref(e) = j /\ j # 0
      BY JobFacts, <1>0 DEF Named
    <2>3. Named(j) => is_terminal(j)
      BY <1>6, <2>2 DEF is_terminal, Ended
    <2>4. ~Named(j)
      BY <1>0, <1>3, <1>6, <2>3 DEF EndsOK
    <2> QED BY <2>1, <2>4
  <1>9. Boxed' /\ Core' /\ ConsumedForAReason'
    BY <1>1, <1>3, <1>4, <1>5, <1>7, <1>8, WriteKept
  <1>10. WorkOK(t)'
    <2>1. CASE pc(t)' = "release"
      BY <1>2, <2>1, WorkLoose
    <2>2. CASE pc(t)' = "enqueue"
      <3>1. Wrote(box, box', e, "queued", 0)
        BY <1>1 DEF Writes
      <3>2. First(e)' /\ ref(e)' = 0
        BY <1>0, <1>1, <1>6, <2>2, <3>1, BoxWrites DEF TerminalStatuses
      <3> QED BY <1>1, <1>2, <2>2, <3>2 DEF WorkOK, HasJob
    <2> QED BY <1>1, <2>1, <2>2
  <1> QED BY <1>9, <1>10 DEF Whole

\* The head loses a job that failed before delivery.
LEMMA RequeuesWhole ==
    ASSUME Inv, NEW t \in Threads, Alone(t), NEW e \in events(box), Requeues(t, e)
    PROVE  Whole(t)
  <1>0. Types /\ RunOK /\ EndsOK /\ BoxOK /\ WorkOK(t)
    BY Parts
  <1>1. PICK k : k = thread[t].job
    OBVIOUS
  <1>2. /\ Writes(t, e, "queued", 0) /\ box'.lease = box.lease /\ Pending(e)
        /\ pc(t) = "resolve" /\ e = jobs[k].event /\ Spent(k) /\ requeues[e] < MaxRequeues
        /\ pc(t)' = "release" /\ Counting(t)' /\ thread'[t].event = e /\ requeues' = requeues
    BY <1>1 DEF Requeues, Writes, Still
  <1>3. ~Counting(t)
    BY <1>2, CountingAt
  <1>4. k \in DOMAIN jobs /\ ref(e) = k
    BY <1>0, <1>1, <1>2 DEF WorkOK, HasJob, Spent, Named
  <1>5. /\ \A j : ~Executing(j) /\ ~Naming(j) /\ ~Exempt(j) /\ (Ending(j) <=> j = k)
        /\ \A f : (Owed(f) <=> f = e) /\ (Holding(f) <=> f = e)
    BY <1>1, <1>2, <1>3, AloneView
  <1>6. /\ \A j : ~Naming(j)' /\ ~Threat(j)'
        /\ Owed(e)' /\ Holding(e)'
    BY <1>2, AloneViewNext
  <1>7. \A j \in DOMAIN jobs : jobs[j].event = e => ~Running(j) /\ ~(jobs[j].status = "queued" /\ Named(j))
    <2> SUFFICES ASSUME NEW j \in DOMAIN jobs, jobs[j].event = e, Running(j) \/ (jobs[j].status = "queued" /\ Named(j))
                 PROVE  FALSE
      OBVIOUS
    <2>1. j = k
      BY <1>0, <1>2, <1>4 DEF RunOK, Named
    <2> QED BY <1>2, <2>1 DEF Running, Spent
  <1>8. crashes = 0 => \A j \in DOMAIN jobs : jobs[j].event = e => Spent(j)
    <2> SUFFICES ASSUME crashes = 0, NEW j \in DOMAIN jobs, jobs[j].event = e PROVE Spent(j)
      OBVIOUS
    <2>1. Spent(j) \/ Named(j)
      BY <1>0, <1>2, <1>5 DEF EndsOK
    <2> QED BY <1>2, <1>4, <2>1 DEF Named
  <1>9. Boxed' /\ Core' /\ ConsumedForAReason'
    BY <1>2, <1>5, <1>6, <1>7, <1>8, WriteKept
  <1>10. WorkOK(t)'
    <2>1. events(box') = events(box)
      BY <1>0, <1>2, BoxWrites DEF Writes
    <2> QED BY <1>2, <2>1 DEF WorkOK, HasJob
  <1> QED BY <1>9, <1>10 DEF Whole

\* The head gets a new job.
LEMMA NamesWhole ==
    ASSUME Inv, NEW t \in Threads, Alone(t), Names(t)
    PROVE  Whole(t)
  <1>0. Types /\ RunOK /\ EndsOK /\ BoxOK /\ WorkOK(t)
    BY Parts
  <1>1. PICK k, e : k = thread[t].job /\ e = thread[t].event
    OBVIOUS
  <1>2. /\ Writes(t, e, "queued", k) /\ box'.lease = box.lease /\ Pending(e) /\ jobs' = jobs
        /\ pc(t) = "rewrite" /\ pc(t)' = "release" /\ ~Counting(t)' /\ thread'[t].event = e
    BY <1>1 DEF Names, Writes, SameJobs
  <1>3. ~Counting(t)
    BY <1>2, CountingAt
  <1>4. k \in DOMAIN jobs /\ jobs[k].status = "queued" /\ jobs[k].event = e /\ First(e) /\ ref(e) = 0
    BY <1>0, <1>1, <1>2 DEF WorkOK, HasJob
  <1>5. /\ \A j : ~Executing(j) /\ ~Exempt(j) /\ ~Ending(j) /\ (Naming(j) <=> j = k)
        /\ \A f : (Owed(f) <=> f = e) /\ ~Holding(f)
    BY <1>1, <1>2, <1>3, AloneView
  <1>6. \A j : ~Naming(j)' /\ ~Threat(j)' /\ (Exempt(j)' <=> jobs[j].event = e)
    BY <1>2, AloneViewNext
  <1>7. \A j \in DOMAIN jobs : jobs[j].event = e => ~Running(j) /\ ~Named(j)
    BY <1>0, <1>2, <1>4, JobFacts DEF RunOK, Named
  <1>8. crashes = 0 => \A j \in DOMAIN jobs : jobs[j].event = e => Spent(j) \/ j = k
    BY <1>0, <1>2, <1>5, <1>7 DEF EndsOK
  <1>9. k # 0
    BY <1>0, <1>4, JobFacts
  <1>10. holds_lease(box') => box'.lease = box.lease
    BY <1>2
  <1>11. Boxed' /\ Core' /\ ConsumedForAReason'
    BY <1>2, <1>4, <1>5, <1>6, <1>7, <1>8, <1>9, <1>10, WriteKept
  <1>12. WorkOK(t)'
    BY <1>2, WorkLoose
  <1> QED BY <1>11, <1>12 DEF Whole

\* A record that keeps the job it names.
LEMMA StallsWhole ==
    ASSUME Inv, NEW t \in Threads, Alone(t), NEW e \in events(box), Stalls(t, e)
    PROVE  Whole(t)
  <1>0. Types /\ RunOK /\ LeaseOwned /\ BoxOK /\ ConsumedForAReason
    BY Parts
  <1>1. /\ Writes(t, e, "queued", ref(e)) /\ LeaseGone /\ Pending(e) /\ Still /\ SameJobs
        /\ ref(e) # 0 /\ jobs[ref(e)].status = "queued"
        /\ pc(t) = "repair" /\ pc(t)' = "release" /\ thread'[t].event = e /\ ~Counting(t)'
    BY DEF Stalls, Writes
  <1>2. /\ jobs' = jobs /\ requeues' = requeues /\ crashes' = crashes /\ active' = active /\ ~Counting(t)
        /\ acked \subseteq acked'
    BY <1>1, CountingAt DEF Still, Base, SameJobs
  <1>3. /\ events(box') = events(box) /\ \A f : Pending(f)' <=> Pending(f)
        /\ \A f \in events(box) : ref(f)' = ref(f)
        /\ standing(e)' = "queued" /\ \A f \in events(box) \ {e} : standing(f)' = standing(f)
    BY <1>0, <1>1, BoxWrites DEF TerminalStatuses, Writes
  <1>4. holds_lease(box') => holds_lease(box) /\ box'.lease = box.lease
    BY <1>1 DEF LeaseGone, holds_lease, NoLease
  <1>5. /\ \A j : ~Executing(j) /\ ~Naming(j) /\ ~Ending(j) /\ ~Exempt(j)
        /\ \A f : ~Owed(f) /\ ~Holding(f)
    BY <1>1, <1>2, AloneView
  <1>6. \A j : ~Naming(j)' /\ ~Threat(j)'
    BY <1>1, AloneViewNext
  <1>7. \A j \in DOMAIN jobs : /\ Running(j) => jobs[j].event # e
                               /\ jobs[j].event \in events(box)
    BY <1>0, <1>1 DEF RunOK, Running, BoxOK
  <1>8. \A j \in DOMAIN jobs : Risky(j)' => Risky(j)
    <2>1. \A j \in DOMAIN jobs : Named(j)' <=> Named(j)
      BY <1>2, <1>3, <1>7 DEF Named
    <2> QED BY <1>2, <1>4, <1>5, <1>6, <2>1 DEF Risky
  <1>9. \A j \in DOMAIN jobs : Running(j) /\ Pending(jobs[j].event) =>
              standing(jobs[j].event)' = standing(jobs[j].event)
    BY <1>2, <1>3, <1>7
  <1>10. RunOK' /\ ExecOK' /\ BudgetOK' /\ OrphanOK' /\ EndsOK'
    BY <1>1, <1>3, <1>5, <1>6, <1>8, <1>9, CalmKept
  <1>11. LeaseOwned'
    BY <1>0, <1>2, <1>4, <1>5, OwnedKept
  <1>12. Boxed'
    <2>1. \A f : holds_lease(box') /\ box'.lease.event = f => Pending(f)'
      BY <1>0, <1>3, <1>4 DEF BoxOK
    <2>2. ref(e) \in DOMAIN jobs /\ jobs[ref(e)].event = e /\ First(e)
      BY <1>0, <1>1 DEF BoxOK, Pending
    <2> QED BY <1>1, <2>1, <2>2, BoxedWrites
  <1>13. ConsumedForAReason'
    BY <1>0, <1>2, <1>3, ReasonKept
  <1>14. WorkOK(t)'
    BY <1>1, WorkLoose
  <1> QED BY <1>10, <1>11, <1>12, <1>13, <1>14 DEF Whole, Core

\* The event of a job comes into delivery.
LEMMA ClaimsWhole ==
    ASSUME Inv, NEW t \in Threads, Alone(t), Claims(t)
    PROVE  Whole(t)
  <1>0. Types /\ RunOK /\ LeaseOwned /\ BoxOK /\ ConsumedForAReason /\ WorkOK(t)
    BY Parts
  <1>1. PICK k, e : k = thread[t].job /\ e = jobs[k].event
    OBVIOUS
  <1>2. /\ pc(t) = "preclaim" /\ pc(t)' = "start_running" /\ thread'[t].job = k
        /\ thread'[t].seen = thread[t].seen
    BY <1>1 DEF Claims, Lands
  <1>3. /\ Still /\ SameJobs /\ Pending(e)
        /\ \/ /\ Wrote(box, box', e, "delivering", ref(e)) /\ Writes(t, e, "delivering", ref(e))
              /\ box'.lease.event = e
           \/ /\ box' \in Mailbox /\ box'.inbox = box.inbox /\ box'.lease = box.lease
              /\ standing(e) = "delivering"
              /\ holds_lease(box) => box.lease.event = e
    BY <1>1 DEF Claims, Writes, SameBox, Kept, standing
  <1>4. /\ jobs' = jobs /\ requeues' = requeues /\ crashes' = crashes /\ active' = active
        /\ acked \subseteq acked' /\ ~Counting(t) /\ ~Counting(t)'
    BY <1>2, <1>3, CountingAt DEF Still, Base, SameJobs
  <1>5. /\ k \in DOMAIN jobs /\ thread[t].seen = jobs[k] /\ jobs[k].status = "queued"
        /\ Named(k) /\ active = 0 /\ k # 0
    BY <1>0, <1>1, <1>2, JobFacts DEF WorkOK, HasJob
  <1>6. /\ \A j : ~Executing(j) /\ ~Naming(j) /\ ~Ending(j) /\ ~Exempt(j)
        /\ \A f : ~Owed(f) /\ ~Holding(f)
    BY <1>2, <1>4, AloneView
  <1>7. /\ \A j : ~Naming(j)' /\ ~Threat(j)' /\ (Exempt(j)' <=> j = k)
        /\ Holding(e)'
    BY <1>1, <1>2, <1>4, AloneViewNext
  <1>8. /\ events(box') = events(box) /\ \A f : Pending(f)' <=> Pending(f)
        /\ \A f \in events(box) : ref(f)' = ref(f)
        /\ standing(e)' = "delivering" /\ \A f \in events(box) \ {e} : standing(f)' = standing(f)
    BY <1>0, <1>3, BoxWrites, BoxStays DEF TerminalStatuses
  <1>9. \A j \in DOMAIN jobs : (Named(j)' <=> Named(j)) /\ jobs[j].event \in events(box)
    BY <1>0, <1>4, <1>8 DEF Named, BoxOK
  <1>10. Boxed' /\ Core' /\ ConsumedForAReason'
    <2>1. CASE box' \in Mailbox /\ box'.inbox = box.inbox /\ box'.lease = box.lease
      <3>1. holds_lease(box') => holds_lease(box) /\ box'.lease.event = box.lease.event
        BY <2>1 DEF holds_lease
      <3> QED BY <1>3, <1>6, <1>7, <2>1, <3>1, InboxSame
    <2>2. CASE Writes(t, e, "delivering", ref(e)) /\ box'.lease.event = e
      <3>1. \A j \in DOMAIN jobs : Risky(j)' => Risky(j)
        <4>1. ASSUME NEW j \in DOMAIN jobs, Risky(j)' PROVE FALSE
          <5>1. Named(j) /\ jobs[j].event = e /\ ~Exempt(j)'
            BY <1>4, <1>7, <1>9, <2>2, <4>1 DEF Risky
          <5>2. j = k
            BY <1>0, <1>5, <5>1, NamedOnce
          <5> QED BY <1>7, <5>1, <5>2
        <4> QED BY <4>1
      <3>2. \A j \in DOMAIN jobs : Running(j) /\ Pending(jobs[j].event) =>
              standing(jobs[j].event)' = standing(jobs[j].event)
        BY <1>0, <1>4, <1>8, <1>9 DEF RunOK
      <3>3. RunOK' /\ ExecOK' /\ BudgetOK' /\ OrphanOK' /\ EndsOK'
        BY <1>3, <1>6, <1>7, <1>8, <3>1, <3>2, CalmKept
      <3>4. LeaseOwned'
        BY <1>7, <2>2 DEF LeaseOwned
      <3>5. Boxed'
        <4>1. \A f : holds_lease(box') /\ box'.lease.event = f => Pending(f)'
          BY <1>3, <1>8, <2>2
        <4>2. ref(e) \in DOMAIN jobs /\ jobs[ref(e)].event = e /\ First(e)
          BY <1>0, <1>1, <1>3, <1>5 DEF BoxOK, Pending, Named
        <4> QED BY <2>2, <4>1, <4>2, BoxedWrites
      <3>6. ConsumedForAReason'
        <4>1. \A f \in events(box') : standing(f)' \notin {"consumed", "abandoned"}
                 \/ (f \in events(box) /\ standing(f)' = standing(f))
          BY <1>8
        <4> QED BY <1>0, <1>4, <1>8, <4>1, ReasonKept
      <3> QED BY <3>3, <3>4, <3>5, <3>6 DEF Core
    <2> QED BY <1>3, <2>1, <2>2
  <1>11. WorkOK(t)'
    <2>1. k \in DOMAIN jobs' /\ thread'[t].seen = jobs'[k] /\ jobs'[k].status = "queued"
          /\ Named(k)' /\ active' = 0 /\ standing(jobs[k].event)' = "delivering" /\ jobs' = jobs
      BY <1>1, <1>2, <1>4, <1>5, <1>8, <1>9
    <2> QED BY <1>2, <1>4, <2>1 DEF WorkOK, HasJob
  <1> QED BY <1>10, <1>11 DEF Whole

\* One more job left behind, of a crash that had none yet.
LEMMA OrphanMore ==
    ASSUME Types, OrphanOK, NEW k \in DOMAIN jobs, Risky(k), crashes' = crashes,
           Orphans' \subseteq Orphans \cup {k}, \A j \in DOMAIN jobs' : ~Risky(j)'
    PROVE  OrphanOK'
  <1>1. IsFiniteSet(Orphans) /\ Cardinality(Orphans) \in Nat /\ crashes \in Nat
    BY Counted
  <1>2. IsFiniteSet(Orphans \cup {k}) /\ Cardinality(Orphans \cup {k}) <= Cardinality(Orphans) + 1
    BY <1>1, FS_AddElement
  <1>3. Cardinality(Orphans') <= Cardinality(Orphans \cup {k}) /\ IsFiniteSet(Orphans')
    BY <1>2, FS_Subset
  <1>4. Cardinality(Orphans') \in Nat /\ Cardinality(Orphans \cup {k}) \in Nat
    BY <1>2, <1>3, FS_CardinalityType
  <1>5. Cardinality(Orphans) + 1 <= crashes
    BY DEF OrphanOK
  <1>6. Cardinality(Orphans') <= crashes
    BY <1>1, <1>2, <1>3, <1>4, <1>5
  <1> QED BY <1>6 DEF OrphanOK

\* An event ends.
LEMMA EndsWhole ==
    ASSUME Inv, NEW t \in Threads, Alone(t), NEW e \in events(box), NEW st, Ends(t, e, st)
    PROVE  Whole(t)
  <1>0. /\ Types /\ RunOK /\ ExecOK /\ BudgetOK /\ OrphanOK /\ LeaseOwned /\ EndsOK /\ BoxOK
        /\ ConsumedForAReason /\ WorkOK(t)
    BY Parts
  <1>1. PICK k : k = thread[t].job
    OBVIOUS
  <1>2. /\ Writes(t, e, st, ref(e)) /\ Wrote(box, box', e, st, ref(e)) /\ Still /\ SameJobs
        /\ Pending(e) /\ Released(e) /\ pc(t)' \in Loose /\ ~Counting(t)'
        /\ pc(t) \in {"resolve", "prepare", "ack", "sweep"} /\ st \in {"consumed", "abandoned"}
    BY DEF Ends, Writes, Rests
  <1>3. /\ jobs' = jobs /\ requeues' = requeues /\ crashes' = crashes /\ active' = active
        /\ acked \subseteq acked' /\ Seen /\ (Clean' => Clean) /\ ~Counting(t)
    BY <1>2, CountingAt DEF Still, Base, SameJobs
  <1>4. /\ pc(t) = "resolve" => /\ e = jobs[k].event /\ st = "consumed"
                                /\ terminal_disposition(k) # "requeued"
        /\ pc(t) = "prepare" => /\ ref(e) # 0 /\ jobs[ref(e)].status = "completed" /\ st = "consumed"
        /\ pc(t) = "ack" => e = thread[t].event /\ e \in acked' /\ st = "consumed"
        /\ pc(t) = "sweep" => e = thread[t].event /\ st = "abandoned"
    BY <1>1 DEF Ends
  <1>5. /\ pc(t) = "resolve" => k \in DOMAIN jobs /\ is_terminal(k) /\ (Clean => NoneRuns)
        /\ pc(t) = "ack" => ref(e) = 0
        /\ pc(t) = "sweep" => NoneRuns /\ crashes > 0
    BY <1>0, <1>1, <1>4 DEF WorkOK, HasJob
  <1>6. /\ \A j : ~Executing(j) /\ ~Naming(j) /\ ~Exempt(j)
        /\ \A j : Ending(j) => pc(t) = "resolve" /\ j = k
        /\ \A f : Owed(f) \/ Holding(f) => f = e
        /\ \A j : pc(t) \in {"resolve", "sweep"} /\ jobs[j].event = e => Threat(j)
    BY <1>1, <1>2, <1>3, <1>4, AloneView
  <1>7. \A j : ~Naming(j)' /\ ~Threat(j)'
    BY <1>2, AloneViewNext DEF Loose, Plain
  <1>8. /\ events(box') = events(box) /\ \A f : Pending(f)' <=> Pending(f) /\ f # e
        /\ \A f \in events(box) : ref(f)' = ref(f)
        /\ standing(e)' = st /\ \A f \in events(box) \ {e} : standing(f)' = standing(f)
    <2>1. st \in TerminalStatuses
      BY <1>2 DEF TerminalStatuses
    <2> QED BY <1>0, <1>2, <2>1, BoxWrites
  <1>9. \A j \in DOMAIN jobs : /\ Named(j)' <=> Named(j) /\ jobs[j].event # e
                               /\ jobs[j].event \in events(box) /\ j # 0
                               /\ Running(j)' <=> Running(j)
    BY <1>0, <1>3, <1>8, JobFacts DEF Named, BoxOK, Running
  <1>10. holds_lease(box') => holds_lease(box) /\ box'.lease = box.lease /\ box.lease.event # e
    BY <1>2 DEF Released, holds_lease
  <1>11. Boxed'
    <2>1. \A f : holds_lease(box') /\ box'.lease.event = f => Pending(f)'
      BY <1>0, <1>8, <1>10 DEF BoxOK
    <2>2. ref(e) = 0 \/ (ref(e) \in DOMAIN jobs /\ jobs[ref(e)].event = e /\ First(e))
      BY <1>0, <1>2 DEF BoxOK, Pending
    <2> QED BY <1>2, <2>1, <2>2, BoxedWrites
  <1>12. RunOK'
    <2> SUFFICES ASSUME NEW j \in DOMAIN jobs, Running(j)
                 PROVE  /\ active' = j
                        /\ Pending(jobs[j].event)' =>
                            ref(jobs[j].event)' = j /\ standing(jobs[j].event)' = "delivering"
                        /\ Clean' => Pending(jobs[j].event)'
      BY <1>3, <1>9 DEF RunOK
    <2>1. /\ active = j /\ (Clean => Pending(jobs[j].event))
          /\ Pending(jobs[j].event) => ref(jobs[j].event) = j /\ standing(jobs[j].event) = "delivering"
      BY <1>0, <1>6 DEF RunOK
    <2>2. Clean => jobs[j].event # e
      <3> SUFFICES ASSUME Clean, jobs[j].event = e PROVE FALSE
        OBVIOUS
      <3>1. ref(e) = j /\ j # 0
        BY <1>2, <1>9, <2>1
      <3> QED BY <1>2, <1>4, <1>5, <3>1 DEF NoneRuns, Running
    <2> QED BY <1>3, <1>8, <1>9, <2>1, <2>2
  <1>13. ExecOK'
    BY <1>0, <1>3, ExecKept
  <1>14. BudgetOK'
    <2>1. \A f : deliveries(f)' = deliveries(f)
      BY <1>3 DEF deliveries
    <2>2. \A f \in events(box) : Vacant(f)' => Vacant(f) /\ ~Owed(f)
      BY <1>3, <1>6, <1>8 DEF Vacant
    <2> QED BY <1>0, <1>3, <1>8, <2>1, <2>2, BudgetKept
  <1>15. OrphanOK'
    <2>1. \A j \in DOMAIN jobs : Risky(j)' => Risky(j) /\ Named(j) /\ jobs[j].event # e
      BY <1>3, <1>6, <1>7, <1>9, <1>10 DEF Risky
    <2>2. CASE \E j \in DOMAIN jobs : jobs[j].status = "queued" /\ Named(j) /\ jobs[j].event = e
      <3>1. PICK j \in DOMAIN jobs : jobs[j].status = "queued" /\ Named(j) /\ jobs[j].event = e
        BY <2>2
      <3>2. ref(e) = j /\ j # 0
        BY <1>9, <3>1 DEF Named
      <3>3. pc(t) \in {"resolve", "sweep"}
        BY <1>2, <1>4, <1>5, <3>1, <3>2
      <3>4. Risky(j)
        BY <1>6, <3>1, <3>3 DEF Risky
      <3>5. \A i \in DOMAIN jobs : Named(i) => i = j
        BY <1>0, <3>1, NamedOnce
      <3>6. Orphans' \subseteq Orphans \cup {j}
        BY <1>3, <1>6, <1>9, <3>5 DEF Orphans
      <3>7. \A i \in DOMAIN jobs' : ~Risky(i)'
        BY <1>3, <2>1, <3>1, <3>5
      <3> QED BY <1>0, <1>3, <3>4, <3>6, <3>7, OrphanMore
    <2>3. CASE ~\E j \in DOMAIN jobs : jobs[j].status = "queued" /\ Named(j) /\ jobs[j].event = e
      <3>1. Orphans' \subseteq Orphans
        BY <1>3, <1>6, <1>9, <2>3 DEF Orphans
      <3>2. \A i \in DOMAIN jobs' : Risky(i)' => i \in DOMAIN jobs /\ Risky(i)
        BY <1>3, <2>1
      <3> QED BY <1>0, <1>3, <3>1, <3>2, OrphansKept
    <2> QED BY <2>2, <2>3
  <1>16. LeaseOwned'
    BY <1>0, <1>3, <1>6, <1>10, OwnedKept
  <1>17. EndsOK'
    <2> SUFFICES ASSUME crashes = 0
                 PROVE  /\ \A i, j \in DOMAIN jobs : jobs[i].event = jobs[j].event /\ i < j => Spent(i)'
                        /\ \A j \in DOMAIN jobs : Pending(jobs[j].event)' =>
                            /\ Spent(j)' \/ Named(j)'
                            /\ ~(Named(j)' /\ is_terminal(j)')
      BY <1>3 DEF EndsOK
    <2>1. \A j : (Spent(j)' <=> Spent(j)) /\ (is_terminal(j)' <=> is_terminal(j))
      BY <1>3 DEF Spent, is_terminal
    <2>2. \A j \in DOMAIN jobs : jobs[j].event # e => ~Ending(j)
      BY <1>4, <1>6
    <2> QED BY <1>0, <1>3, <1>6, <1>8, <1>9, <2>1, <2>2 DEF EndsOK
  <1>18. ConsumedForAReason'
    <2>1. st = "abandoned" => crashes' > 0
      BY <1>2, <1>3, <1>4, <1>5
    <2>2. ASSUME st = "consumed", e \notin acked'
          PROVE  \E j \in DOMAIN jobs : /\ jobs[j].event = e /\ is_terminal(j)
                                        /\ \/ jobs[j].status \in {"completed", "cancelled"}
                                           \/ jobs[j].reached
                                           \/ requeues[e] = MaxRequeues
      <3>1. CASE pc(t) = "resolve"
        <4>1. requeues[e] \in 0 .. MaxRequeues /\ MaxRequeues \in Nat
          BY <1>0, EventBound, ReplyDeliveryAssumption
        <4>2. \/ jobs[k].status \in {"completed", "cancelled"} \/ jobs[k].reached
              \/ requeues[e] >= MaxRequeues
          BY <1>4, <3>1 DEF terminal_disposition, budget_spent
        <4> QED BY <1>4, <1>5, <3>1, <4>1, <4>2
      <3>2. CASE pc(t) = "prepare"
        <4>1. ref(e) \in DOMAIN jobs /\ jobs[ref(e)].event = e
          BY <1>0, <1>4, <3>2 DEF BoxOK
        <4>2. jobs[ref(e)].status = "completed" /\ is_terminal(ref(e))
          BY <1>4, <3>2 DEF is_terminal, Ended
        <4> QED BY <4>1, <4>2
      <3> QED BY <1>2, <1>4, <2>2, <3>1, <3>2
    <2>3. \A f \in events(box') :
              \/ standing(f)' \notin {"consumed", "abandoned"}
              \/ f \in events(box) /\ standing(f)' = standing(f)
              \/ /\ f \in events(box) /\ standing(f)' = "consumed"
                 /\ \/ f \in acked'
                    \/ \E j \in DOMAIN jobs : /\ jobs[j].event = f /\ is_terminal(j)
                                              /\ \/ jobs[j].status \in {"completed", "cancelled"}
                                                 \/ jobs[j].reached
                                                 \/ requeues[f] = MaxRequeues
              \/ standing(f)' = "abandoned" /\ crashes' > 0
      BY <1>2, <1>8, <2>1, <2>2
    <2> QED BY <1>0, <1>3, <2>3, ReasonKept
  <1>19. WorkOK(t)'
    BY <1>2, WorkLoose
  <1> QED BY <1>11, <1>12, <1>13, <1>14, <1>15, <1>16, <1>17, <1>18, <1>19 DEF Whole, Core

\* Steps that leave the mailbox alone and every job its event.
LEMMA JobsView ==
    ASSUME Types, SameBox, limits' = limits, jobs' \in Seq(Job), DOMAIN jobs' = DOMAIN jobs,
           \A j \in DOMAIN jobs : jobs'[j].event = jobs[j].event,
           requeues' \in [1 .. MaxReplies -> 0 .. MaxRequeues], active' \in {0} \cup DOMAIN jobs
    PROVE  /\ Boxed' /\ events(box') = events(box) /\ box'.lease = box.lease
           /\ holds_lease(box') <=> holds_lease(box)
           /\ \A f : /\ (Pending(f)' <=> Pending(f)) /\ (First(f)' <=> First(f))
                     /\ ref(f)' = ref(f) /\ standing(f)' = standing(f)
                     /\ deliveries(f)' = deliveries(f)
           /\ \A j \in DOMAIN jobs : (Named(j)' <=> Named(j)) /\ j # 0 /\ jobs[j].event \in events(box)
  <1>0. /\ BoxOK /\ box \in Mailbox /\ box' \in Mailbox
        /\ box'.inbox = box.inbox /\ box'.lease = box.lease
    BY JobFacts DEF SameBox, Kept, Types
  <1>1. /\ events(box') = events(box)
        /\ \A f : /\ (Pending(f)' <=> Pending(f)) /\ (First(f)' <=> First(f))
                  /\ ref(f)' = ref(f) /\ standing(f)' = standing(f)
    BY <1>0, BoxStays
  <1>2. holds_lease(box') <=> holds_lease(box)
    BY <1>0 DEF holds_lease
  <1>3. \A j \in DOMAIN jobs : (Named(j)' <=> Named(j)) /\ j # 0 /\ jobs[j].event \in events(box)
    BY <1>0, <1>1, JobFacts DEF Named, BoxOK
  <1>4. \A f : deliveries(f)' = deliveries(f)
    BY DEF deliveries
  <1>5. BoxOK'
    <2>1. \A f : f \in pending_events(box') <=> f \in pending_events(box)
      BY <1>1 DEF Pending
    <2>2. \A f : holds_lease(box') /\ box'.lease.event = f => Pending(f)'
      BY <1>0, <1>1, <1>2 DEF BoxOK
    <2>3. \A f \in events(box') :
            /\ box'.inbox[f].type = "task_reply"
            /\ ref(f)' # 0 => ref(f)' \in DOMAIN jobs' /\ jobs'[ref(f)'].event = f
      BY <1>0, <1>1 DEF BoxOK
    <2>4. \A j \in DOMAIN jobs' : jobs'[j].event \in events(box')
      BY <1>1, <1>3
    <2> QED BY <1>0, <1>1, <2>1, <2>2, <2>3, <2>4 DEF BoxOK
  <1> QED BY <1>0, <1>1, <1>2, <1>3, <1>4, <1>5 DEF Boxed

\* A requeue is counted.
LEMMA CountsWhole ==
    ASSUME Inv, NEW t \in Threads, Alone(t), Counts(t)
    PROVE  Whole(t)
  <1>0. /\ Types /\ RunOK /\ ExecOK /\ BudgetOK /\ OrphanOK /\ LeaseOwned /\ EndsOK
        /\ ConsumedForAReason /\ WorkOK(t)
    BY Parts
  <1>1. PICK e : e = thread[t].event
    OBVIOUS
  <1>2. /\ jobs' = jobs /\ SameBox /\ active' = active /\ crashes' = crashes /\ limits' = limits
        /\ acked \subseteq acked' /\ Seen /\ (Clean' => Clean)
        /\ pc(t) = "requeued" /\ pc(t)' \in Loose /\ ~Counting(t)'
        /\ requeues' = [requeues EXCEPT ![e] = @ + 1]
    BY <1>1 DEF Counts, Rests, Base, SameJobs
  <1>3. Counting(t) /\ e \in events(box) /\ requeues[e] < MaxRequeues
    BY <1>0, <1>1, <1>2 DEF WorkOK, Counting, counts, pc
  <1>4. /\ requeues \in [1 .. MaxReplies -> 0 .. MaxRequeues] /\ e \in 1 .. MaxReplies
        /\ events(box) \subseteq 1 .. MaxReplies /\ MaxRequeues \in Nat
        /\ jobs \in Seq(Job) /\ active \in {0} \cup DOMAIN jobs
    BY <1>0, <1>3, EventBound, ReplyDeliveryAssumption DEF Types, TypeOK
  <1>5. /\ requeues' \in [1 .. MaxReplies -> 0 .. MaxRequeues] /\ requeues'[e] = requeues[e] + 1
        /\ \A f \in events(box) \ {e} : requeues'[f] = requeues[f]
    BY <1>2, <1>3, <1>4
  <1>6. /\ Boxed' /\ events(box') = events(box) /\ box'.lease = box.lease
        /\ holds_lease(box') <=> holds_lease(box)
        /\ \A f : /\ (Pending(f)' <=> Pending(f)) /\ (First(f)' <=> First(f))
                  /\ ref(f)' = ref(f) /\ standing(f)' = standing(f)
                  /\ deliveries(f)' = deliveries(f)
        /\ \A j \in DOMAIN jobs : (Named(j)' <=> Named(j)) /\ j # 0
    BY <1>0, <1>2, <1>4, <1>5, JobsView
  <1>7. /\ \A j : ~Executing(j) /\ ~Naming(j) /\ ~Ending(j) /\ ~Exempt(j)
        /\ \A f : (Owed(f) <=> f = e) /\ ~Holding(f)
    BY <1>1, <1>2, <1>3, AloneView
  <1>8. \A j : ~Naming(j)' /\ ~Threat(j)'
    BY <1>2, AloneViewNext DEF Loose, Plain
  <1>9. RunOK'
    BY <1>0, <1>2, <1>6, <1>7 DEF RunOK, Running
  <1>10. ExecOK'
    BY <1>0, <1>2, ExecKept
  <1>11. BudgetOK'
    <2>1. /\ \A f : Cardinality(deliveries(f)) \in Nat
          /\ \A f \in events(box) : requeues[f] \in Nat
          /\ crashes \in Nat
      BY <1>0, Counted
    <2>2. Cardinality(deliveries(e)) <= requeues'[e] + crashes
      BY <1>0, <1>3, <1>5, <2>1 DEF BudgetOK
    <2>3. \A f : Vacant(f)' <=> Vacant(f)
      BY <1>2, <1>6 DEF Vacant
    <2>4. ASSUME NEW f \in events(box)
          PROVE  /\ Cardinality(deliveries(f)) <= requeues'[f] + 1 + crashes
                 /\ Vacant(f) => Cardinality(deliveries(f)) <= requeues'[f] + crashes
      <3>1. CASE f = e
        BY <1>3, <1>5, <2>1, <2>2, <3>1
      <3>2. CASE f # e
        BY <1>0, <1>5, <1>7, <3>2 DEF BudgetOK
      <3> QED BY <3>1, <3>2
    <2> QED BY <1>2, <1>6, <2>3, <2>4 DEF BudgetOK
  <1>12. OrphanOK'
    <2>1. Orphans' \subseteq Orphans
      BY <1>2, <1>6, <1>7 DEF Orphans
    <2>2. \A j \in DOMAIN jobs' : Risky(j)' => j \in DOMAIN jobs /\ Risky(j)
      BY <1>2, <1>6, <1>7, <1>8 DEF Risky
    <2> QED BY <1>0, <1>2, <2>1, <2>2, OrphansKept
  <1>13. LeaseOwned'
    BY <1>0, <1>2, <1>6, <1>7, OwnedKept
  <1>14. EndsOK'
    BY <1>0, <1>2, <1>6, <1>7 DEF EndsOK, Spent, is_terminal
  <1>15. ConsumedForAReason'
    <2>1. \A f \in events(box) : requeues[f] = MaxRequeues => requeues'[f] = MaxRequeues
      BY <1>3, <1>4, <1>5
    <2> QED BY <1>0, <1>2, <1>6, <2>1, ReasonKept
  <1>16. WorkOK(t)'
    BY <1>2, WorkLoose
  <1> QED BY <1>6, <1>9, <1>10, <1>11, <1>12, <1>13, <1>14, <1>15, <1>16 DEF Whole, Core

\* The slot is taken.
LEMMA TakesWhole ==
    ASSUME Inv, NEW t \in Threads, Alone(t), Takes(t)
    PROVE  Whole(t)
  <1>0. /\ Types /\ RunOK /\ ExecOK /\ BudgetOK /\ OrphanOK /\ LeaseOwned /\ EndsOK
        /\ ConsumedForAReason /\ WorkOK(t)
    BY Parts
  <1>1. PICK k : k = thread[t].job
    OBVIOUS
  <1>2. /\ jobs' = jobs /\ SameBox /\ active' = k /\ crashes' = crashes /\ limits' = limits
        /\ acked \subseteq acked' /\ Seen /\ (Clean' => Clean) /\ requeues' = requeues
        /\ pc(t) = "start_execute" /\ pc(t)' = "start_return" /\ thread'[t].job = k
    BY <1>1 DEF Takes, Lands, Base, SameJobs
  <1>3. ~Counting(t) /\ ~Counting(t)' /\ k \in DOMAIN jobs /\ Running(k) /\ active = 0
    BY <1>0, <1>1, <1>2, CountingAt DEF WorkOK, HasJob
  <1>4. requeues \in [1 .. MaxReplies -> 0 .. MaxRequeues] /\ jobs \in Seq(Job)
    BY <1>0 DEF Types, TypeOK
  <1>6. /\ Boxed' /\ events(box') = events(box) /\ box'.lease = box.lease
        /\ holds_lease(box') <=> holds_lease(box)
        /\ \A f : /\ (Pending(f)' <=> Pending(f)) /\ (First(f)' <=> First(f))
                  /\ ref(f)' = ref(f) /\ standing(f)' = standing(f)
                  /\ deliveries(f)' = deliveries(f)
        /\ \A j \in DOMAIN jobs : (Named(j)' <=> Named(j)) /\ j # 0
    BY <1>0, <1>2, <1>3, <1>4, JobsView
  <1>7. /\ \A j : (Executing(j) <=> j = k) /\ ~Naming(j) /\ ~Ending(j) /\ ~Exempt(j)
        /\ \A f : ~Owed(f) /\ (Holding(f) <=> f = jobs[k].event)
    BY <1>1, <1>2, <1>3, AloneView
  <1>8. \A j : ~Naming(j)' /\ ~Threat(j)'
    BY <1>2, AloneViewNext
  <1>9. RunOK'
    BY <1>0, <1>2, <1>3, <1>6, <1>7 DEF RunOK, Running
  <1>10. ExecOK'
    BY <1>0, <1>2, ExecKept
  <1>11. BudgetOK'
    <2>1. \A f : Vacant(f)' <=> Vacant(f)
      BY <1>2, <1>6 DEF Vacant
    <2> QED BY <1>0, <1>2, <1>6, <1>7, <2>1, BudgetKept
  <1>12. OrphanOK'
    <2>1. Orphans' \subseteq Orphans
      BY <1>2, <1>6, <1>7 DEF Orphans
    <2>2. \A j \in DOMAIN jobs' : Risky(j)' => j \in DOMAIN jobs /\ Risky(j)
      BY <1>2, <1>6, <1>7, <1>8 DEF Risky
    <2> QED BY <1>0, <1>2, <2>1, <2>2, OrphansKept
  <1>13. LeaseOwned'
    BY <1>0, <1>2, <1>3, <1>6, <1>7 DEF LeaseOwned, Running
  <1>14. EndsOK'
    BY <1>0, <1>2, <1>6, <1>7 DEF EndsOK, Spent, is_terminal
  <1>15. ConsumedForAReason'
    BY <1>0, <1>2, <1>6, ReasonKept
  <1>16. WorkOK(t)'
    BY <1>2, <1>3 DEF WorkOK, HasJob, Running
  <1> QED BY <1>6, <1>9, <1>10, <1>11, <1>12, <1>13, <1>14, <1>15, <1>16 DEF Whole, Core

\* Steps that write one job that has not ended.
LEMMA SetsView ==
    ASSUME Inv, NEW k, Sets(k), SameBox, Base, requeues' = requeues, crashes' = crashes,
           active' \in {0} \cup DOMAIN jobs, ~is_terminal(k), jobs'[k].status # "queued",
           is_terminal(k)' => k \notin anchored' \/ jobs'[k].reached \/ jobs'[k].status = "cancelled"
    PROVE  /\ Boxed' /\ events(box') = events(box) /\ box'.lease = box.lease
           /\ holds_lease(box') <=> holds_lease(box)
           /\ \A f : /\ (Pending(f)' <=> Pending(f)) /\ (First(f)' <=> First(f))
                     /\ ref(f)' = ref(f) /\ standing(f)' = standing(f)
                     /\ deliveries(f)' = deliveries(f)
           /\ \A j \in DOMAIN jobs : /\ (Named(j)' <=> Named(j)) /\ j # 0 /\ jobs[j].event \in events(box)
                                     /\ jobs'[j].event = jobs[j].event
           /\ \A j \in DOMAIN jobs \ {k} : jobs'[j] = jobs[j]
           /\ DOMAIN jobs' = DOMAIN jobs /\ k \in DOMAIN jobs
           /\ \A j \in DOMAIN jobs : Spent(j) => Spent(j)'
           /\ \A f : f # jobs[k].event => (Vacant(f)' <=> Vacant(f))
           /\ ExecOK' /\ ConsumedForAReason'
  <1>0. /\ Types /\ ExecOK /\ ConsumedForAReason /\ limits' = limits /\ acked \subseteq acked' /\ Seen
        /\ jobs' \in Seq(Job) /\ DOMAIN jobs' = DOMAIN jobs /\ k \in DOMAIN jobs
        /\ \A j \in DOMAIN jobs : jobs'[j].event = jobs[j].event
        /\ \A j \in DOMAIN jobs \ {k} : jobs'[j] = jobs[j]
        /\ requeues \in [1 .. MaxReplies -> 0 .. MaxRequeues]
    BY Parts DEF Sets, Base, Types, TypeOK
  <1>1. /\ Boxed' /\ events(box') = events(box) /\ box'.lease = box.lease
        /\ holds_lease(box') <=> holds_lease(box)
        /\ \A f : /\ (Pending(f)' <=> Pending(f)) /\ (First(f)' <=> First(f))
                  /\ ref(f)' = ref(f) /\ standing(f)' = standing(f)
                  /\ deliveries(f)' = deliveries(f)
        /\ \A j \in DOMAIN jobs : (Named(j)' <=> Named(j)) /\ j # 0 /\ jobs[j].event \in events(box)
    BY <1>0, JobsView
  <1>2. \A j \in DOMAIN jobs : Spent(j) => Spent(j)'
    BY <1>0 DEF Spent, is_terminal, Ended
  <1>3. \A f : f # jobs[k].event => (Vacant(f)' <=> Vacant(f))
    <2>1. \A f : Pending(f) /\ ref(f) # 0 => ref(f) \in DOMAIN jobs /\ jobs[ref(f)].event = f
      BY <1>0, HeadFacts DEF Types, BoxOK, Pending
    <2>2. \A f : Pending(f) /\ ref(f) # 0 /\ f # jobs[k].event => jobs'[ref(f)] = jobs[ref(f)]
      BY <1>0, <2>1
    <2> QED BY <1>1, <2>2 DEF Vacant
  <1>4. ExecOK'
    <2>1. exec \cup anchored \subseteq DOMAIN jobs
      BY <1>0 DEF Types, TypeOK
    <2>2. \A j \in exec' \cup anchored' : j \in DOMAIN jobs /\ jobs[j].status # "queued"
      BY <1>0, <2>1 DEF ExecOK, Seen, Running
    <2>3. \A j \in exec' \cup anchored' : jobs'[j].status # "queued"
      BY <1>0, <2>2
    <2>4. \A j \in anchored' : is_terminal(j)' => jobs'[j].reached \/ jobs'[j].status = "cancelled"
      <3> SUFFICES ASSUME NEW j \in anchored', is_terminal(j)', j # k
                   PROVE  jobs'[j].reached \/ jobs'[j].status = "cancelled"
        OBVIOUS
      <3>1. jobs'[j] = jobs[j] /\ is_terminal(j)
        BY <1>0, <2>2 DEF is_terminal
      <3>2. j \in anchored
        BY <1>0, <3>1 DEF Seen
      <3> QED BY <1>0, <3>1, <3>2 DEF ExecOK
    <2> QED BY <2>3, <2>4 DEF ExecOK
  <1>5. ConsumedForAReason'
    BY <1>0, <1>1, ReasonKept
  <1> QED BY <1>0, <1>1, <1>2, <1>3, <1>4, <1>5

\* A delivery starts.
LEMMA RunsWhole ==
    ASSUME Inv, NEW t \in Threads, Alone(t), Runs(t)
    PROVE  Whole(t)
  <1>0. Types /\ RunOK /\ BudgetOK /\ OrphanOK /\ LeaseOwned /\ EndsOK /\ WorkOK(t)
    BY Parts
  <1>1. PICK k : k = thread[t].job
    OBVIOUS
  <1>2. /\ SameBox /\ active' = active /\ crashes' = crashes /\ requeues' = requeues /\ Base
        /\ (Clean' => Clean) /\ Sets(k) /\ jobs'[k].status = "running"
        /\ pc(t) = "start_running" /\ pc(t)' = "start_execute" /\ thread'[t].job = k
    BY <1>1 DEF Runs, Lands, Still, Base
  <1>3. /\ ~Counting(t) /\ ~Counting(t)' /\ k \in DOMAIN jobs /\ jobs[k].status = "queued"
        /\ Named(k) /\ active = 0 /\ standing(jobs[k].event) = "delivering"
        /\ ~is_terminal(k) /\ ~is_terminal(k)'
    BY <1>0, <1>1, <1>2, CountingAt DEF WorkOK, HasJob, is_terminal, Ended
  <1>4. /\ Boxed' /\ events(box') = events(box) /\ box'.lease = box.lease
        /\ holds_lease(box') <=> holds_lease(box)
        /\ \A f : /\ (Pending(f)' <=> Pending(f)) /\ ref(f)' = ref(f) /\ standing(f)' = standing(f)
                  /\ deliveries(f)' = deliveries(f)
        /\ \A j \in DOMAIN jobs : (Named(j)' <=> Named(j)) /\ j # 0 /\ jobs'[j].event = jobs[j].event
        /\ \A j \in DOMAIN jobs \ {k} : jobs'[j] = jobs[j]
        /\ DOMAIN jobs' = DOMAIN jobs
        /\ \A j \in DOMAIN jobs : Spent(j) => Spent(j)'
        /\ \A f : f # jobs[k].event => (Vacant(f)' <=> Vacant(f))
        /\ ExecOK' /\ ConsumedForAReason'
    BY <1>2, <1>3, SetsView
  <1>5. /\ \A j : ~Executing(j) /\ ~Naming(j) /\ ~Ending(j)
        /\ \A f : ~Owed(f) /\ (Holding(f) => f = jobs[k].event)
    BY <1>1, <1>2, <1>3, AloneView
  <1>6. /\ Executing(k)' /\ \A j : ~Naming(j)'
        /\ \A f : f = jobs[k].event => Holding(f)'
    BY <1>1, <1>2, <1>3, <1>4, AloneViewNext
  <1>7. RunOK'
    <2> SUFFICES ASSUME NEW j \in DOMAIN jobs, Running(j)'
                 PROVE  /\ active' = j \/ Executing(j)'
                        /\ Pending(jobs[j].event)' =>
                            ref(jobs[j].event)' = j /\ standing(jobs[j].event)' = "delivering"
                        /\ Clean' => Pending(jobs[j].event)'
      BY <1>4 DEF RunOK
    <2>1. CASE j = k
      BY <1>2, <1>3, <1>4, <1>6, <2>1 DEF Named
    <2>2. CASE j # k
      <3>1. Running(j)
        BY <1>4, <2>2 DEF Running
      <3>2. active = j
        BY <1>0, <1>5, <3>1 DEF RunOK
      <3> QED BY <1>3, <1>4, <3>2
    <2> QED BY <2>1, <2>2
  <1>8. BudgetOK'
    <2>1. \A f : f = jobs[k].event => ~Vacant(f)'
      BY <1>2, <1>3, <1>4 DEF Vacant, Named
    <2> QED BY <1>0, <1>2, <1>4, <1>5, <2>1, BudgetKept
  <1>9. OrphanOK'
    <2>1. Orphans' \subseteq Orphans
      <3> SUFFICES ASSUME NEW j \in DOMAIN jobs, jobs'[j].status = "queued", ~Named(j)' PROVE j \in Orphans
        BY <1>4 DEF Orphans
      <3>1. j # k
        BY <1>2
      <3> QED BY <1>4, <1>5, <3>1 DEF Orphans
    <2>2. ASSUME NEW j \in DOMAIN jobs, Risky(j)' PROVE FALSE
      <3>1. Named(j) /\ j # k
        BY <1>2, <1>4, <2>2 DEF Risky
      <3> QED BY <1>0, <1>3, <3>1, NamedOnce
    <2> QED BY <1>0, <1>2, <1>4, <2>1, <2>2, OrphansKept
  <1>10. LeaseOwned'
    BY <1>0, <1>2, <1>3, <1>4, <1>5, <1>6 DEF LeaseOwned
  <1>11. EndsOK'
    <2>1. \A j \in DOMAIN jobs : is_terminal(j)' => is_terminal(j)
      BY <1>3, <1>4 DEF is_terminal
    <2> QED BY <1>0, <1>2, <1>4, <1>5, <2>1 DEF EndsOK
  <1>12. WorkOK(t)'
    BY <1>2, <1>3, <1>4 DEF WorkOK, HasJob, Running
  <1> QED BY <1>4, <1>7, <1>8, <1>9, <1>10, <1>11, <1>12 DEF Whole, Core

\* A delivery ends.
LEMMA CompletesWhole ==
    ASSUME Inv, NEW t \in Threads, Alone(t), Completes(t)
    PROVE  Whole(t)
  <1>0. /\ Types /\ RunOK /\ BudgetOK /\ OrphanOK /\ LeaseOwned /\ EndsOK /\ WorkOK(t)
        /\ \A u \in Threads : WorkOK(u)
    BY Parts
  <1>1. PICK k : k = thread[t].job
    OBVIOUS
  <1>2. /\ SameBox /\ active' = 0 /\ crashes' = crashes /\ requeues' = requeues /\ Base
        /\ anchored' = anchored /\ (k \in anchored => jobs'[k].reached)
        /\ Sets(k) /\ jobs'[k].status \in {"completed", "failed"}
        /\ pc(t) = "complete" /\ pc(t)' = "finish" /\ thread'[t].job = k
    BY <1>1 DEF Completes
  <1>3. /\ ~Counting(t) /\ ~Counting(t)' /\ k \in DOMAIN jobs /\ Running(k) /\ active = k
        /\ ~is_terminal(k) /\ is_terminal(k)'
    BY <1>0, <1>1, <1>2, CountingAt DEF WorkOK, HasJob, is_terminal, Ended, Running
  <1>4. /\ Boxed' /\ events(box') = events(box) /\ box'.lease = box.lease
        /\ holds_lease(box') <=> holds_lease(box)
        /\ \A f : /\ (Pending(f)' <=> Pending(f)) /\ ref(f)' = ref(f) /\ standing(f)' = standing(f)
                  /\ deliveries(f)' = deliveries(f)
        /\ \A j \in DOMAIN jobs : (Named(j)' <=> Named(j)) /\ j # 0 /\ jobs'[j].event = jobs[j].event
        /\ \A j \in DOMAIN jobs \ {k} : jobs'[j] = jobs[j]
        /\ DOMAIN jobs' = DOMAIN jobs
        /\ \A j \in DOMAIN jobs : Spent(j) => Spent(j)'
        /\ \A f : f # jobs[k].event => (Vacant(f)' <=> Vacant(f))
        /\ ExecOK' /\ ConsumedForAReason'
    BY <1>2, <1>3, SetsView
  <1>5. /\ \A j : ~Executing(j) /\ ~Naming(j) /\ ~Ending(j) /\ ~Exempt(j)
        /\ \A f : ~Owed(f) /\ ~Holding(f)
    BY <1>1, <1>2, <1>3, AloneView
  <1>6. /\ \A j : ~Naming(j)' /\ ~Threat(j)' /\ (j = k => Ending(j)')
        /\ \A f : f = jobs[k].event => Holding(f)' /\ Owed(f)'
    BY <1>1, <1>2, <1>3, <1>4, AloneViewNext
  <1>7. NoneRuns'
    <2> SUFFICES ASSUME NEW j \in DOMAIN jobs, Running(j)' PROVE FALSE
      BY <1>4 DEF NoneRuns
    <2>1. j # k /\ Running(j)
      BY <1>2, <1>4 DEF Running
    <2> QED BY <1>0, <1>3, <2>1, RunsOnce
  <1>8. RunOK'
    BY <1>7 DEF RunOK, NoneRuns
  <1>9. BudgetOK'
    BY <1>0, <1>2, <1>4, <1>5, <1>6, BudgetKept
  <1>10. OrphanOK'
    <2>1. \A j \in DOMAIN jobs : jobs'[j].status = "queued" => j # k /\ jobs'[j] = jobs[j]
      BY <1>2, <1>4
    <2>2. Orphans' \subseteq Orphans
      BY <1>4, <1>5, <2>1 DEF Orphans
    <2>3. \A j \in DOMAIN jobs' : Risky(j)' => j \in DOMAIN jobs /\ Risky(j)
      BY <1>4, <1>5, <1>6, <2>1 DEF Risky
    <2> QED BY <1>0, <1>2, <2>2, <2>3, OrphansKept
  <1>11. LeaseOwned'
    BY <1>0, <1>2, <1>3, <1>4, <1>5, <1>6 DEF LeaseOwned
  <1>12. EndsOK'
    <2>1. \A j \in DOMAIN jobs : is_terminal(j)' => is_terminal(j) \/ Ending(j)'
      BY <1>4, <1>6 DEF is_terminal
    <2> QED BY <1>0, <1>2, <1>4, <1>5, <2>1 DEF EndsOK
  <1>13. WorkOK(t)'
    <2>1. Pending(jobs[k].event) => Named(k)
      BY <1>0, <1>3 DEF RunOK, Named
    <2>2. Pending(jobs[k].event)' => Named(k)'
      BY <1>3, <1>4, <2>1
    <2> QED BY <1>2, <1>3, <1>4, <1>7, <2>2 DEF WorkOK, HasJob
  <1> QED BY <1>4, <1>8, <1>9, <1>10, <1>11, <1>12, <1>13 DEF Whole, Core

\* A delivery is cancelled.
LEMMA CancelsWhole ==
    ASSUME Inv, NEW t \in Threads, Alone(t), t = "socket", Cancels
    PROVE  Whole(t)
  <1>0. /\ Types /\ RunOK /\ BudgetOK /\ OrphanOK /\ LeaseOwned /\ EndsOK /\ WorkOK(t)
        /\ \A u \in Threads : WorkOK(u)
    BY Parts
  <1>1. PICK k : k = thread[t].job
    OBVIOUS
  <1>2. /\ SameBox /\ active' = (IF active = k THEN 0 ELSE active) /\ crashes' = crashes
        /\ requeues' = requeues /\ Base /\ (Clean' => Clean)
        /\ Sets(k) /\ jobs'[k].status = "cancelled"
        /\ pc(t) = "cancel_decide" /\ pc(t)' = "resolve" /\ thread'[t].job = k
    BY <1>1 DEF Cancels, Lands, Base
  <1>3. /\ ~Counting(t) /\ ~Counting(t)' /\ k \in DOMAIN jobs /\ ~is_terminal(k) /\ is_terminal(k)'
        /\ cancels > 0 /\ active \in {0} \cup DOMAIN jobs
    BY <1>0, <1>1, <1>2, CountingAt DEF WorkOK, HasJob, is_terminal, Ended, Types, TypeOK
  <1>4. /\ Boxed' /\ events(box') = events(box) /\ box'.lease = box.lease
        /\ holds_lease(box') <=> holds_lease(box)
        /\ \A f : /\ (Pending(f)' <=> Pending(f)) /\ ref(f)' = ref(f) /\ standing(f)' = standing(f)
                  /\ deliveries(f)' = deliveries(f)
        /\ \A j \in DOMAIN jobs : (Named(j)' <=> Named(j)) /\ j # 0 /\ jobs'[j].event = jobs[j].event
        /\ \A j \in DOMAIN jobs \ {k} : jobs'[j] = jobs[j]
        /\ DOMAIN jobs' = DOMAIN jobs
        /\ \A j \in DOMAIN jobs : Spent(j) => Spent(j)'
        /\ \A f : f # jobs[k].event => (Vacant(f)' <=> Vacant(f))
        /\ ExecOK' /\ ConsumedForAReason'
    BY <1>2, <1>3, SetsView
  <1>5. /\ \A j : ~Executing(j) /\ ~Naming(j) /\ ~Ending(j) /\ ~Exempt(j)
        /\ \A f : ~Owed(f) /\ ~Holding(f)
    BY <1>1, <1>2, <1>3, AloneView
  <1>6. /\ \A j : ~Naming(j)' /\ (j = k => Ending(j)')
        /\ \A j \in DOMAIN jobs : Threat(j)' => jobs[j].event = jobs[k].event
        /\ \A f : f = jobs[k].event => Holding(f)' /\ Owed(f)'
    BY <1>1, <1>2, <1>3, <1>4, AloneViewNext
  <1>7. RunOK'
    <2> SUFFICES ASSUME NEW j \in DOMAIN jobs, Running(j)'
                 PROVE  /\ active' = j
                        /\ Pending(jobs[j].event)' =>
                            ref(jobs[j].event)' = j /\ standing(jobs[j].event)' = "delivering"
                        /\ Clean' => Pending(jobs[j].event)'
      BY <1>4 DEF RunOK
    <2>1. j # k /\ Running(j)
      BY <1>2, <1>4 DEF Running
    <2>2. /\ active = j /\ (Clean => Pending(jobs[j].event))
          /\ Pending(jobs[j].event) => ref(jobs[j].event) = j /\ standing(jobs[j].event) = "delivering"
      BY <1>0, <1>5, <2>1 DEF RunOK
    <2> QED BY <1>2, <1>4, <2>1, <2>2
  <1>8. BudgetOK'
    BY <1>0, <1>2, <1>4, <1>5, <1>6, BudgetKept
  <1>9. \A j \in DOMAIN jobs : jobs'[j].status = "queued" => j # k /\ jobs'[j] = jobs[j]
    BY <1>2, <1>4
  <1>10. OrphanOK'
    <2>1. Orphans' \subseteq Orphans \ {k}
      BY <1>4, <1>5, <1>9 DEF Orphans
    <2>2. CASE k \in Orphans
      <3>1. IsFiniteSet(Orphans) /\ Cardinality(Orphans) \in Nat /\ crashes \in Nat
        BY <1>0, Counted
      <3>2. IsFiniteSet(Orphans \ {k}) /\ Cardinality(Orphans \ {k}) = Cardinality(Orphans) - 1
        BY <2>2, <3>1, FS_RemoveElement
      <3>3. IsFiniteSet(Orphans') /\ Cardinality(Orphans') <= Cardinality(Orphans) - 1
        BY <2>1, <3>2, FS_Subset
      <3>4. Cardinality(Orphans') \in Nat
        BY <3>3, FS_CardinalityType
      <3>5. Cardinality(Orphans) <= crashes
        BY <1>0 DEF OrphanOK
      <3>6. Cardinality(Orphans') + 1 <= crashes' /\ Cardinality(Orphans') <= crashes'
        BY <1>2, <3>1, <3>3, <3>4, <3>5
      <3> QED BY <3>6 DEF OrphanOK
    <2>3. CASE k \notin Orphans
      <3>1. jobs[k].status = "queued" \/ Running(k)
        BY <1>0, <1>3, JobFacts DEF is_terminal, Running
      <3>2. Pending(jobs[k].event) => Named(k)
        BY <1>0, <1>3, <1>5, <2>3, <3>1 DEF Orphans, RunOK, Named
      <3>3. ASSUME NEW j \in DOMAIN jobs, Risky(j)' PROVE Risky(j)
        <4>1. j # k /\ jobs[j].status = "queued" /\ Named(j)
          BY <1>4, <1>9, <3>3 DEF Risky
        <4>2. ~Threat(j)'
          <5> SUFFICES ASSUME jobs[j].event = jobs[k].event PROVE FALSE
            BY <1>6
          <5>1. Named(k)
            BY <3>2, <4>1 DEF Named
          <5> QED BY <1>0, <1>3, <4>1, <5>1, NamedOnce
        <4> QED BY <1>4, <1>5, <3>3, <4>1, <4>2 DEF Risky
      <3> QED BY <1>0, <1>2, <1>4, <2>1, <3>3, OrphansKept
    <2> QED BY <2>2, <2>3
  <1>11. LeaseOwned'
    <2> SUFFICES ASSUME crashes = 0, holds_lease(box)
                 PROVE  \/ active' # 0 /\ Running(active)' /\ box'.lease.event = jobs'[active'].event
                        \/ \A f : f = box'.lease.event => Holding(f)'
      BY <1>2, <1>4 DEF LeaseOwned
    <2>1. active # 0 /\ Running(active) /\ box.lease.event = jobs[active].event
      BY <1>0, <1>5 DEF LeaseOwned
    <2>2. CASE active = k
      BY <1>4, <1>6, <2>1, <2>2
    <2>3. CASE active # k
      BY <1>2, <1>3, <1>4, <2>1, <2>3 DEF Running
    <2> QED BY <2>2, <2>3
  <1>12. EndsOK'
    <2>1. \A j \in DOMAIN jobs : is_terminal(j)' => is_terminal(j) \/ Ending(j)'
      BY <1>4, <1>6 DEF is_terminal
    <2> QED BY <1>0, <1>2, <1>4, <1>5, <2>1 DEF EndsOK
  <1>13. WorkOK(t)'
    <2>1. ASSUME Clean' PROVE NoneRuns'
      <3>1. crashes = 0 /\ Clean
        BY <1>2, <1>3, <2>1 DEF Clean
      <3>2. Orphans = {}
        <4>1. Cardinality(Orphans) <= 0 /\ IsFiniteSet(Orphans) /\ Cardinality(Orphans) \in Nat
          BY <1>0, <3>1, Counted DEF OrphanOK
        <4>2. Cardinality(Orphans) = 0
          BY <4>1
        <4> QED BY <4>1, <4>2, FS_EmptySet
      <3>3. jobs[k].status = "queued" \/ Running(k)
        BY <1>0, <1>3, JobFacts DEF is_terminal, Running
      <3>4. Named(k)
        BY <1>0, <1>3, <1>5, <3>1, <3>2, <3>3 DEF Orphans, RunOK, Named
      <3>5. ASSUME NEW j \in DOMAIN jobs, Running(j)' PROVE FALSE
        <4>1. j # k /\ Running(j)
          BY <1>2, <1>4, <3>5 DEF Running
        <4>2. Named(j)
          BY <1>0, <3>1, <4>1 DEF RunOK, Named
        <4> QED BY <1>0, <1>3, <3>4, <4>1, <4>2, NamedOnce
      <3> QED BY <1>4, <3>5 DEF NoneRuns
    <2> QED BY <1>2, <1>3, <1>4, <2>1 DEF WorkOK, HasJob
  <1> QED BY <1>4, <1>7, <1>8, <1>10, <1>11, <1>12, <1>13 DEF Whole, Core

\* The head gets a job, which it does not name yet.
LEMMA AddsWhole ==
    ASSUME Inv, NEW t \in Threads, Alone(t), Adds(t)
    PROVE  Whole(t)
  <1>0. /\ Types /\ RunOK /\ ExecOK /\ BudgetOK /\ OrphanOK /\ LeaseOwned /\ EndsOK /\ WorkOK(t)
        /\ ConsumedForAReason /\ BoxOK /\ Boxed
    BY Parts
  <1>1. PICK n, e : n = Len(jobs) + 1 /\ e = thread[t].event
    OBVIOUS
  <1>2. /\ box' \in Mailbox /\ box'.inbox = box.inbox /\ box'.lease = box.lease
        /\ active' = active /\ crashes' = crashes /\ requeues' = requeues /\ limits' = limits
        /\ (Clean' => Clean) /\ Seen /\ acked \subseteq acked'
        /\ pc(t) = "enqueue" /\ pc(t)' = "rewrite" /\ thread'[t].job = n /\ thread'[t].event = e
        /\ jobs' \in Seq(Job) /\ DOMAIN jobs' = DOMAIN jobs \cup {n} /\ n \notin DOMAIN jobs /\ n \in Nat
        /\ \A k \in DOMAIN jobs : jobs'[k] = jobs[k] /\ k < n
        /\ jobs'[n].status = "queued" /\ jobs'[n].event = e
    BY <1>1 DEF Adds, Lands, Still, Base, SameBox, Kept
  <1>3. ~Counting(t) /\ ~Counting(t)' /\ First(e) /\ ref(e) = 0
    BY <1>0, <1>1, <1>2, CountingAt DEF WorkOK
  <1>4. /\ events(box') = events(box)
        /\ \A f : /\ (Pending(f)' <=> Pending(f)) /\ (First(f)' <=> First(f))
                  /\ ref(f)' = ref(f) /\ standing(f)' = standing(f)
        /\ holds_lease(box') <=> holds_lease(box)
    BY <1>2, BoxStays DEF holds_lease
  <1>5. \A j \in DOMAIN jobs : /\ jobs'[j] = jobs[j] /\ jobs[j].event \in events(box) /\ j # 0
                               /\ Named(j)' <=> Named(j)
    BY <1>0, <1>2, <1>4, JobFacts DEF BoxOK, Named
  <1>6. e \in events(box) /\ Pending(e)
    BY <1>0, <1>3, HeadFacts DEF First
  <1>7. n # 0 /\ ~Named(n)' /\ ~Running(n)' /\ ~is_terminal(n)'
    <2>1. n # 0
      BY <1>0, <1>1, JobFacts
    <2> QED BY <1>2, <1>3, <1>4, <2>1 DEF Named, Running, is_terminal, Ended
  <1>8. /\ \A j : ~Executing(j) /\ ~Naming(j) /\ ~Ending(j) /\ ~Exempt(j)
        /\ \A f : ~Owed(f) /\ ~Holding(f)
    BY <1>2, <1>3, AloneView
  <1>9. (\A j : (Naming(j)' <=> j = n) /\ ~Threat(j)') /\ Owed(e)'
    BY <1>2, <1>3, AloneViewNext
  <1>10. Boxed'
    <2>1. \A f : f \in pending_events(box') <=> f \in pending_events(box)
      BY <1>4 DEF Pending
    <2>2. \A f : holds_lease(box') /\ box'.lease.event = f => Pending(f)'
      BY <1>0, <1>2, <1>4 DEF BoxOK
    <2>3. \A f \in events(box') :
            /\ box'.inbox[f].type = "task_reply"
            /\ ref(f)' # 0 => ref(f)' \in DOMAIN jobs' /\ jobs'[ref(f)'].event = f
      BY <1>0, <1>2, <1>4 DEF BoxOK
    <2>4. \A j \in DOMAIN jobs' : jobs'[j].event \in events(box')
      BY <1>2, <1>4, <1>5, <1>6
    <2>5. BoxOK'
      BY <1>0, <1>2, <1>4, <2>1, <2>2, <2>3, <2>4 DEF BoxOK
    <2> QED BY <1>0, <1>2, <2>5 DEF Boxed
  <1>11. RunOK'
    <2> SUFFICES ASSUME NEW j \in DOMAIN jobs, Running(j)'
                 PROVE  /\ active' = j
                        /\ Pending(jobs[j].event)' =>
                            ref(jobs[j].event)' = j /\ standing(jobs[j].event)' = "delivering"
                        /\ Clean' => Pending(jobs[j].event)'
      BY <1>2, <1>7 DEF RunOK
    <2>1. Running(j)
      BY <1>5 DEF Running
    <2> QED BY <1>0, <1>2, <1>4, <1>5, <1>8, <2>1 DEF RunOK
  <1>12. ExecOK'
    <2>1. exec \cup anchored \subseteq DOMAIN jobs
      BY <1>0 DEF Types, TypeOK
    <2>2. \A j \in exec' \cup anchored' : j \in DOMAIN jobs /\ jobs[j].status # "queued"
      BY <1>0, <1>2, <2>1 DEF ExecOK, Seen, Running
    <2>3. \A j \in anchored' : is_terminal(j) => j \in anchored
      BY <1>2 DEF Seen
    <2> QED BY <1>0, <1>5, <2>2, <2>3 DEF ExecOK, is_terminal
  <1>13. BudgetOK'
    <2>1. /\ \A f : IsFiniteSet(deliveries(f)) /\ Cardinality(deliveries(f)) \in Nat
          /\ \A f \in events(box) : requeues[f] \in Nat
          /\ crashes \in Nat
      BY <1>0, Counted
    <2>2. deliveries(e)' = deliveries(e) \cup {n} /\ \A f : f # e => deliveries(f)' = deliveries(f)
      BY <1>2, <1>5 DEF deliveries
    <2>3. n \notin deliveries(e)
      BY <1>2 DEF deliveries
    <2>4. Cardinality(deliveries(e)') = Cardinality(deliveries(e)) + 1
      BY <2>1, <2>2, <2>3, FS_AddElement
    <2>5. Cardinality(deliveries(e)) <= requeues[e] + crashes
      BY <1>0, <1>3, <1>6, <1>8 DEF BudgetOK, Vacant
    <2>6. \A f \in events(box) \ {e} : Vacant(f)' <=> Vacant(f)
      <3>1. \A f \in events(box) : ref(f) # 0 => ref(f) \in DOMAIN jobs
        BY <1>0 DEF BoxOK
      <3> QED BY <1>4, <1>5, <3>1 DEF Vacant
    <2>7. ASSUME NEW f \in events(box)
          PROVE  /\ Cardinality(deliveries(f)') <= requeues[f] + 1 + crashes
                 /\ Vacant(f)' /\ ~Owed(f)' => Cardinality(deliveries(f)') <= requeues[f] + crashes
      <3>1. CASE f = e
        BY <1>6, <1>9, <2>1, <2>4, <2>5, <3>1
      <3>2. CASE f # e
        BY <1>0, <1>8, <2>2, <2>6, <3>2 DEF BudgetOK
      <3> QED BY <3>1, <3>2
    <2> QED BY <1>2, <1>4, <2>7 DEF BudgetOK
  <1>14. OrphanOK'
    <2>1. Orphans' \subseteq Orphans
      BY <1>2, <1>5, <1>8, <1>9 DEF Orphans
    <2>2. \A j \in DOMAIN jobs' : Risky(j)' => j \in DOMAIN jobs /\ Risky(j)
      BY <1>2, <1>4, <1>5, <1>7, <1>8, <1>9 DEF Risky
    <2> QED BY <1>0, <1>2, <2>1, <2>2, OrphansKept
  <1>15. LeaseOwned'
    <2>1. active # 0 => active \in DOMAIN jobs
      BY <1>0 DEF Boxed
    <2> QED BY <1>0, <1>2, <1>4, <1>5, <1>8, <2>1 DEF LeaseOwned, Running
  <1>16. EndsOK'
    <2> SUFFICES ASSUME crashes = 0
                 PROVE  /\ \A i, k \in DOMAIN jobs' : jobs'[i].event = jobs'[k].event /\ i < k => Spent(i)'
                        /\ \A j \in DOMAIN jobs' : Pending(jobs[j].event)' =>
                            /\ Spent(j)' \/ Named(j)' \/ Naming(j)'
                            /\ Named(j)' /\ is_terminal(j)' => Ending(j)'
      BY <1>2 DEF EndsOK
    <2>1. \A j \in DOMAIN jobs : (Spent(j)' <=> Spent(j)) /\ (is_terminal(j)' <=> is_terminal(j))
      BY <1>5 DEF Spent, is_terminal
    <2>2. \A j \in DOMAIN jobs : Pending(jobs[j].event) => (Spent(j) \/ Named(j)) /\ ~(Named(j) /\ is_terminal(j))
      BY <1>0, <1>8 DEF EndsOK
    <2>3. \A j \in DOMAIN jobs : jobs[j].event = e => Spent(j)
      BY <1>3, <1>5, <1>6, <2>2 DEF Named
    <2>4. ASSUME NEW i \in DOMAIN jobs', NEW k \in DOMAIN jobs', jobs'[i].event = jobs'[k].event, i < k
          PROVE  Spent(i)'
      <3>0. DOMAIN jobs \subseteq Nat
        BY <1>0, JobFacts
      <3>1. i \in DOMAIN jobs
        BY <1>2, <2>4, <3>0
      <3>2. CASE k = n
        BY <1>2, <1>5, <2>1, <2>3, <2>4, <3>1, <3>2
      <3>3. CASE k \in DOMAIN jobs
        BY <1>0, <1>5, <2>1, <2>4, <3>1, <3>3 DEF EndsOK
      <3> QED BY <1>2, <3>2, <3>3
    <2>5. ASSUME NEW j \in DOMAIN jobs', Pending(jobs[j].event)'
          PROVE  /\ Spent(j)' \/ Named(j)' \/ Naming(j)'
                 /\ Named(j)' /\ is_terminal(j)' => Ending(j)'
      <3>1. CASE j = n
        BY <1>7, <1>9, <3>1
      <3>2. CASE j \in DOMAIN jobs
        BY <1>4, <1>5, <2>1, <2>2, <2>5, <3>2
      <3> QED BY <1>2, <3>1, <3>2
    <2> QED BY <2>4, <2>5
  <1>17. ConsumedForAReason'
    BY <1>0, <1>2, <1>4, <1>5, ReasonKept
  <1>18. WorkOK(t)'
    BY <1>2, <1>3, <1>4 DEF WorkOK, HasJob
  <1> QED BY <1>10, <1>11, <1>12, <1>13, <1>14, <1>15, <1>16, <1>17, <1>18 DEF Whole, Core

\* No step of a thread is the empty one.
LEMMA IdleNext ==
    ASSUME ThreadsOK', NEW u \in Threads, pc(u)' = "idle"
    PROVE  IsIdle(u)'
  <1> SUFFICES ASSUME ~IsIdle(u)' PROVE FALSE
    OBVIOUS
  <1>1. \A s : label(s) = "idle" => s = << >> \/ Head(s) = "idle"
    BY DEF label
  <1>2. PICK s : s = thread'[u].todo
    OBVIOUS
  <1>3. s \in Seq(Labels) /\ s # << >> /\ Head(s) = "idle"
    BY <1>1, <1>2 DEF ThreadsOK, Local, pc, IsIdle
  <1>4. Head(s) \in Labels
    BY ONLY <1>3
  <1> QED BY <1>3, <1>4, Words

\* A crash: what was in memory is gone, and what it counted may be.
LEMMA CrashesWhole ==
    ASSUME Inv, Crashes
    PROVE  /\ Boxed' /\ Core' /\ ConsumedForAReason' /\ ThreadsOK' /\ OneBusy'
           /\ \A t \in Threads : WorkOK(t)'
  <1>0. /\ Types /\ RunOK /\ ExecOK /\ BudgetOK /\ OrphanOK /\ ConsumedForAReason /\ Boxed
        /\ \A t \in Threads : WorkOK(t)
    BY Parts
  <1>1. /\ jobs' = jobs /\ box' = box /\ requeues' = requeues /\ limits' = limits /\ crashes' = crashes + 1
        /\ (Clean' => Clean) /\ Seen /\ acked \subseteq acked'
        /\ NoneRuns \/ (active' \in DOMAIN jobs /\ Running(active'))
        /\ active' \in {0} \cup DOMAIN jobs
        /\ pc("socket")' = "idle"
        /\ \/ pc("maintenance")' = "idle"
           \/ /\ pc("maintenance")' = "restore" /\ thread'["maintenance"].job = active'
              /\ active' \in DOMAIN jobs /\ Running(active')
    BY DEF Crashes, Base, SameJobs
  <1>2. ThreadsOK'
    BY DEF Crashes, ThreadsOK
  <1>3. \A t \in Threads : pc(t)' \in {"idle", "restore"} /\ ~Counting(t)'
    BY <1>1, CountingAt DEF Threads
  <1>4. OneBusy'
    BY <1>1, <1>2, IdleNext DEF OneBusy, Threads
  <1>5. \A t \in Threads : WorkOK(t)'
    <2>1. WorkOK("socket")'
      BY <1>1, <1>3, WorkLoose DEF Loose, Threads
    <2>2. WorkOK("maintenance")'
      <3>1. ~Counting("maintenance")'
        BY <1>3 DEF Threads
      <3>2. CASE pc("maintenance")' = "idle"
        BY <3>1, <3>2, WorkLoose DEF Loose, Threads
      <3>3. CASE pc("maintenance")' = "restore"
        BY <1>1, <3>1, <3>3 DEF WorkOK, HasJob, Running
      <3> QED BY <1>1, <3>2, <3>3
    <2> QED BY <2>1, <2>2 DEF Threads
  <1>6. \A j : ~Naming(j)' /\ ~Threat(j)' /\ ~Exempt(j)'
    BY <1>3 DEF Naming, Threat, Exempt
  <1>7. /\ Boxed' /\ events(box') = events(box) /\ box'.lease = box.lease
        /\ \A f : /\ (Pending(f)' <=> Pending(f)) /\ ref(f)' = ref(f) /\ standing(f)' = standing(f)
                  /\ deliveries(f)' = deliveries(f)
        /\ \A j \in DOMAIN jobs : (Named(j)' <=> Named(j)) /\ j # 0 /\ jobs[j].event \in events(box)
    <2>1. SameBox /\ requeues \in [1 .. MaxReplies -> 0 .. MaxRequeues] /\ jobs \in Seq(Job)
      BY <1>0, <1>1 DEF SameBox, Kept, Boxed
    <2> QED BY <1>0, <1>1, <2>1, JobsView
  <1>8. /\ \A f : Cardinality(deliveries(f)) \in Nat
        /\ \A f \in events(box) : requeues[f] \in Nat
        /\ crashes \in Nat /\ IsFiniteSet(Orphans) /\ Cardinality(Orphans) \in Nat
    BY <1>0, Counted
  <1>9. RunOK'
    <2> SUFFICES ASSUME NEW j \in DOMAIN jobs, Running(j)
                 PROVE  /\ active' = j
                        /\ Pending(jobs[j].event) =>
                            ref(jobs[j].event) = j /\ standing(jobs[j].event) = "delivering"
                        /\ Clean => Pending(jobs[j].event)
      BY <1>1, <1>7 DEF RunOK, Running
    <2>1. active' \in DOMAIN jobs /\ Running(active')
      BY <1>1 DEF NoneRuns
    <2>2. active' = j
      BY <1>0, <2>1, RunsOnce
    <2> QED BY <1>0, <2>2 DEF RunOK
  <1>10. ExecOK'
    BY <1>0, <1>1, ExecKept
  <1>11. BudgetOK'
    <2>1. \A f \in events(box) : /\ Cardinality(deliveries(f)) <= requeues[f] + 1 + (crashes + 1)
                                 /\ Cardinality(deliveries(f)) <= requeues[f] + (crashes + 1)
      BY <1>0, <1>8 DEF BudgetOK
    <2> QED BY <1>1, <1>7, <2>1 DEF BudgetOK
  <1>12. OrphanOK'
    <2>1. Cardinality(Orphans) <= crashes
      BY <1>0 DEF OrphanOK
    <2>2. CASE \E t \in Threads : pc(t) = "rewrite"
      <3>1. PICK t \in Threads : pc(t) = "rewrite"
        BY <2>2
      <3>2. PICK k, e : k = thread[t].job /\ e = thread[t].event
        OBVIOUS
      <3>3. First(e) /\ ref(e) = 0
        BY <1>0, <3>1, <3>2 DEF WorkOK
      <3>4. \A j : Naming(j) => j = k
        <4>1. \A s, u \in Threads : s # u => pc(s) = "idle" \/ pc(u) = "idle"
          BY <1>0, IdleMeans DEF Types, OneBusy
        <4> QED BY <3>1, <3>2, <4>1 DEF Naming
      <3>5. Orphans' \subseteq Orphans \cup {k}
        BY <1>1, <1>7, <3>4 DEF Orphans
      <3>6. IsFiniteSet(Orphans \cup {k}) /\ Cardinality(Orphans \cup {k}) <= Cardinality(Orphans) + 1
        BY <1>8, FS_AddElement
      <3>7. IsFiniteSet(Orphans') /\ Cardinality(Orphans') <= Cardinality(Orphans \cup {k})
        BY <3>5, <3>6, FS_Subset
      <3>8. Cardinality(Orphans') \in Nat /\ Cardinality(Orphans \cup {k}) \in Nat
        BY <3>6, <3>7, FS_CardinalityType
      <3>9. Cardinality(Orphans') <= crashes'
        BY <1>1, <1>8, <2>1, <3>6, <3>7, <3>8
      <3>10. ASSUME NEW j \in DOMAIN jobs, Risky(j)' PROVE FALSE
        <4>1. Named(j) /\ j # 0
          BY <1>7, <3>10 DEF Risky
        <4>2. First(jobs[j].event)
          BY <1>0, <4>1 DEF Named, Types, BoxOK, Pending
        <4>3. jobs[j].event = e
          BY <1>0, <3>3, <4>2, HeadFacts
        <4> QED BY <3>3, <4>1, <4>3 DEF Named
      <3> QED BY <1>1, <3>9, <3>10 DEF OrphanOK
    <2>3. CASE ~\E t \in Threads : pc(t) = "rewrite"
      <3>1. Orphans' \subseteq Orphans
        BY <1>1, <1>7, <2>3 DEF Orphans, Naming
      <3>2. IsFiniteSet(Orphans') /\ Cardinality(Orphans') <= Cardinality(Orphans)
        BY <1>8, <3>1, FS_Subset
      <3>3. Cardinality(Orphans') \in Nat
        BY <3>2, FS_CardinalityType
      <3>4. Cardinality(Orphans') <= crashes' /\ Cardinality(Orphans') + 1 <= crashes'
        BY <1>1, <1>8, <2>1, <3>2, <3>3
      <3> QED BY <3>4 DEF OrphanOK
    <2> QED BY <2>2, <2>3
  <1>13. crashes' # 0 /\ crashes' > 0
    BY <1>1, <1>8
  <1>14. LeaseOwned' /\ EndsOK'
    BY <1>13 DEF LeaseOwned, EndsOK
  <1>15. ConsumedForAReason'
    BY <1>0, <1>1, <1>7, <1>13, ReasonKept
  <1> QED BY <1>2, <1>4, <1>5, <1>7, <1>9, <1>10, <1>11, <1>12, <1>14, <1>15 DEF Core

\* A reply arrives.
LEMMA ArrivesWhole ==
    ASSUME Inv, Arrives
    PROVE  /\ Boxed' /\ Core' /\ ConsumedForAReason' /\ ThreadsOK' /\ OneBusy'
           /\ \A t \in Threads : WorkOK(t)'
  <1>0. /\ Types /\ RunOK /\ ExecOK /\ BudgetOK /\ OrphanOK /\ LeaseOwned /\ EndsOK
        /\ ConsumedForAReason /\ Boxed /\ BoxOK /\ ThreadsOK /\ OneBusy
        /\ \A t \in Threads : WorkOK(t)
    BY Parts DEF Types
  <1>1. /\ jobs' = jobs /\ thread' = thread /\ requeues' = requeues /\ limits' = limits
        /\ crashes' = crashes /\ active' = active /\ cancels' = cancels
        /\ (Clean' => Clean) /\ Seen /\ acked \subseteq acked'
    BY DEF Arrives, Still, Base, SameJobs
  <1>2. /\ events(box) \subseteq events(box') /\ box'.lease = box.lease /\ box' \in Mailbox
        /\ \A f \in events(box) : /\ Pending(f)' <=> Pending(f)
                                  /\ ref(f)' = ref(f) /\ standing(f)' = standing(f)
                                  /\ box'.inbox[f].type = box.inbox[f].type
        /\ \A f \in events(box') \ events(box) :
             ref(f)' = 0 /\ standing(f)' = "queued" /\ box'.inbox[f].type = "task_reply"
        /\ \A f : First(f) => First(f)'
        /\ Len(box'.inbox) <= limits.replies
        /\ \A f : Pending(f)' => f \in events(box')
    BY <1>0, BoxArrives
  <1>3. /\ \A j : /\ Executing(j)' <=> Executing(j)
                  /\ Naming(j)' <=> Naming(j)
                  /\ Ending(j)' <=> Ending(j)
                  /\ Exempt(j)' <=> Exempt(j)
                  /\ Threat(j)' <=> Threat(j)
        /\ \A f : (Owed(f)' <=> Owed(f)) /\ (Holding(f)' <=> Holding(f))
        /\ \A t \in Threads : pc(t)' = pc(t) /\ (Counting(t)' <=> Counting(t))
    BY <1>1 DEF Executing, Naming, Ending, Exempt, Threat, Owed, Holding, pc, Counting
  <1>4. \A j \in DOMAIN jobs : /\ (Named(j)' <=> Named(j)) /\ (Running(j)' <=> Running(j))
                               /\ jobs[j].event \in events(box)
    BY <1>0, <1>1, <1>2 DEF Named, BoxOK, Running
  <1>5. ThreadsOK' /\ OneBusy'
    BY <1>0, <1>1 DEF ThreadsOK, OneBusy, IsIdle
  <1>6. holds_lease(box') <=> holds_lease(box)
    BY <1>2 DEF holds_lease
  <1>7. \A f : Pending(f) => f \in events(box)
    BY <1>0, HeadFacts DEF Pending
  <1>8. Boxed'
    <2>1. \A f : f \in pending_events(box') <=> Pending(f)'
      BY DEF Pending
    <2>2. \A f : holds_lease(box') /\ box'.lease.event = f => Pending(f)'
      BY <1>0, <1>2, <1>6, <1>7 DEF BoxOK
    <2>3. \A f \in events(box') :
            /\ box'.inbox[f].type = "task_reply"
            /\ ref(f)' # 0 => ref(f)' \in DOMAIN jobs' /\ jobs'[ref(f)'].event = f
      BY <1>0, <1>1, <1>2 DEF BoxOK
    <2>4. \A f : Pending(f)' /\ ref(f)' # 0 => First(f)'
      BY <1>0, <1>2 DEF BoxOK, Pending
    <2>5. \A j \in DOMAIN jobs' : jobs'[j].event \in events(box')
      BY <1>1, <1>2, <1>4
    <2>6. BoxOK'
      BY <1>1, <1>2, <2>1, <2>2, <2>3, <2>4, <2>5 DEF BoxOK
    <2> QED BY <1>0, <1>1, <1>2, <2>6 DEF Boxed
  <1>9. RunOK'
    BY <1>0, <1>1, <1>2, <1>3, <1>4 DEF RunOK
  <1>10. ExecOK'
    BY <1>0, <1>1, ExecKept
  <1>11. BudgetOK'
    <2>1. \A f : deliveries(f)' = deliveries(f)
      BY <1>1 DEF deliveries
    <2>2. \A f \in events(box) : Vacant(f)' <=> Vacant(f)
      BY <1>1, <1>2 DEF Vacant
    <2>3. ASSUME NEW f \in events(box') \ events(box)
          PROVE  /\ Cardinality(deliveries(f)) <= requeues[f] + 1 + crashes
                 /\ Cardinality(deliveries(f)) <= requeues[f] + crashes
      <3>1. deliveries(f) = {}
        BY <1>4, <2>3 DEF deliveries
      <3>2. Cardinality(deliveries(f)) = 0
        BY <3>1, FS_EmptySet
      <3>3. f \in 1 .. MaxReplies
        <4>1. limits.replies \in 1 .. MaxReplies /\ MaxReplies \in Nat
          BY <1>0, ReplyDeliveryAssumption DEF Types, TypeOK
        <4>2. Len(box'.inbox) \in Nat
          BY <1>2 DEF Mailbox
        <4> QED BY <1>2, <2>3, <4>1, <4>2 DEF events
      <3>4. requeues[f] \in Nat /\ crashes \in Nat
        BY <1>0, <3>3, Counted DEF Boxed
      <3> QED BY <3>2, <3>4
    <2> QED BY <1>0, <1>1, <1>3, <2>1, <2>2, <2>3 DEF BudgetOK
  <1>12. OrphanOK'
    <2>1. Orphans' \subseteq Orphans
      BY <1>1, <1>3, <1>4 DEF Orphans
    <2>2. \A j \in DOMAIN jobs' : Risky(j)' => j \in DOMAIN jobs /\ Risky(j)
      BY <1>1, <1>2, <1>3, <1>4, <1>6 DEF Risky
    <2> QED BY <1>0, <1>1, <2>1, <2>2, OrphansKept
  <1>13. LeaseOwned'
    BY <1>0, <1>1, <1>2, <1>3, <1>6, OwnedKept
  <1>14. EndsOK'
    BY <1>0, <1>1, <1>2, <1>3, <1>4 DEF EndsOK, Spent, is_terminal
  <1>15. ConsumedForAReason'
    <2>1. \A f \in events(box') : \/ standing(f)' \notin {"consumed", "abandoned"}
                                  \/ f \in events(box) /\ standing(f)' = standing(f)
      BY <1>2
    <2> QED BY <1>0, <1>1, <2>1, ReasonKept
  <1>16. ASSUME NEW t \in Threads PROVE WorkOK(t)'
    <2>1. WorkOK(t)
      BY <1>0
    <2>2. \A f : First(f) => First(f)' /\ f \in events(box)
      BY <1>2, <1>7 DEF First
    <2>3. \A f : First(f) /\ ref(f) = 0 => First(f)' /\ ref(f)' = 0
      BY <1>2, <2>2
    <2>4. NoneRuns' <=> NoneRuns
      BY <1>1 DEF NoneRuns, Running
    <2>5. pc(t)' = pc(t) /\ (Counting(t)' <=> Counting(t)) /\ thread'[t] = thread[t]
      BY <1>1, <1>3
    <2>6. PICK j, e : j = thread[t].job /\ e = thread[t].event
      OBVIOUS
    <2>7. pc(t) \in HasJob => j \in DOMAIN jobs
      BY <2>1, <2>6 DEF WorkOK
    <2>8. j \in DOMAIN jobs => /\ (Named(j)' <=> Named(j))
                               /\ \A f : f = jobs[j].event =>
                                    (Pending(f)' <=> Pending(f)) /\ standing(f)' = standing(f)
      BY <1>2, <1>4
    <2>9. (is_terminal(j)' <=> is_terminal(j)) /\ (Running(j)' <=> Running(j))
      BY <1>1 DEF is_terminal, Running
    <2> QED BY <1>1, <1>2, <1>6, <2>1, <2>3, <2>4, <2>5, <2>6, <2>7, <2>8, <2>9 DEF WorkOK, HasJob
  <1> QED BY <1>5, <1>8, <1>9, <1>10, <1>11, <1>12, <1>13, <1>14, <1>15, <1>16 DEF Core
-----------------------------------------------------------------------------
(* The invariant is inductive, and what it implies.                        *)

\* Every step of a thread keeps the invariant, whatever its kind.
LEMMA KindWhole ==
    ASSUME Inv, NEW t \in Threads, Alone(t), KindOf(t)
    PROVE  Whole(t) /\ Moves(t) /\ DOMAIN jobs \subseteq DOMAIN jobs'
  <1>1. CASE Quiet(t)
    BY <1>1, QuietWhole DEF Quiet, SameJobs
  <1>2. CASE Names(t)
    BY <1>2, NamesWhole DEF Names, Writes, SameJobs
  <1>3. CASE Claims(t)
    BY <1>3, ClaimsWhole DEF Claims, Writes, SameJobs, Lands
  <1>4. CASE Goes(t, "finish", "resolve")
    BY <1>4, GoesWhole DEF Goes, SameJobs, Lands
  <1>5. CASE Spares(t) \/ Dismisses(t) \/ Revives(t)
    BY <1>5, DismissWhole DEF Spares, Dismisses, Revives, SameJobs, Rests
  <1>6. CASE Counts(t)
    BY <1>6, CountsWhole DEF Counts, SameJobs, Rests
  <1>7. CASE Frees(t)
    BY <1>7, FreesWhole DEF Frees, SameJobs, Rests, Lands
  <1>8. CASE t = "maintenance" /\ Sweeps
    BY <1>8, SweepsWhole DEF Sweeps, SameJobs, Lands
  <1>9. CASE Adds(t)
    BY <1>9, AddsWhole DEF Adds, Lands
  <1>10. CASE Runs(t)
    BY <1>10, RunsWhole DEF Runs, Sets, Lands
  <1>11. CASE Takes(t)
    BY <1>11, TakesWhole DEF Takes, SameJobs, Lands
  <1>12. CASE Completes(t)
    BY <1>12, CompletesWhole DEF Completes, Sets
  <1>13. CASE t = "socket" /\ Cancels
    BY <1>13, CancelsWhole DEF Cancels, Sets, Lands
  <1>14. CASE \E e \in events(box) : Clears(t, e) \/ Requeues(t, e) \/ Stalls(t, e)
    <2>1. PICK e \in events(box) : Clears(t, e) \/ Requeues(t, e) \/ Stalls(t, e)
      BY <1>14
    <2>2. Whole(t)
      BY <2>1, ClearsWhole, RequeuesWhole, StallsWhole
    <2> QED BY <2>1, <2>2 DEF Clears, Requeues, Stalls, Writes, SameJobs
  <1>15. CASE \E e \in events(box) : Ends(t, e, "consumed") \/ Ends(t, e, "abandoned")
    <2>1. PICK e \in events(box) : Ends(t, e, "consumed") \/ Ends(t, e, "abandoned")
      BY <1>15
    <2>2. Whole(t)
      BY <2>1, EndsWhole
    <2> QED BY <2>1, <2>2 DEF Ends, Writes, SameJobs
  <1> QED BY <1>1, <1>2, <1>3, <1>4, <1>5, <1>6, <1>7, <1>8, <1>9, <1>10, <1>11, <1>12, <1>13,
             <1>14, <1>15 DEF KindOf

\* The parts make up the invariant.
LEMMA Together ==
    ASSUME Boxed', Core', ConsumedForAReason', ThreadsOK', OneBusy', Sized',
           \A t \in Threads : WorkOK(t)', MaxOverlap = 1
    PROVE  Inv'
  <1>1. TypeOK'
    BY DEF Boxed, ThreadsOK, Sized, TypeOK
  <1> QED BY <1>1 DEF Inv, Types, Boxed, Core

\* The invariant is inductive.
LEMMA InvNext ==
    ASSUME Inv, [Next]_vars
    PROVE  Inv'
  <1>0. MaxOverlap = 1 /\ Types
    BY DEF Inv, Types
  <1>1. CASE UNCHANGED vars
    <2>1. Inv = Inv'
      BY <1>1 DEF Inv, Types, TypeOK, ThreadsOK, OneBusy, BoxOK, WorkOK, RunOK, ExecOK, BudgetOK, OrphanOK,
                  LeaseOwned, EndsOK, ConsumedForAReason, vars, Running, ref, standing, Pending, First, NoneRuns,
                  Clean, Named, Executing, Vacant, Owed, Naming, Orphans, Exempt, Threat, Risky, Holding, Spent,
                  Ending, IsIdle, pc, Counting, is_terminal, deliveries
    <2> QED BY <2>1
  <1>2. CASE Next /\ \E t \in Threads : Alone(t) /\ KindOf(t)
    <2>1. PICK t \in Threads : Alone(t) /\ KindOf(t)
      BY <1>2
    <2>2. Whole(t) /\ Moves(t) /\ DOMAIN jobs \subseteq DOMAIN jobs'
      BY <2>1, KindWhole
    <2>3. Sized'
      BY <1>2, <2>2, SizedKept
    <2>4. ThreadsOK' /\ OneBusy'
      BY <1>0, <2>1, <2>2, ThreadsKept
    <2>5. \A u \in Threads : WorkOK(u)'
      BY <2>1, <2>2, WorkIdle DEF Whole
    <2> QED BY <1>0, <2>2, <2>3, <2>4, <2>5, Together DEF Whole
  <1>3. CASE Next /\ (Crashes \/ Arrives)
    <2>1. DOMAIN jobs \subseteq DOMAIN jobs'
      BY <1>3 DEF Crashes, Arrives, SameJobs
    <2>2. Sized'
      BY <1>3, <2>1, SizedKept
    <2> QED BY <1>0, <1>3, <2>2, CrashesWhole, ArrivesWhole, Together
  <1> QED BY <1>1, <1>2, <1>3, Kinds

\* It holds initially.
LEMMA InvInit ==
    ASSUME Init, MaxOverlap = 1
    PROVE  Inv
  <1>1. box \in Mailbox /\ events(box) = {} /\ pending_events(box) = {} /\ ~holds_lease(box)
        /\ Len(box.inbox) = 0
    <2>1. << >> \in Seq(Event) /\ Len(<< >>) = 0
      OBVIOUS
    <2>2. NoLease \in Lease /\ NoSummary \in Summary
      BY DEF NoLease, Lease, NoSummary, Summary, SummaryHead, EmptyHead
    <2>3. box = EmptyMailbox
      BY DEF Init
    <2>4. box \in Mailbox /\ box.inbox = << >> /\ box.lease = NoLease
      BY <2>1, <2>2, <2>3 DEF EmptyMailbox, Mailbox
    <2>5. events(box) = {}
      BY <2>1, <2>4 DEF events
    <2> QED BY <2>1, <2>4, <2>5 DEF pending_events, holds_lease, NoLease
  <1>2. jobs = << >> /\ DOMAIN jobs = {} /\ jobs \in Seq(Job)
    BY DEF Init
  <1>3. \A t \in Threads : thread[t] = Idle
    BY DEF Init
  <1>4. \A t \in Threads : /\ thread[t] \in Local /\ Shape(thread[t].todo) /\ IsIdle(t)
                           /\ pc(t) = "idle" /\ ~Counting(t)
    <2>1. \A t \in Threads : IsIdle(t) /\ thread[t] \in Local
      BY <1>3, IdleLocal DEF IsIdle, Idle
    <2> QED BY <1>3, <2>1, IdleLocal, IdleMeans
  <1>5. limits \in Limits /\ limits.cancels \in Nat /\ limits.recovers \in Nat /\ limits.crashes \in Nat
        /\ limits.replies \in Nat /\ MaxRequeues \in Nat
    BY ReplyDeliveryAssumption DEF Init
  <1>6. TypeOK
    BY <1>1, <1>2, <1>4, <1>5 DEF Init, TypeOK
  <1>7. ThreadsOK /\ OneBusy
    BY <1>4, <1>6 DEF ThreadsOK, OneBusy, TypeOK
  <1>8. BoxOK
    BY <1>1, <1>2, <1>5 DEF BoxOK
  <1>9. \A t \in Threads : WorkOK(t)
    BY <1>4 DEF WorkOK, HasJob
  <1>10. RunOK /\ BudgetOK /\ LeaseOwned /\ EndsOK /\ ConsumedForAReason
    BY <1>1, <1>2 DEF RunOK, BudgetOK, LeaseOwned, EndsOK, ConsumedForAReason
  <1>11. ExecOK
    BY DEF Init, ExecOK
  <1>12. OrphanOK
    <2>1. Orphans = {} /\ crashes = 0 /\ Cardinality({}) = 0
      BY <1>2, FS_EmptySet DEF Orphans, Init
    <2> QED BY <1>2, <2>1 DEF OrphanOK
  <1> QED BY <1>6, <1>7, <1>8, <1>9, <1>10, <1>11, <1>12 DEF Inv, Types

\* The invariant holds always, when operations do not overlap.
THEOREM InvAlways == Spec /\ MaxOverlap = 1 => []Inv
  <1>1. Init /\ MaxOverlap = 1 => Inv
    BY InvInit
  <1>2. Inv /\ [Next]_vars => Inv'
    BY InvNext
  <1> QED BY <1>1, <1>2, PTL DEF Spec

\* Every variable keeps its type: the counters of requeues stay within
\* MaxRequeues and the slot holds a job there is.
THEOREM TypeTheorem == Spec /\ MaxOverlap = 1 => []TypeOK
  <1>1. Inv => TypeOK
    BY DEF Inv, Types
  <1> QED BY <1>1, InvAlways, PTL

\* A delivery that runs is alone and delivers the head of the mailbox,
\* unless a job was cancelled after a crash.
THEOREM RunningTheorem == Spec /\ MaxOverlap = 1 => []RunningDeliversHead
  <1>1. ASSUME Inv PROVE RunningDeliversHead
    <2>0. Types /\ RunOK /\ \A t \in Threads : WorkOK(t)
      BY <1>1, Parts
    <2> SUFFICES ASSUME NEW j \in DOMAIN jobs, jobs[j].status = "running", crashes = 0 \/ cancels = 0
                 PROVE  /\ \A k \in DOMAIN jobs : jobs[k].status = "running" => k = j
                        /\ head_reply_event = jobs[j].event
                        /\ delivery_job = j
                        /\ box.inbox[jobs[j].event].status = "delivering"
      BY DEF RunningDeliversHead
    <2>1. Running(j) /\ Clean /\ j # 0
      BY <2>0, JobFacts DEF Running, Clean
    <2>2. \A k \in DOMAIN jobs : jobs[k].status = "running" => k = j
      BY <2>0, <2>1, RunsOnce DEF Running
    <2>3. Pending(jobs[j].event) /\ ref(jobs[j].event) = j /\ standing(jobs[j].event) = "delivering"
      BY <2>0, <2>1 DEF RunOK
    <2>4. First(jobs[j].event)
      BY <2>0, <2>1, <2>3 DEF Types, BoxOK, Pending
    <2>5. head_reply_event = jobs[j].event /\ head_reply_event # 0
      BY <2>0, <2>4, HeadFacts
    <2>6. delivery_job = j
      BY <2>0, <2>3, <2>5, DeliveryJob
    <2> QED BY <2>2, <2>3, <2>5, <2>6 DEF standing
  <1>2. Inv => RunningDeliversHead
    BY <1>1
  <1> QED BY <1>2, InvAlways, PTL

\* A reply has no more delivery jobs than its budget of transport failures
\* and the crashes allow.
THEOREM BudgetTheorem == Spec /\ MaxOverlap = 1 => []DeliveryBudget
  <1>1. ASSUME Inv PROVE DeliveryBudget
    <2>0. Types /\ BudgetOK /\ BoxOK
      BY <1>1, Parts
    <2>1. /\ \A e : Cardinality(deliveries(e)) \in Nat
          /\ crashes \in Nat /\ MaxRequeues \in Nat
      BY <2>0, Counted
    <2>2. ASSUME NEW e \in events(box) PROVE Cardinality(deliveries(e)) <= MaxRequeues + 1 + crashes
      <3>1. requeues[e] \in 0 .. MaxRequeues
        BY <2>0, EventBound
      <3>2. Cardinality(deliveries(e)) <= requeues[e] + 1 + crashes
        BY <2>0 DEF BudgetOK
      <3> QED BY <2>1, <3>1, <3>2
    <2>3. ASSUME NEW e, e \notin events(box) PROVE Cardinality(deliveries(e)) <= MaxRequeues + 1 + crashes
      <3>1. deliveries(e) = {}
        BY <2>0, <2>3 DEF deliveries, BoxOK
      <3>2. Cardinality(deliveries(e)) = 0
        BY <3>1, FS_EmptySet
      <3> QED BY <2>1, <3>2
    <2> QED BY <2>2, <2>3 DEF DeliveryBudget
  <1>2. Inv => DeliveryBudget
    BY <1>1
  <1> QED BY <1>2, InvAlways, PTL

\* Between operations there is at most one queued job per crash that no
\* pending event names.
THEOREM OrphansTheorem == Spec /\ MaxOverlap = 1 => []OrphansOnlyByCrash
  <1>1. ASSUME Inv, AllIdle
        PROVE  Cardinality({j \in DOMAIN jobs :
                  /\ jobs[j].status = "queued"
                  /\ ~(is_pending(box, jobs[j].event) /\ box.inbox[jobs[j].event].ref = j)}) <= crashes
    <2>1. OrphanOK
      BY <1>1, Parts
    <2>2. \A j : ~Naming(j)
      BY <1>1, IdleMeans DEF AllIdle, Naming
    <2>3. Orphans = {j \in DOMAIN jobs :
                  /\ jobs[j].status = "queued"
                  /\ ~(is_pending(box, jobs[j].event) /\ box.inbox[jobs[j].event].ref = j)}
      BY <2>2 DEF Orphans, Named, Pending, ref, is_pending
    <2> QED BY <2>1, <2>3 DEF OrphanOK
  <1>2. Inv => OrphansOnlyByCrash
    BY <1>1 DEF OrphansOnlyByCrash
  <1> QED BY <1>2, InvAlways, PTL

\* No reply is consumed or abandoned without a reason.
THEOREM ReasonTheorem == Spec /\ MaxOverlap = 1 => []ConsumedForAReason
  <1>1. Inv => ConsumedForAReason
    BY DEF Inv
  <1> QED BY <1>1, InvAlways, PTL

\* As long as there is no crash, only a delivery that failed before its
\* prompt entered a turn is followed by another one.
THEOREM EndsTheorem == Spec /\ MaxOverlap = 1 => []EndsOnce
  <1>1. ASSUME Inv, crashes = 0, NEW i \in DOMAIN jobs, NEW k \in DOMAIN jobs,
               jobs[i].event = jobs[k].event, i < k
        PROVE  jobs[i].status = "failed" /\ ~jobs[i].reached /\ i \notin anchored
    <2>1. EndsOK /\ ExecOK
      BY <1>1, Parts
    <2>2. jobs[i].status = "failed" /\ ~jobs[i].reached
      BY <1>1, <2>1 DEF EndsOK, Spent
    <2>3. is_terminal(i)
      BY <2>2 DEF is_terminal, Ended
    <2> QED BY <2>1, <2>2, <2>3 DEF ExecOK
  <1>2. Inv => EndsOnce
    BY <1>1 DEF EndsOnce
  <1> QED BY <1>2, InvAlways, PTL
=============================================================================
