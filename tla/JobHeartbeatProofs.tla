------------------------- MODULE JobHeartbeatProofs -------------------------
(***************************************************************************)
(* The job heartbeat gives a job up only on silence, for every policy, any *)
(* number of crashes and any clock bound.  NoticesAreSilence is inductive  *)
(* with the type invariant; giving up follows because the tick that does   *)
(* it has just stored a notice.                                            *)
(***************************************************************************)
EXTENDS JobHeartbeat, TLAPS

Inv == TypeOK /\ NoticesAreSilence /\ GivesUpOnSilence

(* The arithmetic of Patience: the first notice costs the start interval,  *)
(* every further one a repeat interval, and more notices never cost less.  *)
LEMMA PatienceIsNat == \A n \in Nat \ {0} : Patience(n) \in Nat
  BY JobHeartbeatAssumption DEF Patience

\* The first notice is due after silence_start_after_s.
LEMMA PatienceFirst == Patience(1) = SilenceStart
  BY JobHeartbeatAssumption DEF Patience

\* Every further notice is due one repeat interval later.
LEMMA PatienceNext ==
    \A n \in Nat \ {0} : Patience(n + 1) = Patience(n) + RepeatInterval
  <1> TAKE n \in Nat \ {0}
  <1>1. ((n + 1) - 1) * RepeatInterval = (n - 1) * RepeatInterval + RepeatInterval
    BY JobHeartbeatAssumption
  <1> QED BY <1>1, JobHeartbeatAssumption DEF Patience

\* So the later the notice, the longer the silence before it.
LEMMA PatienceGrows ==
    \A m, n \in Nat \ {0} : m >= n => Patience(m) >= Patience(n)
  <1> TAKE m, n \in Nat \ {0}
  <1> HAVE m >= n
  <1>1. (m - 1) * RepeatInterval = (n - 1) * RepeatInterval + (m - n) * RepeatInterval
    BY JobHeartbeatAssumption
  <1>2. (m - n) * RepeatInterval >= 0
    BY JobHeartbeatAssumption
  <1>3. (m - 1) * RepeatInterval \in Int /\ (n - 1) * RepeatInterval \in Int
        /\ (m - n) * RepeatInterval \in Int
    BY JobHeartbeatAssumption
  <1> QED BY <1>1, <1>2, <1>3, JobHeartbeatAssumption DEF Patience

(* What a tick may store: a well-formed state, whose notices are silence   *)
(* up to now when a notice is due.                                         *)
LEMMA NextStateOK ==
    ASSUME TypeOK, NoticesAreSilence
    PROVE  LET s == next_state(current_state)
           IN /\ s \in Beat
              /\ s.notice_count > 0 =>
                    s.last_notice >= s.last_progress + Patience(s.notice_count)
              /\ NoticeDue => /\ s.notice_count > 0
                              /\ now >= progress + Patience(s.notice_count)
  <1> DEFINE c == current_state
             s == next_state(c)
  <1>1. c \in Beat
    BY DEF TypeOK, current_state, Beat, NoBeat
  <1>2. c.notice_count > 0 =>
            c.last_notice >= c.last_progress + Patience(c.notice_count)
    BY DEF TypeOK, NoticesAreSilence, current_state, Beat, NoBeat
  <1>3. now \in Nat \ {0} /\ progress \in 1 .. now
    BY DEF TypeOK
  <1> HIDE DEF c
  <1>4. CASE action_due(c) = "reset"
    <2>1. s = [last_progress |-> progress, last_notice |-> 0, notice_count |-> 0]
      BY <1>4 DEF next_state
    <2>2. s \in Beat /\ s.notice_count = 0
      BY <1>1, <1>3, <2>1 DEF Beat
    <2> QED BY <1>4, <2>2 DEF NoticeDue, c
  <1>5. CASE action_due(c) = "enter"
    <2>1. s = [last_progress |-> progress, last_notice |-> now, notice_count |-> 1]
      BY <1>5 DEF next_state
    <2>2. s \in Beat /\ s.notice_count = 1 /\ s.last_notice = now /\ s.last_progress = progress
      BY <1>1, <1>3, <2>1 DEF Beat
    <2>3. now - progress >= SilenceStart
      BY <1>5, <1>3, JobHeartbeatAssumption DEF action_due, silence_seconds
    <2> QED BY <1>3, <2>2, <2>3, PatienceFirst, JobHeartbeatAssumption DEF c
  <1>6. CASE action_due(c) = "repeat"
    <2>1. s = [last_progress |-> progress, last_notice |-> now,
               notice_count |-> c.notice_count + 1]
      BY <1>6 DEF next_state
    <2>2. /\ s \in Beat /\ s.notice_count = c.notice_count + 1
          /\ s.last_notice = now /\ s.last_progress = progress
      BY <1>1, <1>3, <2>1 DEF Beat
    <2>3. /\ c.notice_count \in Nat \ {0} /\ c.last_notice \in Nat /\ c.last_progress \in Nat
          /\ now - c.last_notice >= RepeatInterval
          /\ progress <= c.last_progress
      BY <1>1, <1>3, <1>6, JobHeartbeatAssumption
      DEF action_due, repeat_interval_not_elapsed, notice_limit_reached,
          progress_advanced, heartbeat_active, silence_seconds, Beat
    <2>4. /\ Patience(s.notice_count) = Patience(c.notice_count) + RepeatInterval
          /\ Patience(c.notice_count) \in Nat
      BY <2>2, <2>3, PatienceNext, PatienceIsNat
    <2>5. now >= progress + Patience(s.notice_count)
      BY <1>2, <1>3, <2>3, <2>4, JobHeartbeatAssumption
    <2> QED BY <2>2, <2>3, <2>5 DEF c
  <1>7. CASE action_due(c) = "idle"
    <2>1. s = c
      BY <1>7 DEF next_state
    <2> QED BY <1>1, <1>2, <1>7, <2>1 DEF NoticeDue, c
  <1>8. action_due(c) \in {"reset", "idle", "enter", "repeat"}
    BY DEF action_due
  <1> QED BY <1>4, <1>5, <1>6, <1>7, <1>8 DEF c

(* One case per action of Next; only the ticks write the stored state.     *)
LEMMA InvStep == Inv /\ [Next]_vars => Inv'
  <1> SUFFICES ASSUME Inv, [Next]_vars PROVE Inv'
    OBVIOUS
  <1> DEFINE s == next_state(current_state)
  <1>t. TypeOK /\ NoticesAreSilence /\ GivesUpOnSilence
    BY DEF Inv
  <1>1. /\ s \in Beat
        /\ s.notice_count > 0 => s.last_notice >= s.last_progress + Patience(s.notice_count)
        /\ NoticeDue => s.notice_count > 0 /\ now >= progress + Patience(s.notice_count)
    BY <1>t, NextStateOK
  <1>2. NoBeat \in Beat /\ NoBeat.notice_count = 0
    BY DEF NoBeat, Beat
  <1> HIDE DEF s
  <1>3. CASE TickReset
    <2>1. TypeOK'
      BY <1>t, <1>1, <1>3 DEF TypeOK, TickReset, s
    <2>2. NoticesAreSilence'
      BY <1>1, <1>3 DEF NoticesAreSilence, TickReset, s, Patience
    <2>3. GivesUpOnSilence'
      BY <1>3 DEF GivesUpOnSilence, TickReset, Ticking
    <2> QED BY <2>1, <2>2, <2>3 DEF Inv
  <1>4. CASE TickObserve
    <2>1. TypeOK'
      BY <1>t, <1>1, <1>4 DEF TypeOK, TickObserve, s
    <2>2. NoticesAreSilence'
      BY <1>1, <1>4 DEF NoticesAreSilence, TickObserve, s, Patience
    <2>3. GivesUpOnSilence'
      BY <1>4 DEF GivesUpOnSilence, TickObserve, Ticking
    <2> QED BY <2>1, <2>2, <2>3 DEF Inv
  <1>5. CASE TickTimeout
    <2>1. TypeOK'
      BY <1>t, <1>1, <1>5 DEF TypeOK, TickTimeout, s
    <2>2. NoticesAreSilence'
      BY <1>1, <1>5 DEF NoticesAreSilence, TickTimeout, s, Patience
    <2>3. /\ Limit \in Nat \ {0} /\ s.notice_count \in Nat \ {0}
          /\ s.notice_count >= Limit
          /\ now >= progress + Patience(s.notice_count)
      BY <1>1, <1>5, JobHeartbeatAssumption
      DEF TickTimeout, heartbeat_timeout_due, s, Beat
    <2>4. /\ Patience(s.notice_count) >= Patience(Limit)
          /\ Patience(Limit) \in Nat /\ Patience(s.notice_count) \in Nat
      BY <2>3, PatienceGrows, PatienceIsNat
    <2>5. now \in Nat /\ progress \in Nat
      BY <1>t DEF TypeOK
    <2>6. Limit > 0 /\ now >= progress + Patience(Limit)
      BY <2>3, <2>4, <2>5
    <2>7. now' = now /\ progress' = progress
      BY <1>5 DEF TickTimeout
    <2>8. GivesUpOnSilence'
      BY <2>6, <2>7 DEF GivesUpOnSilence, Patience
    <2> QED BY <2>1, <2>2, <2>8 DEF Inv
  <1>6. CASE TickComplete
    <2>1. TypeOK'
      BY <1>t, <1>6 DEF TypeOK, TickComplete
    <2> QED BY <1>t, <1>6, <2>1
            DEF Inv, NoticesAreSilence, GivesUpOnSilence, TickComplete, Patience
  <1>7. CASE TickRemoved
    <2>1. TypeOK'
      BY <1>t, <1>2, <1>7 DEF TypeOK, TickRemoved
    <2> QED BY <1>2, <1>7, <2>1
            DEF Inv, NoticesAreSilence, GivesUpOnSilence, TickRemoved, Patience
  <1>8. CASE TickRemove
    <2>1. TypeOK'
      BY <1>t, <1>2, <1>8 DEF TypeOK, TickRemove
    <2> QED BY <1>2, <1>8, <2>1
            DEF Inv, NoticesAreSilence, GivesUpOnSilence, TickRemove, Patience
  <1>9. CASE Advance
    <2>1. TypeOK'
      BY <1>t, <1>9 DEF TypeOK, Advance
    <2>2. NoticesAreSilence'
      BY <1>t, <1>9 DEF NoticesAreSilence, Advance, Patience
    <2>3. ASSUME tick = "complete", job = "running", snapshot = "open"
          PROVE  Limit > 0 /\ now + 1 >= progress + Patience(Limit)
      <3>1. /\ Limit \in Nat \ {0} /\ now >= progress + Patience(Limit)
        BY <1>t, <2>3, JobHeartbeatAssumption DEF GivesUpOnSilence
      <3>2. Patience(Limit) \in Nat /\ now \in Nat /\ progress \in Nat
        BY <1>t, <3>1, PatienceIsNat DEF TypeOK
      <3> QED BY <3>1, <3>2
    <2>4. GivesUpOnSilence'
      BY <1>9, <2>3 DEF GivesUpOnSilence, Advance, Patience
    <2> QED BY <2>1, <2>2, <2>4 DEF Inv
  <1>10. CASE EndSnapshot
    <2>1. TypeOK'
      BY <1>t, <1>10 DEF TypeOK, EndSnapshot
    <2> QED BY <1>t, <1>10, <2>1
            DEF Inv, NoticesAreSilence, GivesUpOnSilence, EndSnapshot, Patience
  <1>11. CASE EndRecord
    <2>1. TypeOK'
      BY <1>t, <1>11 DEF TypeOK, EndRecord
    <2>2. job' # "running"
      BY <1>t, <1>11 DEF TypeOK, EndRecord
    <2> QED BY <1>t, <1>11, <2>1, <2>2
            DEF Inv, NoticesAreSilence, GivesUpOnSilence, EndRecord, Patience
  <1>12. CASE Crash
    <2>1. TypeOK'
      BY <1>t, <1>12, JobHeartbeatAssumption DEF TypeOK, Crash
    <2> QED BY <1>t, <1>12, <2>1
            DEF Inv, NoticesAreSilence, GivesUpOnSilence, Crash, Patience
  <1>13. ASSUME NEW stamp \in 1 .. now, Progress(stamp)
         PROVE  Inv'
    <2>1. TypeOK'
      BY <1>t, <1>13 DEF TypeOK, Progress
    <2> QED BY <1>t, <1>13, <2>1
            DEF Inv, NoticesAreSilence, GivesUpOnSilence, Progress, Patience
  <1>14. CASE UNCHANGED vars
    BY <1>t, <1>14
    DEF Inv, TypeOK, NoticesAreSilence, GivesUpOnSilence, vars, Patience
  <1> QED BY <1>3, <1>4, <1>5, <1>6, <1>7, <1>8, <1>9, <1>10, <1>11, <1>12,
             <1>13, <1>14 DEF Next

\* No job has been observed yet.
LEMMA InitInv == Init => Inv
  BY JobHeartbeatAssumption
  DEF Init, Inv, TypeOK, NoticesAreSilence, GivesUpOnSilence, NoBeat, Beat

(* The heartbeat's invariants hold in every reachable state, for every     *)
(* policy: evaluate_heartbeat and tick_job_heartbeat keep them.            *)
THEOREM HeartbeatInvariant == Spec => []Inv
  BY InitInv, InvStep, PTL DEF Spec

(* TypeOK, among other things: no snapshot lies in the future.             *)
THEOREM HeartbeatTypes == Spec => []TypeOK
  <1>1. Inv => TypeOK
    BY DEF Inv
  <1> QED BY <1>1, HeartbeatInvariant, PTL

(* Notices stored by the tick stand for silence of the job.                *)
THEOREM StoredNoticesAreSilence == Spec => []NoticesAreSilence
  <1>1. Inv => NoticesAreSilence
    BY DEF Inv
  <1> QED BY <1>1, HeartbeatInvariant, PTL

(* terminalize_heartbeat_timeout ends only jobs that were silent for the   *)
(* start interval and Limit - 1 repeat intervals.                          *)
THEOREM TimeoutsAreEarned == Spec => []GivesUpOnSilence
  <1>1. Inv => GivesUpOnSilence
    BY DEF Inv
  <1> QED BY <1>1, HeartbeatInvariant, PTL
=============================================================================
