---------------------------- MODULE JobHeartbeat ----------------------------
(***************************************************************************)
(* The job heartbeat: JobHeartbeatService.tick for one running ask job     *)
(* (lib/ccbd/services/job_heartbeat_runtime) over evaluate_heartbeat       *)
(* (lib/heartbeat).  It counts the intervals in which the job's completion *)
(* snapshot was not written and gives the job up when there were enough.   *)
(*                                                                         *)
(* Times are whole seconds from 1; 0 stands for None.  The count is kept   *)
(* in a file (beat), so it outlives the daemon.  Two writes end a job, in  *)
(* this order: its snapshot becomes terminal, then its record; a crash may *)
(* come between them.  heartbeat_started_at, which nothing reads, and the  *)
(* diagnostics events are left out.                                        *)
(***************************************************************************)
EXTENDS Integers

CONSTANTS SilenceStart,    \* silence_start_after_s (600)
          RepeatInterval,  \* repeat_interval_s (300)
          MaxNotices,      \* max_notice_count, 0 for None (the daemon's choice)
          Limit,           \* terminal_notice_count (3), 0 for None
          MaxTime,         \* bound on the clock
          MaxCrashes       \* bound on the crashes

ASSUME JobHeartbeatAssumption ==
    /\ SilenceStart \in Nat /\ RepeatInterval \in Nat \ {0}
    /\ MaxNotices \in Nat /\ Limit \in Nat
    /\ MaxTime \in Nat \ {0} /\ MaxCrashes \in Nat

VARIABLES now,        \* the clock
          job,        \* "running", "ended" or "timed_out" (by this service)
          progress,   \* updated_at of the snapshot
          snapshot,   \* "open" or "terminal"
          ending,     \* what a completion between its two writes makes of job
          beat,       \* the stored HeartbeatState
          tick,       \* where terminalize_heartbeat_timeout is
          crashes

vars == <<now, job, progress, snapshot, ending, beat, tick, crashes>>

\* A stored state has last_progress # 0.
Beat == [last_progress : Nat, last_notice : Nat, notice_count : Nat]
NoBeat == [last_progress |-> 0, last_notice |-> 0, notice_count |-> 0]

TypeOK ==
    /\ now \in Nat \ {0} /\ progress \in 1 .. now
    /\ job \in {"running", "ended", "timed_out"}
    /\ snapshot \in {"open", "terminal"} /\ ending \in {"none", "ended", "timed_out"}
    /\ beat \in Beat
    /\ tick \in {"idle", "complete", "remove"}
    /\ crashes \in Nat

Init ==
    /\ now = 1 /\ job = "running" /\ progress = 1
    /\ snapshot = "open" /\ ending = "none"
    /\ beat = NoBeat /\ tick = "idle" /\ crashes = 0
-----------------------------------------------------------------------------
(* evaluate_heartbeat.                                                     *)

\* A state that is not stored starts from the progress observed.
current_state ==
    IF beat # NoBeat THEN beat
    ELSE [last_progress |-> progress, last_notice |-> 0, notice_count |-> 0]

heartbeat_active(s) == s.notice_count > 0 \/ s.last_notice # 0

\* Mutant: progress after the first notices does not count.
progress_advanced_never(s) == FALSE

progress_advanced(s) == progress > s.last_progress

silence_seconds == now - progress

\* Mutant: the interval is measured from the last progress.
repeat_interval_not_elapsed_since_progress(s) == now - s.last_progress < RepeatInterval

repeat_interval_not_elapsed(s) == now - s.last_notice < RepeatInterval

notice_limit_reached(s) == MaxNotices # 0 /\ s.notice_count >= MaxNotices

action_due(s) ==
    IF progress_advanced(s) /\ heartbeat_active(s) THEN "reset"
    ELSE IF silence_seconds < SilenceStart THEN "idle"
    ELSE IF s.last_notice = 0 \/ s.notice_count = 0 THEN "enter"
    ELSE IF notice_limit_reached(s) \/ repeat_interval_not_elapsed(s) THEN "idle"
    ELSE "repeat"

\* The state that goes with the action; with "idle" nothing is stored.
next_state(s) ==
    CASE action_due(s) = "reset" ->
            [last_progress |-> progress, last_notice |-> 0, notice_count |-> 0]
      [] action_due(s) = "enter" ->
            [last_progress |-> progress, last_notice |-> now, notice_count |-> 1]
      [] action_due(s) = "repeat" ->
            [last_progress |-> progress, last_notice |-> now,
             notice_count |-> s.notice_count + 1]
      [] OTHER -> s

heartbeat_timeout_due(s) == Limit # 0 /\ s.notice_count >= Limit
-----------------------------------------------------------------------------
(* The tick; one that finds nothing due ("idle") changes nothing.          *)

Ticking == tick = "idle" /\ job = "running" /\ snapshot = "open"
NoticeDue == action_due(current_state) \in {"enter", "repeat"}

TickReset ==
    /\ Ticking /\ action_due(current_state) = "reset"
    /\ beat' = next_state(current_state)
    /\ UNCHANGED <<now, job, progress, snapshot, ending, tick, crashes>>

\* record_internal_heartbeat.
TickObserve ==
    /\ Ticking /\ NoticeDue
    /\ ~heartbeat_timeout_due(next_state(current_state))
    /\ beat' = next_state(current_state)
    /\ UNCHANGED <<now, job, progress, snapshot, ending, tick, crashes>>

\* terminalize_heartbeat_timeout, up to the call of complete.
TickTimeout ==
    /\ Ticking /\ NoticeDue
    /\ heartbeat_timeout_due(next_state(current_state))
    /\ beat' = next_state(current_state)
    /\ tick' = "complete"
    /\ UNCHANGED <<now, job, progress, snapshot, ending, crashes>>

\* complete waits for the lock of a completion under way, and does nothing
\* for a job that has ended.
TickComplete ==
    /\ tick = "complete" /\ ending = "none"
    /\ \/ /\ job = "running"
          /\ snapshot' = "terminal" /\ progress' = now /\ ending' = "timed_out"
       \/ /\ job # "running"
          /\ UNCHANGED <<snapshot, progress, ending>>
    /\ tick' = "remove"
    /\ UNCHANGED <<now, job, beat, crashes>>

\* complete has returned.
TickRemoved ==
    /\ tick = "remove" /\ ending # "timed_out"
    /\ beat' = NoBeat
    /\ tick' = "idle"
    /\ UNCHANGED <<now, job, progress, snapshot, ending, crashes>>

\* The snapshot is terminal, or the job is no longer active.
TickRemove ==
    /\ tick = "idle" /\ (snapshot = "terminal" \/ job # "running")
    /\ beat' = NoBeat
    /\ UNCHANGED <<now, job, progress, snapshot, ending, tick, crashes>>
-----------------------------------------------------------------------------
(* The surroundings: the clock, the provider's progress (the same thread   *)
(* polls and ticks), a completion or cancellation, a crash.                *)

Advance ==
    /\ now < MaxTime
    /\ now' = now + 1
    /\ UNCHANGED <<job, progress, snapshot, ending, beat, tick, crashes>>

\* A poll writes the snapshot with the time of the provider's last item,
\* which may be an old one.  A terminal snapshot is not opened again.
Progress(stamp) ==
    /\ tick = "idle" /\ job = "running" /\ ending = "none" /\ snapshot = "open"
    /\ progress' = stamp
    /\ UNCHANGED <<now, job, snapshot, ending, beat, tick, crashes>>

EndSnapshot ==
    /\ job = "running" /\ ending = "none"
    /\ snapshot' = "terminal" /\ ending' = "ended" /\ progress' = now
    /\ UNCHANGED <<now, job, beat, tick, crashes>>

EndRecord ==
    /\ ending # "none"
    /\ job' = ending /\ ending' = "none"
    /\ UNCHANGED <<now, progress, snapshot, beat, tick, crashes>>

Crash ==
    /\ crashes < MaxCrashes
    /\ crashes' = crashes + 1
    /\ ending' = "none" /\ tick' = "idle"
    /\ UNCHANGED <<now, job, progress, snapshot, beat>>

Next ==
    \/ TickReset \/ TickObserve \/ TickTimeout \/ TickComplete \/ TickRemoved
    \/ TickRemove \/ Advance \/ EndSnapshot \/ EndRecord \/ Crash
    \/ \E stamp \in 1 .. now : Progress(stamp)

Spec == Init /\ [][Next]_vars
-----------------------------------------------------------------------------
\* n notices of one spell of silence take at least this long.
Patience(n) == SilenceStart + (n - 1) * RepeatInterval

(* Every stored notice stands for silence: between the progress it was     *)
(* counted from and the last notice lie the start interval and one repeat  *)
(* interval for each further notice, across restarts of the daemon.        *)
NoticesAreSilence ==
    beat.notice_count > 0 =>
        beat.last_notice >= beat.last_progress + Patience(beat.notice_count)

(* A job is given up only Patience(Limit) after the time its snapshot      *)
(* carries: progress between two notices starts the count again, and a     *)
(* restart in the middle of giving up does not shorten it.                 *)
GivesUpOnSilence ==
    tick = "complete" /\ job = "running" /\ snapshot = "open" =>
        Limit > 0 /\ now >= progress + Patience(Limit)
=============================================================================
