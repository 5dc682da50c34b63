----------------------------- MODULE MailboxLane -----------------------------
(***************************************************************************)
(* What a mailbox promises its agent: one serial lane of inbound events    *)
(* (docs/agent-mailbox-kernel-design.md, 5.1).  Events are numbered in     *)
(* arrival order; at most one is served at a time, it is the oldest one    *)
(* waiting, and an event that has left the lane never comes back.          *)
(***************************************************************************)
EXTENDS Naturals

VARIABLES arrived,   \* how many events have arrived
          waiting,   \* the events that have not left the lane
          serving    \* the event being served, 0 if none

laneVars == <<arrived, waiting, serving>>

LaneInit == arrived = 0 /\ waiting = {} /\ serving = 0

\* The next event arrives and waits, or arrives already handled.
Arrive ==
    /\ arrived' = arrived + 1
    /\ waiting' \in {waiting, waiting \cup {arrived + 1}}
    /\ UNCHANGED serving

Serve(e) ==
    /\ serving = 0
    /\ e \in waiting
    /\ \A f \in waiting : e <= f
    /\ serving' = e
    /\ UNCHANGED <<arrived, waiting>>

\* An event leaves the lane, served or not.
Leave(e) ==
    /\ e \in waiting
    /\ waiting' = waiting \ {e}
    /\ serving' = IF serving = e THEN 0 ELSE serving
    /\ UNCHANGED arrived

\* The served event goes back to waiting, at its old place.
PutBack ==
    /\ serving' = 0
    /\ UNCHANGED <<arrived, waiting>>

LaneNext == Arrive \/ PutBack \/ \E e \in waiting : Serve(e) \/ Leave(e)

LaneSpec == LaneInit /\ [][LaneNext]_laneVars
=============================================================================
