------------------------- MODULE SocketServerProofs -------------------------
(***************************************************************************)
(* Proofs about the control socket.  A thread is the list of the steps it  *)
(* has yet to take, and every step of it drops some of the first and puts  *)
(* others in front (Splice).  So what the proofs need is said of the lists *)
(* place by place: what a step is about (StepOK), what must still come     *)
(* behind it (Followed), which connection the worker has in hand, and      *)
(* where the finalizer of a stop-all is.                                   *)
(***************************************************************************)
EXTENDS SocketServer, SequenceTheorems, FiniteSetTheorems,
        WellFoundedInduction, TLAPS

Lemmas == INSTANCE OperatorLemmas

-----------------------------------------------------------------------------
(* The invariant.                                                           *)

MainSteps == {"accept", "enqueue", "put", "put_again"}
WorkerSteps == {"get", "dispatch", "admit", "return", "respond", "post"}
MaintenanceSteps ==
    {"wait", "woken", "timed_out", "post_request_tick", "tick_if_needed", "tick"}
LastSteps ==
    {"accept", "get", "wait", "woken", "timed_out", "post_request_tick",
     "tick_if_needed"}

ActionOK(op, c) ==
    \/ op = "serving" /\ c = 0
    \/ op \in FinalizedOps /\ c \in Conns /\ op = requests[c]

(* What a step is about.                                                    *)
StepOK(t, s) ==
    /\ s.do \in MainSteps => t = "main"
    /\ s.do \in WorkerSteps => t = "worker"
    /\ s.do \in MaintenanceSteps => t = "maintenance"
    /\ s.do \in {"enqueue", "put", "put_again", "dispatch", "admit", "return",
                 "respond", "post"} => s.conn \in Conns
    /\ s.do \in {"run", "finalize"} => ActionOK(s.op, s.conn)
    /\ s.do = "finalize" => s.op = "stop-all"
    /\ s.do = "open" => history.published

StepsOK == \A t \in Threads : \A k \in DOMAIN agenda[t] : StepOK(t, agenda[t][k])

(* What comes behind the k-th step of an agenda.                            *)
FollowedAt(a, k) ==
    /\ a[k].do \in LastSteps => k = Len(a)
    /\ a[k].do \in {"enqueue", "put", "put_again"} => k + 1 = Len(a)
    /\ a[k].do = "close_pending" =>
        /\ k + 2 \in DOMAIN a
        /\ a[k + 1].do = "put_sentinel" /\ a[k + 2].do = "join_worker"
    /\ a[k].do = "wake" => k + 1 \in DOMAIN a /\ a[k + 1].do = "join_maintenance"
    /\ a[k].do = "join_worker" => \E i \in DOMAIN a : k < i /\ a[i].do = "drain"
    /\ a[k].do \in {"run", "publish", "open", "raise"} =>
        \E i \in DOMAIN a : k < i /\ a[i].do = "end_batch"
    /\ a[k].do \in {"dispatch", "admit", "return"} =>
        \E i \in DOMAIN a : k < i /\ a[i].do = "respond" /\ a[i].conn = a[k].conn

Followed(a) == \A k \in DOMAIN a : FollowedAt(a, k)
AllFollowed == \A t \in Threads : Followed(agenda[t])

ActionsOK ==
    \A i \in DOMAIN server.actions :
        ActionOK(server.actions[i].op, server.actions[i].conn)

Structure == TypeOK /\ StepsOK /\ AllFollowed /\ ActionsOK

-----------------------------------------------------------------------------
(* The listener is closed, and the gates with it, only after the stop.      *)
StopFirst ==
    \/ server.stop
    \/ \A t \in Threads : \A k \in DOMAIN agenda[t] :
        agenda[t][k].do = "close_listener" =>
            k > 1 /\ agenda[t][k - 1].do = "set_stop"

OpenOK == server.bootstrap \/ server.stop \/ history.published

(* The process does not end without a stop.                                 *)
StopAhead ==
    \/ server.stop
    \/ \E k \in DOMAIN agenda["main"] : agenda["main"][k].do \in {"accept", "set_stop"}

Flags == StopFirst /\ OpenOK /\ StopAhead /\ UnpublishedIsStopped /\ NoLostWakeup

-----------------------------------------------------------------------------
(* Connections: who has one in hand, and how far it is.                     *)
InHand(a) ==
    /\ \A i, k \in DOMAIN a :
        /\ /\ a[i].do \in {"dispatch", "admit", "return"}
           /\ a[k].do \in {"dispatch", "admit", "return"}
           => i = k
        /\ a[i].do = "respond" /\ a[k].do = "respond" => i = k
    /\ \A k \in DOMAIN a :
        /\ a[k].do \in {"dispatch", "admit"} => conns[a[k].conn] = "read"
        /\ a[k].do = "return" => conns[a[k].conn] = "handling"
        /\ a[k].do = "respond" =>
            conns[a[k].conn] \in {"read", "refused", "handling", "handled"}

AcceptedOK ==
    \A k \in DOMAIN agenda["main"] :
        agenda["main"][k].do \in {"enqueue", "put", "put_again"} =>
            conns[agenda["main"][k].conn] = "accepted"

HandledOK == \A c \in history.handled : conns[c] \in {"handling", "handled", "answered"}

Connections ==
    /\ InHand(agenda["worker"]) /\ AcceptedOK /\ HandledOK /\ ClosedHasNoEffect

(* A step that runs the finalizer of a stop-all.                            *)
IsToken(s, c) == s.do \in {"run", "finalize"} /\ s.op = "stop-all" /\ s.conn = c

-----------------------------------------------------------------------------
(* Finalizers: from the response on, the finalizer of a stop-all is in the  *)
(* action list, in the agenda of a thread, or has run, and in one of these  *)
(* places only.                                                             *)

Places == Threads \cup {"list", "done"}
Token(x, i, c) ==
    \/ /\ x = "list" /\ i \in DOMAIN server.actions
       /\ server.actions[i].op = "stop-all" /\ server.actions[i].conn = c
    \/ x \in Threads /\ i \in DOMAIN agenda[x] /\ IsToken(agenda[x][i], c)
    \/ x = "done" /\ i \in DOMAIN history.finalized /\ history.finalized[i] = c
Home(c) == \E x \in Places : \E i \in Nat : Token(x, i, c)

Unique ==
    \A c \in Nat : \A x, y \in Places : \A i, k \in Nat :
        Token(x, i, c) /\ Token(y, k, c) => x = y /\ i = k

(* What has a finalizer is past the queue and no more to be answered.       *)
Responds(c) ==
    \E k \in DOMAIN agenda["worker"] :
        agenda["worker"][k].do = "respond" /\ agenda["worker"][k].conn = c
HomeOK ==
    \A c \in Nat : Home(c) =>
        c \in Conns /\ conns[c] \notin {"accepted", "queued"} /\ ~Responds(c)

(* The response that will queue the finalizer is ahead.                     *)
Returns(c) ==
    \E k \in DOMAIN agenda["worker"] :
        agenda["worker"][k].do = "return" /\ agenda["worker"][k].conn = c
ToRespond(c) == Responds(c) /\ (conns[c] = "handled" \/ Returns(c))

OwedOK ==
    server.error \/
    \A c \in history.owed : requests[c] = "stop-all" /\ (ToRespond(c) \/ Home(c))

JoinedEnded == \A t \in server.joined : ended(t)

(* Once the worker is joined, what is queued has a drain before it.         *)
DrainAhead == \E t \in Threads : \E k \in DOMAIN agenda[t] : agenda[t][k].do = "drain"
Drained ==
    \/ server.error \/ "worker" \notin server.joined \/ DrainAhead
    \/ \A i \in DOMAIN server.actions : server.actions[i].op # "stop-all"

Finalizers == Unique /\ HomeOK /\ OwedOK /\ JoinedEnded /\ Drained

-----------------------------------------------------------------------------
(* Lists of steps.                                                          *)

(* n is a without its first d steps and with p in front.                    *)
Splice(n, p, a, d) ==
    /\ d \in 0 .. Len(a)
    /\ Len(n) = Len(p) + Len(a) - d
    /\ \A i \in DOMAIN p : i \in DOMAIN n /\ n[i] = p[i]
    /\ \A i \in DOMAIN a : i > d =>
        i + Len(p) - d \in DOMAIN n /\ n[i + Len(p) - d] = a[i]
    /\ \A i \in DOMAIN n :
        \/ i \in DOMAIN p /\ n[i] = p[i]
        \/ /\ i > Len(p)
           /\ i + d - Len(p) \in DOMAIN a /\ i + d - Len(p) > d
           /\ n[i] = a[i + d - Len(p)]

(* Concatenation, place by place.                                           *)
Joined(n, p, b) ==
    /\ Len(n) = Len(p) + Len(b)
    /\ \A i \in 1 .. Len(p) : n[i] = p[i]
    /\ \A i \in 1 .. Len(n) : i > Len(p) => n[i] = b[i - Len(p)]
    /\ Len(p) \in Nat /\ Len(b) \in Nat /\ DOMAIN n = 1 .. Len(n)
    /\ DOMAIN p = 1 .. Len(p) /\ DOMAIN b = 1 .. Len(b)

\* Places that move together.
LEMMA LaterPlaces ==
    ASSUME NEW k \in Nat, NEW d \in Nat, NEW l \in Nat, k > d, NEW m, m = k + l - d
    PROVE  /\ k + 1 > d /\ k + 2 > d
           /\ (k + 1) + l - d = m + 1 /\ (k + 2) + l - d = m + 2
  OBVIOUS

\* There and back.
LEMMA PlaceBack ==
    ASSUME NEW k \in Nat, NEW d \in Nat, NEW l \in Nat, NEW m, m = k + d - l
    PROVE  m + l - d = k
  OBVIOUS

\* A place before another.
LEMMA EarlierPlace ==
    ASSUME NEW l \in Nat, NEW k \in Nat, k + 2 \in 1 .. l
    PROVE  k + 1 \in 1 .. l
  OBVIOUS

\* The place before, in both lists.
LEMMA PlaceBefore ==
    ASSUME NEW k \in Nat, NEW d \in Nat, NEW l \in Nat, NEW la \in Nat, NEW m \in 1 .. la,
           m = k + d - l, m > 1, m - 1 > d
    PROVE  m - 1 \in 1 .. la /\ (m - 1) + l - d = k - 1 /\ k > 1
  OBVIOUS

\* Where a step that stays is found behind the steps in front.
LEMMA PlaceBehind ==
    ASSUME NEW la \in Nat, NEW lp \in Nat, NEW ln \in Nat, NEW i \in 1 .. la, i > 1,
           ln = lp + la - 1, NEW k \in Int, k = i + lp - 1
    PROVE  k \in 1 .. ln /\ k > lp /\ k + 1 - lp = i
  OBVIOUS

\* That is what concatenation does.
LEMMA Concat ==
    ASSUME NEW S, NEW p \in Seq(S), NEW b \in Seq(S), NEW n, n = p \o b
    PROVE  n \in Seq(S) /\ Joined(n, p, b)
  <1>1. /\ n \in Seq(S) /\ Len(n) = Len(p) + Len(b)
        /\ \A i \in 1 .. Len(p) + Len(b) :
            n[i] = IF i <= Len(p) THEN p[i] ELSE b[i - Len(p)]
    BY ConcatProperties, Zenon
  <1>2. /\ Len(p) \in Nat /\ Len(b) \in Nat /\ DOMAIN n = 1 .. Len(n)
        /\ DOMAIN p = 1 .. Len(p) /\ DOMAIN b = 1 .. Len(b)
    BY <1>1, LenProperties
  <1>3. \A i \in 1 .. Len(p) : n[i] = p[i]
    BY <1>1, <1>2
  <1>4. \A i \in 1 .. Len(n) : i > Len(p) => n[i] = b[i - Len(p)]
    BY <1>1, <1>2
  <1> QED BY <1>1, <1>2, <1>3, <1>4 DEF Joined

\* A list joined to the tail of another.
LEMMA TailJoined ==
    ASSUME NEW S, NEW a \in Seq(S), a # <<>>, NEW p \in Seq(S), NEW b \in Seq(S),
           NEW n \in Seq(S), Joined(n, p, b),
           Len(b) = Len(a) - 1, \A i \in 1 .. Len(b) : b[i] = a[i + 1]
    PROVE  Splice(n, p, a, 1)
  <1>3. /\ Len(n) = Len(p) + Len(b)
        /\ \A i \in 1 .. Len(p) : n[i] = p[i]
        /\ \A i \in 1 .. Len(n) : i > Len(p) => n[i] = b[i - Len(p)]
    BY DEF Joined
  <1>4. /\ Len(a) \in Nat /\ Len(a) >= 1 /\ Len(p) \in Nat /\ Len(b) \in Nat
        /\ DOMAIN a = 1 .. Len(a) /\ DOMAIN p = 1 .. Len(p) /\ DOMAIN n = 1 .. Len(n)
    BY EmptySeq
  <1>9. 1 \in 0 .. Len(a) /\ Len(n) = Len(p) + Len(a) - 1
    BY <1>3, <1>4
  <1>5. \A i \in DOMAIN n : i > Len(p) =>
            /\ i + 1 - Len(p) \in DOMAIN a /\ i + 1 - Len(p) > 1
            /\ n[i] = a[i + 1 - Len(p)]
    <2> TAKE i \in DOMAIN n
    <2> HAVE i > Len(p)
    <2>1. PICK k \in Int : k = i - Len(p)
      BY <1>4
    <2>2. k \in 1 .. Len(b) /\ i + 1 - Len(p) = k + 1
      <3>1. i \in 1 .. Len(n) /\ i > Len(p)
        BY <1>4, Zenon
      <3> QED BY ONLY <1>3, <1>4, <2>1, <3>1
    <2>3. n[i] = b[k] /\ b[k] = a[k + 1]
      BY <1>3, <1>4, <2>1, <2>2
    <2> QED BY <1>4, <2>2, <2>3
  <1>6. \A i \in DOMAIN a : i > 1 =>
            i + Len(p) - 1 \in DOMAIN n /\ n[i + Len(p) - 1] = a[i]
    <2> TAKE i \in DOMAIN a
    <2> HAVE i > 1
    <2>1. PICK k \in Int : k = i + Len(p) - 1
      BY <1>4
    <2>2. k \in DOMAIN n /\ k > Len(p) /\ k + 1 - Len(p) = i
      <3>0. Len(n) \in Nat
        OBVIOUS
      <3>1. PICK la \in Nat, lp \in Nat, ln \in Nat : la = Len(a) /\ lp = Len(p) /\ ln = Len(n)
        BY <1>4, <3>0, Zenon
      <3>2. /\ i \in 1 .. la /\ ln = lp + la - 1 /\ k = i + lp - 1
            /\ i > 1 /\ k \in Int
        BY <1>4, <1>9, <2>1, <3>1, Zenon
      <3>3. k \in 1 .. ln /\ k > lp /\ k + 1 - lp = i
        BY ONLY <3>1, <3>2, PlaceBehind
      <3> QED BY <1>4, <3>1, <3>3, Zenon
    <2> QED BY <1>5, <2>1, <2>2
  <1>7. \A i \in DOMAIN p : i \in DOMAIN n /\ n[i] = p[i]
    BY <1>3, <1>4
  <1>8. \A i \in DOMAIN n : i \in DOMAIN p \/ i > Len(p)
    BY <1>4
  <1> QED BY <1>5, <1>6, <1>7, <1>8, <1>9 DEF Splice

\* A call puts the steps of the callee in front of the rest.
LEMMA CallSplices ==
    ASSUME NEW S, NEW a \in Seq(S), a # <<>>, NEW p \in Seq(S), NEW n, n = p \o Tail(a)
    PROVE  n \in Seq(S) /\ Splice(n, p, a, 1)
  <1> DEFINE b == Tail(a)
  <1>1. /\ b \in Seq(S) /\ Len(b) = Len(a) - 1
        /\ \A i \in 1 .. Len(b) : b[i] = a[i + 1]
    BY HeadTailProperties
  <1>2. n = p \o b
    OBVIOUS
  <1> HIDE DEF b
  <1>3. n \in Seq(S) /\ Joined(n, p, b)
    BY <1>1, <1>2, Concat
  <1> QED BY <1>1, <1>3, TailJoined

\* A thread that goes on drops the step it took.
LEMMA TailSplices ==
    ASSUME NEW S, NEW a \in Seq(S), a # <<>>, NEW n, n = Tail(a)
    PROVE  n \in Seq(S) /\ Splice(n, <<>>, a, 1)
  BY DEF Splice

\* A suffix.
LEMMA SuffixSplices ==
    ASSUME NEW S, NEW a \in Seq(S), NEW d \in 0 .. Len(a), NEW n,
           n = SubSeq(a, d + 1, Len(a))
    PROVE  n \in Seq(S) /\ Splice(n, <<>>, a, d)
  <1>1. n \in Seq(S) /\ Len(n) = Len(a) - d
    OBVIOUS
  <1>2. \A i \in 1 .. Len(n) : n[i] = a[i + d]
    OBVIOUS
  <1> QED BY <1>1, <1>2 DEF Splice

\* A list that replaces the last step, or all of them.
LEMMA AllSplices ==
    ASSUME NEW S, NEW a \in Seq(S), NEW n \in Seq(S)
    PROVE  Splice(n, n, a, Len(a))
  BY DEF Splice

\* Steps that are about no connection.
Plain == {Do(what) : what \in {"set_stop", "close_listener", "close_pending",
            "put_sentinel", "put_sentinel_again", "make_room", "join_worker", "wake",
            "join_maintenance", "drain", "raise"}}

\* request_shutdown stops before it closes the listener.
LEMMA ShutdownList ==
    ASSUME NEW r, r = request_shutdown
    PROVE  /\ r \in Seq(Plain) /\ Len(r) = 2
           /\ r[1] = Do("set_stop") /\ r[2] = Do("close_listener")
  <1>1. Do("set_stop") \in Plain /\ Do("close_listener") \in Plain
    BY DEF Plain
  <1> QED BY <1>1 DEF request_shutdown

(* The two workers are stopped: closed, woken, joined, drained.             *)
StopAt(r, o) ==
    /\ r[o + 1] = Do("close_pending") /\ r[o + 2] = Do("put_sentinel")
    /\ r[o + 3] = Do("join_worker") /\ r[o + 4] = Do("wake")
    /\ r[o + 5] = Do("join_maintenance") /\ r[o + 6] = Do("drain")

(* A shutdown is asked for.                                                 *)
ShutdownAt(r, o) == r[o + 1] = Do("set_stop") /\ r[o + 2] = Do("close_listener")

IsStop(r) == r \in Seq(Plain) /\ Len(r) = 6 /\ StopAt(r, 0)
IsRelease(r) == r \in Seq(Plain) /\ Len(r) = 8 /\ ShutdownAt(r, 0) /\ StopAt(r, 2)
IsLeave(r) ==
    r \in Seq(Plain) /\ Len(r) = 14 /\ StopAt(r, 0) /\ ShutdownAt(r, 6) /\ StopAt(r, 8)

\* What a list holds is found behind another.
LEMMA StopMoves ==
    ASSUME NEW n, NEW p, NEW b, Joined(n, p, b), NEW o \in Nat,
           StopAt(b, o), Len(b) >= o + 6
    PROVE  StopAt(n, Len(p) + o)
  <1>1. ASSUME NEW i \in 1 .. 6 PROVE n[Len(p) + o + i] = b[o + i]
    <2>1. PICK j : j = Len(p) + o + i
      OBVIOUS
    <2>2. j \in 1 .. Len(n) /\ j > Len(p) /\ j - Len(p) = o + i
      BY <2>1 DEF Joined
    <2>3. \A x \in 1 .. Len(n) : x > Len(p) => n[x] = b[x - Len(p)]
      BY Zenon DEF Joined
    <2>4. n[j] = b[j - Len(p)]
      BY <2>2, <2>3, Zenon
    <2> QED BY <2>1, <2>2, <2>4, Zenon
  <1>2. 1 \in 1 .. 6 /\ 2 \in 1 .. 6 /\ 3 \in 1 .. 6 /\ 4 \in 1 .. 6 /\ 5 \in 1 .. 6 /\ 6 \in 1 .. 6
    OBVIOUS
  <1> QED BY <1>1, <1>2, Zenon DEF StopAt

\* And what the first of two lists holds is found in front.
LEMMA StopStays ==
    ASSUME NEW n, NEW p, NEW b, Joined(n, p, b), NEW o \in Nat,
           StopAt(p, o), Len(p) >= o + 6
    PROVE  StopAt(n, o)
  <1>1. ASSUME NEW i \in 1 .. 6 PROVE n[o + i] = p[o + i]
    <2>1. o + i \in 1 .. Len(p)
      BY DEF Joined
    <2> QED BY <2>1 DEF Joined
  <1> QED BY <1>1 DEF StopAt

\* stop_worker, then stop_maintenance_worker.
LEMMA StopList == IsStop(stop_worker \o stop_maintenance_worker)
  <1>1. PICK a : a = stop_worker
    OBVIOUS
  <1>2. PICK b : b = stop_maintenance_worker
    OBVIOUS
  <1>3. PICK r : r = a \o b
    OBVIOUS
  <1>4. /\ Do("close_pending") \in Plain /\ Do("put_sentinel") \in Plain
        /\ Do("join_worker") \in Plain /\ Do("wake") \in Plain
        /\ Do("join_maintenance") \in Plain /\ Do("drain") \in Plain
    BY DEF Plain
  <1>5. /\ a \in Seq(Plain) /\ Len(a) = 3 /\ a[1] = Do("close_pending")
        /\ a[2] = Do("put_sentinel") /\ a[3] = Do("join_worker")
    BY <1>1, <1>4 DEF stop_worker
  <1>6. /\ b \in Seq(Plain) /\ Len(b) = 3 /\ b[1] = Do("wake")
        /\ b[2] = Do("join_maintenance") /\ b[3] = Do("drain")
    BY <1>2, <1>4 DEF stop_maintenance_worker
  <1>7. r \in Seq(Plain) /\ Joined(r, a, b)
    BY <1>3, <1>5, <1>6, Concat
  <1>8. /\ Len(r) = 6 /\ r[1] = a[1] /\ r[2] = a[2] /\ r[3] = a[3]
        /\ r[4] = b[1] /\ r[5] = b[2] /\ r[6] = b[3]
    <2>1. Len(a) = 3 /\ Len(b) = 3
      BY <1>5, <1>6
    <2> QED BY <1>7, <2>1 DEF Joined
  <1>9. IsStop(r)
    BY <1>5, <1>6, <1>7, <1>8 DEF IsStop, StopAt
  <1> QED BY <1>1, <1>2, <1>3, <1>9

\* The release of the backend: a shutdown, then both stops.
LEMMA ReleaseList == IsRelease(release_backend_ownership)
  <1>1. PICK a : a = request_shutdown
    OBVIOUS
  <1>2. PICK b : b = stop_worker \o stop_maintenance_worker
    OBVIOUS
  <1>3. PICK r : r = a \o b
    OBVIOUS
  <1>4. r = release_backend_ownership
    <2>1. /\ request_shutdown \in Seq(Plain) /\ stop_worker \in Seq(Plain)
          /\ stop_maintenance_worker \in Seq(Plain)
      <3>1. /\ Do("close_pending") \in Plain /\ Do("put_sentinel") \in Plain
            /\ Do("join_worker") \in Plain /\ Do("wake") \in Plain
            /\ Do("join_maintenance") \in Plain /\ Do("drain") \in Plain
        BY DEF Plain
      <3> QED BY <3>1, ShutdownList DEF stop_worker, stop_maintenance_worker
    <2>2. (request_shutdown \o stop_worker) \o stop_maintenance_worker =
          request_shutdown \o (stop_worker \o stop_maintenance_worker)
      <3>1. PICK x, y, z : /\ x = request_shutdown /\ y = stop_worker
                           /\ z = stop_maintenance_worker
        OBVIOUS
      <3>2. x \in Seq(Plain) /\ y \in Seq(Plain) /\ z \in Seq(Plain)
        BY <2>1, <3>1
      <3>3. (x \o y) \o z = x \o (y \o z)
        BY <3>2, ConcatAssociative
      <3> QED BY <3>1, <3>3, Zenon
    <2> QED BY <1>1, <1>2, <1>3, <2>2, Zenon DEF release_backend_ownership
  <1>5. a \in Seq(Plain) /\ Len(a) = 2 /\ ShutdownAt(a, 0)
    BY <1>1, ShutdownList DEF ShutdownAt
  <1>6. b \in Seq(Plain) /\ Len(b) = 6 /\ StopAt(b, 0)
    BY <1>2, StopList DEF IsStop
  <1>7. r \in Seq(Plain) /\ Joined(r, a, b)
    BY <1>3, <1>5, <1>6, Concat
  <1>8. Len(r) = 8 /\ r[1] = a[1] /\ r[2] = a[2]
    <2>1. Len(a) = 2 /\ Len(b) = 6
      BY <1>5, <1>6
    <2> QED BY <1>7, <2>1 DEF Joined
  <1>9. StopAt(r, 2)
    <2>1. 0 \in Nat /\ Len(b) >= 0 + 6 /\ Len(a) + 0 = 2
      BY <1>5, <1>6
    <2>2. StopAt(r, Len(a) + 0)
      BY <1>6, <1>7, <2>1, StopMoves, Zenon
    <2> QED BY <2>1, <2>2
  <1> QED BY <1>4, <1>5, <1>7, <1>8, <1>9 DEF IsRelease, ShutdownAt

\* What is left to main when it leaves the accept loop.
LEMMA LeaveList ==
    IsLeave(stop_worker \o stop_maintenance_worker \o release_backend_ownership)
  <1>1. PICK a : a = stop_worker \o stop_maintenance_worker
    OBVIOUS
  <1>2. PICK b : b = release_backend_ownership
    OBVIOUS
  <1>3. PICK r : r = a \o b
    OBVIOUS
  <1>5. a \in Seq(Plain) /\ Len(a) = 6 /\ StopAt(a, 0)
    BY <1>1, StopList DEF IsStop
  <1>6. b \in Seq(Plain) /\ Len(b) = 8 /\ ShutdownAt(b, 0) /\ StopAt(b, 2)
    BY <1>2, ReleaseList DEF IsRelease
  <1>7. r \in Seq(Plain) /\ Joined(r, a, b)
    BY <1>3, <1>5, <1>6, Concat
  <1>8. Len(r) = 14 /\ r[7] = b[1] /\ r[8] = b[2]
    <2>1. Len(a) = 6 /\ Len(b) = 8
      BY <1>5, <1>6
    <2> QED BY <1>7, <2>1 DEF Joined
  <1>9. StopAt(r, 0) /\ StopAt(r, 8)
    <2>1. /\ 2 \in Nat /\ Len(b) >= 2 + 6 /\ Len(a) + 2 = 8
          /\ 0 \in Nat /\ Len(a) >= 0 + 6
      BY <1>5, <1>6
    <2>2. StopAt(r, Len(a) + 2)
      BY <1>6, <1>7, <2>1, StopMoves, Zenon
    <2>3. StopAt(r, 0)
      BY <1>5, <1>7, <2>1, StopStays, Zenon
    <2> QED BY <2>1, <2>2, <2>3
  <1>10. IsLeave(r)
    BY <1>6, <1>7, <1>8, <1>9 DEF IsLeave, ShutdownAt
  <1> QED BY <1>1, <1>2, <1>3, <1>10

-----------------------------------------------------------------------------
(* The actions that are popped.  What popped computes is shown on a least   *)
(* place where it would fail.                                               *)

(* q holds, in places of their own, the first n actions of a that are kept. *)
Selects(q, a, b, n) ==
    \E f \in [1 .. Len(q) -> 1 .. n] :
        /\ \A i, k \in 1 .. Len(q) : f[i] = f[k] => i = k
        /\ \A i \in 1 .. Len(q) : q[i] = a[f[i]]
        /\ \A k \in 1 .. n :
            ~b \/ a[k].op \in ShutdownOps => \E i \in 1 .. Len(q) : f[i] = k

\* One more action is looked at and kept ...
LEMMA SelectsOneMore ==
    ASSUME NEW S, NEW a \in Seq(S), NEW b \in BOOLEAN, NEW n \in Nat, n < Len(a),
           NEW q \in Seq(S), Selects(q, a, b, n), NEW r \in Seq(S),
           Len(r) = Len(q) + 1, r[Len(r)] = a[n + 1],
           \A i \in 1 .. Len(q) : r[i] = q[i]
    PROVE  Selects(r, a, b, n + 1)
  <1>1. Len(q) \in Nat /\ Len(r) \in Nat
    OBVIOUS
  <1>2. PICK f \in [1 .. Len(q) -> 1 .. n] :
            /\ \A i, k \in 1 .. Len(q) : f[i] = f[k] => i = k
            /\ \A i \in 1 .. Len(q) : q[i] = a[f[i]]
            /\ \A k \in 1 .. n :
                ~b \/ a[k].op \in ShutdownOps => \E i \in 1 .. Len(q) : f[i] = k
    BY DEF Selects
  <1>10. PICK lq \in Nat : lq = Len(q) /\ Len(r) = lq + 1
    BY <1>1
  <1>11. PICK g : g = [i \in 1 .. lq + 1 |-> IF i = lq + 1 THEN n + 1 ELSE f[i]]
    OBVIOUS
  <1>12. \A i \in 1 .. lq : f[i] \in 1 .. n
    BY <1>10
  <1>3. g \in [1 .. Len(r) -> 1 .. n + 1]
    <2>1. \A i \in 1 .. lq + 1 : g[i] \in 1 .. n + 1
      BY <1>11, <1>12
    <2> QED BY <1>10, <1>11, <2>1
  <1>13. g[lq + 1] = n + 1 /\ \A i \in 1 .. lq : g[i] = f[i]
    BY <1>11
  <1>4. g[Len(r)] = n + 1 /\ \A i \in 1 .. Len(q) : g[i] = f[i] /\ f[i] \in 1 .. n
    BY <1>10, <1>12, <1>13
  <1>5. \A i, k \in 1 .. Len(r) : g[i] = g[k] => i = k
    <2> TAKE i, k \in 1 .. Len(r)
    <2> HAVE g[i] = g[k]
    <2>1. /\ i \in 1 .. lq \/ i = lq + 1
          /\ k \in 1 .. lq \/ k = lq + 1
      BY <1>10
    <2>2. CASE i \in 1 .. lq /\ k \in 1 .. lq
      BY <1>2, <1>10, <1>13, <2>2
    <2>3. CASE i \in 1 .. lq /\ k = lq + 1
      BY <1>12, <1>13, <2>3
    <2>4. CASE i = lq + 1 /\ k \in 1 .. lq
      BY <1>12, <1>13, <2>4
    <2> QED BY <2>1, <2>2, <2>3, <2>4
  <1>6. \A i \in 1 .. Len(r) : r[i] = a[g[i]]
    <2> TAKE i \in 1 .. Len(r)
    <2>1. i \in 1 .. Len(q) \/ i = Len(r)
      BY <1>10
    <2> QED BY <1>2, <1>4, <2>1, Zenon
  <1>7. \A k \in 1 .. n + 1 :
            ~b \/ a[k].op \in ShutdownOps => \E i \in 1 .. Len(r) : g[i] = k
    <2> SUFFICES ASSUME NEW k \in 1 .. n + 1, ~b \/ a[k].op \in ShutdownOps
                 PROVE  \E i \in 1 .. Len(r) : g[i] = k
      OBVIOUS
    <2>1. CASE k = n + 1
      BY <1>1, <1>4, <2>1
    <2>2. CASE k \in 1 .. n
      <3>1. PICK i \in 1 .. Len(q) : f[i] = k
        BY <1>2, <2>2
      <3>2. i \in 1 .. Len(r)
        BY <1>10, <3>1
      <3>3. g[i] = k
        BY <1>4, <3>1
      <3> QED BY <3>2, <3>3, Zenon
    <2> QED BY <2>1, <2>2
  <1> QED BY <1>3, <1>5, <1>6, <1>7 DEF Selects

\* ... or looked at and dropped.
LEMMA SelectsNoMore ==
    ASSUME NEW S, NEW a \in Seq(S), NEW b \in BOOLEAN, NEW n \in Nat, n < Len(a),
           NEW q \in Seq(S), Selects(q, a, b, n), ~(~b \/ a[n + 1].op \in ShutdownOps)
    PROVE  Selects(q, a, b, n + 1)
  <1>1. PICK f \in [1 .. Len(q) -> 1 .. n] :
            /\ \A i, k \in 1 .. Len(q) : f[i] = f[k] => i = k
            /\ \A i \in 1 .. Len(q) : q[i] = a[f[i]]
            /\ \A k \in 1 .. n :
                ~b \/ a[k].op \in ShutdownOps => \E i \in 1 .. Len(q) : f[i] = k
    BY DEF Selects
  <1>2. f \in [1 .. Len(q) -> 1 .. n + 1]
    OBVIOUS
  <1>3. \A k \in 1 .. n + 1 : k = n + 1 \/ k \in 1 .. n
    OBVIOUS
  <1> QED BY <1>1, <1>2, <1>3 DEF Selects

\* popped keeps the actions it should, and each once.
LEMMA PoppedSelects ==
    ASSUME NEW S, NEW s, s.actions \in Seq(S), NEW b \in BOOLEAN
    PROVE  /\ popped(s, b) \in Seq(S)
           /\ Selects(popped(s, b), s.actions, b, Len(s.actions))
  <1> DEFINE a == s.actions
             Body(g, i) == IF i = 0 THEN <<>>
                           ELSE IF ~b \/ a[i].op \in ShutdownOps
                                THEN Append(g[i - 1], a[i]) ELSE g[i - 1]
             keep == CHOOSE g : g = [i \in 0 .. Len(a) |-> Body(g, i)]
             Bad == {n \in 0 .. Len(a) : ~\E g : g = [i \in 0 .. n |-> Body(g, i)]}
             Wrong == {n \in 0 .. Len(a) :
                        ~(keep[n] \in Seq(S) /\ Selects(keep[n], a, b, n))}
  <1>0. Len(a) \in Nat
    OBVIOUS
  <1>1. popped(s, b) = keep[Len(a)]
    BY DEF popped
  <1>2. Bad = {}
    <2> SUFFICES ASSUME Bad # {} PROVE FALSE
      OBVIOUS
    <2>1. PICK m \in Bad : \A n \in Bad : m <= n
      <3>1. Bad \in SUBSET Nat
        BY <1>0
      <3> QED BY <3>1, Lemmas!LeastNat
    <2>2. CASE m = 0
      <3>1. PICK g : g = [i \in 0 .. 0 |-> <<>>]
        OBVIOUS
      <3>2. g = [i \in 0 .. 0 |-> Body(g, i)]
        BY <3>1
      <3> QED BY <2>1, <2>2, <3>2
    <2>3. CASE m # 0
      <3>0. m \in 0 .. Len(a)
        OBVIOUS
      <3>1. m \in Nat /\ m - 1 \in 0 .. Len(a) /\ m - 1 \notin Bad
        <4>1. m \in Nat /\ m - 1 \in 0 .. Len(a) /\ ~(m <= m - 1)
          BY <1>0, <2>3, <3>0
        <4> QED BY <2>1, <4>1, Zenon
      <3>2. PICK g : g = [i \in 0 .. m - 1 |-> Body(g, i)]
        BY <3>1
      <3>3. PICK h : h = [i \in 0 .. m |-> IF i = m THEN Body(g, m) ELSE g[i]]
        OBVIOUS
      <3>4. \A i \in 0 .. m - 1 : h[i] = g[i] /\ g[i] = Body(g, i)
        <4>1. \A i \in 0 .. m - 1 : i \in 0 .. m /\ i # m
          BY <3>1
        <4>2. \A i \in 0 .. m - 1 : g[i] = Body(g, i)
          BY <3>2, Zenon
        <4>3. \A i \in 0 .. m - 1 : h[i] = g[i]
          BY <3>3, <4>1
        <4> QED BY <4>2, <4>3
      <3>5. ASSUME NEW i \in 0 .. m PROVE h[i] = Body(h, i)
        <4>1. h[i] = Body(g, i)
          <5>1. CASE i = m
            BY <3>3, <5>1
          <5>2. CASE i # m
            <6>1. i \in 0 .. m - 1
              BY <3>1, <5>2
            <6> QED BY <3>4, <6>1, Zenon
          <5> QED BY <5>1, <5>2
        <4>2. i = 0 \/ h[i - 1] = g[i - 1]
          BY <3>1, <3>4
        <4> QED BY <4>1, <4>2
      <3>6. h = [i \in 0 .. m |-> h[i]]
        BY <3>3
      <3>7. h = [i \in 0 .. m |-> Body(h, i)]
        BY <3>5, <3>6
      <3> QED BY <2>1, <3>7
    <2> QED BY <2>2, <2>3
  <1>3. keep = [i \in 0 .. Len(a) |-> Body(keep, i)]
    <2>1. \E g : g = [i \in 0 .. Len(a) |-> Body(g, i)]
      <3>1. Len(a) \in 0 .. Len(a)
        BY <1>0
      <3> QED BY <1>2, <3>1, Zenon
    <2> QED BY <2>1, Zenon
  <1> HIDE DEF keep
  <1>4. \A i \in 0 .. Len(a) : keep[i] = Body(keep, i)
    BY <1>3
  <1>5. Wrong = {}
    <2> SUFFICES ASSUME Wrong # {} PROVE FALSE
      OBVIOUS
    <2>1. PICK m \in Wrong : \A n \in Wrong : m <= n
      <3>1. Wrong \in SUBSET Nat
        BY <1>0
      <3> QED BY <3>1, Lemmas!LeastNat
    <2>2. CASE m = 0
      <3>1. keep[0] = <<>>
        BY <1>0, <1>4
      <3>2. PICK q \in Seq(S) : q = <<>> /\ Len(q) = 0
        BY EmptySeq
      <3>3. Selects(q, a, b, 0)
        <4>1. PICK f : f = [i \in 1 .. 0 |-> i]
          OBVIOUS
        <4>2. f \in [1 .. Len(q) -> 1 .. 0]
          BY <3>2, <4>1
        <4>3. \A i : i \notin 1 .. 0
          OBVIOUS
        <4>4. 1 .. Len(q) = 1 .. 0
          BY <3>2
        <4>5. \A i : i \notin 1 .. Len(q)
          BY <4>3, <4>4
        <4> QED BY <4>2, <4>3, <4>5, Zenon DEF Selects
      <3> QED BY <2>1, <2>2, <3>1, <3>2, <3>3
    <2>3. CASE m # 0
      <3>1. PICK n \in Nat : m = n + 1 /\ n < Len(a) /\ n \in 0 .. Len(a) /\ n \notin Wrong
        <4>1. m - 1 \in 0 .. Len(a) /\ m - 1 \notin Wrong /\ m - 1 < Len(a)
              /\ m = (m - 1) + 1 /\ m - 1 \in Nat
          BY <1>0, <2>1, <2>3
        <4> QED BY <4>1
      <3>2. keep[n] \in Seq(S) /\ Selects(keep[n], a, b, n)
        BY <3>1
      <3>3. keep[n + 1] = Body(keep, n + 1)
        BY <1>0, <1>4, <3>1
      <3>4. PICK q \in Seq(S) : q = keep[n] /\ Selects(q, a, b, n)
        BY <3>2
      <3>5. CASE ~b \/ a[n + 1].op \in ShutdownOps
        <4>1. keep[n + 1] = Append(q, a[n + 1])
          BY <3>1, <3>3, <3>4, <3>5
        <4>2. keep[n + 1] \in Seq(S) /\ Selects(keep[n + 1], a, b, n + 1)
          <5>1. PICK r : r = Append(q, a[n + 1])
            OBVIOUS
          <5>2. a[n + 1] \in S
            BY <1>0, <3>1, ElementOfSeq
          <5>3. /\ r \in Seq(S) /\ Len(r) = Len(q) + 1 /\ r[Len(q) + 1] = a[n + 1]
                /\ \A i \in 1 .. Len(q) : r[i] = q[i]
            BY <5>1, <5>2, AppendProperties
          <5>4. Selects(r, a, b, n + 1)
            <6>1. r[Len(r)] = a[n + 1]
              BY <5>3
            <6> QED BY <3>1, <3>4, <5>3, <6>1, SelectsOneMore, Zenon
          <5> QED BY <4>1, <5>1, <5>3, <5>4
        <4> QED BY <2>1, <3>1, <4>2
      <3>6. CASE ~(~b \/ a[n + 1].op \in ShutdownOps)
        <4>1. keep[n + 1] = q
          BY <3>1, <3>3, <3>4, <3>6
        <4>2. Selects(q, a, b, n + 1)
          BY <3>1, <3>4, <3>6, SelectsNoMore
        <4> QED BY <2>1, <3>1, <4>1, <4>2
      <3> QED BY <3>5, <3>6
    <2> QED BY <2>2, <2>3
  <1> QED BY <1>0, <1>1, <1>5

(* A batch: the actions in their order, then the end.                       *)
IsBatch(p, q) ==
    /\ Len(q) = 0 => Len(p) = 0
    /\ Len(q) # 0 =>
        /\ Len(p) = Len(q) + 1
        /\ p[Len(p)] = Do("end_batch")
        /\ \A i \in 1 .. Len(q) : p[i] = Run(q[i])

\* Batch makes one.
LEMMA BatchList ==
    ASSUME NEW S, NEW T, NEW q \in Seq(T), \A i \in 1 .. Len(q) : Run(q[i]) \in S,
           Do("end_batch") \in S
    PROVE  Batch(q) \in Seq(S) /\ IsBatch(Batch(q), q)
  <1>1. CASE q = <<>>
    BY <1>1, EmptySeq DEF Batch, IsBatch
  <1>2. CASE q # <<>>
    <2>1. PICK b : b = [i \in 1 .. Len(q) |-> Run(q[i])]
      OBVIOUS
    <2>2. PICK e : e = <<Do("end_batch")>>
      OBVIOUS
    <2>3. PICK p : p = b \o e
      OBVIOUS
    <2>4. Batch(q) = p
      BY <1>2, <2>1, <2>2, <2>3 DEF Batch
    <2>5. Len(q) \in Nat
      OBVIOUS
    <2>6. /\ b \in Seq(S) /\ Len(b) = Len(q)
          /\ \A i \in 1 .. Len(q) : b[i] = Run(q[i])
      BY <2>1, <2>5
    <2>7. e \in Seq(S) /\ Len(e) = 1 /\ e[1] = Do("end_batch")
      BY <2>2
    <2>8. p \in Seq(S) /\ Joined(p, b, e)
      BY <2>3, <2>6, <2>7, Concat
    <2>9. /\ Len(p) = Len(q) + 1 /\ p[Len(p)] = Do("end_batch")
          /\ \A i \in 1 .. Len(q) : p[i] = Run(q[i])
      <3>1. Len(b) = Len(q) /\ Len(e) = 1
        BY <2>6, <2>7
      <3>2. Len(p) = Len(q) + 1 /\ Len(p) - Len(b) = 1
        BY <2>5, <2>8, <3>1 DEF Joined
      <3>3. p[Len(p)] = e[Len(p) - Len(b)]
        BY <2>5, <2>8, <3>1, <3>2 DEF Joined
      <3>4. \A i \in 1 .. Len(q) : p[i] = b[i]
        BY <2>8, <3>1 DEF Joined
      <3> QED BY <2>6, <2>7, <3>2, <3>3, <3>4
    <2>10. Len(q) # 0
      BY <1>2, EmptySeq
    <2> QED BY <2>4, <2>8, <2>9, <2>10 DEF IsBatch
  <1> QED BY <1>1, <1>2

\* One more step at the end of a list.
LEMMA ThenOne ==
    ASSUME NEW S, NEW b \in Seq(S), NEW x \in S
    PROVE  /\ b \o <<x>> \in Seq(S) /\ Len(b \o <<x>>) = Len(b) + 1
           /\ (b \o <<x>>)[Len(b) + 1] = x
           /\ \A i \in 1 .. Len(b) : (b \o <<x>>)[i] = b[i]
  <1>1. PICK e : e = <<x>>
    OBVIOUS
  <1>2. PICK p : p = b \o e
    OBVIOUS
  <1>3. e \in Seq(S) /\ Len(e) = 1 /\ e[1] = x
    BY <1>1
  <1>4. p \in Seq(S) /\ Joined(p, b, e)
    BY <1>2, <1>3, Concat
  <1>5. /\ Len(p) = Len(b) + 1 /\ p[Len(b) + 1] = x
        /\ \A i \in 1 .. Len(b) : p[i] = b[i]
    <2>1. /\ Len(e) = 1 /\ Len(b) \in Nat /\ Len(p) = Len(b) + 1
          /\ Len(b) + 1 - Len(b) = 1 /\ Len(b) + 1 \in 1 .. Len(p) /\ Len(b) + 1 > Len(b)
      BY <1>3, <1>4 DEF Joined
    <2>2. p[Len(b) + 1] = e[Len(b) + 1 - Len(b)]
      BY <1>4, <2>1 DEF Joined
    <2> QED BY <1>3, <1>4, <2>1, <2>2 DEF Joined
  <1> QED BY <1>1, <1>2, <1>4, <1>5

-----------------------------------------------------------------------------
(* A turn of a thread: it drops the first d steps of its agenda and puts p  *)
(* in front.                                                                *)

Turn(t, p, d) ==
    /\ p \in Seq(Steps') /\ agenda' \in [Threads -> Seq(Steps')]
    /\ Splice(agenda'[t], p, agenda[t], d)
    /\ \A u \in Threads \ {t} : agenda'[u] = agenda[u]

\* Steps stay steps when connections are added.
LEMMA AgendaGrows ==
    ASSUME Structure, Conns \subseteq Conns'
    PROVE  agenda \in [Threads -> Seq(Steps')]
  <1>1. Steps \subseteq Steps'
    BY DEF Steps
  <1>2. ASSUME NEW t \in Threads PROVE agenda[t] \in Seq(Steps')
    BY <1>1, SeqMonotonic DEF Structure, TypeOK
  <1> QED BY <1>2 DEF Structure, TypeOK

\* What Goes does to the agendas.
LEMMA GoesTo ==
    ASSUME Structure, Conns \subseteq Conns', NEW t \in Threads,
           NEW n \in Seq(Steps'), Goes(t, n)
    PROVE  /\ agenda' \in [Threads -> Seq(Steps')] /\ agenda'[t] = n
           /\ \A u \in Threads \ {t} : agenda'[u] = agenda[u]
  <1>1. agenda \in [Threads -> Seq(Steps')]
    BY AgendaGrows
  <1> QED BY <1>1 DEF Goes

\* A step is over.
LEMMA TurnOn ==
    ASSUME Structure, Conns \subseteq Conns', NEW t \in Threads, ~ended(t), GoesOn(t)
    PROVE  Turn(t, <<>>, 1)
  <1>1. agenda[t] \in Seq(Steps') /\ agenda[t] # <<>>
    BY AgendaGrows DEF ended
  <1>2. PICK n : n = Tail(agenda[t])
    OBVIOUS
  <1>3. n \in Seq(Steps') /\ Splice(n, <<>>, agenda[t], 1)
    BY <1>1, <1>2, TailSplices
  <1>4. Goes(t, n)
    BY <1>2 DEF GoesOn
  <1> QED BY <1>3, <1>4, GoesTo, EmptySeq DEF Turn

\* A step calls others.
LEMMA TurnCall ==
    ASSUME Structure, Conns \subseteq Conns', NEW t \in Threads, ~ended(t),
           NEW p \in Seq(Steps'), Calls(t, p)
    PROVE  Turn(t, p, 1)
  <1>1. agenda[t] \in Seq(Steps') /\ agenda[t] # <<>>
    BY AgendaGrows DEF ended
  <1>2. PICK n : n = p \o Tail(agenda[t])
    OBVIOUS
  <1>3. n \in Seq(Steps') /\ Splice(n, p, agenda[t], 1)
    BY <1>1, <1>2, CallSplices
  <1>4. Goes(t, n)
    BY <1>2 DEF Calls
  <1> QED BY <1>3, <1>4, GoesTo DEF Turn

\* Some steps are skipped.
LEMMA TurnSkip ==
    ASSUME Structure, Conns \subseteq Conns', NEW t \in Threads,
           NEW d \in 0 .. Len(agenda[t]),
           Goes(t, SubSeq(agenda[t], d + 1, Len(agenda[t])))
    PROVE  Turn(t, <<>>, d)
  <1>1. agenda[t] \in Seq(Steps')
    BY AgendaGrows
  <1>2. PICK n : n = SubSeq(agenda[t], d + 1, Len(agenda[t]))
    OBVIOUS
  <1>3. n \in Seq(Steps') /\ Splice(n, <<>>, agenda[t], d)
    BY <1>1, <1>2, SuffixSplices
  <1>4. Goes(t, n)
    BY <1>2
  <1> QED BY <1>3, <1>4, GoesTo, EmptySeq DEF Turn

\* A thread begins something else.
LEMMA TurnAll ==
    ASSUME Structure, Conns \subseteq Conns', NEW t \in Threads,
           NEW p \in Seq(Steps'), Goes(t, p)
    PROVE  Turn(t, p, Len(agenda[t]))
  <1>1. agenda[t] \in Seq(Steps')
    BY AgendaGrows
  <1> QED BY <1>1, GoesTo, AllSplices DEF Turn

\* A thread's agenda is a list of steps, and those of others are theirs.
LEMMA TurnDomains ==
    ASSUME Structure, NEW t \in Threads, NEW p, NEW d, Turn(t, p, d)
    PROVE  /\ DOMAIN p = 1 .. Len(p) /\ Len(p) \in Nat
           /\ \A u \in Threads : /\ DOMAIN agenda[u] = 1 .. Len(agenda[u])
                                 /\ DOMAIN agenda'[u] = 1 .. Len(agenda'[u])
                                 /\ Len(agenda[u]) \in Nat /\ Len(agenda'[u]) \in Nat
  <1>1. /\ agenda \in [Threads -> Seq(Steps)] /\ agenda' \in [Threads -> Seq(Steps')]
        /\ p \in Seq(Steps')
    BY DEF Structure, TypeOK, Turn
  <1>2. DOMAIN p = 1 .. Len(p) /\ Len(p) \in Nat
    BY <1>1, LenProperties
  <1>3. ASSUME NEW u \in Threads
        PROVE  /\ DOMAIN agenda[u] = 1 .. Len(agenda[u])
               /\ DOMAIN agenda'[u] = 1 .. Len(agenda'[u])
               /\ Len(agenda[u]) \in Nat /\ Len(agenda'[u]) \in Nat
    <2>1. agenda[u] \in Seq(Steps) /\ agenda'[u] \in Seq(Steps')
      BY <1>1
    <2> QED BY <2>1, LenProperties
  <1> QED BY <1>2, <1>3

\* A step is still about what it was about.
LEMMA StepStays ==
    ASSUME NEW t, NEW s, StepOK(t, s), limits' = limits, Conns \subseteq Conns',
           history.published => history'.published
    PROVE  StepOK(t, s)'
  BY DEF StepOK, ActionOK, requests

\* Nothing is said of a new agenda but of the steps in front.
LEMMA StepsKept ==
    ASSUME Structure, NEW t \in Threads, NEW p, NEW d, Turn(t, p, d),
           limits' = limits, Conns \subseteq Conns',
           history.published => history'.published,
           \A i \in DOMAIN p : StepOK(t, p[i])'
    PROVE  StepsOK'
  <1> SUFFICES ASSUME NEW u \in Threads, NEW k \in DOMAIN agenda'[u], NEW s,
                      s = agenda'[u][k]
               PROVE  StepOK(u, s)'
    BY DEF StepsOK
  <1>1. \A v \in Threads : \A i \in DOMAIN agenda[v] : StepOK(v, agenda[v][i])
    BY DEF Structure, StepsOK
  <1>2. CASE u # t
    <2>1. agenda'[u] = agenda[u]
      BY <1>2 DEF Turn
    <2>2. StepOK(u, s)
      BY <1>1, <2>1
    <2> QED BY <2>1, <2>2, StepStays
  <1>3. CASE u = t
    <2>1. CASE k \in DOMAIN p /\ agenda'[t][k] = p[k]
      BY <1>3, <2>1
    <2>2. CASE k + d - Len(p) \in DOMAIN agenda[t]
               /\ agenda'[t][k] = agenda[t][k + d - Len(p)]
      <3>1. StepOK(t, s)
        BY <1>1, <1>3, <2>2
      <3> QED BY <1>3, <3>1, StepStays
    <2> QED BY <1>3, <2>1, <2>2 DEF Turn, Splice
  <1> QED BY <1>2, <1>3

\* What came behind a step still does.
LEMMA SpliceFollowed ==
    ASSUME NEW n, NEW p, NEW a, NEW d, Splice(n, p, a, d), Followed(a),
           DOMAIN n = 1 .. Len(n), DOMAIN a = 1 .. Len(a), DOMAIN p = 1 .. Len(p),
           Len(p) \in Nat, Len(a) \in Nat, Len(n) \in Nat,
           NEW k \in DOMAIN a, k > d
    PROVE  FollowedAt(n, k + Len(p) - d)
  <1>m. PICK m : m = k + Len(p) - d
    OBVIOUS
  <1>0. d \in Nat /\ k \in Nat /\ Len(n) = Len(p) + Len(a) - d
    BY DEF Splice
  <1>1. \A i \in DOMAIN a : i > d => i + Len(p) - d \in DOMAIN n /\ n[i + Len(p) - d] = a[i]
    BY DEF Splice
  <1>2. m \in DOMAIN n /\ n[m] = a[k]
    BY <1>m, <1>1
  <1>3. FollowedAt(a, k)
    BY DEF Followed
  <1>4. n[m].do \in LastSteps => m = Len(n)
    <2>1. k = Len(a) => m = Len(n)
      BY <1>m, <1>0
    <2> QED BY <1>2, <1>3, <2>1 DEF FollowedAt
  <1>5. n[m].do \in {"enqueue", "put", "put_again"} => m + 1 = Len(n)
    <2>1. k + 1 = Len(a) => m + 1 = Len(n)
      <3>1. Len(p) \in Nat /\ Len(a) \in Nat
        OBVIOUS
      <3> QED BY ONLY <1>m, <1>0, <3>1
    <2> QED BY <1>2, <1>3, <2>1 DEF FollowedAt
  <1>6. n[m].do = "close_pending" =>
            /\ m + 2 \in DOMAIN n
            /\ n[m + 1].do = "put_sentinel" /\ n[m + 2].do = "join_worker"
    <2> HAVE n[m].do = "close_pending"
    <2>1. k + 2 \in DOMAIN a /\ a[k + 1].do = "put_sentinel" /\ a[k + 2].do = "join_worker"
      BY <1>2, <1>3 DEF FollowedAt
    <2>2. k + 1 \in DOMAIN a
      BY <1>0, <2>1, EarlierPlace, Zenon
    <2>3. /\ k + 1 > d /\ k + 2 > d
          /\ (k + 1) + Len(p) - d = m + 1 /\ (k + 2) + Len(p) - d = m + 2
      <3>1. Len(p) \in Nat /\ k > d
        OBVIOUS
      <3> QED BY ONLY <1>m, <1>0, <3>1, LaterPlaces
    <2> QED BY <1>1, <2>1, <2>2, <2>3
  <1>7. n[m].do = "wake" => m + 1 \in DOMAIN n /\ n[m + 1].do = "join_maintenance"
    <2> HAVE n[m].do = "wake"
    <2>1. k + 1 \in DOMAIN a /\ a[k + 1].do = "join_maintenance"
      BY <1>2, <1>3 DEF FollowedAt
    <2>2. k + 1 > d /\ (k + 1) + Len(p) - d = m + 1
      <3>1. Len(p) \in Nat /\ k > d
        OBVIOUS
      <3> QED BY ONLY <1>m, <1>0, <3>1, LaterPlaces
    <2> QED BY <1>1, <2>1, <2>2
  <1>8. ASSUME NEW i \in DOMAIN a, k < i
        PROVE  \E j \in DOMAIN n : m < j /\ n[j] = a[i]
    <2>1. i > d /\ m < i + Len(p) - d
      <3>1. Len(p) \in Nat /\ i \in Nat /\ k > d
        OBVIOUS
      <3> QED BY ONLY <1>m, <1>0, <1>8, <3>1
    <2> QED BY <1>1, <2>1
  <1>9. n[m].do = "join_worker" => \E i \in DOMAIN n : m < i /\ n[i].do = "drain"
    BY <1>2, <1>3, <1>8 DEF FollowedAt
  <1>10. n[m].do \in {"run", "publish", "open", "raise"} =>
            \E i \in DOMAIN n : m < i /\ n[i].do = "end_batch"
    BY <1>2, <1>3, <1>8 DEF FollowedAt
  <1>11. n[m].do \in {"dispatch", "admit", "return"} =>
            \E i \in DOMAIN n : m < i /\ n[i].do = "respond" /\ n[i].conn = n[m].conn
    BY <1>2, <1>3, <1>8 DEF FollowedAt
  <1>12. FollowedAt(n, m)
    BY <1>4, <1>5, <1>6, <1>7, <1>9, <1>10, <1>11 DEF FollowedAt
  <1> QED BY <1>m, <1>12

\* So only the steps in front are to be looked at.
LEMMA FollowedKept ==
    ASSUME Structure, NEW t \in Threads, NEW p, NEW d, Turn(t, p, d),
           \A k \in DOMAIN p : FollowedAt(agenda'[t], k)
    PROVE  AllFollowed'
  <1> SUFFICES ASSUME NEW u \in Threads, NEW k \in DOMAIN agenda'[u]
               PROVE  FollowedAt(agenda'[u], k)
    BY DEF AllFollowed, Followed
  <1>1. \A v \in Threads : Followed(agenda[v])
    BY DEF Structure, AllFollowed
  <1>2. CASE u # t
    BY <1>1, <1>2 DEF Turn, Followed
  <1>3. CASE u = t
    <2>1. CASE k \in DOMAIN p
      BY <1>3, <2>1
    <2>2. CASE k + d - Len(p) \in DOMAIN agenda[t] /\ k + d - Len(p) > d
      <3>1. PICK n, a : n = agenda'[t] /\ a = agenda[t]
        OBVIOUS
      <3>2. /\ Splice(n, p, a, d) /\ Followed(a)
            /\ DOMAIN n = 1 .. Len(n) /\ DOMAIN a = 1 .. Len(a) /\ DOMAIN p = 1 .. Len(p)
            /\ Len(p) \in Nat /\ Len(a) \in Nat /\ Len(n) \in Nat
        BY <1>1, <3>1, TurnDomains DEF Turn
      <3>3. PICK m \in DOMAIN a : m = k + d - Len(p) /\ m > d
        BY <2>2, <3>1
      <3>4. FollowedAt(n, m + Len(p) - d)
        BY <3>2, <3>3, SpliceFollowed
      <3>5. m + Len(p) - d = k
        <4>1. d \in Nat /\ k \in Nat
          <5>1. d \in 0 .. Len(a)
            BY <3>2, Zenon DEF Splice
          <5>2. k \in 1 .. Len(n)
            <6>1. k \in DOMAIN n
              BY ONLY <1>3, <3>1, Zenon
            <6> QED BY ONLY <3>2, <6>1, Zenon
          <5> QED BY ONLY <3>2, <5>1, <5>2
        <4> QED BY <3>2, <3>3, <4>1, PlaceBack, Zenon
      <3> QED BY <1>3, <3>1, <3>4, <3>5
    <2> QED BY <1>3, <2>1, <2>2 DEF Turn, Splice
  <1> QED BY <1>2, <1>3

\* A list that is complete in itself is so in front of another.
LEMMA FrontFollowed ==
    ASSUME NEW n, NEW p, NEW a, NEW d, Splice(n, p, a, d),
           DOMAIN n = 1 .. Len(n), DOMAIN p = 1 .. Len(p), Len(p) \in Nat,
           NEW k \in DOMAIN p, FollowedAt(p, k),
           p[k].do \notin LastSteps \cup {"enqueue", "put", "put_again"} \/ d = Len(a)
    PROVE  FollowedAt(n, k)
  <1>1. \A i \in DOMAIN p : i \in DOMAIN n /\ n[i] = p[i]
    BY DEF Splice
  <1>2. n[k] = p[k] /\ k \in Nat
    BY <1>1
  <1>3. d = Len(a) => Len(n) = Len(p)
    BY DEF Splice
  <1>4. k + 2 \in DOMAIN p => k + 1 \in DOMAIN p
    BY <1>2
  <1> QED BY <1>1, <1>2, <1>3, <1>4 DEF FollowedAt

-----------------------------------------------------------------------------
(* Structure: every action keeps it.                                        *)

ConnStates == {"accepted", "queued", "read", "refused", "handling", "handled",
               "answered", "closed"}
Servers ==
    [stop : BOOLEAN, listening : BOOLEAN, bootstrap : BOOLEAN,
     gate : Threads \cup {Nobody}, error : BOOLEAN, ticks : {0, 1},
     event : BOOLEAN, actions : Seq(Action),
     joined : SUBSET {"worker", "maintenance"}, stopping : BOOLEAN]
Histories ==
    [published : BOOLEAN, failed : BOOLEAN, posted : SUBSET Conns, handled : SUBSET Conns,
     owed : SUBSET Conns, finalized : Seq(Conns)]

\* The parts of the type invariant.
LEMMA TypeFacts ==
    ASSUME Structure
    PROVE  /\ limits \in Limits /\ requests \in Seq(Ops) /\ MaxErrors \in Nat
           /\ conns \in Seq(ConnStates) /\ Len(conns) <= Len(requests)
           /\ Len(conns) \in Nat /\ Conns = 1 .. Len(conns) /\ 0 \notin Conns
           /\ queue \in Seq({Sentinel} \cup Conns) /\ Len(queue) <= MaxQueue
           /\ aged \subseteq Conns /\ server \in Servers
           /\ agenda \in [Threads -> Seq(Steps)] /\ errors \in 0 .. MaxErrors
           /\ history \in Histories /\ \A c \in Conns : requests[c] \in Ops
  <1>1. /\ limits \in Limits /\ conns \in Seq(ConnStates) /\ Len(conns) <= Len(requests)
        /\ queue \in Seq({Sentinel} \cup Conns) /\ Len(queue) <= MaxQueue
        /\ aged \subseteq Conns /\ server \in Servers
        /\ agenda \in [Threads -> Seq(Steps)] /\ errors \in 0 .. MaxErrors
        /\ history \in Histories
    BY DEF Structure, TypeOK, ConnStates, Servers, Histories
  <1>2. requests \in Seq(Ops) /\ MaxErrors \in Nat
    BY <1>1, SocketServerAssumption DEF requests, MaxErrors
  <1>3. Len(conns) \in Nat /\ Conns = 1 .. Len(conns)
    BY <1>1, LenProperties DEF Conns
  <1>4. \A c \in Conns : requests[c] \in Ops
    BY <1>1, <1>2, <1>3, ElementOfSeq
  <1> QED BY <1>1, <1>2, <1>3, <1>4

\* A thread that is at a step.
LEMMA AtFacts ==
    ASSUME Structure, NEW t \in Threads, NEW what, At(t, what)
    PROVE  /\ ~ended(t) /\ ~exited /\ Head(agenda[t]) = agenda[t][1]
           /\ agenda[t][1].do = what /\ agenda[t][1] \in Steps
           /\ 1 \in DOMAIN agenda[t] /\ DOMAIN agenda[t] = 1 .. Len(agenda[t])
           /\ Len(agenda[t]) \in Nat /\ Len(agenda[t]) >= 1
           /\ StepOK(t, agenda[t][1]) /\ FollowedAt(agenda[t], 1)
  <1>1. agenda[t] \in Seq(Steps) /\ agenda[t] # <<>> /\ ~exited /\ ~ended(t)
    BY TypeFacts DEF At, ended
  <1>2. /\ DOMAIN agenda[t] = 1 .. Len(agenda[t])
        /\ Len(agenda[t]) \in Nat /\ Len(agenda[t]) >= 1
    BY <1>1, EmptySeq, LenProperties
  <1>3. Head(agenda[t]) = agenda[t][1]
    BY <1>1
  <1>4. 1 \in DOMAIN agenda[t]
    BY <1>2
  <1>5. agenda[t][1] \in Steps
    BY <1>1, <1>2, ElementOfSeq
  <1> QED BY <1>1, <1>2, <1>3, <1>4, <1>5 DEF At, Structure, StepsOK, AllFollowed, Followed

\* A turn keeps the structure if the writes have their types and the steps in
\* front are well formed.
LEMMA StructureKept ==
    ASSUME Structure, NEW t \in Threads, NEW p, NEW d, Turn(t, p, d),
           limits' = limits, conns' \in Seq(ConnStates),
           Len(conns) <= Len(conns'), Len(conns') <= Len(requests),
           queue' \in Seq({Sentinel} \cup Conns'), Len(queue') <= MaxQueue,
           aged' \subseteq Conns', server' \in Servers, ActionsOK',
           errors' \in 0 .. MaxErrors, history' \in Histories',
           history.published => history'.published,
           \A i \in DOMAIN p : StepOK(t, p[i])',
           \A k \in DOMAIN p : FollowedAt(agenda'[t], k)
    PROVE  Structure'
  <1>1. Conns \subseteq Conns'
    <2>1. Conns = 1 .. Len(conns) /\ Len(conns) \in Nat
      BY TypeFacts
    <2>2. Conns' = 1 .. Len(conns') /\ Len(conns') \in Nat
      BY LenProperties DEF Conns
    <2> QED BY <2>1, <2>2
  <1>2. StepsOK' /\ AllFollowed'
    BY <1>1, StepsKept, FollowedKept
  <1>3. TypeOK'
    <2>1. limits' \in Limits /\ agenda' \in [Threads -> Seq(Steps')]
      BY TypeFacts DEF Turn
    <2>2. server' \in Servers' /\ MaxErrors' = MaxErrors /\ requests' = requests
      BY DEF Servers, Action, requests, MaxErrors
    <2> QED BY <2>1, <2>2 DEF TypeOK, ConnStates, Servers, Histories
  <1> QED BY <1>2, <1>3 DEF Structure

\* The histories of the connections there are.
LEMMA HistoryStays ==
    ASSUME Structure, Conns' = Conns, history' = history
    PROVE  history' \in Histories'
  BY TypeFacts DEF Histories

\* Actions stay valid.
LEMMA ActionsStay ==
    ASSUME Structure, limits' = limits, Conns \subseteq Conns',
           \/ server'.actions = server.actions
           \/ server'.actions = <<>>
    PROVE  ActionsOK'
  BY DEF Structure, ActionsOK, ActionOK, requests

\* The common case: the connections and the queue are left alone.
LEMMA QuietStructure ==
    ASSUME Structure, NEW t \in Threads, NEW p, NEW d, Turn(t, p, d),
           UNCHANGED <<limits, conns, queue, aged>>, server' \in Servers,
           server'.actions = server.actions \/ server'.actions = <<>>,
           errors' \in 0 .. MaxErrors, history' \in Histories,
           history.published => history'.published,
           \A i \in DOMAIN p : StepOK(t, p[i])',
           \A k \in DOMAIN p : FollowedAt(agenda'[t], k)
    PROVE  Structure'
  <1>1. Conns' = Conns
    BY DEF Conns
  <1>2. history' \in Histories' /\ ActionsOK'
    BY <1>1, ActionsStay DEF Histories
  <1>3. /\ conns' \in Seq(ConnStates) /\ Len(conns) <= Len(conns')
        /\ Len(conns') <= Len(requests) /\ queue' \in Seq({Sentinel} \cup Conns')
        /\ Len(queue') <= MaxQueue /\ aged' \subseteq Conns'
    BY <1>1, TypeFacts
  <1> QED BY <1>2, <1>3, StructureKept

\* Steps without a connection are well formed, whosever they are.
LEMMA PlainOK ==
    ASSUME NEW s \in Plain, NEW t \in Threads
    PROVE  s \in Steps /\ s \in Steps' /\ StepOK(t, s) /\ StepOK(t, s)'
  BY DEF Plain, Do, Steps, StepOK, MainSteps, WorkerSteps, MaintenanceSteps

\* A list of them is a list of steps.
LEMMA PlainSeq ==
    ASSUME NEW r \in Seq(Plain)
    PROVE  r \in Seq(Steps) /\ r \in Seq(Steps')
  <1>1. Plain \subseteq Steps /\ Plain \subseteq Steps'
    <2>1. "main" \in Threads
      BY DEF Threads
    <2> QED BY <2>1, PlainOK
  <1> QED BY <1>1, SeqMonotonic

\* The names of the steps of a release.
LEMMA ReleaseNames ==
    ASSUME NEW p, ShutdownAt(p, 0), StopAt(p, 2)
    PROVE  /\ p[1].do = "set_stop" /\ p[2].do = "close_listener"
           /\ p[3].do = "close_pending" /\ p[4].do = "put_sentinel"
           /\ p[5].do = "join_worker" /\ p[6].do = "wake"
           /\ p[7].do = "join_maintenance" /\ p[8].do = "drain"
           /\ \A k \in 1 .. 8 : p[k] \in Plain
  <1>1. /\ p[1] = Do("set_stop") /\ p[2] = Do("close_listener")
        /\ p[3] = Do("close_pending") /\ p[4] = Do("put_sentinel")
        /\ p[5] = Do("join_worker") /\ p[6] = Do("wake")
        /\ p[7] = Do("join_maintenance") /\ p[8] = Do("drain")
    BY DEF ShutdownAt, StopAt
  <1>2. \A k \in 1 .. 8 : p[k] \in Plain
    <2> TAKE k \in 1 .. 8
    <2>1. k = 1 \/ k = 2 \/ k = 3 \/ k = 4 \/ k = 5 \/ k = 6 \/ k = 7 \/ k = 8
      OBVIOUS
    <2> QED BY <1>1, <2>1 DEF Plain
  <1> QED BY <1>1, <1>2 DEF Do

\* A release is complete in itself, whatever follows.
LEMMA ReleaseFollowed ==
    ASSUME NEW S, NEW p \in Seq(S), Len(p) >= 8, ShutdownAt(p, 0), StopAt(p, 2),
           NEW k \in 1 .. 8
    PROVE  FollowedAt(p, k) /\ p[k].do \notin LastSteps \cup {"enqueue", "put", "put_again"}
  <1>1. DOMAIN p = 1 .. Len(p) /\ Len(p) \in Nat
    BY LenProperties
  <1>2. k = 1 \/ k = 2 \/ k = 3 \/ k = 4 \/ k = 5 \/ k = 6 \/ k = 7 \/ k = 8
    OBVIOUS
  <1>3. 5 \in DOMAIN p /\ 7 \in DOMAIN p /\ 8 \in DOMAIN p
    BY <1>1
  <1> QED BY <1>2, <1>3, ReleaseNames DEF FollowedAt, LastSteps

\* And so is what is left to main.
LEMMA LeaveFollowed ==
    ASSUME NEW p, IsLeave(p)
    PROVE  /\ \A k \in DOMAIN p : FollowedAt(p, k) /\ p[k] \in Plain
           /\ DOMAIN p = 1 .. 14 /\ p[7].do = "set_stop" /\ p[8].do = "close_listener"
           /\ \A k \in DOMAIN p : p[k].do = "close_listener" => k = 8
  <1>1. DOMAIN p = 1 .. 14 /\ Len(p) = 14 /\ p \in Seq(Plain)
    BY LenProperties DEF IsLeave
  <1>2. /\ p[1] = Do("close_pending") /\ p[2] = Do("put_sentinel")
        /\ p[3] = Do("join_worker") /\ p[4] = Do("wake")
        /\ p[5] = Do("join_maintenance") /\ p[6] = Do("drain")
        /\ p[7] = Do("set_stop") /\ p[8] = Do("close_listener")
        /\ p[9] = Do("close_pending") /\ p[10] = Do("put_sentinel")
        /\ p[11] = Do("join_worker") /\ p[12] = Do("wake")
        /\ p[13] = Do("join_maintenance") /\ p[14] = Do("drain")
    BY DEF IsLeave, ShutdownAt, StopAt
  <1>3. /\ p[1].do = "close_pending" /\ p[2].do = "put_sentinel"
        /\ p[3].do = "join_worker" /\ p[4].do = "wake"
        /\ p[5].do = "join_maintenance" /\ p[6].do = "drain"
        /\ p[7].do = "set_stop" /\ p[8].do = "close_listener"
        /\ p[9].do = "close_pending" /\ p[10].do = "put_sentinel"
        /\ p[11].do = "join_worker" /\ p[12].do = "wake"
        /\ p[13].do = "join_maintenance" /\ p[14].do = "drain"
    BY <1>2 DEF Do
  <1>4. \A k \in 1 .. 14 :
            \/ k = 1 \/ k = 2 \/ k = 3 \/ k = 4 \/ k = 5 \/ k = 6 \/ k = 7
            \/ k = 8 \/ k = 9 \/ k = 10 \/ k = 11 \/ k = 12 \/ k = 13 \/ k = 14
    OBVIOUS
  <1>5. \A k \in DOMAIN p : p[k].do = "close_listener" => k = 8
    BY <1>1, <1>3, <1>4
  <1>6. ASSUME NEW k \in 1 .. 14 PROVE FollowedAt(p, k)
    <2>1. \/ k = 1 \/ k = 2 \/ k = 3 \/ k = 4 \/ k = 5 \/ k = 6 \/ k = 7
          \/ k = 8 \/ k = 9 \/ k = 10 \/ k = 11 \/ k = 12 \/ k = 13 \/ k = 14
      BY <1>4
    <2>2. /\ 3 \in DOMAIN p /\ 5 \in DOMAIN p /\ 6 \in DOMAIN p
          /\ 11 \in DOMAIN p /\ 13 \in DOMAIN p /\ 14 \in DOMAIN p
      BY <1>1
    <2>3. CASE k = 1 \/ k = 9
      BY <1>3, <2>2, <2>3 DEF FollowedAt, LastSteps
    <2>4. CASE k = 3 \/ k = 11
      BY <1>3, <2>2, <2>4 DEF FollowedAt, LastSteps
    <2>5. CASE k = 4 \/ k = 12
      BY <1>3, <2>2, <2>5 DEF FollowedAt, LastSteps
    <2>6. CASE \/ k = 2 \/ k = 5 \/ k = 6 \/ k = 7 \/ k = 8
               \/ k = 10 \/ k = 13 \/ k = 14
      BY <1>3, <2>6 DEF FollowedAt, LastSteps
    <2> QED BY <2>1, <2>3, <2>4, <2>5, <2>6
  <1>7. \A k \in 1 .. 14 : p[k] \in Plain
    BY <1>1, ElementOfSeq
  <1> QED BY <1>1, <1>3, <1>5, <1>6, <1>7

\* A shutdown.
LEMMA ShutdownFollowed ==
    /\ request_shutdown \in Seq(Plain) /\ DOMAIN request_shutdown = 1 .. 2
    /\ request_shutdown[1].do = "set_stop" /\ request_shutdown[2].do = "close_listener"
    /\ \A k \in 1 .. 2 :
        /\ FollowedAt(request_shutdown, k) /\ request_shutdown[k] \in Plain
        /\ request_shutdown[k].do \notin LastSteps \cup {"enqueue", "put", "put_again"}
  <1>1. PICK r : r = request_shutdown
    OBVIOUS
  <1>2. /\ r \in Seq(Plain) /\ Len(r) = 2 /\ DOMAIN r = 1 .. 2
        /\ r[1] = Do("set_stop") /\ r[2] = Do("close_listener")
    BY <1>1, ShutdownList, LenProperties
  <1>3. r[1].do = "set_stop" /\ r[2].do = "close_listener"
    BY <1>2 DEF Do
  <1>4. \A k \in 1 .. 2 : k = 1 \/ k = 2
    OBVIOUS
  <1>5. \A k \in 1 .. 2 :
            FollowedAt(r, k) /\ r[k].do \notin LastSteps \cup {"enqueue", "put", "put_again"}
    BY <1>3, <1>4 DEF FollowedAt, LastSteps
  <1>6. \A k \in 1 .. 2 : r[k] \in Plain
    BY <1>2, ElementOfSeq
  <1> QED BY <1>1, <1>2, <1>3, <1>5, <1>6

\* A batch.
LEMMA BatchFollowed ==
    ASSUME NEW S, NEW p \in Seq(S), NEW T, NEW q \in Seq(T), IsBatch(p, q),
           NEW k \in DOMAIN p
    PROVE  /\ FollowedAt(p, k) /\ p[k].do \in {"run", "end_batch"}
           /\ p[k] = Do("end_batch") \/ \E i \in 1 .. Len(q) : k = i /\ p[k] = Run(q[i])
  <1>1. DOMAIN p = 1 .. Len(p) /\ Len(p) \in Nat /\ Len(q) \in Nat
    BY LenProperties
  <1>2. Len(q) # 0
    <2>1. Len(q) = 0 => Len(p) = 0
      BY DEF IsBatch
    <2>2. PICK n \in Nat : n = Len(p) /\ k \in 1 .. n
      BY <1>1, Zenon
    <2>3. n # 0
      BY <2>2
    <2> QED BY <2>1, <2>2, <2>3
  <1>3. /\ Len(p) = Len(q) + 1 /\ p[Len(p)] = Do("end_batch")
        /\ \A i \in 1 .. Len(q) : p[i] = Run(q[i])
    BY <1>2 DEF IsBatch
  <1>4. CASE k = Len(p)
    BY <1>3, <1>4 DEF Do, FollowedAt, LastSteps
  <1>5. CASE k \in 1 .. Len(q)
    <2>0. p[k] = Run(q[k])
      BY <1>3, <1>5, Zenon
    <2>1. p[k].do = "run" /\ p[k] = Run(q[k])
      BY <2>0 DEF Run
    <2>2. Len(p) \in DOMAIN p /\ k < Len(p) /\ p[Len(p)].do = "end_batch"
      BY <1>1, <1>3, <1>5 DEF Do
    <2>3. FollowedAt(p, k)
      BY <2>1, <2>2 DEF FollowedAt, LastSteps
    <2> QED BY <1>5, <2>1, <2>3
  <1> QED BY <1>1, <1>3, <1>4, <1>5

\* Complete lists are complete in an agenda.
LEMMA TurnFront ==
    ASSUME Structure, NEW t \in Threads, NEW p, NEW d, Turn(t, p, d),
           \A k \in DOMAIN p :
               /\ FollowedAt(p, k)
               /\ \/ p[k].do \notin LastSteps \cup {"enqueue", "put", "put_again"}
                  \/ d = Len(agenda[t])
    PROVE  \A k \in DOMAIN p : FollowedAt(agenda'[t], k)
  <1> TAKE k \in DOMAIN p
  <1>1. PICK n, a : n = agenda'[t] /\ a = agenda[t]
    OBVIOUS
  <1>2. /\ Splice(n, p, a, d) /\ DOMAIN n = 1 .. Len(n) /\ DOMAIN p = 1 .. Len(p)
        /\ Len(p) \in Nat
    BY <1>1, TurnDomains DEF Turn
  <1>3. /\ FollowedAt(p, k)
        /\ p[k].do \notin LastSteps \cup {"enqueue", "put", "put_again"} \/ d = Len(a)
    BY <1>1
  <1>4. FollowedAt(n, k)
    BY <1>2, <1>3, FrontFollowed
  <1> QED BY <1>1, <1>4

\* Nothing is put in front.
LEMMA OnStructure ==
    ASSUME Structure, NEW t \in Threads, NEW d, Turn(t, <<>>, d),
           UNCHANGED <<limits, conns, queue, aged>>, server' \in Servers,
           server'.actions = server.actions \/ server'.actions = <<>>,
           errors' \in 0 .. MaxErrors, history' \in Histories,
           history.published => history'.published
    PROVE  Structure'
  <1>1. PICK p : p = <<>>
    OBVIOUS
  <1>2. DOMAIN p = {}
    BY <1>1
  <1>3. Turn(t, p, d)
    BY <1>1
  <1> QED BY <1>2, <1>3, QuietStructure

\* A thread at a step goes on.
LEMMA OnTurn ==
    ASSUME Structure, Conns \subseteq Conns', NEW t \in Threads, NEW what,
           At(t, what), GoesOn(t)
    PROVE  Turn(t, <<>>, 1)
  BY AtFacts, TurnOn

\* The last step of an agenda is its only one when it is the first.
LEMMA LastIsOnly ==
    ASSUME Structure, NEW t \in Threads, NEW what \in LastSteps, At(t, what)
    PROVE  Len(agenda[t]) = 1
  BY AtFacts DEF FollowedAt

\* accept: the new connection is to be enqueued.
LEMMA AcceptTurn ==
    ASSUME Structure, Accept
    PROVE  /\ Len(agenda["main"]) = 1 /\ Conns' = Conns \cup {Len(conns) + 1}
           /\ conns' \in Seq(ConnStates) /\ Len(conns') = Len(conns) + 1
           /\ conns'[Len(conns) + 1] = "accepted"
           /\ \A c \in Conns : conns'[c] = conns[c]
           /\ \E p : /\ Turn("main", p, 1) /\ DOMAIN p = 1 .. 2
                     /\ p[1] = Serve("enqueue", Len(conns) + 1) /\ p[2] = Do("accept")
  <1>1. "main" \in Threads /\ "accept" \in LastSteps /\ At("main", "accept")
    BY DEF Accept, Threads, LastSteps
  <1>2. Len(agenda["main"]) = 1
    BY <1>1, LastIsOnly
  <1>3. /\ conns' \in Seq(ConnStates) /\ Len(conns') = Len(conns) + 1
        /\ conns'[Len(conns) + 1] = "accepted"
        /\ \A c \in 1 .. Len(conns) : conns'[c] = conns[c]
    <2>1. conns' = Append(conns, "accepted") /\ "accepted" \in ConnStates
          /\ conns \in Seq(ConnStates)
      BY TypeFacts DEF Accept, ConnStates
    <2> QED BY <2>1, AppendProperties
  <1>4. Conns' = 1 .. Len(conns) + 1 /\ Conns = 1 .. Len(conns) /\ Len(conns) \in Nat
    BY <1>3, LenProperties, TypeFacts DEF Conns
  <1>5. PICK c : c = Len(conns) + 1
    OBVIOUS
  <1>6. requests[c] \in Ops
    BY <1>5, TypeFacts, ElementOfSeq DEF Accept
  <1>7. PICK p : p = <<Serve("enqueue", c), Do("accept")>>
    OBVIOUS
  <1>8. Serve("enqueue", c) \in Steps' /\ Do("accept") \in Steps'
    BY <1>4, <1>5, <1>6 DEF Serve, Do, Steps
  <1>9. p \in Seq(Steps') /\ DOMAIN p = 1 .. 2
        /\ p[1] = Serve("enqueue", c) /\ p[2] = Do("accept")
    BY <1>7, <1>8
  <1>10. Calls("main", p)
    BY <1>3, <1>5, <1>7 DEF Accept
  <1>11. Turn("main", p, 1)
    BY <1>1, <1>4, <1>9, <1>10, AtFacts, TurnCall
  <1> QED BY <1>2, <1>3, <1>4, <1>5, <1>9, <1>11

\* Accepting keeps the structure.
LEMMA AcceptStructure ==
    ASSUME Structure, Accept
    PROVE  Structure'
  <1>1. PICK p : /\ Turn("main", p, 1) /\ DOMAIN p = 1 .. 2
                 /\ p[1] = Serve("enqueue", Len(conns) + 1) /\ p[2] = Do("accept")
    BY AcceptTurn
  <1>2. /\ Len(agenda["main"]) = 1 /\ Conns' = Conns \cup {Len(conns) + 1}
        /\ conns' \in Seq(ConnStates) /\ Len(conns') = Len(conns) + 1
    BY AcceptTurn
  <1>3. "main" \in Threads
    BY DEF Threads
  <1>4. /\ p[1].do = "enqueue" /\ p[1].conn = Len(conns) + 1 /\ p[2].do = "accept"
        /\ \A k \in DOMAIN p : k = 1 \/ k = 2
    BY <1>1 DEF Serve, Do
  <1>5. \A i \in DOMAIN p : StepOK("main", p[i])'
    BY <1>2, <1>4 DEF StepOK, MainSteps, WorkerSteps, MaintenanceSteps
  <1>6. \A k \in DOMAIN p : FollowedAt(agenda'["main"], k)
    <2>1. Len(p) = 2
      BY <1>1 DEF Turn
    <2>2. \A k \in DOMAIN p : FollowedAt(p, k)
      BY <1>4, <2>1 DEF FollowedAt, LastSteps
    <2> QED BY <1>1, <1>2, <1>3, <2>2, TurnFront
  <1>7. UNCHANGED <<limits, queue, aged, server, errors, history>> /\ Len(conns) < Len(requests)
    BY DEF Accept
  <1>8. Len(conns) <= Len(conns') /\ Len(conns') <= Len(requests)
    BY <1>2, <1>7, TypeFacts
  <1>9. queue' \in Seq({Sentinel} \cup Conns') /\ Len(queue') <= MaxQueue
    <2>1. {Sentinel} \cup Conns \subseteq {Sentinel} \cup Conns'
      BY <1>2
    <2> QED BY <1>7, <2>1, TypeFacts, SeqMonotonic
  <1>10. aged' \subseteq Conns' /\ server' \in Servers /\ errors' \in 0 .. MaxErrors
    BY <1>2, <1>7, TypeFacts
  <1>11. ActionsOK'
    BY <1>2, <1>7, ActionsStay
  <1>12. history' \in Histories'
    <2>1. Conns \subseteq Conns'
      BY <1>2
    <2>2. history.finalized \in Seq(Conns')
      BY <2>1, TypeFacts, SeqMonotonic DEF Histories
    <2> QED BY <1>7, <2>1, <2>2, TypeFacts DEF Histories
  <1> QED BY <1>1, <1>2, <1>3, <1>5, <1>6, <1>7, <1>8, <1>9, <1>10, <1>11, <1>12, StructureKept

\* Closing, or marking, one connection.
LEMMA CloseType ==
    ASSUME NEW cs \in Seq(ConnStates), NEW n \in Nat, Len(cs) = n,
           NEW c \in {Sentinel} \cup (1 .. n), NEW st \in ConnStates
    PROVE  /\ Close(cs, c) \in Seq(ConnStates) /\ Len(Close(cs, c)) = n
           /\ c # Sentinel => /\ [cs EXCEPT ![c] = st] \in Seq(ConnStates)
                              /\ Len([cs EXCEPT ![c] = st]) = n
                              /\ [cs EXCEPT ![c] = st][c] = st
                              /\ \A b \in 1 .. n : b # c => [cs EXCEPT ![c] = st][b] = cs[b]
  <1>1. "closed" \in ConnStates
    BY DEF ConnStates
  <1>2. CASE c = Sentinel
    BY <1>2 DEF Close
  <1>3. CASE c \in 1 .. n /\ c # Sentinel
    BY <1>1, <1>3, ExceptSeq DEF Close
  <1> QED BY <1>2, <1>3

\* The connections, with one of them in another state.
LEMMA MarkType ==
    ASSUME Structure, NEW c \in Conns, NEW st \in ConnStates,
           conns' = [conns EXCEPT ![c] = st]
    PROVE  /\ conns' \in Seq(ConnStates) /\ Len(conns') = Len(conns) /\ Conns' = Conns
           /\ conns'[c] = st /\ \A b \in Conns : b # c => conns'[b] = conns[b]
  <1>1. conns \in Seq(ConnStates) /\ Len(conns) \in Nat /\ Conns = 1 .. Len(conns)
    BY TypeFacts
  <1>2. /\ conns' \in Seq(ConnStates) /\ Len(conns') = Len(conns)
        /\ conns'[c] = st /\ \A b \in Conns : b # c => conns'[b] = conns[b]
    BY <1>1, ExceptSeq
  <1>3. Conns' = 1 .. Len(conns')
    BY <1>2, LenProperties DEF Conns
  <1> QED BY <1>1, <1>2, <1>3

\* A queue that is not empty has a first entry.
LEMMA QueueHead ==
    ASSUME Structure, queue # <<>>
    PROVE  /\ Head(queue) \in {Sentinel} \cup Conns /\ Head(queue) = queue[1]
           /\ Tail(queue) \in Seq({Sentinel} \cup Conns)
           /\ Len(Tail(queue)) = Len(queue) - 1 /\ Len(queue) \in Nat /\ Len(queue) >= 1
           /\ DOMAIN queue = 1 .. Len(queue)
           /\ \A i \in 1 .. Len(queue) - 1 : Tail(queue)[i] = queue[i + 1]
  <1>1. queue \in Seq({Sentinel} \cup Conns)
    BY TypeFacts
  <1> QED BY <1>1, HeadTailProperties, EmptySeq, LenProperties

\* The queue and the connections after put_nowait keep their types.
LEMMA PutType ==
    ASSUME Structure, NEW c \in {Sentinel} \cup Conns, ~Full(queue), Put(c)
    PROVE  /\ queue' \in Seq({Sentinel} \cup Conns) /\ Len(queue') <= MaxQueue
           /\ conns' \in Seq(ConnStates) /\ Len(conns') = Len(conns) /\ Conns' = Conns
  <1>1. /\ conns \in Seq(ConnStates) /\ Len(conns) \in Nat /\ Conns = 1 .. Len(conns)
        /\ queue \in Seq({Sentinel} \cup Conns) /\ Len(queue) \in Nat
        /\ MaxQueue \in Nat /\ "queued" \in ConnStates
    BY TypeFacts, SocketServerAssumption DEF ConnStates
  <1>2. queue' \in Seq({Sentinel} \cup Conns) /\ Len(queue') <= MaxQueue
    <2>1. queue' \in Seq({Sentinel} \cup Conns) /\ Len(queue') = Len(queue) + 1
      BY <1>1, AppendProperties DEF Put
    <2> QED BY <1>1, <2>1 DEF Full
  <1>3. conns' \in Seq(ConnStates) /\ Len(conns') = Len(conns)
    <2>1. CASE c = Sentinel
      BY <1>1, <2>1 DEF Put
    <2>2. CASE c # Sentinel
      BY <1>1, <2>2, CloseType DEF Put
    <2> QED BY <2>1, <2>2
  <1>4. Conns' = Conns
    BY <1>1, <1>3, LenProperties DEF Conns
  <1> QED BY <1>2, <1>3, <1>4

\* So they do when the first entry is taken and closed.
LEMMA TakeType ==
    ASSUME Structure, queue # <<>>, conns' = Close(conns, Head(queue)),
           queue' = Tail(queue)
    PROVE  /\ queue' \in Seq({Sentinel} \cup Conns) /\ Len(queue') <= MaxQueue
           /\ conns' \in Seq(ConnStates) /\ Len(conns') = Len(conns) /\ Conns' = Conns
  <1>1. /\ Head(queue) \in {Sentinel} \cup Conns
        /\ queue' \in Seq({Sentinel} \cup Conns) /\ Len(queue') <= MaxQueue
    <2>1. /\ queue' \in Seq({Sentinel} \cup Conns) /\ Len(queue') = Len(queue) - 1
          /\ Head(queue) \in {Sentinel} \cup Conns
      BY QueueHead
    <2> QED BY <2>1, QueueHead, TypeFacts, SocketServerAssumption
  <1>2. conns' \in Seq(ConnStates) /\ Len(conns') = Len(conns)
    <2>1. "closed" \in ConnStates /\ conns \in Seq(ConnStates) /\ Len(conns) \in Nat
          /\ Conns = 1 .. Len(conns)
      BY TypeFacts DEF ConnStates
    <2> QED BY <1>1, <2>1, CloseType
  <1>3. Conns' = Conns
    BY <1>2, TypeFacts, LenProperties DEF Conns
  <1> QED BY <1>1, <1>2, <1>3

\* Connections change their states, the queue may change.
LEMMA ConnStructure ==
    ASSUME Structure, NEW t \in Threads, NEW p, NEW d, Turn(t, p, d),
           UNCHANGED <<limits, aged>>, conns' \in Seq(ConnStates),
           Len(conns') = Len(conns), Conns' = Conns,
           queue' \in Seq({Sentinel} \cup Conns), Len(queue') <= MaxQueue,
           server' \in Servers, ActionsOK', errors' = errors, history' \in Histories,
           history.published => history'.published,
           \A i \in DOMAIN p : StepOK(t, p[i])',
           \A k \in DOMAIN p : FollowedAt(agenda'[t], k)
    PROVE  Structure'
  <1>1. history' \in Histories' /\ queue' \in Seq({Sentinel} \cup Conns')
        /\ aged' \subseteq Conns' /\ errors' \in 0 .. MaxErrors
    BY TypeFacts DEF Histories
  <1>2. Len(conns) <= Len(conns') /\ Len(conns') <= Len(requests)
    BY TypeFacts
  <1> QED BY <1>1, <1>2, StructureKept

\* enqueue_connection first looks at the stop.
LEMMA EnqueueCheckTurn ==
    ASSUME Structure, EnqueueCheck
    PROVE  \E c \in Conns :
             /\ agenda["main"][1].do = "enqueue" /\ agenda["main"][1].conn = c
             /\ \/ Turn("main", <<>>, 1) /\ conns' = [conns EXCEPT ![c] = "closed"]
                \/ /\ UNCHANGED conns
                   /\ \E p : /\ Turn("main", p, 1) /\ DOMAIN p = {1}
                             /\ p[1] = Serve("put", c)
  <1>1. "main" \in Threads /\ At("main", "enqueue")
    BY DEF EnqueueCheck, Threads
  <1>2. PICK c \in Conns : c = Head(agenda["main"]).conn /\ c = agenda["main"][1].conn
    BY <1>1, AtFacts DEF StepOK
  <1>3. CASE server.stop
    <2>1. conns' = [conns EXCEPT ![c] = "closed"] /\ GoesOn("main")
      BY <1>2, <1>3 DEF EnqueueCheck
    <2>2. Conns' = Conns
      BY <2>1, MarkType DEF ConnStates
    <2> QED BY <1>1, <1>2, <2>1, <2>2, AtFacts, OnTurn
  <1>4. CASE ~server.stop
    <2>1. Calls("main", <<Serve("put", c)>>) /\ UNCHANGED conns
      BY <1>2, <1>4 DEF EnqueueCheck
    <2>2. PICK p : p = <<Serve("put", c)>>
      OBVIOUS
    <2>3. Conns' = Conns
      BY <2>1 DEF Conns
    <2>4. Serve("put", c) \in Steps'
      BY <1>2, <2>3, TypeFacts DEF Serve, Steps
    <2>5. p \in Seq(Steps') /\ DOMAIN p = {1} /\ p[1] = Serve("put", c)
      BY <2>2, <2>4
    <2>6. Turn("main", p, 1)
      BY <1>1, <2>1, <2>2, <2>3, <2>5, AtFacts, TurnCall
    <2> QED BY <1>1, <1>2, <2>1, <2>5, <2>6, AtFacts
  <1> QED BY <1>3, <1>4

\* The check keeps the structure.
LEMMA EnqueueCheckStructure ==
    ASSUME Structure, EnqueueCheck
    PROVE  Structure'
  <1>0. "main" \in Threads /\ At("main", "enqueue") /\ "closed" \in ConnStates
    BY DEF EnqueueCheck, Threads, ConnStates
  <1>1. UNCHANGED <<limits, queue, aged, server, errors, history>>
    BY DEF EnqueueCheck
  <1>2. PICK c \in Conns :
             /\ agenda["main"][1].do = "enqueue" /\ agenda["main"][1].conn = c
             /\ \/ Turn("main", <<>>, 1) /\ conns' = [conns EXCEPT ![c] = "closed"]
                \/ /\ UNCHANGED conns
                   /\ \E p : /\ Turn("main", p, 1) /\ DOMAIN p = {1}
                             /\ p[1] = Serve("put", c)
    BY EnqueueCheckTurn
  <1>3. CASE Turn("main", <<>>, 1) /\ conns' = [conns EXCEPT ![c] = "closed"]
    <2>1. conns' \in Seq(ConnStates) /\ Len(conns') = Len(conns) /\ Conns' = Conns
      BY <1>0, <1>3, MarkType
    <2>2. ActionsOK'
      BY <1>1, <2>1, ActionsStay
    <2>3. PICK p : p = <<>> /\ DOMAIN p = {} /\ Turn("main", p, 1)
      BY <1>3
    <2>4. /\ queue' \in Seq({Sentinel} \cup Conns) /\ Len(queue') <= MaxQueue
          /\ server' \in Servers /\ history' \in Histories
      BY <1>1, TypeFacts
    <2> QED BY <1>0, <1>1, <2>1, <2>2, <2>3, <2>4, ConnStructure
  <1>4. ASSUME UNCHANGED conns, NEW p, Turn("main", p, 1), DOMAIN p = {1},
               p[1] = Serve("put", c)
        PROVE  Structure'
    <2>1. p[1].do = "put" /\ p[1].conn = c /\ Conns' = Conns
      BY <1>4 DEF Serve, Conns
    <2>2. \A i \in DOMAIN p : StepOK("main", p[i])'
      BY <1>4, <2>1 DEF StepOK, MainSteps, WorkerSteps, MaintenanceSteps
    <2>3. Len(agenda'["main"]) = 2 /\ agenda'["main"][1].do = "put"
      <3>1. Len(agenda["main"]) = 2
        BY <1>0, AtFacts DEF FollowedAt
      <3>2. Len(p) = 1
        <4>1. DOMAIN p = 1 .. Len(p) /\ Len(p) \in Nat
          BY <1>0, <1>4, TurnDomains
        <4> QED BY <1>4, <4>1
      <3> QED BY <1>4, <2>1, <3>1, <3>2 DEF Turn, Splice
    <2>4. \A k \in DOMAIN p : FollowedAt(agenda'["main"], k)
      BY <1>4, <2>3 DEF FollowedAt, LastSteps
    <2>5. server' \in Servers /\ history' \in Histories /\ errors' \in 0 .. MaxErrors
      BY <1>1, TypeFacts
    <2> QED BY <1>0, <1>1, <1>4, <2>2, <2>4, <2>5, QuietStructure
  <1> QED BY <1>2, <1>3, <1>4

\* A thread goes on with fewer steps; the connections and the queue may change.
LEMMA FewerStructure ==
    ASSUME Structure, NEW t \in Threads, NEW d, Turn(t, <<>>, d),
           UNCHANGED <<limits, aged, server, errors, history>>,
           queue' \in Seq({Sentinel} \cup Conns), Len(queue') <= MaxQueue,
           conns' \in Seq(ConnStates), Len(conns') = Len(conns), Conns' = Conns
    PROVE  Structure'
  <1>1. PICK p : p = <<>> /\ DOMAIN p = {} /\ Turn(t, p, d)
    OBVIOUS
  <1>2. ActionsOK' /\ server' \in Servers /\ history' \in Histories
    BY ActionsStay, TypeFacts
  <1> QED BY <1>1, <1>2, ConnStructure

\* The connection is put, or room is to be made first.
LEMMA EnqueuePutTurn ==
    ASSUME Structure, EnqueuePut
    PROVE  \E c \in Conns :
             /\ agenda["main"][1].do = "put" /\ agenda["main"][1].conn = c
             /\ UNCHANGED <<limits, aged, server, errors, history>>
             /\ \/ Turn("main", <<>>, 1) /\ ~Full(queue) /\ Put(c)
                \/ /\ UNCHANGED <<conns, queue>>
                   /\ \E p : /\ Turn("main", p, 1) /\ DOMAIN p = 1 .. 2
                             /\ p[1] = Do("make_room") /\ p[2] = Serve("put_again", c)
  <1>1. /\ "main" \in Threads /\ At("main", "put")
        /\ UNCHANGED <<limits, aged, server, errors, history>>
    BY DEF EnqueuePut, Threads
  <1>2. PICK c \in Conns : c = Head(agenda["main"]).conn /\ c = agenda["main"][1].conn
    BY <1>1, AtFacts DEF StepOK
  <1>3. CASE ~Full(queue) /\ Put(c) /\ GoesOn("main")
    <2>1. Conns' = Conns
      BY <1>2, <1>3, PutType
    <2> QED BY <1>1, <1>2, <1>3, <2>1, AtFacts, OnTurn
  <1>4. CASE /\ UNCHANGED <<conns, queue>>
             /\ Calls("main", <<Do("make_room"), Serve("put_again", c)>>)
    <2>1. PICK p : p = <<Do("make_room"), Serve("put_again", c)>>
      OBVIOUS
    <2>2. Conns' = Conns
      BY <1>4 DEF Conns
    <2>3. Do("make_room") \in Steps' /\ Serve("put_again", c) \in Steps'
      BY <1>2, <2>2, TypeFacts DEF Serve, Do, Steps
    <2>4. /\ p \in Seq(Steps') /\ DOMAIN p = 1 .. 2
          /\ p[1] = Do("make_room") /\ p[2] = Serve("put_again", c)
      BY <2>1, <2>3
    <2>5. Turn("main", p, 1)
      BY <1>1, <1>4, <2>1, <2>2, <2>4, AtFacts, TurnCall
    <2> QED BY <1>1, <1>2, <1>4, <2>4, <2>5, AtFacts
  <1> QED BY <1>2, <1>3, <1>4 DEF EnqueuePut

\* The put keeps the structure.
LEMMA EnqueuePutStructure ==
    ASSUME Structure, EnqueuePut
    PROVE  Structure'
  <1>0. "main" \in Threads /\ At("main", "put")
    BY DEF EnqueuePut, Threads
  <1>1. PICK c \in Conns :
             /\ agenda["main"][1].do = "put" /\ agenda["main"][1].conn = c
             /\ UNCHANGED <<limits, aged, server, errors, history>>
             /\ \/ Turn("main", <<>>, 1) /\ ~Full(queue) /\ Put(c)
                \/ /\ UNCHANGED <<conns, queue>>
                   /\ \E p : /\ Turn("main", p, 1) /\ DOMAIN p = 1 .. 2
                             /\ p[1] = Do("make_room") /\ p[2] = Serve("put_again", c)
    BY EnqueuePutTurn
  <1>2. CASE Turn("main", <<>>, 1) /\ ~Full(queue) /\ Put(c)
    BY <1>0, <1>1, <1>2, PutType, FewerStructure
  <1>3. ASSUME UNCHANGED <<conns, queue>>, NEW p, Turn("main", p, 1), DOMAIN p = 1 .. 2,
               p[1] = Do("make_room"), p[2] = Serve("put_again", c)
        PROVE  Structure'
    <2>1. /\ p[1].do = "make_room" /\ p[2].do = "put_again" /\ p[2].conn = c
          /\ Conns' = Conns /\ \A k \in DOMAIN p : k = 1 \/ k = 2
      BY <1>3 DEF Do, Serve, Conns
    <2>2. \A i \in DOMAIN p : StepOK("main", p[i])'
      BY <2>1 DEF StepOK, MainSteps, WorkerSteps, MaintenanceSteps
    <2>3. /\ Len(agenda'["main"]) = 3 /\ agenda'["main"][1].do = "make_room"
          /\ agenda'["main"][2].do = "put_again"
      <3>1. Len(agenda["main"]) = 2
        BY <1>0, AtFacts DEF FollowedAt
      <3>2. Len(p) = 2
        <4>1. DOMAIN p = 1 .. Len(p) /\ Len(p) \in Nat
          BY <1>0, <1>3, TurnDomains
        <4> QED BY <1>3, <4>1
      <3> QED BY <1>3, <2>1, <3>1, <3>2 DEF Turn, Splice
    <2>4. \A k \in DOMAIN p : FollowedAt(agenda'["main"], k)
      BY <2>1, <2>3 DEF FollowedAt, LastSteps
    <2>5. server' \in Servers /\ history' \in Histories /\ errors' \in 0 .. MaxErrors
      BY <1>1, TypeFacts
    <2> QED BY <1>0, <1>1, <1>3, <2>2, <2>4, <2>5, QuietStructure
  <1> QED BY <1>1, <1>2, <1>3

\* The second put succeeds, or the connection is given up.
LEMMA EnqueueAgainStructure ==
    ASSUME Structure, EnqueueAgain
    PROVE  /\ Structure' /\ Turn("main", <<>>, 1)
           /\ UNCHANGED <<limits, aged, server, errors, history>>
           /\ \E c \in Conns :
                /\ agenda["main"][1].do = "put_again" /\ agenda["main"][1].conn = c
                /\ \/ ~Full(queue) /\ Put(c)
                   \/ UNCHANGED queue /\ conns' = [conns EXCEPT ![c] = "closed"]
  <1>1. /\ "main" \in Threads /\ At("main", "put_again") /\ GoesOn("main")
        /\ UNCHANGED <<limits, aged, server, errors, history>>
    BY DEF EnqueueAgain, Threads
  <1>2. PICK c \in Conns : c = Head(agenda["main"]).conn /\ c = agenda["main"][1].conn
    BY <1>1, AtFacts DEF StepOK
  <1>3. \/ ~Full(queue) /\ Put(c)
        \/ UNCHANGED queue /\ conns' = [conns EXCEPT ![c] = "closed"]
    <2>1. c # Sentinel
      BY <1>2, TypeFacts DEF Sentinel
    <2> QED BY <1>2, <2>1 DEF EnqueueAgain, Close
  <1>4. /\ queue' \in Seq({Sentinel} \cup Conns) /\ Len(queue') <= MaxQueue
        /\ conns' \in Seq(ConnStates) /\ Len(conns') = Len(conns) /\ Conns' = Conns
    <2>1. CASE ~Full(queue) /\ Put(c)
      BY <1>2, <2>1, PutType
    <2>2. CASE UNCHANGED queue /\ conns' = [conns EXCEPT ![c] = "closed"]
      <3>1. "closed" \in ConnStates
        BY DEF ConnStates
      <3> QED BY <1>2, <2>2, <3>1, TypeFacts, MarkType
    <2> QED BY <1>3, <2>1, <2>2
  <1>5. Turn("main", <<>>, 1)
    BY <1>1, <1>4, OnTurn
  <1>6. Structure'
    BY <1>1, <1>4, <1>5, FewerStructure
  <1> QED BY <1>1, <1>2, <1>3, <1>5, <1>6, AtFacts

\* The agendas are left alone.
LEMMA TurnNone ==
    ASSUME Structure, Conns \subseteq Conns', NEW t \in Threads, UNCHANGED agenda
    PROVE  Turn(t, <<>>, 0)
  <1>1. agenda \in [Threads -> Seq(Steps')]
    BY AgendaGrows
  <1>2. PICK a : a = agenda[t] /\ a \in Seq(Steps')
    BY <1>1
  <1>3. Splice(a, <<>>, a, 0)
    BY <1>2 DEF Splice
  <1> QED BY <1>1, <1>2, <1>3, EmptySeq DEF Turn

\* The accept loop is left.
LEMMA LeaveStructure ==
    ASSUME Structure, AcceptStops \/ AcceptFails
    PROVE  /\ Structure' /\ Len(agenda["main"]) = 1 /\ agenda["main"][1].do = "accept"
           /\ UNCHANGED <<limits, conns, queue, aged, server, history>>
           /\ \E p : Turn("main", p, 1) /\ IsLeave(p)
  <1>1. /\ "main" \in Threads /\ At("main", "accept") /\ Leave
        /\ "accept" \in LastSteps /\ UNCHANGED <<limits, conns, queue, aged, server, history>>
    BY DEF AcceptStops, AcceptFails, Threads, LastSteps
  <1>2. PICK p : p = stop_worker \o stop_maintenance_worker \o release_backend_ownership
    OBVIOUS
  <1>3. IsLeave(p) /\ Goes("main", p)
    BY <1>1, <1>2, LeaveList DEF Leave
  <1>4. p \in Seq(Plain) /\ p \in Seq(Steps')
    BY <1>3, PlainSeq DEF IsLeave
  <1>5. Conns' = Conns
    BY <1>1 DEF Conns
  <1>6. Len(agenda["main"]) = 1
    BY <1>1, LastIsOnly
  <1>7. Turn("main", p, 1)
    BY <1>1, <1>3, <1>4, <1>5, <1>6, TurnAll
  <1>8. \A i \in DOMAIN p : StepOK("main", p[i])'
    BY <1>1, <1>3, LeaveFollowed, PlainOK
  <1>9. \A k \in DOMAIN p : FollowedAt(agenda'["main"], k)
    BY <1>1, <1>3, <1>6, <1>7, LeaveFollowed, TurnFront
  <1>10. server' \in Servers /\ history' \in Histories /\ errors' \in 0 .. MaxErrors
    BY <1>1, TypeFacts DEF AcceptStops, AcceptFails, MayRaise
  <1>11. Structure'
    BY <1>1, <1>7, <1>8, <1>9, <1>10, QuietStructure
  <1> QED BY <1>1, <1>3, <1>6, <1>7, <1>11, AtFacts

\* A queued connection ages.
LEMMA AgeStructure ==
    ASSUME Structure, NEW c \in Conns, Age(c)
    PROVE  Structure'
  <1>1. /\ UNCHANGED <<limits, conns, queue, server, agenda, errors, history>>
        /\ aged' = aged \cup {c} /\ "main" \in Threads
    BY DEF Age, Threads
  <1>2. Conns' = Conns
    BY <1>1 DEF Conns
  <1>3. PICK p : p = <<>> /\ DOMAIN p = {} /\ Turn("main", p, 0)
    BY <1>1, <1>2, TurnNone
  <1>4. ActionsOK' /\ history' \in Histories'
    BY <1>1, <1>2, ActionsStay, HistoryStays
  <1>5. /\ conns' \in Seq(ConnStates) /\ Len(conns) <= Len(conns')
        /\ Len(conns') <= Len(requests) /\ queue' \in Seq({Sentinel} \cup Conns')
        /\ Len(queue') <= MaxQueue /\ aged' \subseteq Conns'
        /\ server' \in Servers /\ errors' \in 0 .. MaxErrors
    BY <1>1, <1>2, TypeFacts
  <1> QED BY <1>1, <1>3, <1>4, <1>5, StructureKept

\* The worker takes an entry off the queue: a sentinel ends it, an expired
\* connection is closed, any other is served.
LEMMA WorkerGetTurn ==
    ASSUME Structure, WorkerGet
    PROVE  /\ Len(agenda["worker"]) = 1 /\ queue # <<>> /\ queue' = Tail(queue)
           /\ agenda["worker"][1].do = "get"
           /\ UNCHANGED <<limits, aged, server, errors, history>>
           /\ \/ /\ Head(queue) = Sentinel /\ Turn("worker", <<>>, 1) /\ UNCHANGED conns
              \/ /\ Head(queue) # Sentinel /\ Turn("worker", <<>>, 0) /\ UNCHANGED agenda
                 /\ conns' = [conns EXCEPT ![Head(queue)] = "closed"]
              \/ /\ Head(queue) # Sentinel
                 /\ conns' = [conns EXCEPT ![Head(queue)] = "read"]
                 /\ \E p : /\ Turn("worker", p, 1) /\ DOMAIN p = 1 .. 4
                           /\ p[1] = Serve("dispatch", Head(queue))
                           /\ p[2] = Serve("respond", Head(queue))
                           /\ p[3] = Serve("post", Head(queue)) /\ p[4] = Do("get")
  <1>1. /\ "worker" \in Threads /\ At("worker", "get") /\ "get" \in LastSteps
        /\ queue # <<>> /\ queue' = Tail(queue)
        /\ UNCHANGED <<limits, aged, server, errors, history>>
    BY DEF WorkerGet, Threads, LastSteps
  <1>2. Len(agenda["worker"]) = 1 /\ agenda["worker"][1].do = "get"
    BY <1>1, LastIsOnly, AtFacts
  <1>3. PICK c \in {Sentinel} \cup Conns : c = Head(queue)
    BY <1>1, QueueHead
  <1>4. CASE c = Sentinel /\ Goes("worker", <<>>) /\ UNCHANGED conns
    <2>1. Conns' = Conns /\ <<>> \in Seq(Steps')
      BY <1>4, EmptySeq DEF Conns
    <2>2. Turn("worker", <<>>, 1)
      BY <1>1, <1>2, <1>4, <2>1, TurnAll
    <2> QED BY <1>1, <1>2, <1>3, <1>4, <2>2
  <1>5. CASE c # Sentinel /\ UNCHANGED agenda /\ conns' = [conns EXCEPT ![c] = "closed"]
    <2>1. Conns' = Conns
      BY <1>5, MarkType DEF ConnStates
    <2>2. Turn("worker", <<>>, 0)
      BY <1>1, <1>5, <2>1, TurnNone
    <2> QED BY <1>1, <1>2, <1>3, <1>5, <2>2
  <1>6. CASE /\ c # Sentinel /\ conns' = [conns EXCEPT ![c] = "read"]
             /\ Calls("worker", <<Serve("dispatch", c), Serve("respond", c),
                                  Serve("post", c), Do("get")>>)
    <2>1. Conns' = Conns
      BY <1>6, MarkType DEF ConnStates
    <2>2. PICK p : p = <<Serve("dispatch", c), Serve("respond", c),
                         Serve("post", c), Do("get")>>
      OBVIOUS
    <2>3. /\ Serve("dispatch", c) \in Steps' /\ Serve("respond", c) \in Steps'
          /\ Serve("post", c) \in Steps' /\ Do("get") \in Steps'
      BY <1>3, <1>6, <2>1, TypeFacts DEF Serve, Do, Steps
    <2>4. /\ p \in Seq(Steps') /\ DOMAIN p = 1 .. 4
          /\ p[1] = Serve("dispatch", c) /\ p[2] = Serve("respond", c)
          /\ p[3] = Serve("post", c) /\ p[4] = Do("get")
      BY <2>2, <2>3
    <2>5. Turn("worker", p, 1)
      BY <1>1, <1>6, <2>1, <2>2, <2>4, AtFacts, TurnCall
    <2> QED BY <1>1, <1>2, <1>3, <1>6, <2>4, <2>5
  <1> QED BY <1>3, <1>4, <1>5, <1>6 DEF WorkerGet

\* Taking an entry keeps the structure.
LEMMA WorkerGetStructure ==
    ASSUME Structure, WorkerGet
    PROVE  Structure'
  <1>1. /\ Len(agenda["worker"]) = 1 /\ queue # <<>> /\ queue' = Tail(queue)
        /\ UNCHANGED <<limits, aged, server, errors, history>> /\ "worker" \in Threads
    BY WorkerGetTurn DEF Threads
  <1>2. PICK c \in {Sentinel} \cup Conns : c = Head(queue)
    BY <1>1, QueueHead
  <1>3. queue' \in Seq({Sentinel} \cup Conns) /\ Len(queue') <= MaxQueue
    <2>1. queue' \in Seq({Sentinel} \cup Conns) /\ Len(queue') = Len(queue) - 1
      BY <1>1, QueueHead
    <2> QED BY <1>1, <2>1, QueueHead, TypeFacts, SocketServerAssumption
  <1>4. server' \in Servers /\ history' \in Histories
    BY <1>1, TypeFacts
  <1>5. "closed" \in ConnStates /\ "read" \in ConnStates
    BY DEF ConnStates
  <1>6. CASE (Turn("worker", <<>>, 1) \/ Turn("worker", <<>>, 0))
             /\ (UNCHANGED conns \/ (c # Sentinel /\ conns' = [conns EXCEPT ![c] = "closed"]))
    <2>1. conns' \in Seq(ConnStates) /\ Len(conns') = Len(conns) /\ Conns' = Conns
      <3>1. CASE UNCHANGED conns
        BY <3>1, TypeFacts DEF Conns
      <3> QED BY <1>2, <1>5, <1>6, <3>1, MarkType
    <2>2. ActionsOK'
      BY <1>1, <2>1, ActionsStay
    <2>3. PICK p, d : p = <<>> /\ DOMAIN p = {} /\ Turn("worker", p, d)
      BY <1>6
    <2> QED BY <1>1, <1>3, <1>4, <2>1, <2>2, <2>3, ConnStructure
  <1>7. ASSUME c # Sentinel, conns' = [conns EXCEPT ![c] = "read"],
               NEW p, Turn("worker", p, 1), DOMAIN p = 1 .. 4,
               p[1] = Serve("dispatch", c), p[2] = Serve("respond", c),
               p[3] = Serve("post", c), p[4] = Do("get")
        PROVE  Structure'
    <2>1. conns' \in Seq(ConnStates) /\ Len(conns') = Len(conns) /\ Conns' = Conns
      BY <1>2, <1>5, <1>7, MarkType
    <2>2. ActionsOK'
      BY <1>1, <2>1, ActionsStay
    <2>3. /\ p[1].do = "dispatch" /\ p[1].conn = c /\ p[2].do = "respond" /\ p[2].conn = c
          /\ p[3].do = "post" /\ p[3].conn = c /\ p[4].do = "get"
          /\ \A k \in DOMAIN p : k = 1 \/ k = 2 \/ k = 3 \/ k = 4
      BY <1>7 DEF Serve, Do
    <2>4. \A i \in DOMAIN p : StepOK("worker", p[i])'
      BY <1>2, <1>7, <2>1, <2>3 DEF StepOK, MainSteps, WorkerSteps, MaintenanceSteps
    <2>5. \A k \in DOMAIN p : FollowedAt(p, k)
      <3>1. Len(p) = 4 /\ 2 \in DOMAIN p
        BY <1>7 DEF Turn
      <3> QED BY <2>3, <3>1 DEF FollowedAt, LastSteps
    <2>6. \A k \in DOMAIN p : FollowedAt(agenda'["worker"], k)
      BY <1>1, <1>7, <2>5, TurnFront
    <2> QED BY <1>1, <1>3, <1>4, <1>7, <2>1, <2>2, <2>4, <2>6, ConnStructure
  <1> QED BY <1>2, <1>6, <1>7, WorkerGetTurn

\* One more step behind a complete list.
LEMMA ThenOneFollowed ==
    ASSUME NEW S, NEW b \in Seq(S), NEW x \in S,
           \A k \in DOMAIN b : /\ FollowedAt(b, k)
                               /\ b[k].do \notin LastSteps \cup {"enqueue", "put", "put_again"}
    PROVE  \A k \in 1 .. Len(b) : FollowedAt(b \o <<x>>, k)
  <1>1. PICK n : n = b \o <<x>>
    OBVIOUS
  <1>0. PICK e : e = <<x>>
    OBVIOUS
  <1>2. Len(e) = 1 /\ DOMAIN e = {1} /\ e[1] = x
    BY <1>0
  <1>3. /\ n \in Seq(S) /\ Len(n) = Len(b) + 1 /\ n[Len(b) + 1] = x
        /\ \A i \in 1 .. Len(b) : n[i] = b[i]
    BY <1>1, ThenOne
  <1>4. /\ DOMAIN n = 1 .. Len(n) /\ DOMAIN b = 1 .. Len(b) /\ Len(b) \in Nat
        /\ Len(n) \in Nat
    BY <1>3, LenProperties
  <1>5. Splice(n, b, e, 0)
    BY <1>2, <1>3, <1>4 DEF Splice
  <1>6. ASSUME NEW k \in DOMAIN b PROVE FollowedAt(n, k)
    BY <1>4, <1>5, FrontFollowed
  <1> QED BY <1>1, <1>4, <1>6

\* The worker ends.
LEMMA WorkerStopsStructure ==
    ASSUME Structure, WorkerStops
    PROVE  /\ Structure' /\ Turn("worker", <<>>, 1) /\ Len(agenda["worker"]) = 1
           /\ agenda["worker"][1].do = "get"
  <1>1. /\ "worker" \in Threads /\ At("worker", "get") /\ "get" \in LastSteps
        /\ UNCHANGED <<limits, conns, queue, aged, server, errors, history>>
        /\ Goes("worker", <<>>) /\ <<>> \in Seq(Steps') /\ Conns' = Conns
    BY EmptySeq DEF WorkerStops, Threads, LastSteps, Conns
  <1>2. Len(agenda["worker"]) = 1 /\ agenda["worker"][1].do = "get"
    BY <1>1, LastIsOnly, AtFacts
  <1>3. Turn("worker", <<>>, 1)
    BY <1>1, <1>2, TurnAll, Zenon
  <1> QED BY <1>1, <1>2, <1>3, TypeFacts, OnStructure

\* What is behind the step a thread takes stays behind what it puts in front.
LEMMA Behind ==
    ASSUME Structure, NEW t \in Threads, NEW p, Turn(t, p, 1),
           NEW i \in DOMAIN agenda[t], 1 < i, NEW k \in DOMAIN p
    PROVE  /\ agenda'[t][k] = p[k]
           /\ \E j \in DOMAIN agenda'[t] : k < j /\ agenda'[t][j] = agenda[t][i]
  <1>1. PICK n, a : n = agenda'[t] /\ a = agenda[t]
    OBVIOUS
  <1>2. /\ Splice(n, p, a, 1) /\ DOMAIN n = 1 .. Len(n) /\ DOMAIN p = 1 .. Len(p)
        /\ Len(p) \in Nat /\ DOMAIN a = 1 .. Len(a) /\ Len(a) \in Nat
    BY <1>1, TurnDomains DEF Turn
  <1>3. /\ \A j \in DOMAIN a : j > 1 =>
                j + Len(p) - 1 \in DOMAIN n /\ n[j + Len(p) - 1] = a[j]
        /\ \A j \in DOMAIN p : n[j] = p[j]
    BY <1>2 DEF Splice
  <1>4. i \in DOMAIN a /\ i > 1 /\ k < i + Len(p) - 1
    BY <1>1, <1>2
  <1> QED BY <1>1, <1>3, <1>4

\* A request is refused while the server stops, or goes on with the gate.
LEMMA DispatchTurn ==
    ASSUME Structure, Dispatch
    PROVE  \E c \in Conns :
             /\ agenda["worker"][1].do = "dispatch" /\ agenda["worker"][1].conn = c
             /\ UNCHANGED <<limits, queue, aged, errors, history>>
             /\ \/ /\ conns' = [conns EXCEPT ![c] = "refused"]
                   /\ Turn("worker", <<>>, 1) /\ UNCHANGED server
                \/ /\ UNCHANGED conns /\ server' = [server EXCEPT !.gate = "worker"]
                   /\ ~stopping_refuses(requests[c]) /\ server.gate = Nobody
                   /\ \E p : /\ Turn("worker", p, 1) /\ DOMAIN p = {1}
                             /\ p[1] = Serve("admit", c)
  <1>1. /\ "worker" \in Threads /\ At("worker", "dispatch") /\ server.gate = Nobody
        /\ UNCHANGED <<limits, queue, aged, errors, history>>
    BY DEF Dispatch, Threads
  <1>2. PICK c \in Conns : c = Head(agenda["worker"]).conn /\ c = agenda["worker"][1].conn
    BY <1>1, AtFacts DEF StepOK
  <1>3. agenda["worker"][1].do = "dispatch" /\ ~ended("worker")
    BY <1>1, AtFacts
  <1>4. CASE /\ conns' = [conns EXCEPT ![c] = "refused"]
             /\ GoesOn("worker") /\ UNCHANGED server
    <2>1. Conns' = Conns
      BY <1>4, MarkType DEF ConnStates
    <2>2. Turn("worker", <<>>, 1)
      BY <1>1, <1>4, <2>1, OnTurn
    <2> QED BY <1>1, <1>2, <1>3, <1>4, <2>2, Zenon
  <1>5. CASE /\ UNCHANGED conns /\ server' = [server EXCEPT !.gate = "worker"]
             /\ ~stopping_refuses(requests[c]) /\ Calls("worker", <<Serve("admit", c)>>)
    <2>1. PICK p : p = <<Serve("admit", c)>>
      OBVIOUS
    <2>2. Conns' = Conns
      BY <1>5 DEF Conns
    <2>3. Serve("admit", c) \in Steps'
      BY <1>2, <2>2, TypeFacts DEF Serve, Steps
    <2>4. p \in Seq(Steps') /\ DOMAIN p = {1} /\ p[1] = Serve("admit", c)
      BY <2>1, <2>3
    <2>5. Turn("worker", p, 1)
      BY <1>1, <1>3, <1>5, <2>1, <2>2, <2>4, TurnCall
    <2> QED BY <1>1, <1>2, <1>3, <1>5, <2>4, <2>5, Zenon
  <1> QED BY <1>2, <1>4, <1>5, Zenon DEF Dispatch

\* Dispatching keeps the structure.
LEMMA DispatchStructure ==
    ASSUME Structure, Dispatch
    PROVE  Structure'
  <1>0. "worker" \in Threads /\ "refused" \in ConnStates /\ At("worker", "dispatch")
    BY DEF Threads, ConnStates, Dispatch
  <1>1. PICK c \in Conns :
             /\ agenda["worker"][1].do = "dispatch" /\ agenda["worker"][1].conn = c
             /\ UNCHANGED <<limits, queue, aged, errors, history>>
             /\ \/ /\ conns' = [conns EXCEPT ![c] = "refused"]
                   /\ Turn("worker", <<>>, 1) /\ UNCHANGED server
                \/ /\ UNCHANGED conns /\ server' = [server EXCEPT !.gate = "worker"]
                   /\ ~stopping_refuses(requests[c]) /\ server.gate = Nobody
                   /\ \E p : /\ Turn("worker", p, 1) /\ DOMAIN p = {1}
                             /\ p[1] = Serve("admit", c)
    BY DispatchTurn, Zenon
  <1>2. CASE /\ conns' = [conns EXCEPT ![c] = "refused"]
             /\ Turn("worker", <<>>, 1) /\ UNCHANGED server
    <2>1. /\ conns' \in Seq(ConnStates) /\ Len(conns') = Len(conns) /\ Conns' = Conns
          /\ queue' \in Seq({Sentinel} \cup Conns) /\ Len(queue') <= MaxQueue
      BY <1>0, <1>1, <1>2, MarkType, TypeFacts
    <2> QED BY <1>0, <1>1, <1>2, <2>1, FewerStructure
  <1>3. ASSUME UNCHANGED conns, server' = [server EXCEPT !.gate = "worker"],
               NEW p, Turn("worker", p, 1), DOMAIN p = {1}, p[1] = Serve("admit", c)
        PROVE  Structure'
    <2>1. server' \in Servers /\ server'.actions = server.actions
      BY <1>0, <1>3, TypeFacts DEF Servers
    <2>2. p[1].do = "admit" /\ p[1].conn = c /\ Conns' = Conns
      BY <1>3 DEF Serve, Conns
    <2>3. \A i \in DOMAIN p : StepOK("worker", p[i])'
      BY <1>3, <2>2 DEF StepOK, MainSteps, WorkerSteps, MaintenanceSteps
    <2>4. PICK i \in DOMAIN agenda["worker"] :
              /\ 1 < i /\ agenda["worker"][i].do = "respond"
              /\ agenda["worker"][i].conn = c
      BY <1>0, <1>1, AtFacts DEF FollowedAt
    <2>5. /\ agenda'["worker"][1] = p[1]
          /\ \E j \in DOMAIN agenda'["worker"] :
                1 < j /\ agenda'["worker"][j] = agenda["worker"][i]
      BY <1>0, <1>3, <2>4, Behind
    <2>6. FollowedAt(agenda'["worker"], 1)
      BY <2>2, <2>4, <2>5 DEF FollowedAt, LastSteps
    <2>7. \A k \in DOMAIN p : FollowedAt(agenda'["worker"], k)
      BY <1>3, <2>6
    <2> QED BY <1>0, <1>1, <1>3, <2>1, <2>3, <2>7, TypeFacts, QuietStructure
  <1> QED BY <1>1, <1>2, <1>3

\* A request is refused, or its handler starts; the handler of a shutdown
\* releases the backend before it returns.
LEMMA AdmitTurn ==
    ASSUME Structure, Admit
    PROVE  \E c \in Conns :
             /\ agenda["worker"][1].do = "admit" /\ agenda["worker"][1].conn = c
             /\ UNCHANGED <<limits, queue, aged, errors>>
             /\ \/ /\ conns' = [conns EXCEPT ![c] = "refused"]
                   /\ Turn("worker", <<>>, 1) /\ server' = [server EXCEPT !.gate = Nobody]
                   /\ UNCHANGED history
                \/ /\ ~bootstrap_restricted(requests[c])
                   /\ conns' = [conns EXCEPT ![c] = "handling"]
                   /\ server' = [server EXCEPT !.stopping = @ \/ requests[c] \in ShutdownOps]
                   /\ history' = [history EXCEPT !.handled = @ \cup {c},
                                    !.owed = IF requests[c] = "stop-all"
                                             THEN @ \cup {c} ELSE @]
                   /\ \E p, b : /\ Turn("worker", p, 1) /\ Len(p) = Len(b) + 1
                                /\ Len(b) \in Nat /\ p[Len(p)] = Serve("return", c)
                                /\ \A k \in 1 .. Len(b) : /\ p[k] = b[k] /\ p[k] \in Plain
                                                          /\ FollowedAt(p, k)
                                /\ IsRelease(b) \/ Len(b) = 0
  <1>1. /\ "worker" \in Threads /\ At("worker", "admit")
        /\ UNCHANGED <<limits, queue, aged, errors>>
    BY DEF Admit, Threads
  <1>2. PICK c \in Conns : c = Head(agenda["worker"]).conn /\ c = agenda["worker"][1].conn
    BY <1>1, AtFacts DEF StepOK
  <1>3. agenda["worker"][1].do = "admit" /\ ~ended("worker")
    BY <1>1, AtFacts
  <1>4. CASE /\ conns' = [conns EXCEPT ![c] = "refused"]
             /\ GoesOn("worker") /\ server' = [server EXCEPT !.gate = Nobody]
             /\ UNCHANGED history
    <2>1. Conns' = Conns
      BY <1>4, MarkType DEF ConnStates
    <2>2. Turn("worker", <<>>, 1)
      BY <1>1, <1>4, <2>1, OnTurn
    <2> QED BY <1>1, <1>2, <1>3, <1>4, <2>2, Zenon
  <1>5. ASSUME NEW b, b = IF requests[c] = "shutdown" THEN release_backend_ownership ELSE <<>>,
               NEW p, p = b \o <<Serve("return", c)>>,
               conns' = [conns EXCEPT ![c] = "handling"], Calls("worker", p)
        PROVE  /\ Turn("worker", p, 1) /\ Len(p) = Len(b) + 1
               /\ Len(b) \in Nat /\ p[Len(p)] = Serve("return", c)
               /\ \A k \in 1 .. Len(b) : /\ p[k] = b[k] /\ p[k] \in Plain
                                         /\ FollowedAt(p, k)
               /\ IsRelease(b) \/ Len(b) = 0
    <2>1. Conns' = Conns
      BY <1>5, MarkType DEF ConnStates
    <2>2. Serve("return", c) \in Steps'
      BY <1>2, <2>1, TypeFacts DEF Serve, Steps
    <2>3. IsRelease(b) \/ b = <<>>
      BY <1>5, ReleaseList
    <2>4. /\ b \in Seq(Plain)
          /\ IsRelease(b) \/ Len(b) = 0
          /\ \A k \in DOMAIN b : /\ FollowedAt(b, k) /\ b[k] \in Plain
                                 /\ b[k].do \notin LastSteps \cup {"enqueue", "put", "put_again"}
      <3>1. CASE IsRelease(b)
        <4>1. /\ b \in Seq(Plain) /\ Len(b) = 8 /\ DOMAIN b = 1 .. 8
              /\ ShutdownAt(b, 0) /\ StopAt(b, 2)
          BY <3>1, LenProperties DEF IsRelease
        <4>2. Len(b) >= 8
          BY <4>1
        <4>3. \A k \in 1 .. 8 : /\ FollowedAt(b, k)
                                /\ b[k].do \notin LastSteps \cup {"enqueue", "put", "put_again"}
          BY <4>1, <4>2, ReleaseFollowed
        <4>4. \A k \in 1 .. 8 : b[k] \in Plain
          BY <4>1, ReleaseNames
        <4> QED BY <3>1, <4>1, <4>3, <4>4
      <3>2. CASE b = <<>>
        BY <3>2, EmptySeq
      <3> QED BY <2>3, <3>1, <3>2
    <2>5. b \in Seq(Steps') /\ Len(b) \in Nat /\ DOMAIN b = 1 .. Len(b)
      BY <2>4, PlainSeq, LenProperties
    <2>6. /\ p \in Seq(Steps') /\ Len(p) = Len(b) + 1 /\ p[Len(b) + 1] = Serve("return", c)
          /\ \A i \in 1 .. Len(b) : p[i] = b[i]
      BY <1>5, <2>2, <2>5, ThenOne
    <2>7. \A k \in 1 .. Len(b) : FollowedAt(p, k)
      BY <1>5, <2>2, <2>4, <2>5, ThenOneFollowed
    <2>8. Turn("worker", p, 1)
      BY <1>1, <1>3, <1>5, <2>1, <2>6, TurnCall
    <2> QED BY <2>4, <2>5, <2>6, <2>7, <2>8
  <1>6. CASE /\ ~bootstrap_restricted(requests[c])
             /\ conns' = [conns EXCEPT ![c] = "handling"]
             /\ server' = [server EXCEPT !.stopping = @ \/ requests[c] \in ShutdownOps]
             /\ history' = [history EXCEPT !.handled = @ \cup {c},
                              !.owed = IF requests[c] = "stop-all" THEN @ \cup {c} ELSE @]
             /\ Calls("worker",
                     (IF requests[c] = "shutdown" THEN release_backend_ownership ELSE <<>>)
                     \o <<Serve("return", c)>>)
    <2>1. PICK b : b = IF requests[c] = "shutdown" THEN release_backend_ownership ELSE <<>>
      OBVIOUS
    <2>2. PICK p : p = b \o <<Serve("return", c)>>
      OBVIOUS
    <2>3. /\ Turn("worker", p, 1) /\ Len(p) = Len(b) + 1
          /\ Len(b) \in Nat /\ p[Len(p)] = Serve("return", c)
          /\ \A k \in 1 .. Len(b) : /\ p[k] = b[k] /\ p[k] \in Plain
                                    /\ FollowedAt(p, k)
          /\ IsRelease(b) \/ Len(b) = 0
      BY <1>5, <1>6, <2>1, <2>2, Zenon
    <2> QED BY <1>1, <1>2, <1>3, <1>6, <2>3, Zenon
  <1> QED BY <1>2, <1>4, <1>6, Zenon DEF Admit

\* Admitting keeps the structure.
LEMMA AdmitStructure ==
    ASSUME Structure, Admit
    PROVE  Structure'
  <1>0. "worker" \in Threads /\ "refused" \in ConnStates /\ "handling" \in ConnStates
    BY DEF Threads, ConnStates
  <1>1. PICK c \in Conns :
             /\ agenda["worker"][1].do = "admit" /\ agenda["worker"][1].conn = c
             /\ UNCHANGED <<limits, queue, aged, errors>>
             /\ \/ /\ conns' = [conns EXCEPT ![c] = "refused"]
                   /\ Turn("worker", <<>>, 1) /\ server' = [server EXCEPT !.gate = Nobody]
                   /\ UNCHANGED history
                \/ /\ ~bootstrap_restricted(requests[c])
                   /\ conns' = [conns EXCEPT ![c] = "handling"]
                   /\ server' = [server EXCEPT !.stopping = @ \/ requests[c] \in ShutdownOps]
                   /\ history' = [history EXCEPT !.handled = @ \cup {c},
                                    !.owed = IF requests[c] = "stop-all"
                                             THEN @ \cup {c} ELSE @]
                   /\ \E p, b : /\ Turn("worker", p, 1) /\ Len(p) = Len(b) + 1
                                /\ Len(b) \in Nat /\ p[Len(p)] = Serve("return", c)
                                /\ \A k \in 1 .. Len(b) : /\ p[k] = b[k] /\ p[k] \in Plain
                                                          /\ FollowedAt(p, k)
                                /\ IsRelease(b) \/ Len(b) = 0
    BY AdmitTurn, Zenon
  <1>2. queue' \in Seq({Sentinel} \cup Conns) /\ Len(queue') <= MaxQueue
    BY <1>1, TypeFacts
  <1>3. CASE /\ conns' = [conns EXCEPT ![c] = "refused"]
             /\ Turn("worker", <<>>, 1) /\ server' = [server EXCEPT !.gate = Nobody]
             /\ UNCHANGED history
    <2>1. conns' \in Seq(ConnStates) /\ Len(conns') = Len(conns) /\ Conns' = Conns
      BY <1>0, <1>3, MarkType
    <2>0. server' \in Servers /\ server'.actions = server.actions
      BY <1>3, TypeFacts DEF Servers
    <2>2. ActionsOK' /\ server' \in Servers /\ history' \in Histories
      BY <1>1, <1>3, <2>0, <2>1, ActionsStay, TypeFacts
    <2>3. PICK p : p = <<>> /\ DOMAIN p = {} /\ Turn("worker", p, 1)
      BY <1>3
    <2> QED BY <1>0, <1>1, <1>2, <1>3, <2>1, <2>2, <2>3, ConnStructure
  <1>4. ASSUME conns' = [conns EXCEPT ![c] = "handling"],
               server' = [server EXCEPT !.stopping = @ \/ requests[c] \in ShutdownOps],
               history' = [history EXCEPT !.handled = @ \cup {c},
                             !.owed = IF requests[c] = "stop-all"
                                      THEN @ \cup {c} ELSE @],
               NEW p, NEW b, Turn("worker", p, 1), Len(p) = Len(b) + 1,
               Len(b) \in Nat, p[Len(p)] = Serve("return", c),
               \A k \in 1 .. Len(b) : p[k] \in Plain /\ FollowedAt(p, k)
        PROVE  Structure'
    <2>1. conns' \in Seq(ConnStates) /\ Len(conns') = Len(conns) /\ Conns' = Conns
      BY <1>0, <1>4, MarkType
    <2>2. server' \in Servers /\ server'.actions = server.actions
      BY <1>0, <1>4, TypeFacts DEF Servers
    <2>3. ActionsOK'
      BY <1>1, <2>1, <2>2, ActionsStay
    <2>4. history' \in Histories /\ history'.published = history.published
      BY <1>4, TypeFacts DEF Histories
    <2>5. DOMAIN p = 1 .. Len(p) /\ \A k \in DOMAIN p : k \in 1 .. Len(b) \/ k = Len(p)
      BY <1>0, <1>4, TurnDomains
    <2>6. p[Len(p)].do = "return" /\ p[Len(p)].conn = c
      BY <1>4 DEF Serve
    <2>7. \A i \in DOMAIN p : StepOK("worker", p[i])'
      <3>1. StepOK("worker", p[Len(p)])'
        BY <2>1, <2>6 DEF StepOK, MainSteps, WorkerSteps, MaintenanceSteps
      <3> QED BY <1>0, <1>4, <2>5, <3>1, PlainOK
    <2>8. PICK n, a : n = agenda'["worker"] /\ a = agenda["worker"]
      OBVIOUS
    <2>9. /\ Splice(n, p, a, 1) /\ DOMAIN n = 1 .. Len(n) /\ DOMAIN p = 1 .. Len(p)
          /\ Len(p) \in Nat /\ DOMAIN a = 1 .. Len(a) /\ Len(a) \in Nat
      BY <1>0, <1>4, <2>8, TurnDomains DEF Turn
    <2>10. ASSUME NEW k \in 1 .. Len(b) PROVE FollowedAt(n, k)
      <3>1. p[k].do \notin LastSteps \cup {"enqueue", "put", "put_again"}
        <4>1. p[k] \in Plain
          BY <1>4
        <4> QED BY <4>1 DEF Plain, Do, LastSteps
      <3> QED BY <1>4, <2>5, <2>9, <3>1, FrontFollowed
    <2>11. FollowedAt(n, Len(p))
      <3>1. At("worker", "admit")
        BY DEF Admit
      <3>2. PICK i \in DOMAIN a : 1 < i /\ a[i].do = "respond" /\ a[i].conn = c
        BY <1>0, <1>1, <2>8, <3>1, AtFacts DEF FollowedAt
      <3>3. /\ i + Len(p) - 1 \in DOMAIN n /\ n[i + Len(p) - 1] = a[i]
            /\ Len(p) \in DOMAIN p /\ n[Len(p)] = p[Len(p)]
            /\ Len(p) < i + Len(p) - 1
        <4>1. /\ \A j \in DOMAIN a : j > 1 =>
                    j + Len(p) - 1 \in DOMAIN n /\ n[j + Len(p) - 1] = a[j]
              /\ \A j \in DOMAIN p : n[j] = p[j]
          BY <2>9 DEF Splice
        <4>2. i > 1 /\ Len(p) \in DOMAIN p /\ Len(p) < i + Len(p) - 1
          BY <1>4, <2>9, <3>2
        <4> QED BY <3>2, <4>1, <4>2
      <3> QED BY <2>6, <3>2, <3>3 DEF FollowedAt, LastSteps
    <2>12. \A k \in DOMAIN p : FollowedAt(agenda'["worker"], k)
      BY <2>5, <2>8, <2>10, <2>11
    <2> QED BY <1>0, <1>1, <1>2, <1>4, <2>1, <2>2, <2>3, <2>4, <2>7, <2>12, ConnStructure
  <1> QED BY <1>1, <1>3, <1>4

\* A step of the worker that is over and marks its connection.
LEMMA MarkStructure ==
    ASSUME Structure, NEW c \in Conns, NEW st \in ConnStates,
           conns' = [conns EXCEPT ![c] = st], Turn("worker", <<>>, 1),
           UNCHANGED <<limits, queue, aged, errors, history>>,
           server' \in Servers, ActionsOK'
    PROVE  Structure'
  <1>0. "worker" \in Threads
    BY DEF Threads
  <1>1. conns' \in Seq(ConnStates) /\ Len(conns') = Len(conns) /\ Conns' = Conns
    BY MarkType
  <1>2. PICK p : p = <<>> /\ DOMAIN p = {} /\ Turn("worker", p, 1)
    OBVIOUS
  <1>3. /\ queue' \in Seq({Sentinel} \cup Conns) /\ Len(queue') <= MaxQueue
        /\ history' \in Histories
    BY TypeFacts
  <1> QED BY <1>0, <1>1, <1>2, <1>3, ConnStructure

\* The handler returns.
LEMMA HandlerReturnsStructure ==
    ASSUME Structure, HandlerReturns
    PROVE  /\ Structure' /\ Turn("worker", <<>>, 1)
           /\ UNCHANGED <<limits, queue, aged, errors, history>>
           /\ server' = [server EXCEPT !.gate = Nobody]
           /\ \E c \in Conns :
                /\ agenda["worker"][1].do = "return" /\ agenda["worker"][1].conn = c
                /\ conns' = [conns EXCEPT ![c] = "handled"]
  <1>1. /\ "worker" \in Threads /\ At("worker", "return") /\ GoesOn("worker")
        /\ UNCHANGED <<limits, queue, aged, errors, history>>
        /\ server' = [server EXCEPT !.gate = Nobody] /\ "handled" \in ConnStates
    BY DEF HandlerReturns, Threads, ConnStates
  <1>2. PICK c \in Conns : c = Head(agenda["worker"]).conn /\ c = agenda["worker"][1].conn
    BY <1>1, AtFacts DEF StepOK
  <1>3. conns' = [conns EXCEPT ![c] = "handled"]
    BY <1>2 DEF HandlerReturns
  <1>4. Conns' = Conns
    BY <1>1, <1>3, MarkType
  <1>5. Turn("worker", <<>>, 1)
    BY <1>1, <1>4, OnTurn
  <1>6. server' \in Servers /\ server'.actions = server.actions
    BY <1>1, TypeFacts DEF Servers
  <1>7. ActionsOK'
    BY <1>1, <1>4, <1>6, ActionsStay
  <1>8. Structure'
    BY <1>1, <1>3, <1>5, <1>6, <1>7, MarkStructure
  <1> QED BY <1>1, <1>2, <1>3, <1>5, <1>8, AtFacts

(* s is the server with one more action behind the others.                  *)
Adds(s, x) ==
    /\ Len(s.actions) = Len(server.actions) + 1
    /\ s.actions[Len(server.actions) + 1] = x
    /\ \A i \in 1 .. Len(server.actions) : s.actions[i] = server.actions[i]
    /\ DOMAIN s.actions = 1 .. Len(server.actions) + 1
    /\ DOMAIN server.actions = 1 .. Len(server.actions)
    /\ Len(server.actions) \in Nat
    /\ s.stop = server.stop /\ s.bootstrap = server.bootstrap
    /\ s.ticks = server.ticks /\ s.event = TRUE /\ s.joined = server.joined
    /\ s.error = server.error

\* A finalizer is queued behind the others.
LEMMA ActionAdded ==
    ASSUME Structure, NEW x \in Action
    PROVE  /\ queue_after_response_action(server, x) \in Servers
           /\ Adds(queue_after_response_action(server, x), x)
  <1>4. PICK l : l = Append(server.actions, x)
    OBVIOUS
  <1>5. server.actions \in Seq(Action) /\ server \in Servers
    BY TypeFacts DEF Servers
  <1>6. /\ l \in Seq(Action) /\ Len(l) = Len(server.actions) + 1
        /\ l[Len(server.actions) + 1] = x
        /\ \A i \in 1 .. Len(server.actions) : l[i] = server.actions[i]
        /\ Len(server.actions) \in Nat /\ DOMAIN server.actions = 1 .. Len(server.actions)
    BY <1>4, <1>5, AppendProperties, LenProperties
  <1>7. DOMAIN l = 1 .. Len(server.actions) + 1
    BY <1>6, LenProperties
  <1>0. PICK s : s = [server EXCEPT !.actions = l, !.event = TRUE]
    OBVIOUS
  <1>8. s = queue_after_response_action(server, x)
    BY <1>0, <1>4 DEF queue_after_response_action
  <1>9. /\ s.actions = l /\ s \in Servers
        /\ s.stop = server.stop /\ s.bootstrap = server.bootstrap
        /\ s.ticks = server.ticks /\ s.event = TRUE /\ s.joined = server.joined
        /\ s.error = server.error
    BY <1>0, <1>5, <1>6 DEF Servers
  <1> QED BY <1>6, <1>7, <1>8, <1>9 DEF Adds

\* The response is written, or lost.
LEMMA RespondStructure ==
    ASSUME Structure, Respond
    PROVE  /\ Structure' /\ Turn("worker", <<>>, 1)
           /\ UNCHANGED <<limits, queue, aged, errors, history>>
           /\ \E c \in Conns :
                /\ agenda["worker"][1].do = "respond" /\ agenda["worker"][1].conn = c
                /\ conns' = [conns EXCEPT ![c] = "answered"]
                /\ server' = IF conns[c] = "handled" /\ requests[c] \in FinalizedOps
                             THEN queue_after_response_action(server,
                                     [op |-> requests[c], conn |-> c])
                             ELSE server
  <1>1. /\ "worker" \in Threads /\ At("worker", "respond") /\ GoesOn("worker")
        /\ UNCHANGED <<limits, queue, aged, errors, history>> /\ "answered" \in ConnStates
    BY DEF Respond, Threads, ConnStates
  <1>2. PICK c \in Conns : c = Head(agenda["worker"]).conn /\ c = agenda["worker"][1].conn
    BY <1>1, AtFacts DEF StepOK
  <1>3. /\ conns' = [conns EXCEPT ![c] = "answered"]
        /\ server' = IF conns[c] = "handled" /\ requests[c] \in FinalizedOps
                     THEN queue_after_response_action(server,
                             [op |-> requests[c], conn |-> c])
                     ELSE server
    BY <1>2 DEF Respond
  <1>4. Conns' = Conns
    BY <1>1, <1>3, MarkType
  <1>5. Turn("worker", <<>>, 1)
    BY <1>1, <1>4, OnTurn
  <1>6. server' \in Servers /\ ActionsOK'
    <2>1. CASE server' = server
      BY <1>1, <1>4, <2>1, TypeFacts, ActionsStay
    <2>2. CASE /\ requests[c] \in FinalizedOps
               /\ server' = queue_after_response_action(server,
                               [op |-> requests[c], conn |-> c])
      <3>1. PICK x, n : n = Len(server.actions) /\ x = [op |-> requests[c], conn |-> c]
        OBVIOUS
      <3>2. /\ server' \in Servers
            /\ server'.actions[n + 1] = x
            /\ \A i \in 1 .. n : server'.actions[i] = server.actions[i]
            /\ DOMAIN server'.actions = 1 .. n + 1
            /\ DOMAIN server.actions = 1 .. n /\ n \in Nat
        <4>1. x \in Action
          <5>1. c \in 0 .. Len(requests)
            BY TypeFacts
          <5> QED BY <2>2, <3>1, <5>1 DEF Action
        <4>2. server' \in Servers /\ Adds(server', x)
          BY <2>2, <3>1, <4>1, ActionAdded
        <4> QED BY <3>1, <4>2 DEF Adds
      <3>3. \A i \in 1 .. n : ActionOK(server.actions[i].op, server.actions[i].conn)
        BY <3>2 DEF Structure, ActionsOK
      <3>4. ActionOK(x.op, x.conn)
        BY <2>2, <3>1 DEF ActionOK
      <3>5. ASSUME NEW i \in DOMAIN server'.actions, NEW y, y = server'.actions[i]
            PROVE  ActionOK(y.op, y.conn)'
        <4>1. ActionOK(y.op, y.conn)
          <5>1. i \in 1 .. n \/ i = n + 1
            BY <3>2
          <5> QED BY <3>2, <3>3, <3>4, <3>5, <5>1
        <4> QED BY <1>1, <1>4, <4>1 DEF ActionOK, requests
      <3> QED BY <3>2, <3>5 DEF ActionsOK
    <2> QED BY <1>3, <2>1, <2>2
  <1>7. Structure'
    BY <1>1, <1>3, <1>5, <1>6, MarkStructure
  <1> QED BY <1>1, <1>2, <1>3, <1>5, <1>7, AtFacts

\* The ticks of a mutation are asked for.
LEMMA PostRequestStructure ==
    ASSUME Structure, PostRequest
    PROVE  /\ Structure' /\ Turn("worker", <<>>, 1) /\ agenda["worker"][1].do = "post"
           /\ UNCHANGED <<limits, conns, queue, aged, errors>>
           /\ \/ UNCHANGED <<server, history>>
              \/ /\ server' = queue_maintenance_ticks(server)
                 /\ \E c \in Conns : history' = [history EXCEPT !.posted = @ \cup {c}]
  <1>1. /\ "worker" \in Threads /\ At("worker", "post") /\ GoesOn("worker")
        /\ UNCHANGED <<limits, conns, queue, aged, errors>> /\ Conns' = Conns
    BY DEF PostRequest, Threads, Conns
  <1>2. PICK c \in Conns : c = Head(agenda["worker"]).conn /\ c = agenda["worker"][1].conn
    BY <1>1, AtFacts DEF StepOK
  <1>3. \/ UNCHANGED <<server, history>>
        \/ /\ server' = queue_maintenance_ticks(server)
           /\ history' = [history EXCEPT !.posted = @ \cup {c}]
    BY <1>2 DEF PostRequest
  <1>4. Turn("worker", <<>>, 1)
    BY <1>1, OnTurn
  <1>5. /\ server' \in Servers /\ server'.actions = server.actions
        /\ history' \in Histories /\ history'.published = history.published
    <2>1. CASE UNCHANGED <<server, history>>
      BY <2>1, TypeFacts
    <2>2. CASE /\ server' = queue_maintenance_ticks(server)
               /\ history' = [history EXCEPT !.posted = @ \cup {c}]
      <3>1. server \in Servers /\ history \in Histories
        BY TypeFacts
      <3>2. server' \in Servers /\ server'.actions = server.actions
        BY <2>2, <3>1 DEF Servers, queue_maintenance_ticks
      <3>3. history' \in Histories /\ history'.published = history.published
        BY <2>2, <3>1 DEF Histories
      <3> QED BY <3>2, <3>3
    <2> QED BY <1>3, <2>1, <2>2
  <1>6. Structure'
    BY <1>1, <1>4, <1>5, TypeFacts, OnStructure
  <1> QED BY <1>1, <1>2, <1>3, <1>4, <1>6, AtFacts

-----------------------------------------------------------------------------
(* The maintenance worker.                                                  *)

\* An entry of a selection is one of the actions it was made from.
LEMMA SelectedAction ==
    ASSUME NEW q, NEW a, NEW b, NEW n \in Nat, Selects(q, a, b, n), NEW i \in 1 .. Len(q)
    PROVE  \E k \in 1 .. n : q[i] = a[k]
  BY DEF Selects

\* The actions that are popped make a batch of well-formed steps.
LEMMA PoppedBatch ==
    ASSUME Structure, limits' = limits, Conns' = Conns, NEW t \in Threads,
           NEW q, q = popped(server, server.stop)
    PROVE  /\ q \in Seq(Action)
           /\ Selects(q, server.actions, server.stop, Len(server.actions))
           /\ Batch(q) \in Seq(Steps') /\ IsBatch(Batch(q), q)
           /\ \A k \in DOMAIN Batch(q) :
                /\ FollowedAt(Batch(q), k) /\ StepOK(t, Batch(q)[k])'
                /\ Batch(q)[k].do \in {"run", "end_batch"}
  <1>1. /\ server.actions \in Seq(Action) /\ server.stop \in BOOLEAN
        /\ Len(server.actions) \in Nat /\ DOMAIN server.actions = 1 .. Len(server.actions)
    BY TypeFacts, LenProperties DEF Servers
  <1>2. /\ q \in Seq(Action)
        /\ Selects(q, server.actions, server.stop, Len(server.actions))
    BY <1>1, PoppedSelects
  <1>3. ASSUME NEW i \in 1 .. Len(q) PROVE ActionOK(q[i].op, q[i].conn)
    <2>1. PICK k \in 1 .. Len(server.actions) : q[i] = server.actions[k]
      <3>0. PICK n \in Nat : n = Len(server.actions)
        BY <1>1, Zenon
      <3>1. PICK a : a = server.actions
        OBVIOUS
      <3>2. Selects(q, a, server.stop, n)
        BY <1>2, <3>0, <3>1, Zenon
      <3>3. PICK k \in 1 .. n : q[i] = a[k]
        BY <1>3, <3>2, SelectedAction
      <3> QED BY <3>0, <3>1, <3>3
    <2>2. ActionOK(server.actions[k].op, server.actions[k].conn)
      BY <1>1 DEF Structure, ActionsOK
    <2> QED BY <2>1, <2>2
  <1>4. ASSUME NEW x \in Action, ActionOK(x.op, x.conn)
        PROVE  Run(x) \in Steps' /\ StepOK(t, Run(x))'
    <2>1. x.conn \in {0} \cup Conns' /\ x.op \in Ops \cup {"none", "serving"}
      BY <1>4 DEF ActionOK, Ops
    <2>2. ActionOK(x.op, x.conn)'
      BY <1>4 DEF ActionOK, requests
    <2>3. PICK s : s = Run(x)
      OBVIOUS
    <2>4. s.do = "run" /\ s.op = x.op /\ s.conn = x.conn /\ s \in Steps'
      BY <2>1, <2>3 DEF Run, Steps
    <2>5. StepOK(t, s)'
      BY <2>2, <2>4 DEF StepOK, MainSteps, WorkerSteps, MaintenanceSteps
    <2> QED BY <2>3, <2>4, <2>5
  <1>5. ASSUME NEW i \in 1 .. Len(q) PROVE Run(q[i]) \in Steps' /\ StepOK(t, Run(q[i]))'
    <2>1. q[i] \in Action
      BY <1>2, ElementOfSeq
    <2> QED BY <1>3, <1>4, <2>1
  <1>6. Do("end_batch") \in Steps' /\ StepOK(t, Do("end_batch"))'
    BY DEF Do, Steps, StepOK, MainSteps, WorkerSteps, MaintenanceSteps
  <1>7. PICK b : b = Batch(q)
    OBVIOUS
  <1>8. b \in Seq(Steps') /\ IsBatch(b, q)
    BY <1>2, <1>5, <1>6, <1>7, BatchList
  <1>9. ASSUME NEW k \in DOMAIN b
        PROVE  FollowedAt(b, k) /\ StepOK(t, b[k])' /\ b[k].do \in {"run", "end_batch"}
    <2>1. /\ FollowedAt(b, k) /\ b[k].do \in {"run", "end_batch"}
          /\ \/ b[k] = Do("end_batch")
             \/ \E i \in 1 .. Len(q) : k = i /\ b[k] = Run(q[i])
      BY <1>2, <1>8, BatchFollowed
    <2> QED BY <1>5, <1>6, <2>1
  <1> QED BY <1>2, <1>7, <1>8, <1>9

\* Popping leaves no action; the event stays set for pending ticks.
LEMMA PopFacts ==
    ASSUME Structure, server' = pop_after_response_actions(server)
    PROVE  /\ server' \in Servers /\ server'.actions = <<>>
           /\ server'.stop = server.stop /\ server'.bootstrap = server.bootstrap
           /\ server'.joined = server.joined /\ server'.error = server.error
           /\ server'.ticks = server.ticks
           /\ server.ticks = 1 /\ server.event => server'.event
  <1>1. server \in Servers /\ <<>> \in Seq(Action)
    BY TypeFacts, EmptySeq
  <1>2. /\ server.ticks \in {0, 1} /\ server.event \in BOOLEAN
    BY <1>1 DEF Servers
  <1>3. PICK e \in BOOLEAN : e = (server.event /\ server.ticks > 0)
    BY <1>2
  <1>4. server' = [server EXCEPT !.actions = <<>>, !.event = e]
    BY <1>3 DEF pop_after_response_actions
  <1>5. /\ server' \in Servers /\ server'.actions = <<>> /\ server'.event = e
        /\ server'.stop = server.stop /\ server'.bootstrap = server.bootstrap
        /\ server'.joined = server.joined /\ server'.error = server.error
        /\ server'.ticks = server.ticks
    BY <1>1, <1>4 DEF Servers
  <1>6. server.ticks = 1 /\ server.event => e
    <2>1. server.ticks = 1 => server.ticks > 0
      OBVIOUS
    <2> QED BY <1>3, <2>1, Zenon
  <1> QED BY <1>5, <1>6

\* The maintenance worker wakes.
LEMMA WakesStructure ==
    ASSUME Structure, MaintenanceWakes
    PROVE  /\ Structure' /\ UNCHANGED <<limits, conns, queue, aged, server, errors, history>>
           /\ Len(agenda["maintenance"]) = 1 /\ agenda["maintenance"][1].do = "wait"
           /\ \E p : /\ Turn("maintenance", p, 1) /\ DOMAIN p = {1}
                     /\ p[1] = Do("woken") \/ p[1] = Do("timed_out")
  <1>1. /\ "maintenance" \in Threads /\ At("maintenance", "wait") /\ "wait" \in LastSteps
        /\ UNCHANGED <<limits, conns, queue, aged, server, errors, history>>
        /\ Conns' = Conns
    BY DEF MaintenanceWakes, Threads, LastSteps, Conns
  <1>2. Len(agenda["maintenance"]) = 1 /\ agenda["maintenance"][1].do = "wait"
    BY <1>1, LastIsOnly, AtFacts
  <1>3. PICK x : x = Do(IF server.event THEN "woken" ELSE "timed_out")
    OBVIOUS
  <1>4. /\ x \in Steps'
        /\ x = Do("woken") \/ x = Do("timed_out")
        /\ x.do \in {"woken", "timed_out"}
    BY <1>3 DEF Do, Steps
  <1>5. PICK p : p = <<x>>
    OBVIOUS
  <1>6. p \in Seq(Steps') /\ DOMAIN p = {1} /\ p[1] = x /\ Len(p) = 1
    BY <1>4, <1>5
  <1>7. Goes("maintenance", p)
    BY <1>3, <1>5 DEF MaintenanceWakes
  <1>8. Turn("maintenance", p, 1)
    BY <1>1, <1>2, <1>6, <1>7, TurnAll
  <1>9. \A i \in DOMAIN p : StepOK("maintenance", p[i])'
    BY <1>4, <1>6 DEF StepOK, MainSteps, WorkerSteps, MaintenanceSteps
  <1>10. \A k \in DOMAIN p : FollowedAt(p, k)
    BY <1>4, <1>6 DEF FollowedAt
  <1>11. \A k \in DOMAIN p : FollowedAt(agenda'["maintenance"], k)
    BY <1>1, <1>2, <1>8, <1>10, TurnFront
  <1>12. Structure'
    BY <1>1, <1>8, <1>9, <1>11, TypeFacts, QuietStructure
  <1> QED BY <1>1, <1>2, <1>4, <1>6, <1>8, <1>12

\* The maintenance worker takes the actions as a batch; unless serving has
\* stopped a step for the ticks comes behind them.
LEMMA ActionsTurn ==
    ASSUME Structure, MaintenanceActions
    PROVE  /\ server' = pop_after_response_actions(server)
           /\ UNCHANGED <<limits, conns, queue, aged, errors, history>>
           /\ Len(agenda["maintenance"]) = 1
           /\ agenda["maintenance"][1].do \in {"woken", "timed_out"}
           /\ \E p, b, q :
                /\ Turn("maintenance", p, 1) /\ q \in Seq(Action)
                /\ Selects(q, server.actions, server.stop, Len(server.actions))
                /\ b \in Seq(Steps') /\ IsBatch(b, q)
                /\ \A k \in DOMAIN b :
                    /\ FollowedAt(p, k) /\ StepOK("maintenance", b[k])'
                    /\ b[k].do \in {"run", "end_batch"} /\ p[k] = b[k]
                /\ \/ Len(p) = Len(b)
                   \/ /\ Len(p) = Len(b) + 1
                      /\ p[Len(p)].do \in {"post_request_tick", "tick_if_needed"}
  <1>1. PICK m : m = "maintenance"
    OBVIOUS
  <1>2. /\ m \in Threads /\ server' = pop_after_response_actions(server)
        /\ UNCHANGED <<limits, conns, queue, aged, errors, history>> /\ Conns' = Conns
        /\ At(m, "woken") \/ At(m, "timed_out")
    BY <1>1 DEF MaintenanceActions, Threads, Conns
  <1>3. Len(agenda[m]) = 1 /\ agenda[m][1].do \in {"woken", "timed_out"}
    BY <1>2, LastIsOnly, AtFacts DEF LastSteps
  <1>4. PICK q : q = popped(server, server.stop)
    OBVIOUS
  <1>5. PICK b : b = Batch(q)
    OBVIOUS
  <1>6. /\ q \in Seq(Action)
        /\ Selects(q, server.actions, server.stop, Len(server.actions))
        /\ b \in Seq(Steps') /\ IsBatch(b, q)
        /\ \A k \in DOMAIN b : /\ FollowedAt(b, k) /\ StepOK(m, b[k])'
                               /\ b[k].do \in {"run", "end_batch"}
    BY <1>2, <1>4, <1>5, PoppedBatch
  <1>7. DOMAIN b = 1 .. Len(b) /\ Len(b) \in Nat
    BY <1>6, LenProperties
  <1>8. CASE server.stop
    <2>1. PICK p : p = b \o <<>>
      OBVIOUS
    <2>2. Goes(m, p)
      BY <1>1, <1>4, <1>5, <1>8, <2>1 DEF MaintenanceActions
    <2>3. p = b
      BY <1>6, <2>1, ConcatEmptySeq
    <2>4. Turn(m, p, 1)
      BY <1>2, <1>3, <1>6, <2>2, <2>3, TurnAll
    <2> QED BY <1>1, <1>2, <1>3, <1>6, <2>3, <2>4
  <1>9. CASE ~server.stop
    <2>1. PICK x : x = Do(IF At(m, "woken") THEN "post_request_tick" ELSE "tick_if_needed")
      OBVIOUS
    <2>2. x.do \in {"post_request_tick", "tick_if_needed"} /\ x \in Steps'
      BY <2>1 DEF Do, Steps
    <2>3. PICK p : p = b \o <<x>>
      OBVIOUS
    <2>4. Goes(m, p)
      BY <1>1, <1>4, <1>5, <1>9, <2>1, <2>3 DEF MaintenanceActions
    <2>5. /\ p \in Seq(Steps') /\ Len(p) = Len(b) + 1 /\ p[Len(b) + 1] = x
          /\ \A i \in 1 .. Len(b) : p[i] = b[i]
      BY <1>6, <2>2, <2>3, ThenOne
    <2>6. \A k \in 1 .. Len(b) : FollowedAt(p, k)
      <3>1. \A k \in DOMAIN b : b[k].do \notin LastSteps \cup {"enqueue", "put", "put_again"}
        BY <1>6 DEF LastSteps
      <3> QED BY <1>6, <2>2, <2>3, <3>1, ThenOneFollowed
    <2>7. Turn(m, p, 1)
      BY <1>2, <1>3, <2>4, <2>5, TurnAll
    <2>8. \A k \in DOMAIN b : /\ FollowedAt(p, k) /\ StepOK(m, b[k])'
                              /\ b[k].do \in {"run", "end_batch"} /\ p[k] = b[k]
      BY <1>6, <1>7, <2>5, <2>6
    <2>9. Len(p) = Len(b) + 1 /\ p[Len(p)].do \in {"post_request_tick", "tick_if_needed"}
      BY <2>2, <2>5
    <2> QED BY <1>1, <1>2, <1>3, <1>6, <2>7, <2>8, <2>9, Zenon
  <1> QED BY <1>8, <1>9

\* Taking them keeps the structure.
LEMMA ActionsStructure ==
    ASSUME Structure, MaintenanceActions
    PROVE  Structure'
  <1>0. PICK m : m = "maintenance"
    OBVIOUS
  <1>1. /\ server' = pop_after_response_actions(server) /\ m \in Threads
        /\ UNCHANGED <<limits, conns, queue, aged, errors, history>>
        /\ Len(agenda[m]) = 1
    BY <1>0, ActionsTurn DEF Threads
  <1>2. PICK p, b, q :
                /\ Turn(m, p, 1) /\ q \in Seq(Action)
                /\ Selects(q, server.actions, server.stop, Len(server.actions))
                /\ b \in Seq(Steps') /\ IsBatch(b, q)
                /\ \A k \in DOMAIN b :
                    /\ FollowedAt(p, k) /\ StepOK(m, b[k])'
                    /\ b[k].do \in {"run", "end_batch"} /\ p[k] = b[k]
                /\ \/ Len(p) = Len(b)
                   \/ /\ Len(p) = Len(b) + 1
                      /\ p[Len(p)].do \in {"post_request_tick", "tick_if_needed"}
    BY <1>0, ActionsTurn
  <1>3. /\ DOMAIN p = 1 .. Len(p) /\ DOMAIN b = 1 .. Len(b) /\ Len(b) \in Nat
        /\ Len(p) \in Nat
    BY <1>1, <1>2, TurnDomains, LenProperties
  <1>4. \A k \in DOMAIN p :
            \/ k \in DOMAIN b
            \/ /\ k = Len(p)
               /\ p[Len(p)].do \in {"post_request_tick", "tick_if_needed"}
    <2>1. CASE Len(p) = Len(b)
      BY <1>3, <2>1
    <2>2. CASE /\ Len(p) = Len(b) + 1
               /\ p[Len(p)].do \in {"post_request_tick", "tick_if_needed"}
      <3>1. \A k \in DOMAIN p : k \in DOMAIN b \/ k = Len(p)
        BY <1>3, <2>2
      <3> QED BY <2>2, <3>1
    <2> QED BY <1>2, <2>1, <2>2
  <1>5. \A i \in DOMAIN p : StepOK(m, p[i])'
    <2>1. p[Len(p)].do \in {"post_request_tick", "tick_if_needed"} => StepOK(m, p[Len(p)])'
      BY <1>0 DEF StepOK, MainSteps, WorkerSteps, MaintenanceSteps
    <2> QED BY <1>2, <1>4, <2>1
  <1>6. \A k \in DOMAIN p : FollowedAt(p, k)
    <2>1. p[Len(p)].do \in {"post_request_tick", "tick_if_needed"} => FollowedAt(p, Len(p))
      BY DEF FollowedAt
    <2> QED BY <1>2, <1>4, <2>1
  <1>7. \A k \in DOMAIN p : FollowedAt(agenda'[m], k)
    BY <1>1, <1>2, <1>6, TurnFront
  <1>8. server' \in Servers /\ server'.actions = <<>>
    BY <1>1, PopFacts
  <1> QED BY <1>1, <1>2, <1>5, <1>7, <1>8, TypeFacts, QuietStructure

\* Taking the ticks clears the signal; the event stays set for pending actions.
LEMMA TakeFacts ==
    ASSUME Structure, NEW s, s = take_queued_maintenance_ticks(server)
    PROVE  /\ s \in Servers /\ s.actions = server.actions
           /\ s.stop = server.stop /\ s.bootstrap = server.bootstrap
           /\ s.joined = server.joined /\ s.error = server.error
  <1>1. server \in Servers
    BY TypeFacts
  <1>2. PICK e : e = (server.event /\ server.actions # <<>>)
    OBVIOUS
  <1>3. e \in BOOLEAN
    BY <1>1, <1>2 DEF Servers
  <1>4. s = [server EXCEPT !.ticks = 0, !.event = e]
    BY <1>2 DEF take_queued_maintenance_ticks
  <1> QED BY <1>1, <1>3, <1>4 DEF Servers

\* The ticks: none, or put off, or taken; then the worker waits again.
LEMMA TicksTurn ==
    ASSUME Structure, MaintenanceTicks
    PROVE  /\ UNCHANGED <<limits, conns, queue, aged, errors, history>>
           /\ Len(agenda["maintenance"]) = 1
           /\ agenda["maintenance"][1].do \in {"post_request_tick", "tick_if_needed"}
           /\ \E p : /\ Turn("maintenance", p, 1)
                     /\ \A k \in DOMAIN p : /\ p[k] = Do("tick") \/ p[k] = Do("wait")
                                            /\ FollowedAt(p, k)
                     /\ \/ server' = server
                        \/ /\ server' = take_queued_maintenance_ticks(server)
                           /\ server.ticks > 0 => 1 \in DOMAIN p /\ p[1] = Do("tick")
  <1>1. PICK m : m = "maintenance"
    OBVIOUS
  <1>2. /\ m \in Threads /\ Conns' = Conns
        /\ UNCHANGED <<limits, conns, queue, aged, errors, history>>
        /\ At(m, "post_request_tick") \/ At(m, "tick_if_needed")
    BY <1>1 DEF MaintenanceTicks, Threads, Conns
  <1>3. Len(agenda[m]) = 1 /\ agenda[m][1].do \in {"post_request_tick", "tick_if_needed"}
    BY <1>2, LastIsOnly, AtFacts DEF LastSteps
  <1>4. Do("wait") \in Steps' /\ Do("tick") \in Steps' /\ Do("wait").do = "wait"
        /\ Do("tick").do = "tick"
    BY DEF Do, Steps
  <1>5. PICK w, tk : w = <<Do("wait")>> /\ tk = <<Do("tick")>>
    OBVIOUS
  <1>6. /\ w \in Seq(Steps') /\ DOMAIN w = {1} /\ w[1] = Do("wait") /\ Len(w) = 1
        /\ tk \in Seq(Steps') /\ DOMAIN tk = {1} /\ tk[1] = Do("tick") /\ Len(tk) = 1
    BY <1>4, <1>5
  <1>7. FollowedAt(w, 1)
    BY <1>4, <1>6 DEF FollowedAt
  <1>8. CASE Goes(m, <<>>) /\ server' = server
    <2>1. PICK p : p = <<>>
      OBVIOUS
    <2>2. p \in Seq(Steps') /\ DOMAIN p = {}
      BY <2>1, EmptySeq
    <2>3. Turn(m, p, 1)
      BY <1>2, <1>3, <1>8, <2>1, <2>2, TurnAll
    <2> QED BY <1>1, <1>2, <1>3, <1>8, <2>2, <2>3
  <1>9. CASE Goes(m, <<Do("wait")>>) /\ server' = server
    <2>1. Turn(m, w, 1)
      BY <1>2, <1>3, <1>5, <1>6, <1>9, TurnAll
    <2> QED BY <1>1, <1>2, <1>3, <1>6, <1>7, <1>9, <2>1
  <1>10. ASSUME NEW due \in BOOLEAN, server.ticks > 0 => due,
                server' = take_queued_maintenance_ticks(server),
                Goes(m, (IF due THEN <<Do("tick")>> ELSE <<>>) \o <<Do("wait")>>)
         PROVE  \E p : /\ Turn(m, p, 1)
                       /\ \A k \in DOMAIN p : /\ p[k] = Do("tick") \/ p[k] = Do("wait")
                                              /\ FollowedAt(p, k)
                       /\ server.ticks > 0 => 1 \in DOMAIN p /\ p[1] = Do("tick")
    <2>1. CASE due
      <3>1. PICK p : p = tk \o <<Do("wait")>>
        OBVIOUS
      <3>2. Goes(m, p)
        BY <1>5, <1>10, <2>1, <3>1
      <3>3. /\ p \in Seq(Steps') /\ Len(p) = 2 /\ p[2] = Do("wait") /\ p[1] = Do("tick")
        <4>1. /\ p \in Seq(Steps') /\ Len(p) = Len(tk) + 1 /\ p[Len(tk) + 1] = Do("wait")
              /\ \A i \in 1 .. Len(tk) : p[i] = tk[i]
          <5>1. PICK x \in Steps' : x = Do("wait")
            BY <1>4
          <5>2. p = tk \o <<x>>
            BY <3>1, <5>1
          <5>3. /\ p \in Seq(Steps') /\ Len(p) = Len(tk) + 1 /\ p[Len(tk) + 1] = x
                /\ \A i \in 1 .. Len(tk) : p[i] = tk[i]
            <6>1. tk \in Seq(Steps')
              BY <1>6
            <6> QED BY <5>2, <6>1, ThenOne
          <5> QED BY <5>1, <5>3
        <4>2. Len(tk) + 1 = 2 /\ 1 \in 1 .. Len(tk)
          BY <1>6
        <4> QED BY <1>6, <4>1, <4>2
      <3>4. DOMAIN p = 1 .. 2 /\ \A k \in 1 .. 2 : k = 1 \/ k = 2
        BY <3>3, LenProperties
      <3>5. Turn(m, p, 1)
        BY <1>2, <1>3, <3>2, <3>3, TurnAll
      <3>6. FollowedAt(p, 1) /\ FollowedAt(p, 2)
        BY <1>4, <3>3 DEF FollowedAt, LastSteps
      <3> QED BY <3>3, <3>4, <3>5, <3>6
    <2>2. CASE ~due
      <3>1. PICK p : p = <<>> \o w
        OBVIOUS
      <3>2. Goes(m, p)
        BY <1>5, <1>10, <2>2, <3>1
      <3>3. p = w
        BY <1>6, <3>1, ConcatEmptySeq
      <3>4. Turn(m, p, 1)
        BY <1>2, <1>3, <1>6, <3>2, <3>3, TurnAll
      <3> QED BY <1>6, <1>7, <1>10, <2>2, <3>3, <3>4
    <2> QED BY <2>1, <2>2
  <1>11. \/ Goes(m, <<>>) /\ server' = server
         \/ Goes(m, <<Do("wait")>>) /\ server' = server
         \/ /\ server' = take_queued_maintenance_ticks(server)
            /\ \E due \in BOOLEAN :
                /\ server.ticks > 0 => due
                /\ Goes(m, (IF due THEN <<Do("tick")>> ELSE <<>>) \o <<Do("wait")>>)
    BY <1>1, Zenon DEF MaintenanceTicks
  <1> QED BY <1>1, <1>2, <1>3, <1>8, <1>9, <1>10, <1>11

\* The ticks keep the structure.
LEMMA TicksStructure ==
    ASSUME Structure, MaintenanceTicks
    PROVE  Structure'
  <1>1. /\ UNCHANGED <<limits, conns, queue, aged, errors, history>>
        /\ Len(agenda["maintenance"]) = 1 /\ "maintenance" \in Threads
    BY TicksTurn DEF Threads
  <1>2. PICK p : /\ Turn("maintenance", p, 1)
                 /\ \A k \in DOMAIN p : /\ p[k] = Do("tick") \/ p[k] = Do("wait")
                                        /\ FollowedAt(p, k)
                 /\ server' = server \/ server' = take_queued_maintenance_ticks(server)
    BY TicksTurn
  <1>3. \A i \in DOMAIN p : StepOK("maintenance", p[i])'
    <2>1. StepOK("maintenance", Do("tick"))' /\ StepOK("maintenance", Do("wait"))'
      BY DEF Do, StepOK, MainSteps, WorkerSteps, MaintenanceSteps
    <2> QED BY <1>2, <2>1
  <1>4. \A k \in DOMAIN p : FollowedAt(agenda'["maintenance"], k)
    BY <1>1, <1>2, TurnFront
  <1>5. server' \in Servers /\ server'.actions = server.actions
    BY <1>2, TypeFacts, TakeFacts
  <1> QED BY <1>1, <1>2, <1>3, <1>4, <1>5, TypeFacts, QuietStructure

(* The listener is closed right after the stop.                             *)
Orderly(p) ==
    \A k \in DOMAIN p : p[k].do = "close_listener" => k > 1 /\ p[k - 1].do = "set_stop"

\* Steps about no connection, complete in themselves, keep the structure.
LEMMA PlainStructure ==
    ASSUME Structure, NEW t \in Threads, NEW p, NEW d, Turn(t, p, d),
           \A k \in DOMAIN p : p[k] \in Plain /\ FollowedAt(p, k),
           UNCHANGED <<limits, conns, queue, aged>>, server' \in Servers,
           server'.actions = server.actions \/ server'.actions = <<>>,
           errors' \in 0 .. MaxErrors, history' \in Histories,
           history.published => history'.published
    PROVE  Structure'
  <1>1. \A k \in DOMAIN p : StepOK(t, p[k])'
    BY PlainOK
  <1>2. \A x \in Plain : x.do \notin LastSteps \cup {"enqueue", "put", "put_again"}
    BY DEF Plain, Do, LastSteps
  <1>3. \A k \in DOMAIN p : FollowedAt(agenda'[t], k)
    BY <1>2, TurnFront
  <1> QED BY <1>1, <1>3, QuietStructure

\* A shutdown is asked for, or nothing is.
LEMMA ShutdownTurn ==
    ASSUME Structure, Conns' = Conns, NEW t \in Threads, ~ended(t),
           NEW p, p = request_shutdown \/ p = <<>>, Calls(t, p)
    PROVE  /\ Turn(t, p, 1) /\ Orderly(p)
           /\ \A k \in DOMAIN p : p[k] \in Plain /\ FollowedAt(p, k)
  <1>1. CASE p = request_shutdown
    <2>1. /\ p \in Seq(Plain) /\ DOMAIN p = 1 .. 2
          /\ p[1].do = "set_stop" /\ p[2].do = "close_listener"
          /\ \A k \in 1 .. 2 : FollowedAt(p, k) /\ p[k] \in Plain
      BY <1>1, ShutdownFollowed
    <2>2. p \in Seq(Steps')
      BY <2>1, PlainSeq
    <2>3. Turn(t, p, 1)
      BY <2>2, TurnCall
    <2>4. Orderly(p)
      <3>1. \A k \in 1 .. 2 : k = 1 \/ k = 2
        OBVIOUS
      <3> QED BY <2>1, <3>1 DEF Orderly
    <2> QED BY <2>1, <2>3, <2>4
  <1>2. CASE p = <<>>
    <2>1. p \in Seq(Steps') /\ DOMAIN p = {}
      BY <1>2, EmptySeq
    <2>2. Turn(t, p, 1)
      BY <2>1, TurnCall
    <2> QED BY <2>1, <2>2 DEF Orderly
  <1> QED BY <1>1, <1>2

\* A tick; it asks for a shutdown when the lifecycle is stopping.
LEMMA TickStructure ==
    ASSUME Structure, Tick
    PROVE  /\ Structure' /\ UNCHANGED <<limits, conns, queue, aged, server, errors>>
           /\ history' = [history EXCEPT !.posted = {}]
           /\ agenda["maintenance"][1].do = "tick"
           /\ \E p : /\ Turn("maintenance", p, 1) /\ Orderly(p)
                     /\ \A k \in DOMAIN p : p[k] \in Plain
  <1>1. /\ "maintenance" \in Threads /\ At("maintenance", "tick") /\ Conns' = Conns
        /\ UNCHANGED <<limits, conns, queue, aged, server, errors>>
        /\ history' = [history EXCEPT !.posted = {}]
    BY DEF Tick, Threads, Conns
  <1>2. ~ended("maintenance") /\ agenda["maintenance"][1].do = "tick"
    BY <1>1, AtFacts
  <1>3. PICK p : p = IF server.stopping THEN request_shutdown ELSE <<>>
    OBVIOUS
  <1>4. Calls("maintenance", p) /\ (p = request_shutdown \/ p = <<>>)
    BY <1>3 DEF Tick
  <1>5. /\ Turn("maintenance", p, 1) /\ Orderly(p)
        /\ \A k \in DOMAIN p : p[k] \in Plain /\ FollowedAt(p, k)
    BY <1>1, <1>2, <1>4, ShutdownTurn
  <1>6. history' \in Histories /\ history'.published = history.published
    BY <1>1, TypeFacts DEF Histories
  <1>7. Structure'
    BY <1>1, <1>5, <1>6, TypeFacts, PlainStructure
  <1> QED BY <1>1, <1>2, <1>5, <1>7

\* What an exception does to the server.
LEMMA RaiseFacts ==
    ASSUME Structure, NEW t \in Threads, NEW steps, Raises(t, steps)
    PROVE  /\ server' \in Servers /\ server'.actions = server.actions
           /\ server'.stop = TRUE /\ server'.error = TRUE
           /\ server'.joined = server.joined
           /\ UNCHANGED <<limits, conns, queue, aged, history>> /\ Conns' = Conns
           /\ Goes(t, steps) /\ history' \in Histories
  <1>1. server \in Servers /\ history \in Histories
    BY TypeFacts
  <1>2. PICK g \in Threads \cup {Nobody} :
            g = IF server.gate = t THEN Nobody ELSE server.gate
    BY <1>1 DEF Servers
  <1>3. server' = [server EXCEPT !.error = TRUE, !.stop = TRUE, !.gate = g]
    BY <1>2 DEF Raises
  <1>4. /\ server' \in Servers /\ server'.actions = server.actions
        /\ server'.stop = TRUE /\ server'.error = TRUE
        /\ server'.joined = server.joined
    BY <1>1, <1>3 DEF Servers
  <1>5. UNCHANGED <<limits, conns, queue, aged, history>> /\ Goes(t, steps)
    BY DEF Raises
  <1> QED BY <1>1, <1>4, <1>5 DEF Conns

\* A failing tick ends the maintenance worker.
LEMMA TickFailsStructure ==
    ASSUME Structure, TickFails
    PROVE  /\ Structure' /\ server'.stop /\ server'.error
           /\ server'.actions = server.actions /\ server'.joined = server.joined
           /\ UNCHANGED <<limits, conns, queue, aged, history>>
           /\ ~ended("maintenance") /\ \E d : Turn("maintenance", <<>>, d)
  <1>1. "maintenance" \in Threads /\ At("maintenance", "tick") /\ Raises("maintenance", <<>>)
    BY DEF TickFails, Threads
  <1>2. <<>> \in Seq(Steps')
    BY EmptySeq
  <1>3. Turn("maintenance", <<>>, Len(agenda["maintenance"]))
    BY <1>1, <1>2, RaiseFacts, TurnAll
  <1>4. errors' \in 0 .. MaxErrors
    BY TypeFacts DEF TickFails, MayRaise
  <1>5. Structure'
    BY <1>1, <1>3, <1>4, RaiseFacts, OnStructure
  <1> QED BY <1>1, <1>3, <1>5, RaiseFacts, AtFacts

\* What is left of an agenda when its batch ends early.
LEMMA AfterBatchSkips ==
    ASSUME NEW S, NEW a \in Seq(S), \E i \in DOMAIN a : a[i].do = "end_batch"
    PROVE  \E d \in 0 .. Len(a) : AfterBatch(a) = SubSeq(a, d + 1, Len(a))
  <1>1. DOMAIN a = 1 .. Len(a) /\ Len(a) \in Nat
    BY LenProperties
  <1> DEFINE B == {i \in DOMAIN a : a[i].do = "end_batch"}
             First(i) == /\ a[i].do = "end_batch"
                         /\ \A k \in 1 .. i - 1 : a[k].do # "end_batch"
  <1>2. PICK m \in B : \A i \in B : m <= i
    <2>1. B \in SUBSET Nat /\ B # {}
      BY <1>1
    <2> HIDE DEF B
    <2> QED BY <2>1, Lemmas!LeastNat
  <1>3. m \in DOMAIN a /\ First(m)
    BY <1>1, <1>2
  <1> HIDE DEF First
  <1>4. PICK d : d = CHOOSE i \in DOMAIN a : First(i)
    OBVIOUS
  <1>5. d \in DOMAIN a
    BY <1>3, <1>4
  <1>6. AfterBatch(a) = SubSeq(a, d + 1, Len(a))
    BY <1>4 DEF AfterBatch, First
  <1>7. d \in 0 .. Len(a)
    BY <1>1, <1>5
  <1> QED BY <1>6, <1>7, Zenon

\* An exception in a batch: the rest of the batch is dropped.
LEMMA RaisesStructure ==
    ASSUME Structure, NEW t \in Threads, NEW what \in {"run", "publish", "open", "raise"},
           At(t, what), Raises(t, AfterBatch(agenda[t])), errors' \in 0 .. MaxErrors
    PROVE  /\ Structure' /\ server'.stop /\ server'.error
           /\ server'.actions = server.actions /\ server'.joined = server.joined
           /\ UNCHANGED <<limits, conns, queue, aged, history>>
           /\ ~ended(t) /\ \E d : Turn(t, <<>>, d)
  <1>1. \E i \in DOMAIN agenda[t] : agenda[t][i].do = "end_batch"
    BY AtFacts DEF FollowedAt
  <1>2. agenda[t] \in Seq(Steps)
    BY TypeFacts
  <1>3. PICK d \in 0 .. Len(agenda[t]) :
            AfterBatch(agenda[t]) = SubSeq(agenda[t], d + 1, Len(agenda[t]))
    BY <1>1, <1>2, AfterBatchSkips
  <1>4. Goes(t, SubSeq(agenda[t], d + 1, Len(agenda[t]))) /\ Conns' = Conns
    BY <1>3, RaiseFacts
  <1>5. Turn(t, <<>>, d)
    BY <1>4, TurnSkip
  <1>6. Structure'
    BY <1>5, RaiseFacts, OnStructure
  <1> QED BY <1>5, <1>6, RaiseFacts, AtFacts

\* A failing bootstrap releases the backend and raises then.
LEMMA BootstrapTurn ==
    ASSUME Structure, NEW t \in Threads, NEW what \in {"run", "publish", "open", "raise"},
           At(t, what), BootstrapFails(t), Conns' = Conns
    PROVE  \E p : /\ Turn(t, p, 1) /\ Orderly(p)
                  /\ \A k \in DOMAIN p : p[k] \in Plain /\ FollowedAt(agenda'[t], k)
  <1>1. PICK b : b = release_backend_ownership
    OBVIOUS
  <1>0. PICK x : x = Do("raise")
    OBVIOUS
  <1>2. PICK p : p = b \o <<x>>
    OBVIOUS
  <1>3. Calls(t, p) /\ ~ended(t)
    BY <1>0, <1>1, <1>2, AtFacts DEF BootstrapFails
  <1>4. /\ b \in Seq(Plain) /\ Len(b) = 8 /\ DOMAIN b = 1 .. 8 /\ Len(b) >= 8
        /\ ShutdownAt(b, 0) /\ StopAt(b, 2)
    BY <1>1, ReleaseList, LenProperties DEF IsRelease
  <1>5. x \in Plain /\ x.do = "raise"
    BY <1>0 DEF Plain, Do
  <1>6. /\ p \in Seq(Plain) /\ Len(p) = Len(b) + 1 /\ p[Len(b) + 1] = x
        /\ \A i \in 1 .. Len(b) : p[i] = b[i]
    <2>1. b \in Seq(Plain) /\ x \in Plain
      BY <1>4, <1>5
    <2>2. /\ b \o <<x>> \in Seq(Plain) /\ Len(b \o <<x>>) = Len(b) + 1
          /\ (b \o <<x>>)[Len(b) + 1] = x
          /\ \A i \in 1 .. Len(b) : (b \o <<x>>)[i] = b[i]
      BY ONLY <2>1, ThenOne
    <2> QED BY ONLY <1>2, <2>2
  <1>7. /\ Len(p) = 9 /\ p[9] = x /\ \A i \in 1 .. 8 : p[i] = b[i]
    <2>1. Len(b) + 1 = 9
      BY <1>4
    <2> QED BY <1>4, <1>6, <2>1
  <1>8. DOMAIN p = 1 .. 9 /\ \A k \in 1 .. 9 : k \in 1 .. 8 \/ k = 9
    <2>1. DOMAIN p = 1 .. Len(p)
      BY <1>6, LenProperties
    <2> QED BY <1>7, <2>1
  <1>9. Turn(t, p, 1)
    BY <1>3, <1>6, PlainSeq, TurnCall
  <1>10. /\ \A k \in 1 .. 8 : p[k] \in Plain
         /\ p[1].do = "set_stop" /\ p[2].do = "close_listener"
         /\ \A k \in 1 .. 8 : p[k].do = "close_listener" => k = 2
    <2>1. /\ b[1].do = "set_stop" /\ b[2].do = "close_listener"
          /\ b[3].do = "close_pending" /\ b[4].do = "put_sentinel"
          /\ b[5].do = "join_worker" /\ b[6].do = "wake"
          /\ b[7].do = "join_maintenance" /\ b[8].do = "drain"
          /\ \A k \in 1 .. 8 : b[k] \in Plain
      BY <1>4, ReleaseNames
    <2>2. \A k \in 1 .. 8 :
              k = 1 \/ k = 2 \/ k = 3 \/ k = 4 \/ k = 5 \/ k = 6 \/ k = 7 \/ k = 8
      OBVIOUS
    <2> QED BY <1>7, <2>1, <2>2
  <1>11. Orderly(p)
    BY <1>5, <1>7, <1>8, <1>10 DEF Orderly
  <1>12. \A k \in 1 .. 8 : FollowedAt(agenda'[t], k)
    <2>1. \A k \in 1 .. 8 : /\ FollowedAt(b, k)
                            /\ b[k].do \notin LastSteps \cup {"enqueue", "put", "put_again"}
      BY <1>4, ReleaseFollowed
    <2>2. \A k \in 1 .. Len(b) : FollowedAt(p, k)
      BY <1>2, <1>4, <1>5, <2>1, ThenOneFollowed
    <2>3. \A k \in 1 .. 8 : k \in DOMAIN p /\ FollowedAt(p, k)
                            /\ p[k].do \notin LastSteps \cup {"enqueue", "put", "put_again"}
      BY <1>4, <1>7, <1>8, <2>1, <2>2
    <2>4. PICK n, a : n = agenda'[t] /\ a = agenda[t]
      OBVIOUS
    <2>5. /\ Splice(n, p, a, 1) /\ DOMAIN n = 1 .. Len(n) /\ DOMAIN p = 1 .. Len(p)
          /\ Len(p) \in Nat
      BY <1>9, <2>4, TurnDomains DEF Turn
    <2> QED BY <2>3, <2>4, <2>5, FrontFollowed
  <1>13. FollowedAt(agenda'[t], 9)
    <2>1. PICK i \in DOMAIN agenda[t] : 1 < i /\ agenda[t][i].do = "end_batch"
      BY AtFacts DEF FollowedAt
    <2>2. 9 \in DOMAIN p
      BY <1>8
    <2>3. /\ agenda'[t][9] = p[9]
          /\ \E j \in DOMAIN agenda'[t] : 9 < j /\ agenda'[t][j] = agenda[t][i]
      BY <1>9, <2>1, <2>2, Behind
    <2> QED BY <1>5, <1>7, <2>1, <2>3 DEF FollowedAt, LastSteps
  <1>14. \A k \in DOMAIN p : p[k] \in Plain /\ FollowedAt(agenda'[t], k)
    BY <1>5, <1>7, <1>8, <1>10, <1>12, <1>13
  <1> QED BY <1>9, <1>11, <1>14

\* The failing bootstrap keeps the structure.
LEMMA BootstrapStructure ==
    ASSUME Structure, NEW t \in Threads, NEW what \in {"run", "publish", "open", "raise"},
           At(t, what), BootstrapFails(t),
           UNCHANGED <<limits, conns, queue, aged>>, server' \in Servers,
           server'.actions = server.actions, errors' \in 0 .. MaxErrors,
           history' \in Histories, history.published => history'.published
    PROVE  /\ Structure'
           /\ \E p : /\ Turn(t, p, 1) /\ Orderly(p)
                     /\ \A k \in DOMAIN p : p[k] \in Plain
  <1>1. Conns' = Conns
    BY DEF Conns
  <1>2. PICK p : /\ Turn(t, p, 1) /\ Orderly(p)
                 /\ \A k \in DOMAIN p : p[k] \in Plain /\ FollowedAt(agenda'[t], k)
    BY <1>1, BootstrapTurn
  <1>3. \A i \in DOMAIN p : StepOK(t, p[i])'
    BY <1>2, PlainOK
  <1>4. Structure'
    BY <1>2, <1>3, QuietStructure
  <1> QED BY <1>2, <1>4

\* An action that fails: the bootstrap releases the backend first, any other
\* ends its batch.
LEMMA ActionFailsStructure ==
    ASSUME Structure, NEW t \in Threads, ActionFails(t)
    PROVE  /\ Structure' /\ UNCHANGED <<limits, conns, queue, aged, history>> /\ ~ended(t)
           /\ \/ /\ server'.stop /\ server'.error /\ server'.actions = server.actions
                 /\ server'.joined = server.joined /\ \E d : Turn(t, <<>>, d)
              \/ /\ agenda[t][1].do = "run" /\ agenda[t][1].op = "serving"
                 /\ UNCHANGED server
                 /\ \E p : /\ Turn(t, p, 1) /\ Orderly(p)
                           /\ \A k \in DOMAIN p : p[k] \in Plain
  <1>1. At(t, "run") /\ errors' \in 0 .. MaxErrors
    BY TypeFacts DEF ActionFails, MayRaise
  <1>2. CASE Raises(t, AfterBatch(agenda[t]))
    BY <1>1, <1>2, RaisesStructure
  <1>3. CASE /\ Head(agenda[t]).op = "serving" /\ BootstrapFails(t)
             /\ UNCHANGED <<limits, conns, queue, aged, server, history>>
    <2>1. agenda[t][1].do = "run" /\ agenda[t][1].op = "serving" /\ ~ended(t)
      BY <1>1, <1>3, AtFacts
    <2>2. server' \in Servers /\ history' \in Histories
      BY <1>3, TypeFacts
    <2>3. /\ Structure'
          /\ \E p : /\ Turn(t, p, 1) /\ Orderly(p)
                    /\ \A k \in DOMAIN p : p[k] \in Plain
      BY <1>1, <1>3, <2>2, BootstrapStructure
    <2> QED BY <1>3, <2>1, <2>3
  <1> QED BY <1>2, <1>3 DEF ActionFails

\* The bootstrap raises after the release.
LEMMA RaiseStructure ==
    ASSUME Structure, NEW t \in Threads, RaiseAfterRelease(t)
    PROVE  /\ Structure' /\ server'.stop /\ server'.error
           /\ server'.actions = server.actions /\ server'.joined = server.joined
           /\ UNCHANGED <<limits, conns, queue, aged, history>>
           /\ ~ended(t) /\ \E d : Turn(t, <<>>, d)
  <1>1. At(t, "raise") /\ Raises(t, AfterBatch(agenda[t]))
    BY DEF RaiseAfterRelease
  <1>2. errors' \in 0 .. MaxErrors
    BY TypeFacts DEF RaiseAfterRelease
  <1> QED BY <1>1, <1>2, RaisesStructure

\* An action runs: the bootstrap is published, nothing is left of a restart,
\* a stop-all releases the backend before its finalizer, a shutdown is asked
\* for.
LEMMA RunTurn ==
    ASSUME Structure, NEW t \in Threads, RunAction(t)
    PROVE  /\ UNCHANGED <<limits, conns, queue, aged, server, errors, history>>
           /\ agenda[t][1].do = "run" /\ ActionOK(agenda[t][1].op, agenda[t][1].conn)
           /\ \E p :
                /\ Turn(t, p, 1) /\ Orderly(p)
                /\ \/ \A k \in DOMAIN p : p[k] \in Plain /\ FollowedAt(p, k)
                   \/ DOMAIN p = {1} /\ p[1] = Do("publish")
                   \/ /\ agenda[t][1].op = "stop-all" /\ DOMAIN p = 1 .. 9
                      /\ \A k \in 1 .. 8 : p[k] \in Plain /\ FollowedAt(p, k)
                      /\ p[9] = [do |-> "finalize", conn |-> agenda[t][1].conn,
                                 op |-> "stop-all"]
                /\ agenda[t][1].op = "stop-all" => 9 \in DOMAIN p /\ p[9].do = "finalize"
  <1>1. At(t, "run") /\ UNCHANGED <<limits, conns, queue, aged, server, errors, history>>
    BY DEF RunAction
  <1>2. PICK x : x = agenda[t][1]
    OBVIOUS
  <1>3. /\ x = Head(agenda[t]) /\ x.do = "run" /\ ActionOK(x.op, x.conn) /\ ~ended(t)
        /\ x \in Steps
    BY <1>1, <1>2, AtFacts DEF StepOK
  <1>4. Conns' = Conns
    BY <1>1 DEF Conns
  <1>5. CASE x.op = "serving"
    <2>1. PICK p : p = <<Do("publish")>>
      OBVIOUS
    <2>2. Do("publish") \in Steps' /\ Do("publish").do = "publish"
      BY DEF Do, Steps
    <2>3. p \in Seq(Steps') /\ DOMAIN p = {1} /\ p[1] = Do("publish")
      BY <2>1, <2>2
    <2>4. Calls(t, p)
      BY <1>3, <1>5, <2>1 DEF RunAction
    <2>5. Turn(t, p, 1)
      BY <1>3, <1>4, <2>3, <2>4, TurnCall
    <2>6. Orderly(p)
      BY <2>2, <2>3 DEF Orderly
    <2> QED BY <1>1, <1>2, <1>3, <1>5, <2>3, <2>5, <2>6
  <1>6. CASE x.op = "restart" \/ x.op = "shutdown"
    <2>1. PICK p : p = IF x.op = "shutdown" THEN request_shutdown ELSE <<>>
      OBVIOUS
    <2>2. Calls(t, p) /\ (p = request_shutdown \/ p = <<>>)
      BY <1>3, <1>6, <2>1 DEF RunAction
    <2>3. /\ Turn(t, p, 1) /\ Orderly(p)
          /\ \A k \in DOMAIN p : p[k] \in Plain /\ FollowedAt(p, k)
      BY <1>3, <1>4, <2>2, ShutdownTurn
    <2> QED BY <1>1, <1>2, <1>3, <1>6, <2>3
  <1>7. CASE x.op = "stop-all"
    <2>1. PICK y : y = [do |-> "finalize", conn |-> x.conn, op |-> "stop-all"]
      OBVIOUS
    <2>2. PICK b : b = release_backend_ownership
      OBVIOUS
    <2>3. PICK p : p = b \o <<y>>
      OBVIOUS
    <2>4. Calls(t, p)
      BY <1>3, <1>7, <2>1, <2>2, <2>3 DEF RunAction
    <2>5. /\ b \in Seq(Plain) /\ Len(b) = 8 /\ DOMAIN b = 1 .. 8 /\ Len(b) >= 8
          /\ ShutdownAt(b, 0) /\ StopAt(b, 2)
      BY <2>2, ReleaseList, LenProperties DEF IsRelease
    <2>6. b \in Seq(Steps') /\ y \in Steps'
      BY <1>3, <1>4, <2>1, <2>5, PlainSeq DEF Steps, Ops, MutatingOps
    <2>7. /\ p \in Seq(Steps') /\ Len(p) = Len(b) + 1 /\ p[Len(b) + 1] = y
          /\ \A i \in 1 .. Len(b) : p[i] = b[i]
      BY <2>3, <2>6, ThenOne
    <2>8. /\ Len(p) = 9 /\ p[9] = y /\ \A i \in 1 .. 8 : p[i] = b[i]
      <3>1. Len(b) + 1 = 9
        BY <2>5
      <3> QED BY <2>5, <2>7, <3>1
    <2>9. DOMAIN p = 1 .. 9
      BY <2>7, <2>8, LenProperties
    <2>10. \A k \in 1 .. 8 : /\ FollowedAt(b, k)
                             /\ b[k].do \notin LastSteps \cup {"enqueue", "put", "put_again"}
      BY <2>5, ReleaseFollowed
    <2>11. \A k \in 1 .. 8 : FollowedAt(p, k)
      <3>1. \A k \in 1 .. Len(b) : FollowedAt(p, k)
        BY <2>3, <2>5, <2>6, <2>10, ThenOneFollowed
      <3> QED BY <2>5, <3>1
    <2>12. /\ \A k \in 1 .. 8 : p[k] \in Plain
           /\ p[1].do = "set_stop" /\ p[2].do = "close_listener"
           /\ \A k \in 1 .. 8 : p[k].do = "close_listener" => k = 2
      <3>1. /\ b[1].do = "set_stop" /\ b[2].do = "close_listener"
            /\ b[3].do = "close_pending" /\ b[4].do = "put_sentinel"
            /\ b[5].do = "join_worker" /\ b[6].do = "wake"
            /\ b[7].do = "join_maintenance" /\ b[8].do = "drain"
            /\ \A k \in 1 .. 8 : b[k] \in Plain
        BY <2>5, ReleaseNames
      <3>2. \A k \in 1 .. 8 :
                k = 1 \/ k = 2 \/ k = 3 \/ k = 4 \/ k = 5 \/ k = 6 \/ k = 7 \/ k = 8
        OBVIOUS
      <3> QED BY <2>8, <3>1, <3>2
    <2>13. Orderly(p)
      <3>1. p[9].do = "finalize" /\ \A k \in 1 .. 9 : k \in 1 .. 8 \/ k = 9
        BY <2>1, <2>8
      <3> QED BY <2>9, <2>12, <3>1 DEF Orderly
    <2>14. Turn(t, p, 1)
      BY <1>3, <1>4, <2>4, <2>7, TurnCall
    <2>15. 9 \in DOMAIN p /\ p[9].do = "finalize"
      BY <2>1, <2>8, <2>9
    <2> QED BY <1>1, <1>2, <1>3, <1>7, <2>1, <2>8, <2>9, <2>11, <2>12, <2>13, <2>14, <2>15
  <1> QED BY <1>3, <1>5, <1>6, <1>7 DEF ActionOK, FinalizedOps

\* Running keeps the structure.
LEMMA RunStructure ==
    ASSUME Structure, NEW t \in Threads, RunAction(t)
    PROVE  Structure'
  <1>1. /\ UNCHANGED <<limits, conns, queue, aged, server, errors, history>>
        /\ agenda[t][1].do = "run" /\ ActionOK(agenda[t][1].op, agenda[t][1].conn)
        /\ Conns' = Conns
    BY RunTurn DEF Conns
  <1>2. PICK p :
            /\ Turn(t, p, 1)
            /\ \/ \A k \in DOMAIN p : p[k] \in Plain /\ FollowedAt(p, k)
               \/ DOMAIN p = {1} /\ p[1] = Do("publish")
               \/ /\ agenda[t][1].op = "stop-all" /\ DOMAIN p = 1 .. 9
                  /\ \A k \in 1 .. 8 : p[k] \in Plain /\ FollowedAt(p, k)
                  /\ p[9] = [do |-> "finalize", conn |-> agenda[t][1].conn,
                             op |-> "stop-all"]
    BY RunTurn
  <1>3. /\ server' \in Servers /\ history' \in Histories /\ errors' \in 0 .. MaxErrors
        /\ server'.actions = server.actions
    BY <1>1, TypeFacts
  <1>4. CASE \A k \in DOMAIN p : p[k] \in Plain /\ FollowedAt(p, k)
    BY <1>1, <1>2, <1>3, <1>4, PlainStructure
  <1>5. CASE DOMAIN p = {1} /\ p[1] = Do("publish")
    <2>1. p[1].do = "publish"
      BY <1>5 DEF Do
    <2>2. \A i \in DOMAIN p : StepOK(t, p[i])'
      BY <1>5, <2>1 DEF StepOK, MainSteps, WorkerSteps, MaintenanceSteps
    <2>3. PICK n, a : n = agenda'[t] /\ a = agenda[t]
      OBVIOUS
    <2>4. /\ Splice(n, p, a, 1) /\ DOMAIN n = 1 .. Len(n) /\ DOMAIN p = 1 .. Len(p)
          /\ Len(p) \in Nat /\ DOMAIN a = 1 .. Len(a) /\ Len(a) \in Nat
      BY <1>2, <2>3, TurnDomains DEF Turn
    <2>5. Len(p) = 1
      BY <1>5, <2>4
    <2>6. PICK i \in DOMAIN a : 1 < i /\ a[i].do = "end_batch"
      <3>1. At(t, "run")
        BY DEF RunAction
      <3> QED BY <2>3, <3>1, AtFacts DEF FollowedAt
    <2>7. n[1] = p[1] /\ i \in DOMAIN n /\ n[i] = a[i]
      <3>1. /\ \A j \in DOMAIN a : j > 1 =>
                    j + Len(p) - 1 \in DOMAIN n /\ n[j + Len(p) - 1] = a[j]
            /\ \A j \in DOMAIN p : n[j] = p[j]
        BY <2>4 DEF Splice
      <3>2. i > 1 /\ i + Len(p) - 1 = i
        BY <2>4, <2>5, <2>6
      <3> QED BY <1>5, <2>6, <3>1, <3>2
    <2>8. FollowedAt(n, 1)
      BY <2>1, <2>6, <2>7 DEF FollowedAt, LastSteps
    <2>9. \A k \in DOMAIN p : FollowedAt(agenda'[t], k)
      BY <1>5, <2>3, <2>8
    <2> QED BY <1>1, <1>2, <1>3, <2>2, <2>9, QuietStructure
  <1>6. CASE /\ agenda[t][1].op = "stop-all" /\ DOMAIN p = 1 .. 9
             /\ \A k \in 1 .. 8 : p[k] \in Plain /\ FollowedAt(p, k)
             /\ p[9] = [do |-> "finalize", conn |-> agenda[t][1].conn, op |-> "stop-all"]
    <2>1. /\ p[9].do = "finalize" /\ p[9].op = "stop-all"
          /\ p[9].conn = agenda[t][1].conn /\ \A k \in 1 .. 9 : k \in 1 .. 8 \/ k = 9
      BY <1>6
    <2>2. StepOK(t, p[9])'
      <3>1. ActionOK(p[9].op, p[9].conn)'
        BY <1>1, <1>6, <2>1 DEF ActionOK, requests
      <3> QED BY <2>1, <3>1 DEF StepOK, MainSteps, WorkerSteps, MaintenanceSteps
    <2>3. \A i \in DOMAIN p : StepOK(t, p[i])'
      BY <1>6, <2>1, <2>2, PlainOK
    <2>4. FollowedAt(p, 9) /\ p[9].do \notin LastSteps \cup {"enqueue", "put", "put_again"}
      BY <2>1 DEF FollowedAt, LastSteps
    <2>5. \A x \in Plain : x.do \notin LastSteps \cup {"enqueue", "put", "put_again"}
      BY DEF Plain, Do, LastSteps
    <2>6. \A k \in DOMAIN p : FollowedAt(agenda'[t], k)
      <3>1. \A k \in DOMAIN p : /\ FollowedAt(p, k)
                                /\ p[k].do \notin LastSteps \cup {"enqueue", "put", "put_again"}
        BY <1>6, <2>1, <2>4, <2>5
      <3> QED BY <1>2, <3>1, TurnFront
    <2> QED BY <1>1, <1>2, <1>3, <2>3, <2>6, QuietStructure
  <1> QED BY <1>2, <1>4, <1>5, <1>6

\* A batch ends.
LEMMA EndBatchStructure ==
    ASSUME Structure, NEW t \in Threads, EndBatch(t)
    PROVE  /\ Structure' /\ Turn(t, <<>>, 1) /\ agenda[t][1].do = "end_batch"
           /\ UNCHANGED <<limits, conns, queue, aged, server, errors, history>>
  <1>1. /\ At(t, "end_batch") /\ GoesOn(t) /\ Conns' = Conns
        /\ UNCHANGED <<limits, conns, queue, aged, server, errors, history>>
    BY DEF EndBatch, Conns
  <1>2. Turn(t, <<>>, 1)
    BY <1>1, OnTurn
  <1> QED BY <1>1, <1>2, TypeFacts, AtFacts, OnStructure

\* A failing publication stops serving.
LEMMA PublicationStructure ==
    ASSUME Structure, NEW t \in Threads, NEW what \in {"run", "publish", "open", "raise"},
           At(t, what), PublicationFails(t), UNCHANGED <<limits, conns, queue, aged>>,
           errors' \in 0 .. MaxErrors
    PROVE  /\ Structure' /\ ~ended(t) /\ agenda[t][1].do = what
           /\ server' = [server EXCEPT !.gate = Nobody, !.stop = TRUE]
           /\ server'.stop /\ server'.actions = server.actions
           /\ server'.joined = server.joined /\ server'.error = server.error
           /\ history' = [history EXCEPT !.failed = TRUE]
           /\ \E p : /\ Turn(t, p, 1) /\ Orderly(p)
                     /\ \A k \in DOMAIN p : p[k] \in Plain
  <1>1. /\ server' = [server EXCEPT !.gate = Nobody, !.stop = TRUE]
        /\ history' = [history EXCEPT !.failed = TRUE] /\ BootstrapFails(t)
    BY DEF PublicationFails, publication_fails
  <1>2. /\ server' \in Servers /\ server'.stop = TRUE /\ server'.actions = server.actions
        /\ server'.joined = server.joined /\ server'.error = server.error
    BY <1>1, TypeFacts DEF Servers
  <1>3. history' \in Histories /\ history'.published = history.published
    BY <1>1, TypeFacts DEF Histories
  <1>4. /\ Structure'
        /\ \E p : /\ Turn(t, p, 1) /\ Orderly(p)
                  /\ \A k \in DOMAIN p : p[k] \in Plain
    BY <1>1, <1>2, <1>3, BootstrapStructure
  <1> QED BY <1>1, <1>2, <1>4, AtFacts

\* The bootstrap is published, or fails.
LEMMA PublishStructure ==
    ASSUME Structure, NEW t \in Threads, Publish(t)
    PROVE  /\ Structure' /\ UNCHANGED <<limits, conns, queue, aged>>
           /\ ~ended(t) /\ server'.actions = server.actions /\ server'.joined = server.joined
           /\ agenda[t][1].do = "publish" /\ server.gate = Nobody
           /\ \/ /\ server' = [server EXCEPT !.gate = Nobody, !.stop = TRUE]
                 /\ server'.stop /\ server'.error = server.error
                 /\ history' = [history EXCEPT !.failed = TRUE]
                 /\ \E p : /\ Turn(t, p, 1) /\ Orderly(p)
                           /\ \A k \in DOMAIN p : p[k] \in Plain
              \/ /\ agenda[t][1].do = "publish"
                 /\ server' = [server EXCEPT !.gate = t]
                 /\ history' = [history EXCEPT !.published = TRUE]
                 /\ \E p : Turn(t, p, 1) /\ DOMAIN p = {1} /\ p[1] = Do("open")
  <1>1. /\ At(t, "publish") /\ server.gate = Nobody /\ errors' \in 0 .. MaxErrors
        /\ UNCHANGED <<limits, conns, queue, aged>>
    BY TypeFacts DEF Publish, MayRaise
  <1>2. CASE PublicationFails(t)
    BY <1>1, <1>2, PublicationStructure
  <1>3. CASE /\ server' = [server EXCEPT !.gate = t]
             /\ history' = [history EXCEPT !.published = TRUE]
             /\ Calls(t, <<Do("open")>>) /\ UNCHANGED <<limits, conns, queue, aged>>
    <2>1. PICK p : p = <<Do("open")>>
      OBVIOUS
    <2>2. Do("open") \in Steps' /\ Do("open").do = "open"
      BY DEF Do, Steps
    <2>3. p \in Seq(Steps') /\ DOMAIN p = {1} /\ p[1] = Do("open") /\ p[1].do = "open"
      BY <2>1, <2>2
    <2>4. Conns' = Conns /\ ~ended(t) /\ agenda[t][1].do = "publish"
      BY <1>1, <1>3, AtFacts DEF Conns
    <2>5. Turn(t, p, 1)
      BY <1>3, <2>1, <2>3, <2>4, TurnCall
    <2>6. /\ server' \in Servers /\ server'.actions = server.actions
          /\ server'.joined = server.joined
      BY <1>3, TypeFacts DEF Servers
    <2>7. history' \in Histories /\ history'.published = TRUE
      BY <1>3, TypeFacts DEF Histories
    <2>8. \A i \in DOMAIN p : StepOK(t, p[i])'
      BY <2>3, <2>7 DEF StepOK, MainSteps, WorkerSteps, MaintenanceSteps
    <2>9. PICK n, a : n = agenda'[t] /\ a = agenda[t]
      OBVIOUS
    <2>10. /\ Splice(n, p, a, 1) /\ DOMAIN n = 1 .. Len(n) /\ DOMAIN p = 1 .. Len(p)
           /\ Len(p) \in Nat /\ DOMAIN a = 1 .. Len(a) /\ Len(a) \in Nat
      BY <2>5, <2>9, TurnDomains DEF Turn
    <2>11. Len(p) = 1
      BY <2>3, <2>10
    <2>12. PICK i \in DOMAIN a : 1 < i /\ a[i].do = "end_batch"
      BY <1>1, <2>9, AtFacts DEF FollowedAt
    <2>13. n[1] = p[1] /\ i \in DOMAIN n /\ n[i] = a[i]
      <3>1. /\ \A j \in DOMAIN a : j > 1 =>
                    j + Len(p) - 1 \in DOMAIN n /\ n[j + Len(p) - 1] = a[j]
            /\ \A j \in DOMAIN p : n[j] = p[j]
        BY <2>10 DEF Splice
      <3>2. i > 1 /\ i + Len(p) - 1 = i
        BY <2>10, <2>11, <2>12
      <3> QED BY <2>3, <2>12, <3>1, <3>2
    <2>14. FollowedAt(n, 1)
      BY <2>3, <2>12, <2>13 DEF FollowedAt, LastSteps
    <2>15. \A k \in DOMAIN p : FollowedAt(agenda'[t], k)
      BY <2>3, <2>9, <2>14
    <2>16. Structure'
      BY <1>1, <1>3, <2>5, <2>6, <2>7, <2>8, <2>15, TypeFacts, QuietStructure
    <2> QED BY <1>1, <1>3, <2>3, <2>4, <2>5, <2>6, <2>16
  <1> QED BY <1>2, <1>3 DEF Publish

\* The gate opens, or the bootstrap fails.
LEMMA OpenStructure ==
    ASSUME Structure, NEW t \in Threads, Open(t)
    PROVE  /\ Structure' /\ UNCHANGED <<limits, conns, queue, aged>>
           /\ ~ended(t) /\ server'.actions = server.actions /\ server'.joined = server.joined
           /\ agenda[t][1].do = "open" /\ history.published
           /\ \E p : /\ Turn(t, p, 1) /\ Orderly(p)
                     /\ \A k \in DOMAIN p : p[k] \in Plain
           /\ \/ /\ server' = [server EXCEPT !.gate = Nobody, !.stop = TRUE]
                 /\ server'.stop /\ server'.error = server.error
                 /\ history' = [history EXCEPT !.failed = TRUE]
              \/ /\ server' = [server EXCEPT !.gate = Nobody, !.bootstrap = FALSE]
                 /\ UNCHANGED history
  <1>1. /\ At(t, "open") /\ errors' \in 0 .. MaxErrors
        /\ UNCHANGED <<limits, conns, queue, aged>>
    BY TypeFacts DEF Open, MayRaise
  <1>0. agenda[t][1].do = "open" /\ history.published /\ ~ended(t)
    BY <1>1, AtFacts DEF StepOK
  <1>2. CASE PublicationFails(t)
    BY <1>0, <1>1, <1>2, PublicationStructure
  <1>4. CASE /\ server' = [server EXCEPT !.gate = Nobody, !.bootstrap = FALSE]
             /\ BootstrapFails(t) /\ UNCHANGED history
    <2>1. /\ server' \in Servers /\ server'.actions = server.actions
          /\ server'.joined = server.joined /\ history' \in Histories
      BY <1>4, TypeFacts DEF Servers
    <2>2. /\ Structure'
          /\ \E p : /\ Turn(t, p, 1) /\ Orderly(p)
                    /\ \A k \in DOMAIN p : p[k] \in Plain
      BY <1>1, <1>4, <2>1, BootstrapStructure
    <2> QED BY <1>0, <1>1, <1>4, <2>1, <2>2
  <1>3. CASE /\ server' = [server EXCEPT !.gate = Nobody, !.bootstrap = FALSE]
             /\ GoesOn(t) /\ UNCHANGED <<limits, conns, queue, aged, history>>
    <2>1. Conns' = Conns
      BY <1>3 DEF Conns
    <2>2. Turn(t, <<>>, 1)
      BY <1>1, <1>3, <2>1, OnTurn
    <2>3. /\ server' \in Servers /\ server'.actions = server.actions
          /\ server'.joined = server.joined
      BY <1>3, TypeFacts DEF Servers
    <2>4. Structure'
      BY <1>1, <1>3, <2>2, <2>3, TypeFacts, OnStructure
    <2>5. PICK p : p = <<>> /\ DOMAIN p = {} /\ Turn(t, p, 1)
      BY <2>2
    <2>6. Orderly(p) /\ \A k \in DOMAIN p : p[k] \in Plain
      BY <2>5 DEF Orderly
    <2> QED BY <1>0, <1>1, <1>3, <2>3, <2>4, <2>5, <2>6
  <1> QED BY <1>1, <1>2, <1>3, <1>4 DEF Open

\* A finalizer has run.
LEMMA FinalizeStructure ==
    ASSUME Structure, NEW t \in Threads, Finalize(t)
    PROVE  /\ Structure' /\ Turn(t, <<>>, 1)
           /\ UNCHANGED <<limits, conns, queue, aged, server, errors>>
           /\ \E c \in Conns :
                /\ IsToken(agenda[t][1], c) /\ agenda[t][1].do = "finalize"
                /\ history' = [history EXCEPT !.finalized = Append(@, c)]
  <1>1. /\ At(t, "finalize") /\ GoesOn(t) /\ Conns' = Conns
        /\ UNCHANGED <<limits, conns, queue, aged, server, errors>>
    BY DEF Finalize, Conns
  <1>2. Turn(t, <<>>, 1)
    BY <1>1, OnTurn
  <1>3. PICK c : c = agenda[t][1].conn
    OBVIOUS
  <1>4. /\ agenda[t][1].op = "stop-all" /\ agenda[t][1].do = "finalize" /\ c \in Conns
        /\ c = Head(agenda[t]).conn
    BY <1>1, <1>3, AtFacts DEF StepOK, ActionOK
  <1>5. IsToken(agenda[t][1], c)
    BY <1>3, <1>4 DEF IsToken
  <1>6. history' = [history EXCEPT !.finalized = Append(@, c)]
    BY <1>4 DEF Finalize
  <1>7. PICK l : l = Append(history.finalized, c)
    OBVIOUS
  <1>8. history \in Histories /\ l \in Seq(Conns)
    BY <1>4, <1>7, TypeFacts, AppendProperties DEF Histories
  <1>9. history' = [history EXCEPT !.finalized = l]
    BY <1>6, <1>7
  <1>10. history' \in Histories /\ history'.published = history.published
    BY <1>8, <1>9 DEF Histories
  <1>11. Structure'
    BY <1>1, <1>2, <1>10, TypeFacts, OnStructure
  <1> QED BY <1>1, <1>2, <1>4, <1>5, <1>6, <1>11

\* The stop event is set, or the listener closed.
LEMMA ShutdownStructure ==
    ASSUME Structure, NEW t \in Threads, ShutdownServer(t)
    PROVE  /\ Structure' /\ Turn(t, <<>>, 1)
           /\ UNCHANGED <<limits, conns, queue, aged, errors, history>>
           /\ \/ /\ agenda[t][1].do = "set_stop" /\ server' = [server EXCEPT !.stop = TRUE]
              \/ /\ agenda[t][1].do = "close_listener"
                 /\ server' = [server EXCEPT !.listening = FALSE, !.bootstrap = FALSE]
  <1>1. /\ At(t, "set_stop") \/ At(t, "close_listener")
        /\ GoesOn(t) /\ Conns' = Conns
        /\ UNCHANGED <<limits, conns, queue, aged, errors, history>>
    BY DEF ShutdownServer, Conns
  <1>2. Turn(t, <<>>, 1)
    BY <1>1, OnTurn
  <1>3. \/ /\ agenda[t][1].do = "set_stop" /\ server' = [server EXCEPT !.stop = TRUE]
        \/ /\ agenda[t][1].do = "close_listener"
           /\ server' = [server EXCEPT !.listening = FALSE, !.bootstrap = FALSE]
    BY AtFacts DEF ShutdownServer
  <1>4. server' \in Servers /\ server'.actions = server.actions
    BY <1>3, TypeFacts DEF Servers
  <1>5. Structure'
    BY <1>1, <1>2, <1>4, TypeFacts, OnStructure
  <1> QED BY <1>1, <1>2, <1>3, <1>5

\* The request worker is stopped: a queued connection is closed, or what is
\* left is skipped, or the next step is due, or a sentinel is put.
LEMMA StopWorkerStructure ==
    ASSUME Structure, NEW t \in Threads, StopWorker(t)
    PROVE  /\ Structure' /\ ~ended(t) /\ UNCHANGED <<limits, aged, server, errors, history>>
           /\ \/ /\ UNCHANGED <<conns, queue>>
                 /\ \/ Turn(t, <<>>, 1) /\ agenda[t][1].do = "close_pending"
                    \/ /\ Turn(t, <<>>, 3) /\ "worker" \in server.joined
                       /\ agenda[t][1].do = "close_pending"
                       /\ agenda[t][2].do = "put_sentinel" /\ agenda[t][3].do = "join_worker"
              \/ /\ Turn(t, <<>>, 0) /\ UNCHANGED agenda /\ queue # <<>>
                 /\ conns' = Close(conns, Head(queue)) /\ queue' = Tail(queue)
              \/ /\ Turn(t, <<>>, 1)
                 /\ agenda[t][1].do \in {"put_sentinel", "put_sentinel_again"}
                 /\ UNCHANGED <<conns, queue>> \/ (~Full(queue) /\ Put(Sentinel))
              \/ /\ agenda[t][1].do = "put_sentinel" /\ UNCHANGED <<conns, queue>>
                 /\ \E p : /\ Turn(t, p, 1) /\ DOMAIN p = 1 .. 2
                           /\ p[1] = Do("make_room") /\ p[2] = Do("put_sentinel_again")
  <1>1. /\ UNCHANGED <<limits, aged, server, errors, history>>
        /\ server' \in Servers /\ history' \in Histories /\ errors' \in 0 .. MaxErrors
    BY TypeFacts DEF StopWorker
  <1>2. CASE /\ At(t, "close_pending") /\ "worker" \in server.joined
             /\ Goes(t, SubSeq(agenda[t], Len(stop_worker) + 1, Len(agenda[t])))
             /\ UNCHANGED <<conns, queue>>
    <2>1. Len(stop_worker) = 3
      BY DEF stop_worker
    <2>2. /\ agenda[t][1].do = "close_pending" /\ agenda[t][2].do = "put_sentinel"
          /\ agenda[t][3].do = "join_worker" /\ 3 \in 0 .. Len(agenda[t]) /\ ~ended(t)
      BY <1>2, AtFacts DEF FollowedAt
    <2>3. Conns' = Conns
      BY <1>2 DEF Conns
    <2>4. PICK d : d = 3
      OBVIOUS
    <2>5. d \in 0 .. Len(agenda[t]) /\ Goes(t, SubSeq(agenda[t], d + 1, Len(agenda[t])))
      BY <1>2, <2>1, <2>2, <2>4
    <2>6. Turn(t, <<>>, d)
      BY <2>3, <2>5, TurnSkip
    <2>7. Structure'
      BY <1>1, <1>2, <2>6, OnStructure
    <2> QED BY <1>1, <1>2, <2>2, <2>4, <2>6, <2>7
  <1>3. CASE /\ At(t, "close_pending") /\ queue # <<>>
             /\ conns' = Close(conns, Head(queue)) /\ queue' = Tail(queue)
             /\ UNCHANGED agenda
    <2>1. /\ queue' \in Seq({Sentinel} \cup Conns) /\ Len(queue') <= MaxQueue
          /\ conns' \in Seq(ConnStates) /\ Len(conns') = Len(conns) /\ Conns' = Conns
      BY <1>3, TakeType
    <2>2. Turn(t, <<>>, 0)
      BY <1>3, <2>1, TurnNone
    <2>3. Structure'
      BY <1>1, <2>1, <2>2, FewerStructure
    <2> QED BY <1>1, <1>3, <2>2, <2>3, AtFacts
  <1>4. CASE At(t, "close_pending") /\ GoesOn(t) /\ UNCHANGED <<conns, queue>>
    <2>1. Conns' = Conns
      BY <1>4 DEF Conns
    <2>2. Turn(t, <<>>, 1)
      BY <1>4, <2>1, OnTurn
    <2>3. Structure'
      BY <1>1, <1>4, <2>2, OnStructure
    <2> QED BY <1>1, <1>4, <2>2, <2>3, AtFacts
  <1>5. ASSUME NEW what \in {"put_sentinel", "put_sentinel_again"}, At(t, what),
               UNCHANGED <<conns, queue>> \/ (~Full(queue) /\ Put(Sentinel)), GoesOn(t)
        PROVE  Structure' /\ Turn(t, <<>>, 1) /\ agenda[t][1].do = what /\ ~ended(t)
    <2>1. /\ queue' \in Seq({Sentinel} \cup Conns) /\ Len(queue') <= MaxQueue
          /\ conns' \in Seq(ConnStates) /\ Len(conns') = Len(conns) /\ Conns' = Conns
      <3>1. CASE UNCHANGED <<conns, queue>>
        BY <3>1, TypeFacts DEF Conns
      <3>2. CASE ~Full(queue) /\ Put(Sentinel)
        BY <3>2, PutType
      <3> QED BY <1>5, <3>1, <3>2
    <2>2. Turn(t, <<>>, 1)
      BY <1>5, <2>1, OnTurn
    <2>3. Structure'
      BY <1>1, <2>1, <2>2, FewerStructure
    <2> QED BY <1>5, <2>2, <2>3, AtFacts
  <1>6. CASE /\ At(t, "put_sentinel") /\ UNCHANGED <<conns, queue>>
             /\ Calls(t, <<Do("make_room"), Do("put_sentinel_again")>>)
    <2>1. PICK p : p = <<Do("make_room"), Do("put_sentinel_again")>>
      OBVIOUS
    <2>2. Do("make_room") \in Plain /\ Do("put_sentinel_again") \in Plain
      BY DEF Plain
    <2>3. /\ p \in Seq(Plain) /\ DOMAIN p = 1 .. 2
          /\ p[1] = Do("make_room") /\ p[2] = Do("put_sentinel_again")
      BY <2>1, <2>2
    <2>4. Conns' = Conns /\ ~ended(t) /\ agenda[t][1].do = "put_sentinel"
      BY <1>6, AtFacts DEF Conns
    <2>5. Turn(t, p, 1)
      BY <1>6, <2>1, <2>3, <2>4, PlainSeq, TurnCall
    <2>6. /\ p[1].do = "make_room" /\ p[2].do = "put_sentinel_again"
          /\ \A k \in DOMAIN p : k = 1 \/ k = 2
      BY <2>3 DEF Do
    <2>7. \A k \in DOMAIN p : p[k] \in Plain /\ FollowedAt(p, k)
      BY <2>2, <2>3, <2>6 DEF FollowedAt, LastSteps
    <2>8. Structure'
      BY <1>1, <1>6, <2>5, <2>7, PlainStructure
    <2> QED BY <1>1, <1>6, <2>3, <2>4, <2>5, <2>8
  <1>7. CASE /\ At(t, "put_sentinel")
             /\ \/ ~Full(queue) /\ Put(Sentinel) /\ GoesOn(t)
                \/ /\ Full(queue)
                   /\ Calls(t, <<Do("make_room"), Do("put_sentinel_again")>>)
                   /\ UNCHANGED <<conns, queue>>
    BY <1>1, <1>5, <1>6, <1>7
  <1>8. CASE /\ At(t, "put_sentinel_again") /\ GoesOn(t)
             /\ IF Full(queue) THEN UNCHANGED <<conns, queue>> ELSE Put(Sentinel)
    BY <1>1, <1>5, <1>8
  <1> QED BY <1>2, <1>3, <1>4, <1>7, <1>8 DEF StopWorker

\* Room is made: the first entry is taken, and a sentinel put back.
LEMMA MakeRoomStructure ==
    ASSUME Structure, NEW t \in Threads, MakeRoom(t)
    PROVE  /\ Structure' /\ ~ended(t) /\ UNCHANGED <<limits, aged, server, errors, history>>
           /\ agenda[t][1].do = "make_room"
           /\ \/ UNCHANGED <<conns, queue>>
              \/ /\ queue # <<>> /\ conns' = Close(conns, Head(queue))
                 /\ queue' = Tail(queue)
           /\ \E p : /\ Turn(t, p, 1)
                     /\ \A k \in DOMAIN p : p[k] = Do("put_sentinel_again")
  <1>1. At(t, "make_room") /\ UNCHANGED <<limits, aged, server, errors, history>>
    BY DEF MakeRoom
  <1>2. ~ended(t) /\ agenda[t][1].do = "make_room"
    BY <1>1, AtFacts
  <1>3. \/ UNCHANGED <<conns, queue>>
        \/ /\ queue # <<>> /\ conns' = Close(conns, Head(queue))
           /\ queue' = Tail(queue)
    BY DEF MakeRoom, without_oldest
  <1>4. /\ queue' \in Seq({Sentinel} \cup Conns) /\ Len(queue') <= MaxQueue
        /\ conns' \in Seq(ConnStates) /\ Len(conns') = Len(conns) /\ Conns' = Conns
    <2>1. CASE UNCHANGED <<conns, queue>>
      BY <2>1, TypeFacts DEF Conns
    <2> QED BY <1>3, <2>1, TakeType
  <1>5. CASE GoesOn(t)
    <2>1. Turn(t, <<>>, 1)
      BY <1>1, <1>4, <1>5, OnTurn
    <2>2. PICK p : p = <<>> /\ DOMAIN p = {} /\ Turn(t, p, 1)
      BY <2>1
    <2>3. Structure'
      BY <1>1, <1>4, <2>1, FewerStructure
    <2> QED BY <1>1, <1>2, <1>3, <2>2, <2>3
  <1>6. CASE Calls(t, <<Do("put_sentinel_again")>>)
    <2>1. PICK p : p = <<Do("put_sentinel_again")>>
      OBVIOUS
    <2>2. Do("put_sentinel_again") \in Plain
      BY DEF Plain
    <2>3. p \in Seq(Plain) /\ DOMAIN p = {1} /\ p[1] = Do("put_sentinel_again")
      BY <2>1, <2>2
    <2>4. Turn(t, p, 1)
      BY <1>2, <1>4, <1>6, <2>1, <2>3, PlainSeq, TurnCall
    <2>5. p[1].do = "put_sentinel_again"
      BY <2>3 DEF Do
    <2>6. \A k \in DOMAIN p : /\ FollowedAt(p, k)
                              /\ p[k].do \notin LastSteps \cup {"enqueue", "put", "put_again"}
      BY <2>3, <2>5 DEF FollowedAt, LastSteps
    <2>7. \A k \in DOMAIN p : FollowedAt(agenda'[t], k)
      BY <2>4, <2>6, TurnFront
    <2>8. \A k \in DOMAIN p : StepOK(t, p[k])'
      BY <2>2, <2>3, PlainOK
    <2>9. ActionsOK' /\ server' \in Servers /\ history' \in Histories
      BY <1>1, <1>4, ActionsStay, TypeFacts
    <2>10. Structure'
      BY <1>1, <1>4, <2>4, <2>7, <2>8, <2>9, ConnStructure
    <2> QED BY <1>1, <1>2, <1>3, <2>3, <2>4, <2>10
  <1> QED BY <1>5, <1>6 DEF MakeRoom

\* The maintenance worker is stopped: it is woken, or that is skipped, or what
\* is left of the actions is run by the thread that stops it.
LEMMA StopMaintenanceTurn ==
    ASSUME Structure, NEW t \in Threads, StopMaintenance(t)
    PROVE  /\ UNCHANGED <<limits, conns, queue, aged, errors, history>>
           /\ ~ended(t) /\ server' \in Servers
           /\ \/ /\ Turn(t, <<>>, 2) /\ server' = server
                 /\ agenda[t][1].do = "wake" /\ agenda[t][2].do = "join_maintenance"
              \/ /\ Turn(t, <<>>, 1) /\ server' = [server EXCEPT !.event = TRUE]
                 /\ agenda[t][1].do = "wake"
              \/ /\ server' = pop_after_response_actions(server)
                 /\ agenda[t][1].do = "drain"
                 /\ \E b, q :
                        /\ Turn(t, b, 1) /\ q \in Seq(Action)
                        /\ Selects(q, server.actions, server.stop, Len(server.actions))
                        /\ IsBatch(b, q)
                        /\ \A k \in DOMAIN b :
                            /\ FollowedAt(b, k) /\ StepOK(t, b[k])'
                            /\ b[k].do \in {"run", "end_batch"}
  <1>1. UNCHANGED <<limits, conns, queue, aged, errors, history>> /\ Conns' = Conns
    BY DEF StopMaintenance, Conns
  <1>2. CASE /\ At(t, "wake") /\ Goes(t, SubSeq(agenda[t], 3, Len(agenda[t])))
             /\ UNCHANGED server
    <2>1. /\ agenda[t][1].do = "wake" /\ agenda[t][2].do = "join_maintenance"
          /\ 2 \in 0 .. Len(agenda[t]) /\ ~ended(t)
      BY <1>2, AtFacts DEF FollowedAt
    <2>2. PICK d : d = 2
      OBVIOUS
    <2>3. d \in 0 .. Len(agenda[t]) /\ Goes(t, SubSeq(agenda[t], d + 1, Len(agenda[t])))
      BY <1>2, <2>1, <2>2
    <2>4. Turn(t, <<>>, d)
      BY <1>1, <2>3, TurnSkip
    <2> QED BY <1>1, <1>2, <2>1, <2>2, <2>4, TypeFacts
  <1>3. CASE At(t, "wake") /\ server' = [server EXCEPT !.event = TRUE] /\ GoesOn(t)
    <2>1. Turn(t, <<>>, 1)
      BY <1>1, <1>3, OnTurn
    <2>2. server' \in Servers
      BY <1>3, TypeFacts DEF Servers
    <2> QED BY <1>1, <1>3, <2>1, <2>2, AtFacts
  <1>4. CASE /\ At(t, "drain") /\ Calls(t, Batch(popped(server, server.stop)))
             /\ server' = pop_after_response_actions(server)
    <2>1. PICK q : q = popped(server, server.stop)
      OBVIOUS
    <2>2. PICK b : b = Batch(q)
      OBVIOUS
    <2>3. /\ q \in Seq(Action)
          /\ Selects(q, server.actions, server.stop, Len(server.actions))
          /\ b \in Seq(Steps') /\ IsBatch(b, q)
          /\ \A k \in DOMAIN b : /\ FollowedAt(b, k) /\ StepOK(t, b[k])'
                                 /\ b[k].do \in {"run", "end_batch"}
      BY <1>1, <2>1, <2>2, PoppedBatch
    <2>4. ~ended(t) /\ agenda[t][1].do = "drain"
      BY <1>4, AtFacts
    <2>5. Turn(t, b, 1)
      BY <1>1, <1>4, <2>1, <2>2, <2>3, <2>4, TurnCall
    <2>6. server' \in Servers
      BY <1>4, PopFacts
    <2> QED BY <1>1, <1>4, <2>3, <2>4, <2>5, <2>6
  <1> QED BY <1>2, <1>3, <1>4 DEF StopMaintenance

\* Stopping it keeps the structure.
LEMMA StopMaintenanceStructure ==
    ASSUME Structure, NEW t \in Threads, StopMaintenance(t)
    PROVE  Structure'
  <1>1. UNCHANGED <<limits, conns, queue, aged, errors, history>> /\ server' \in Servers
    BY StopMaintenanceTurn
  <1>2. CASE \E d : /\ Turn(t, <<>>, d)
                    /\ server' = server \/ server' = [server EXCEPT !.event = TRUE]
    <2>1. server'.actions = server.actions
      BY <1>2, TypeFacts DEF Servers
    <2> QED BY <1>1, <1>2, <2>1, TypeFacts, OnStructure
  <1>3. ASSUME server' = pop_after_response_actions(server), NEW b, Turn(t, b, 1),
               \A k \in DOMAIN b : /\ FollowedAt(b, k) /\ StepOK(t, b[k])'
                                   /\ b[k].do \in {"run", "end_batch"}
        PROVE  Structure'
    <2>1. server'.actions = <<>>
      BY <1>3, PopFacts
    <2>2. \A k \in DOMAIN b : b[k].do \notin LastSteps \cup {"enqueue", "put", "put_again"}
      BY <1>3 DEF LastSteps
    <2>3. \A k \in DOMAIN b : FollowedAt(agenda'[t], k)
      BY <1>3, <2>2, TurnFront
    <2> QED BY <1>1, <1>3, <2>1, <2>3, TypeFacts, QuietStructure
  <1> QED BY <1>2, <1>3, StopMaintenanceTurn

\* A join returns.
LEMMA JoinStructure ==
    ASSUME Structure, NEW t \in Threads, NEW other \in {"worker", "maintenance"},
           Join(t, other)
    PROVE  /\ Structure' /\ Turn(t, <<>>, 1) /\ ~ended(t)
           /\ UNCHANGED <<limits, conns, queue, aged, errors, history>>
           /\ agenda[t][1].do =
                IF other = "worker" THEN "join_worker" ELSE "join_maintenance"
           /\ server' = [server EXCEPT !.joined =
                            IF ended(other) THEN @ \cup {other} ELSE @]
  <1>1. PICK what : what = IF other = "worker" THEN "join_worker" ELSE "join_maintenance"
    OBVIOUS
  <1>2. /\ At(t, what) /\ GoesOn(t) /\ Conns' = Conns
        /\ UNCHANGED <<limits, conns, queue, aged, errors, history>>
        /\ server' = [server EXCEPT !.joined =
                        IF ended(other) THEN @ \cup {other} ELSE @]
    BY <1>1 DEF Join, Conns
  <1>3. Turn(t, <<>>, 1)
    BY <1>2, OnTurn
  <1>4. PICK j : j = IF ended(other) THEN server.joined \cup {other} ELSE server.joined
    OBVIOUS
  <1>5. j \in SUBSET {"worker", "maintenance"}
    BY <1>4, TypeFacts DEF Servers
  <1>6. server' \in Servers /\ server'.actions = server.actions
    <2>1. server' = [server EXCEPT !.joined = j]
      BY <1>2, <1>4
    <2> QED BY <1>5, <2>1, TypeFacts DEF Servers
  <1>7. Structure'
    BY <1>2, <1>3, <1>6, TypeFacts, OnStructure
  <1> QED BY <1>1, <1>2, <1>3, <1>7, AtFacts

\* At the start.
LEMMA InitStructure == ASSUME Init PROVE Structure
  <1>1. /\ limits \in Limits /\ conns = <<>> /\ queue = <<>> /\ aged = {} /\ errors = 0
        /\ history = [published |-> FALSE, failed |-> FALSE, posted |-> {}, handled |-> {},
                      owed |-> {}, finalized |-> <<>>]
    BY DEF Init
  <1>2. Conns = {} /\ Len(conns) = 0 /\ conns \in Seq(ConnStates)
    BY <1>1, EmptySeq DEF Conns
  <1>3. MaxErrors \in Nat /\ Len(requests) \in Nat
    BY <1>1, SocketServerAssumption, LenProperties DEF MaxErrors, requests
  <1>4. /\ queue \in Seq({Sentinel} \cup Conns) /\ Len(queue) <= MaxQueue
    BY <1>1, EmptySeq, SocketServerAssumption
  <1>5. history.finalized \in Seq(Conns)
    BY <1>1, EmptySeq
  <1>6. history \in Histories
    BY <1>1, <1>5 DEF Histories
  <1>7. PICK l : l = <<Serving>>
    OBVIOUS
  <1>8. Serving \in Action /\ Serving.op = "serving" /\ Serving.conn = 0
    BY <1>3 DEF Serving, Action
  <1>9. l \in Seq(Action) /\ DOMAIN l = {1} /\ l[1] = Serving
    BY <1>7, <1>8
  <1>10. server = [stop |-> FALSE, listening |-> TRUE, bootstrap |-> TRUE,
                 gate |-> Nobody, error |-> FALSE, ticks |-> 0, event |-> TRUE,
                 actions |-> l, joined |-> {}, stopping |-> FALSE]
    BY <1>7 DEF Init
  <1>11. server \in Servers /\ server.actions = l
    BY <1>9, <1>10 DEF Servers
  <1>12. ActionsOK
    BY <1>8, <1>9, <1>11 DEF ActionsOK, ActionOK
  <1>13. ASSUME NEW t \in Threads
         PROVE  /\ agenda[t] \in Seq(Steps) /\ DOMAIN agenda[t] = {1}
                /\ Len(agenda[t]) = 1 /\ StepOK(t, agenda[t][1])
                /\ agenda[t][1].do \in {"accept", "get", "wait"}
    <2>1. PICK w : w = CASE t = "main" -> "accept" [] t = "worker" -> "get"
                         [] t = "maintenance" -> "wait"
      OBVIOUS
    <2>2. PICK s : s = Do(w)
      OBVIOUS
    <2>3. agenda[t] = <<s>>
      BY <2>1, <2>2 DEF Init
    <2>4. /\ w \in {"accept", "get", "wait"}
          /\ w = "accept" => t = "main"
          /\ w = "get" => t = "worker"
          /\ w = "wait" => t = "maintenance"
      BY <2>1 DEF Threads
    <2>5. s \in Steps /\ s.do = w
      BY <2>2, <2>4 DEF Do, Steps
    <2>6. StepOK(t, s)
      BY <2>4, <2>5 DEF StepOK, MainSteps, WorkerSteps, MaintenanceSteps
    <2>7. PICK a : a = <<s>>
      OBVIOUS
    <2>8. a \in Seq(Steps) /\ DOMAIN a = {1} /\ Len(a) = 1 /\ a[1] = s
      BY <2>5, <2>7
    <2>9. agenda[t] = a
      BY <2>3, <2>7
    <2> QED BY <2>4, <2>5, <2>6, <2>8, <2>9
  <1>14. agenda \in [Threads -> Seq(Steps)]
    <2> DEFINE F(t) == <<Do(CASE t = "main" -> "accept" [] t = "worker" -> "get"
                              [] t = "maintenance" -> "wait")>>
    <2>1. agenda = [t \in Threads |-> F(t)]
      BY DEF Init
    <2> HIDE DEF F
    <2>2. \A t \in Threads : F(t) \in Seq(Steps)
      BY <1>13, <2>1
    <2> QED BY <2>1, <2>2
  <1>15. StepsOK /\ AllFollowed
    <2>1. ASSUME NEW t \in Threads PROVE FollowedAt(agenda[t], 1)
      BY <1>13 DEF FollowedAt
    <2> QED BY <1>13, <2>1 DEF StepsOK, AllFollowed, Followed
  <1>16. errors \in 0 .. MaxErrors /\ Len(conns) <= Len(requests) /\ aged \subseteq Conns
    BY <1>1, <1>2, <1>3
  <1>17. TypeOK
    BY <1>1, <1>2, <1>4, <1>6, <1>11, <1>14, <1>16
    DEF TypeOK, ConnStates, Servers, Histories
  <1> QED BY <1>12, <1>15, <1>17 DEF Structure

\* Every step keeps the structure.
LEMMA StructureNext ==
    ASSUME Structure, [Next]_vars
    PROVE  Structure'
  <1>1. CASE UNCHANGED vars
    <2>1. /\ UNCHANGED <<limits, conns, queue, aged, server, agenda, errors, history>>
          /\ Conns' = Conns /\ "main" \in Threads
      BY <1>1 DEF vars, Conns, Threads
    <2>2. Turn("main", <<>>, 0)
      BY <2>1, TurnNone
    <2> QED BY <2>1, <2>2, TypeFacts, OnStructure
  <1>2. CASE Main
    BY <1>2, AcceptStructure, EnqueueCheckStructure, EnqueuePutStructure,
       EnqueueAgainStructure, LeaveStructure DEF Main
  <1>3. CASE Worker
    BY <1>3, WorkerGetStructure, WorkerStopsStructure, DispatchStructure, AdmitStructure,
       HandlerReturnsStructure, RespondStructure, PostRequestStructure DEF Worker
  <1>4. CASE Maintenance
    BY <1>4, WakesStructure, ActionsStructure, TicksStructure, TickStructure,
       TickFailsStructure DEF Maintenance
  <1>5. ASSUME NEW t \in Threads, Teardown(t) PROVE Structure'
    BY <1>5, RunStructure, ActionFailsStructure, RaiseStructure, EndBatchStructure,
       PublishStructure, OpenStructure, MakeRoomStructure, FinalizeStructure, ShutdownStructure, StopWorkerStructure,
       StopMaintenanceStructure, JoinStructure DEF Teardown
  <1>6. ASSUME NEW c \in Conns, Age(c) PROVE Structure'
    BY <1>6, AgeStructure
  <1> QED BY <1>1, <1>2, <1>3, <1>4, <1>5, <1>6 DEF Next

-----------------------------------------------------------------------------
(* The flags.                                                               *)

\* Once serving has stopped nothing more is to be shown of the flags.
LEMMA FlagsStopped ==
    ASSUME server'.stop
    PROVE  Flags'
  BY DEF Flags, StopFirst, OpenOK, StopAhead, UnpublishedIsStopped, NoLostWakeup

\* The stop still comes before the listener is closed.
LEMMA StopFirstKept ==
    ASSUME Structure, Flags, NEW t \in Threads, NEW p, NEW d, Turn(t, p, d),
           server.stop => server'.stop,
           Orderly(p), d = 0 \/ agenda[t][d].do # "set_stop"
    PROVE  StopFirst'
  <1> SUFFICES ASSUME ~server'.stop, NEW u \in Threads, NEW k \in DOMAIN agenda'[u],
                      agenda'[u][k].do = "close_listener"
               PROVE  k > 1 /\ agenda'[u][k - 1].do = "set_stop"
    BY DEF StopFirst
  <1>1. \A v \in Threads : \A i \in DOMAIN agenda[v] :
            agenda[v][i].do = "close_listener" => i > 1 /\ agenda[v][i - 1].do = "set_stop"
    BY DEF Flags, StopFirst
  <1>2. CASE u # t
    BY <1>1, <1>2 DEF Turn
  <1>3. CASE u = t
    <2>1. PICK n, a : n = agenda'[t] /\ a = agenda[t]
      OBVIOUS
    <2>2. /\ Splice(n, p, a, d) /\ DOMAIN n = 1 .. Len(n) /\ DOMAIN p = 1 .. Len(p)
          /\ Len(p) \in Nat /\ DOMAIN a = 1 .. Len(a) /\ Len(a) \in Nat /\ d \in Nat
      BY <2>1, TurnDomains DEF Turn, Splice
    <2>3. k \in DOMAIN n /\ n[k].do = "close_listener"
      BY <1>3, <2>1
    <2>4. CASE k \in DOMAIN p /\ n[k] = p[k]
      <3>1. k > 1 /\ p[k - 1].do = "set_stop"
        BY <2>3, <2>4 DEF Orderly
      <3>2. k - 1 \in DOMAIN p
        BY <2>2, <2>4, <3>1
      <3> QED BY <1>3, <2>1, <2>2, <3>1, <3>2 DEF Splice
    <2>5. ASSUME NEW m \in DOMAIN a, m = k + d - Len(p), m > d, n[k] = a[m]
          PROVE  k > 1 /\ n[k - 1].do = "set_stop"
      <3>1. m > 1 /\ a[m - 1].do = "set_stop"
        BY <1>1, <2>1, <2>3, <2>5
      <3>2. m - 1 > d
        <4>1. m - 1 # d
          BY <2>1, <2>2, <3>1
        <4> QED BY <2>2, <2>5, <4>1
      <3>3. m - 1 \in DOMAIN a /\ (m - 1) + Len(p) - d = k - 1 /\ k > 1
        <4>1. k \in Nat
          BY <2>2, <2>3
        <4>2. m \in 1 .. Len(a) /\ m = k + d - Len(p)
          BY <2>2, <2>5, Zenon
        <4>3. m - 1 \in 1 .. Len(a) /\ (m - 1) + Len(p) - d = k - 1 /\ k > 1
          BY <2>2, <3>1, <3>2, <4>1, <4>2, PlaceBefore
        <4> QED BY <2>2, <4>3, Zenon
      <3> QED BY <2>2, <3>1, <3>2, <3>3 DEF Splice
    <2> QED BY <1>3, <2>1, <2>2, <2>3, <2>4, <2>5 DEF Splice
  <1> QED BY <1>2, <1>3

\* Main still has a stop ahead.
LEMMA StopAheadKept ==
    ASSUME Structure, Flags, NEW t \in Threads, NEW p, NEW d, Turn(t, p, d),
           server.stop => server'.stop,
           \/ t # "main"
           \/ \E k \in DOMAIN p : p[k].do \in {"accept", "set_stop"}
           \/ \A i \in 1 .. d : agenda[t][i].do \notin {"accept", "set_stop"}
    PROVE  StopAhead'
  <1> SUFFICES ASSUME ~server'.stop
               PROVE  \E k \in DOMAIN agenda'["main"] :
                        agenda'["main"][k].do \in {"accept", "set_stop"}
    BY DEF StopAhead
  <1>0. "main" \in Threads
    BY DEF Threads
  <1>1. PICK k \in DOMAIN agenda["main"] : agenda["main"][k].do \in {"accept", "set_stop"}
    BY DEF Flags, StopAhead
  <1>2. CASE t # "main"
    BY <1>0, <1>1, <1>2 DEF Turn
  <1>3. CASE t = "main"
    <2>1. PICK n, a : n = agenda'[t] /\ a = agenda[t]
      OBVIOUS
    <2>2. /\ Splice(n, p, a, d) /\ DOMAIN n = 1 .. Len(n) /\ DOMAIN p = 1 .. Len(p)
          /\ Len(p) \in Nat /\ DOMAIN a = 1 .. Len(a) /\ Len(a) \in Nat /\ d \in Nat
      BY <2>1, TurnDomains DEF Turn, Splice
    <2>3. CASE \E i \in DOMAIN p : p[i].do \in {"accept", "set_stop"}
      BY <1>3, <2>1, <2>2, <2>3 DEF Splice
    <2>4. CASE \A i \in 1 .. d : a[i].do \notin {"accept", "set_stop"}
      <3>1. k \in DOMAIN a /\ a[k].do \in {"accept", "set_stop"}
        BY <1>1, <1>3, <2>1
      <3>2. k > d
        BY <2>2, <2>4, <3>1
      <3> QED BY <1>3, <2>1, <2>2, <3>1, <3>2 DEF Splice
    <2> QED BY <1>3, <2>1, <2>3, <2>4
  <1> QED BY <1>2, <1>3

\* A turn keeps the flags if it keeps the order of the stop and takes no tick.
LEMMA FlagsKept ==
    ASSUME Structure, Structure', Flags, limits' = limits,
           NEW t \in Threads, NEW p, NEW d, Turn(t, p, d),
           server.stop => server'.stop,
           history.published => history'.published,
           Orderly(p), d = 0 \/ agenda[t][d].do # "set_stop",
           \/ t # "main"
           \/ \E k \in DOMAIN p : p[k].do \in {"accept", "set_stop"}
           \/ \A i \in 1 .. d : agenda[t][i].do \notin {"accept", "set_stop"},
           server'.bootstrap \/ ~server.bootstrap \/ server'.stop \/ history'.published,
           \A c \in history'.handled : \/ c \in history.handled \/ history'.published
                                       \/ requests[c] = "ping" \/ server'.stop,
           \/ NoLostWakeup'
           \/ /\ history'.posted \subseteq history.posted
              /\ server.ticks = 1 /\ server.event => server'.ticks = 1 /\ server'.event
              /\ t = "maintenance" => agenda[t][1].do # "tick" \/ history'.posted = {}
    PROVE  Flags'
  <1>1. StopFirst' /\ StopAhead'
    BY StopFirstKept, StopAheadKept
  <1>2. OpenOK'
    BY DEF Flags, OpenOK
  <1>3. UnpublishedIsStopped'
    BY DEF Flags, UnpublishedIsStopped, requests
  <1>4. NoLostWakeup'
    <2> SUFFICES ASSUME history'.posted # {}, ~server'.stop,
                        ~(server'.ticks = 1 /\ server'.event),
                        /\ history'.posted \subseteq history.posted
                        /\ server.ticks = 1 /\ server.event =>
                            server'.ticks = 1 /\ server'.event
                        /\ t = "maintenance" =>
                            agenda[t][1].do # "tick" \/ history'.posted = {}
                 PROVE  At("maintenance", "tick")'
      BY DEF NoLostWakeup
    <2>0. "maintenance" \in Threads /\ "main" \in Threads
      BY DEF Threads
    <2>1. At("maintenance", "tick")
      BY DEF Flags, NoLostWakeup
    <2>2. t # "maintenance"
      BY <2>0, <2>1, AtFacts
    <2>3. agenda'["maintenance"] = agenda["maintenance"]
      BY <2>0, <2>2 DEF Turn
    <2>4. agenda'["main"] # <<>>
      <3>1. PICK k : k \in DOMAIN agenda'["main"]
        BY <1>1 DEF StopAhead
      <3> QED BY <3>1
    <2> QED BY <2>1, <2>3, <2>4 DEF At, exited, ended
  <1> QED BY <1>1, <1>2, <1>3, <1>4 DEF Flags

\* The common case: the flags of the server and the history are left alone.
LEMMA FlagsQuiet ==
    ASSUME Structure, Structure', Flags, limits' = limits,
           NEW t \in Threads, NEW p, NEW d, Turn(t, p, d),
           server'.stop = server.stop, server'.bootstrap = server.bootstrap,
           history'.published = history.published,
           history'.handled = history.handled, history'.posted = history.posted,
           server.ticks = 1 /\ server.event => server'.ticks = 1 /\ server'.event,
           Orderly(p), d = 0 \/ agenda[t][d].do # "set_stop",
           \/ t # "main"
           \/ \E k \in DOMAIN p : p[k].do \in {"accept", "set_stop"}
           \/ \A i \in 1 .. d : agenda[t][i].do \notin {"accept", "set_stop"},
           t = "maintenance" => agenda[t][1].do # "tick"
    PROVE  Flags'
  BY FlagsKept

\* A thread goes on, and no stop, tick or accept was due.
LEMMA FlagsOn ==
    ASSUME Structure, Structure', Flags, limits' = limits,
           NEW t \in Threads, Turn(t, <<>>, 1) \/ Turn(t, <<>>, 0),
           server'.stop = server.stop, server'.bootstrap = server.bootstrap,
           history'.published = history.published,
           history'.handled = history.handled, history'.posted = history.posted,
           server.ticks = 1 /\ server.event => server'.ticks = 1 /\ server'.event,
           agenda[t][1].do \notin {"set_stop", "accept", "tick"}
    PROVE  Flags'
  <1>1. PICK p, d : p = <<>> /\ DOMAIN p = {} /\ Turn(t, p, d) /\ (d = 0 \/ d = 1)
    OBVIOUS
  <1>2. Orderly(p)
    BY <1>1 DEF Orderly
  <1>3. \A i \in 1 .. d : i = 1 /\ d = 1
    BY <1>1
  <1> QED BY <1>1, <1>2, <1>3, FlagsQuiet

\* At the start.
LEMMA InitFlags == ASSUME Init PROVE Flags
  <1>1. /\ server.bootstrap = TRUE /\ history.posted = {} /\ history.handled = {}
    BY DEF Init
  <1>2. /\ agenda["main"] = <<Do("accept")>> /\ agenda["worker"] = <<Do("get")>>
        /\ agenda["maintenance"] = <<Do("wait")>>
    BY DEF Init, Threads
  <1>3. ASSUME NEW what PROVE DOMAIN <<Do(what)>> = {1} /\ <<Do(what)>>[1].do = what
    BY DEF Do
  <1>4. StopFirst
    <2>1. ASSUME NEW t \in Threads, NEW k \in DOMAIN agenda[t]
          PROVE  agenda[t][k].do # "close_listener"
      <3>1. t = "main" \/ t = "worker" \/ t = "maintenance"
        BY DEF Threads
      <3>2. CASE t = "main"
        BY <1>2, <1>3, <3>2
      <3>3. CASE t = "worker"
        BY <1>2, <1>3, <3>3
      <3>4. CASE t = "maintenance"
        BY <1>2, <1>3, <3>4
      <3> QED BY <3>1, <3>2, <3>3, <3>4
    <2> QED BY <2>1 DEF StopFirst
  <1>5. StopAhead
    BY <1>2, <1>3 DEF StopAhead
  <1> QED BY <1>1, <1>4, <1>5 DEF Flags, OpenOK, UnpublishedIsStopped, NoLostWakeup

\* The main thread.
LEMMA MainFlags ==
    ASSUME Structure, Structure', Flags, Main
    PROVE  Flags'
  <1>0. "main" \in Threads
    BY DEF Threads
  <1>1. CASE Accept
    <2>1. UNCHANGED <<limits, server, history>> /\ agenda["main"][1].do = "accept"
      BY <1>0, <1>1, AtFacts DEF Accept
    <2>2. PICK p : /\ Turn("main", p, 1) /\ DOMAIN p = 1 .. 2
                   /\ p[1] = Serve("enqueue", Len(conns) + 1) /\ p[2] = Do("accept")
      BY <1>1, AcceptTurn
    <2>3. p[1].do = "enqueue" /\ p[2].do = "accept" /\ \A k \in DOMAIN p : k = 1 \/ k = 2
      BY <2>2 DEF Serve, Do
    <2>4. Orderly(p)
      BY <2>3 DEF Orderly
    <2>5. 2 \in DOMAIN p
      BY <2>2
    <2> QED BY <1>0, <2>1, <2>2, <2>3, <2>4, <2>5, FlagsQuiet
  <1>2. CASE EnqueueCheck
    <2>1. UNCHANGED <<limits, server, history>>
      BY <1>2 DEF EnqueueCheck
    <2>2. agenda["main"][1].do = "enqueue"
      BY <1>2, EnqueueCheckTurn
    <2>3. CASE Turn("main", <<>>, 1)
      BY <1>0, <2>1, <2>2, <2>3, FlagsOn
    <2>4. ASSUME NEW p, Turn("main", p, 1), DOMAIN p = {1}, NEW c, p[1] = Serve("put", c)
          PROVE  Flags'
      <3>1. p[1].do = "put"
        BY <2>4 DEF Serve
      <3>2. Orderly(p)
        BY <2>4, <3>1 DEF Orderly
      <3>3. \A i \in 1 .. 1 : i = 1
        OBVIOUS
      <3> QED BY <1>0, <2>1, <2>2, <2>4, <3>2, <3>3, FlagsQuiet
    <2> QED BY <1>2, <2>3, <2>4, EnqueueCheckTurn
  <1>3. CASE EnqueuePut
    <2>1. UNCHANGED <<limits, server, history>>
      BY <1>3 DEF EnqueuePut
    <2>2. agenda["main"][1].do = "put"
      BY <1>3, EnqueuePutTurn
    <2>3. CASE Turn("main", <<>>, 1)
      BY <1>0, <2>1, <2>2, <2>3, FlagsOn
    <2>4. ASSUME NEW c, NEW p, Turn("main", p, 1), DOMAIN p = 1 .. 2,
                 p[1] = Do("make_room"), p[2] = Serve("put_again", c)
          PROVE  Flags'
      <3>1. p[1].do = "make_room" /\ p[2].do = "put_again"
        BY <2>4 DEF Do, Serve
      <3>2. \A k \in DOMAIN p : k = 1 \/ k = 2
        BY <2>4
      <3>3. Orderly(p)
        BY <3>1, <3>2 DEF Orderly
      <3>4. \A i \in 1 .. 1 : i = 1
        OBVIOUS
      <3> QED BY <1>0, <2>1, <2>2, <2>4, <3>3, <3>4, FlagsQuiet
    <2> QED BY <1>3, <2>3, <2>4, EnqueuePutTurn
  <1>4. CASE AcceptStops \/ AcceptFails
    <2>1. PICK p : Turn("main", p, 1) /\ IsLeave(p)
      BY <1>4, LeaveStructure
    <2>2. UNCHANGED <<limits, server, history>> /\ agenda["main"][1].do = "accept"
      BY <1>4, LeaveStructure
    <2>3. /\ DOMAIN p = 1 .. 14 /\ p[7].do = "set_stop" /\ p[8].do = "close_listener"
          /\ \A k \in DOMAIN p : p[k].do = "close_listener" => k = 8
      BY <2>1, LeaveFollowed
    <2>4. Orderly(p) /\ 7 \in DOMAIN p
      BY <2>3 DEF Orderly
    <2> QED BY <1>0, <2>1, <2>2, <2>3, <2>4, FlagsQuiet
  <1>5. CASE EnqueueAgain
    <2>1. /\ UNCHANGED <<limits, server, history>> /\ Turn("main", <<>>, 1)
          /\ agenda["main"][1].do = "put_again"
      BY <1>5, EnqueueAgainStructure
    <2> QED BY <1>0, <2>1, FlagsOn
  <1> QED BY <1>1, <1>2, <1>3, <1>4, <1>5 DEF Main

\* The request worker.
LEMMA WorkerFlags ==
    ASSUME Structure, Structure', Flags, Worker
    PROVE  Flags'
  <1>0. "worker" \in Threads /\ "worker" # "main" /\ "worker" # "maintenance"
    BY DEF Threads
  <1>1. CASE WorkerGet
    <2>1. /\ UNCHANGED <<limits, server, history>> /\ agenda["worker"][1].do = "get"
      BY <1>1, WorkerGetTurn
    <2>2. CASE Turn("worker", <<>>, 1) \/ Turn("worker", <<>>, 0)
      BY <1>0, <2>1, <2>2, FlagsOn
    <2>3. ASSUME NEW c, NEW p, Turn("worker", p, 1), DOMAIN p = 1 .. 4,
                 p[1] = Serve("dispatch", c), p[2] = Serve("respond", c),
                 p[3] = Serve("post", c), p[4] = Do("get")
          PROVE  Flags'
      <3>1. /\ p[1].do = "dispatch" /\ p[2].do = "respond" /\ p[3].do = "post"
            /\ p[4].do = "get" /\ \A k \in DOMAIN p : k = 1 \/ k = 2 \/ k = 3 \/ k = 4
        BY <2>3 DEF Serve, Do
      <3>2. Orderly(p)
        BY <3>1 DEF Orderly
      <3> QED BY <1>0, <2>1, <2>3, <3>2, FlagsQuiet
    <2> QED BY <1>1, <2>2, <2>3, WorkerGetTurn
  <1>2. CASE WorkerStops
    <2>1. UNCHANGED <<limits, server, history>>
      BY <1>2 DEF WorkerStops
    <2> QED BY <1>0, <1>2, <2>1, WorkerStopsStructure, FlagsOn
  <1>3. CASE Dispatch
    <2>1. PICK c \in Conns :
             /\ agenda["worker"][1].do = "dispatch" /\ agenda["worker"][1].conn = c
             /\ UNCHANGED <<limits, queue, aged, errors, history>>
             /\ \/ Turn("worker", <<>>, 1) /\ UNCHANGED server
                \/ /\ server' = [server EXCEPT !.gate = "worker"]
                   /\ \E p : /\ Turn("worker", p, 1) /\ DOMAIN p = {1}
                             /\ p[1] = Serve("admit", c)
      BY <1>3, DispatchTurn, Zenon
    <2>2. CASE Turn("worker", <<>>, 1) /\ UNCHANGED server
      BY <1>0, <2>1, <2>2, FlagsOn
    <2>3. ASSUME server' = [server EXCEPT !.gate = "worker"],
                 NEW p, Turn("worker", p, 1), DOMAIN p = {1}, p[1] = Serve("admit", c)
          PROVE  Flags'
      <3>1. /\ server'.stop = server.stop /\ server'.bootstrap = server.bootstrap
            /\ server'.ticks = server.ticks /\ server'.event = server.event
        BY <2>3, TypeFacts DEF Servers
      <3>2. Orderly(p)
        BY <2>3 DEF Orderly, Serve
      <3> QED BY <1>0, <2>1, <2>3, <3>1, <3>2, FlagsQuiet
    <2> QED BY <2>1, <2>2, <2>3, Zenon
  <1>7. CASE Admit
    <2>1. PICK c \in Conns :
             /\ agenda["worker"][1].do = "admit" /\ agenda["worker"][1].conn = c
             /\ UNCHANGED <<limits, queue, aged, errors>>
             /\ \/ /\ Turn("worker", <<>>, 1) /\ server' = [server EXCEPT !.gate = Nobody]
                   /\ UNCHANGED history
                \/ /\ ~bootstrap_restricted(requests[c])
                   /\ server' = [server EXCEPT !.stopping = @ \/ requests[c] \in ShutdownOps]
                   /\ history' = [history EXCEPT !.handled = @ \cup {c},
                                    !.owed = IF requests[c] = "stop-all"
                                             THEN @ \cup {c} ELSE @]
                   /\ \E p, b : /\ Turn("worker", p, 1) /\ Len(p) = Len(b) + 1
                                /\ Len(b) \in Nat /\ p[Len(p)] = Serve("return", c)
                                /\ \A k \in 1 .. Len(b) : /\ p[k] = b[k] /\ p[k] \in Plain
                                                          /\ FollowedAt(p, k)
                                /\ IsRelease(b) \/ Len(b) = 0
      BY <1>7, AdmitTurn, Zenon
    <2>2. CASE /\ Turn("worker", <<>>, 1) /\ server' = [server EXCEPT !.gate = Nobody]
               /\ UNCHANGED history
      <3>1. /\ server'.stop = server.stop /\ server'.bootstrap = server.bootstrap
            /\ server'.ticks = server.ticks /\ server'.event = server.event
        BY <2>2, TypeFacts DEF Servers
      <3> QED BY <1>0, <2>1, <2>2, <3>1, FlagsOn
    <2>3. ASSUME ~bootstrap_restricted(requests[c]),
                 server' = [server EXCEPT !.stopping = @ \/ requests[c] \in ShutdownOps],
                 history' = [history EXCEPT !.handled = @ \cup {c},
                               !.owed = IF requests[c] = "stop-all"
                                        THEN @ \cup {c} ELSE @],
                 NEW p, NEW b, Turn("worker", p, 1), Len(p) = Len(b) + 1,
                 Len(b) \in Nat, p[Len(p)] = Serve("return", c),
                 \A k \in 1 .. Len(b) : p[k] = b[k],
                 IsRelease(b) \/ Len(b) = 0
          PROVE  Flags'
      <3>1. /\ server'.stop = server.stop /\ server'.bootstrap = server.bootstrap
            /\ server'.ticks = server.ticks /\ server'.event = server.event
        BY <2>3, TypeFacts DEF Servers
      <3>2. /\ history'.published = history.published /\ history'.posted = history.posted
            /\ history'.handled = history.handled \cup {c}
        BY <2>3, TypeFacts DEF Histories
      <3>3. requests[c] = "ping" \/ history.published \/ server.stop
        <4>1. requests[c] # "ping" => ~server.bootstrap
          BY <2>3 DEF bootstrap_restricted
        <4> QED BY <4>1 DEF Flags, OpenOK
      <3>4. Orderly(p)
        <4>1. DOMAIN p = 1 .. Len(p) /\ p[Len(p)].do = "return"
          BY <1>0, <2>3, TurnDomains DEF Serve
        <4>2. \A k \in DOMAIN p : k \in 1 .. Len(b) \/ k = Len(p)
          BY <2>3, <4>1
        <4>3. CASE Len(b) = 0
          BY <4>1, <4>2, <4>3 DEF Orderly
        <4>4. CASE IsRelease(b)
          <5>1. Len(b) = 8 /\ ShutdownAt(b, 0) /\ StopAt(b, 2)
            BY <4>4 DEF IsRelease
          <5>2. /\ b[1].do = "set_stop" /\ b[2].do = "close_listener"
                /\ b[3].do = "close_pending" /\ b[4].do = "put_sentinel"
                /\ b[5].do = "join_worker" /\ b[6].do = "wake"
                /\ b[7].do = "join_maintenance" /\ b[8].do = "drain"
            BY <5>1, ReleaseNames
          <5>3. \A k \in 1 .. 8 : b[k].do = "close_listener" => k = 2
            <6>1. \A k \in 1 .. 8 :
                    k = 1 \/ k = 2 \/ k = 3 \/ k = 4 \/ k = 5 \/ k = 6 \/ k = 7 \/ k = 8
              OBVIOUS
            <6> QED BY <5>2, <6>1
          <5>4. p[1].do = "set_stop" /\ \A k \in 1 .. 8 : p[k] = b[k]
            BY <2>3, <5>1, <5>2
          <5>5. \A k \in DOMAIN p : p[k].do = "close_listener" => k = 2
            BY <4>1, <4>2, <5>1, <5>3, <5>4
          <5> QED BY <5>4, <5>5 DEF Orderly
        <4> QED BY <2>3, <4>3, <4>4
      <3> QED BY <1>0, <2>1, <2>3, <3>1, <3>2, <3>3, <3>4, FlagsKept
    <2> QED BY <2>1, <2>2, <2>3, Zenon
  <1>4. CASE HandlerReturns
    <2>1. /\ server' = [server EXCEPT !.gate = Nobody] /\ UNCHANGED <<limits, history>>
          /\ Turn("worker", <<>>, 1) /\ agenda["worker"][1].do = "return"
      BY <1>4, HandlerReturnsStructure
    <2>2. /\ server'.stop = server.stop /\ server'.bootstrap = server.bootstrap
          /\ server'.ticks = server.ticks /\ server'.event = server.event
      BY <2>1, TypeFacts DEF Servers
    <2> QED BY <1>0, <2>1, <2>2, FlagsOn
  <1>5. CASE Respond
    <2>1. /\ UNCHANGED <<limits, history>> /\ Turn("worker", <<>>, 1)
          /\ agenda["worker"][1].do = "respond"
          /\ \/ server' = server
             \/ \E x : server' = queue_after_response_action(server, x)
      BY <1>5, RespondStructure
    <2>2. /\ server'.stop = server.stop /\ server'.bootstrap = server.bootstrap
          /\ server'.ticks = server.ticks
          /\ server.event => server'.event
      BY <2>1, TypeFacts, Zenon DEF Servers, queue_after_response_action
    <2> QED BY <1>0, <2>1, <2>2, FlagsOn
  <1>6. CASE PostRequest
    <2>1. /\ Turn("worker", <<>>, 1) /\ agenda["worker"][1].do = "post"
          /\ UNCHANGED <<limits, conns, queue, aged, errors>>
          /\ \/ UNCHANGED <<server, history>>
             \/ /\ server' = queue_maintenance_ticks(server)
                /\ \E c \in Conns : history' = [history EXCEPT !.posted = @ \cup {c}]
      BY <1>6, PostRequestStructure
    <2>2. CASE UNCHANGED <<server, history>>
      BY <1>0, <2>1, <2>2, FlagsOn
    <2>3. ASSUME server' = queue_maintenance_ticks(server),
                 NEW c, history' = [history EXCEPT !.posted = @ \cup {c}]
          PROVE  Flags'
      <3>1. /\ server'.stop = server.stop /\ server'.bootstrap = server.bootstrap
            /\ server'.ticks = 1 /\ server'.event = TRUE
        BY <2>3, TypeFacts DEF Servers, queue_maintenance_ticks
      <3>2. /\ history'.published = history.published /\ history'.handled = history.handled
        BY <2>3, TypeFacts DEF Histories
      <3>3. NoLostWakeup'
        BY <3>1 DEF NoLostWakeup
      <3>4. PICK p : p = <<>> /\ DOMAIN p = {} /\ Turn("worker", p, 1)
        BY <2>1
      <3>5. Orderly(p)
        BY <3>4 DEF Orderly
      <3> QED BY <1>0, <2>1, <3>1, <3>2, <3>3, <3>4, <3>5, FlagsKept
    <2> QED BY <2>1, <2>2, <2>3
  <1> QED BY <1>1, <1>2, <1>3, <1>4, <1>5, <1>6, <1>7 DEF Worker

\* The place that one of two lists has and the other has not.
LEMMA LastPlace ==
    ASSUME NEW i \in Nat, NEW j \in Nat, NEW k \in 1 .. i, k \notin 1 .. j,
           i = j \/ i = j + 1
    PROVE  k = i /\ i # j
  OBVIOUS

\* The steps of a list that is another, or that and one more step.
LEMMA ThenOneNames ==
    ASSUME NEW p, NEW b, DOMAIN p = 1 .. Len(p), DOMAIN b = 1 .. Len(b),
           Len(p) \in Nat, Len(b) \in Nat, NEW A, NEW B,
           \A k \in DOMAIN b : b[k].do \in A /\ p[k] = b[k],
           Len(p) = Len(b) \/ (Len(p) = Len(b) + 1 /\ p[Len(p)].do \in B),
           NEW k \in DOMAIN p
    PROVE  p[k].do \in A \/ p[k].do \in B
  <1>1. CASE k \in DOMAIN b
    BY <1>1, Zenon
  <1>2. CASE k \notin DOMAIN b
    <2>1. PICK i \in Nat, j \in Nat : i = Len(p) /\ j = Len(b)
      BY Zenon
    <2>2. k \in 1 .. i /\ k \notin 1 .. j /\ (i = j \/ i = j + 1)
      BY <1>2, <2>1, Zenon
    <2>3. k = i /\ i # j
      BY <2>2, LastPlace, Zenon
    <2> QED BY <2>1, <2>3, Zenon
  <1> QED BY <1>1, <1>2, Zenon

\* The maintenance worker.
LEMMA MaintenanceFlags ==
    ASSUME Structure, Structure', Flags, Maintenance
    PROVE  Flags'
  <1>0. /\ "maintenance" \in Threads /\ "maintenance" # "main" /\ "main" \in Threads
    BY DEF Threads
  <1>1. CASE MaintenanceWakes
    <2>1. /\ UNCHANGED <<limits, server, history>> /\ agenda["maintenance"][1].do = "wait"
      BY <1>1, WakesStructure
    <2>2. PICK p : /\ Turn("maintenance", p, 1) /\ DOMAIN p = {1}
                   /\ p[1] = Do("woken") \/ p[1] = Do("timed_out")
      BY <1>1, WakesStructure
    <2>3. Orderly(p)
      BY <2>2 DEF Orderly, Do
    <2> QED BY <1>0, <2>1, <2>2, <2>3, FlagsQuiet
  <1>2. CASE MaintenanceActions
    <2>1. /\ server' = pop_after_response_actions(server) /\ UNCHANGED <<limits, history>>
          /\ agenda["maintenance"][1].do \in {"woken", "timed_out"}
      BY <1>2, ActionsTurn
    <2>2. PICK p, b : /\ Turn("maintenance", p, 1) /\ b \in Seq(Steps')
                      /\ \A k \in DOMAIN b : b[k].do \in {"run", "end_batch"} /\ p[k] = b[k]
                      /\ \/ Len(p) = Len(b)
                         \/ /\ Len(p) = Len(b) + 1
                            /\ p[Len(p)].do \in {"post_request_tick", "tick_if_needed"}
      BY <1>2, ActionsTurn
    <2>3. /\ server'.stop = server.stop /\ server'.bootstrap = server.bootstrap
          /\ server'.ticks = server.ticks
          /\ server.ticks = 1 /\ server.event => server'.event
      BY <2>1, PopFacts
    <2>4. Orderly(p)
      <3>1. /\ DOMAIN p = 1 .. Len(p) /\ DOMAIN b = 1 .. Len(b) /\ Len(b) \in Nat
            /\ Len(p) \in Nat
        BY <1>0, <2>2, TurnDomains, LenProperties
      <3>2. \A k \in DOMAIN p : \/ p[k].do \in {"run", "end_batch"}
                                \/ p[k].do \in {"post_request_tick", "tick_if_needed"}
        BY <2>2, <3>1, ThenOneNames, Zenon
      <3> QED BY <3>2 DEF Orderly
    <2> QED BY <1>0, <2>1, <2>2, <2>3, <2>4, FlagsQuiet
  <1>3. CASE MaintenanceTicks
    <2>1. /\ UNCHANGED <<limits, history>>
          /\ agenda["maintenance"][1].do \in {"post_request_tick", "tick_if_needed"}
      BY <1>3, TicksTurn
    <2>2. PICK p : /\ Turn("maintenance", p, 1)
                   /\ \A k \in DOMAIN p : p[k] = Do("tick") \/ p[k] = Do("wait")
                   /\ \/ server' = server
                      \/ /\ server' = take_queued_maintenance_ticks(server)
                         /\ server.ticks > 0 => 1 \in DOMAIN p /\ p[1] = Do("tick")
      BY <1>3, TicksTurn
    <2>3. Orderly(p)
      BY <2>2 DEF Orderly, Do
    <2>4. CASE server' = server
      BY <1>0, <2>1, <2>2, <2>3, <2>4, FlagsQuiet
    <2>5. CASE /\ server' = take_queued_maintenance_ticks(server)
               /\ server.ticks > 0 => 1 \in DOMAIN p /\ p[1] = Do("tick")
      <3>1. server'.stop = server.stop /\ server'.bootstrap = server.bootstrap
        BY <2>5, TakeFacts
      <3>2. NoLostWakeup'
        <4> SUFFICES ASSUME history'.posted # {}, ~server'.stop
                     PROVE  At("maintenance", "tick")'
          BY DEF NoLostWakeup
        <4>1. ~At("maintenance", "tick")
          BY <1>0, <2>1, AtFacts
        <4>2. server.ticks = 1
          BY <2>1, <3>1, <4>1 DEF Flags, NoLostWakeup
        <4>3. 1 \in DOMAIN p /\ p[1] = Do("tick")
          BY <2>5, <4>2
        <4>4. 1 \in DOMAIN agenda'["maintenance"] /\ agenda'["maintenance"][1].do = "tick"
          BY <2>2, <4>3 DEF Turn, Splice, Do
        <4>5. agenda'["maintenance"] # <<>> /\ Head(agenda'["maintenance"]).do = "tick"
          <5>1. agenda'["maintenance"] \in Seq(Steps')
            BY <1>0, <2>2 DEF Turn
          <5> QED BY <4>4, <5>1
        <4>6. agenda'["main"] = agenda["main"] /\ ~exited
          <5>1. At("maintenance", "post_request_tick") \/ At("maintenance", "tick_if_needed")
            BY <1>3 DEF MaintenanceTicks
          <5> QED BY <1>0, <2>2, <5>1 DEF Turn, At
        <4> QED BY <4>5, <4>6 DEF At, exited, ended
      <3> QED BY <1>0, <2>1, <2>2, <2>3, <3>1, <3>2, FlagsKept
    <2> QED BY <2>2, <2>4, <2>5
  <1>4. CASE Tick
    <2>1. /\ UNCHANGED <<limits, server>> /\ history' = [history EXCEPT !.posted = {}]
          /\ agenda["maintenance"][1].do = "tick"
      BY <1>4, TickStructure
    <2>2. PICK p : Turn("maintenance", p, 1) /\ Orderly(p)
      BY <1>4, TickStructure
    <2>3. /\ history'.published = history.published /\ history'.posted = {}
          /\ history'.handled = history.handled
      BY <2>1, TypeFacts DEF Histories
    <2>4. NoLostWakeup'
      BY <2>3 DEF NoLostWakeup
    <2> QED BY <1>0, <2>1, <2>2, <2>3, <2>4, FlagsKept
  <1>5. CASE TickFails
    BY <1>5, TickFailsStructure, FlagsStopped
  <1> QED BY <1>1, <1>2, <1>3, <1>4, <1>5 DEF Maintenance

\* Actions and teardown.
LEMMA TeardownFlags ==
    ASSUME Structure, Structure', Flags, NEW t \in Threads, Teardown(t)
    PROVE  Flags'
  <1>1. CASE RunAction(t)
    <2>1. /\ UNCHANGED <<limits, server, history>> /\ agenda[t][1].do = "run"
          /\ \E p : Turn(t, p, 1) /\ Orderly(p)
      BY <1>1, RunTurn
    <2>2. \A i \in 1 .. 1 : i = 1
      OBVIOUS
    <2> QED BY <2>1, <2>2, FlagsQuiet
  <1>2. CASE ActionFails(t)
    <2>1. CASE server'.stop
      BY <2>1, FlagsStopped
    <2>2. ASSUME UNCHANGED server, agenda[t][1].do = "run", NEW p, Turn(t, p, 1), Orderly(p)
          PROVE  Flags'
      <3>1. UNCHANGED <<limits, history>>
        BY <1>2, ActionFailsStructure
      <3>2. \A i \in 1 .. 1 : i = 1
        OBVIOUS
      <3> QED BY <2>2, <3>1, <3>2, FlagsQuiet
    <2> QED BY <1>2, <2>1, <2>2, ActionFailsStructure
  <1>11. CASE RaiseAfterRelease(t)
    BY <1>11, RaiseStructure, FlagsStopped
  <1>3. CASE EndBatch(t)
    BY <1>3, EndBatchStructure, FlagsOn
  <1>4. CASE Publish(t)
    <2>1. UNCHANGED limits
      BY <1>4, PublishStructure
    <2>2. CASE server'.stop
      BY <2>2, FlagsStopped
    <2>3. ASSUME agenda[t][1].do = "publish", server' = [server EXCEPT !.gate = t],
                 history' = [history EXCEPT !.published = TRUE],
                 NEW p, Turn(t, p, 1), DOMAIN p = {1}, p[1] = Do("open")
          PROVE  Flags'
      <3>1. /\ server'.stop = server.stop /\ server'.bootstrap = server.bootstrap
            /\ server'.ticks = server.ticks /\ server'.event = server.event
        BY <2>3, TypeFacts DEF Servers
      <3>2. /\ history'.published = TRUE /\ history'.posted = history.posted
            /\ history'.handled = history.handled
        BY <2>3, TypeFacts DEF Histories
      <3>3. Orderly(p) /\ \A i \in 1 .. 1 : i = 1
        BY <2>3 DEF Orderly, Do
      <3> QED BY <2>1, <2>3, <3>1, <3>2, <3>3, FlagsKept
    <2> QED BY <1>4, <2>2, <2>3, PublishStructure
  <1>5. CASE Open(t)
    <2>1. UNCHANGED limits /\ agenda[t][1].do = "open" /\ history.published
      BY <1>5, OpenStructure
    <2>0. PICK p : Turn(t, p, 1) /\ Orderly(p)
      BY <1>5, OpenStructure
    <2>2. CASE server'.stop
      BY <2>2, FlagsStopped
    <2>3. CASE /\ server' = [server EXCEPT !.gate = Nobody, !.bootstrap = FALSE]
               /\ UNCHANGED history
      <3>1. /\ server'.stop = server.stop
            /\ server'.ticks = server.ticks /\ server'.event = server.event
        BY <2>3, TypeFacts DEF Servers
      <3>2. \A i \in 1 .. 1 : i = 1
        OBVIOUS
      <3> QED BY <2>0, <2>1, <2>3, <3>1, <3>2, FlagsKept
    <2> QED BY <1>5, <2>2, <2>3, OpenStructure
  <1>6. CASE Finalize(t)
    <2>1. PICK c : history' = [history EXCEPT !.finalized = Append(@, c)]
      BY <1>6, FinalizeStructure
    <2>2. PICK l : l = Append(history.finalized, c)
      OBVIOUS
    <2>3. history' = [history EXCEPT !.finalized = l]
      BY <2>1, <2>2
    <2>4. /\ history'.published = history.published /\ history'.posted = history.posted
          /\ history'.handled = history.handled
      BY <2>3, TypeFacts DEF Histories
    <2>5. /\ UNCHANGED <<limits, server>> /\ Turn(t, <<>>, 1)
          /\ agenda[t][1].do = "finalize"
      BY <1>6, FinalizeStructure
    <2> QED BY <2>4, <2>5, FlagsOn
  <1>7. CASE ShutdownServer(t)
    <2>1. /\ UNCHANGED <<limits, history>>
          /\ \/ /\ agenda[t][1].do = "set_stop" /\ server' = [server EXCEPT !.stop = TRUE]
             \/ /\ agenda[t][1].do = "close_listener"
                /\ server' = [server EXCEPT !.listening = FALSE, !.bootstrap = FALSE]
      BY <1>7, ShutdownStructure
    <2>2. 1 \in DOMAIN agenda[t]
      BY <1>7, AtFacts DEF ShutdownServer
    <2>3. agenda[t][1].do = "close_listener" => server.stop
      BY <2>2 DEF Flags, StopFirst
    <2>4. server'.stop
      BY <2>1, <2>3, TypeFacts DEF Servers
    <2> QED BY <2>4, FlagsStopped
  <1>8. CASE StopWorker(t)
    <2>1. UNCHANGED <<limits, server, history>>
      BY <1>8, StopWorkerStructure
    <2>2. CASE /\ agenda[t][1].do \in {"close_pending", "put_sentinel", "put_sentinel_again"}
               /\ Turn(t, <<>>, 1) \/ Turn(t, <<>>, 0)
      BY <2>1, <2>2, FlagsOn
    <2>3. CASE /\ Turn(t, <<>>, 3) /\ agenda[t][1].do = "close_pending"
               /\ agenda[t][2].do = "put_sentinel" /\ agenda[t][3].do = "join_worker"
      <3>1. PICK p, d : p = <<>> /\ DOMAIN p = {} /\ d = 3 /\ Turn(t, p, d)
        BY <2>3
      <3>2. Orderly(p)
        BY <3>1 DEF Orderly
      <3>3. \A i \in 1 .. d : i = 1 \/ i = 2 \/ i = 3
        BY <3>1
      <3>4. \A i \in 1 .. d : agenda[t][i].do \notin {"accept", "set_stop"}
        BY <2>3, <3>3
      <3>5. agenda[t][d].do # "set_stop"
        BY <2>3, <3>1
      <3> QED BY <2>1, <2>3, <3>1, <3>2, <3>4, <3>5, FlagsQuiet
    <2>4. agenda[t][1].do \in {"close_pending", "put_sentinel", "put_sentinel_again"}
      BY <1>8, AtFacts DEF StopWorker
    <2>5. ASSUME agenda[t][1].do = "put_sentinel", NEW p, Turn(t, p, 1), DOMAIN p = 1 .. 2,
                 p[1] = Do("make_room"), p[2] = Do("put_sentinel_again")
          PROVE  Flags'
      <3>1. p[1].do = "make_room" /\ p[2].do = "put_sentinel_again"
        BY <2>5 DEF Do
      <3>2. \A k \in DOMAIN p : k = 1 \/ k = 2
        BY <2>5
      <3>3. Orderly(p)
        BY <3>1, <3>2 DEF Orderly
      <3>4. \A i \in 1 .. 1 : i = 1
        OBVIOUS
      <3> QED BY <2>1, <2>5, <3>3, <3>4, FlagsQuiet
    <2> QED BY <1>8, <2>2, <2>3, <2>4, <2>5, StopWorkerStructure
  <1>12. CASE MakeRoom(t)
    <2>1. /\ UNCHANGED <<limits, server, history>> /\ agenda[t][1].do = "make_room"
      BY <1>12, MakeRoomStructure
    <2>2. PICK p : Turn(t, p, 1) /\ \A k \in DOMAIN p : p[k] = Do("put_sentinel_again")
      BY <1>12, MakeRoomStructure
    <2>3. Orderly(p) /\ \A i \in 1 .. 1 : i = 1
      BY <2>2 DEF Orderly, Do
    <2> QED BY <2>1, <2>2, <2>3, FlagsQuiet
  <1>9. CASE StopMaintenance(t)
    <2>1. UNCHANGED <<limits, history>>
      BY <1>9, StopMaintenanceTurn
    <2>2. CASE /\ Turn(t, <<>>, 2) /\ server' = server
               /\ agenda[t][1].do = "wake" /\ agenda[t][2].do = "join_maintenance"
      <3>1. PICK p, d : p = <<>> /\ DOMAIN p = {} /\ d = 2 /\ Turn(t, p, d)
        BY <2>2
      <3>2. Orderly(p)
        BY <3>1 DEF Orderly
      <3>3. \A i \in 1 .. d : i = 1 \/ i = 2
        BY <3>1
      <3>4. \A i \in 1 .. d : agenda[t][i].do \notin {"accept", "set_stop"}
        BY <2>2, <3>3
      <3>5. agenda[t][d].do # "set_stop"
        BY <2>2, <3>1
      <3> QED BY <2>1, <2>2, <3>1, <3>2, <3>4, <3>5, FlagsQuiet
    <2>3. CASE /\ Turn(t, <<>>, 1) /\ server' = [server EXCEPT !.event = TRUE]
               /\ agenda[t][1].do = "wake"
      <3>1. /\ server'.stop = server.stop /\ server'.bootstrap = server.bootstrap
            /\ server'.ticks = server.ticks /\ server'.event
        BY <2>3, TypeFacts DEF Servers
      <3> QED BY <2>1, <2>3, <3>1, FlagsOn
    <2>4. ASSUME server' = pop_after_response_actions(server), agenda[t][1].do = "drain",
                 NEW b, Turn(t, b, 1),
                 \A k \in DOMAIN b : b[k].do \in {"run", "end_batch"}
          PROVE  Flags'
      <3>1. /\ server'.stop = server.stop /\ server'.bootstrap = server.bootstrap
            /\ server'.ticks = server.ticks
            /\ server.ticks = 1 /\ server.event => server'.event
        BY <2>4, PopFacts
      <3>2. Orderly(b) /\ \A i \in 1 .. 1 : i = 1
        BY <2>4 DEF Orderly
      <3> QED BY <2>1, <2>4, <3>1, <3>2, FlagsQuiet
    <2> QED BY <1>9, <2>2, <2>3, <2>4, StopMaintenanceTurn
  <1>10. ASSUME NEW other \in {"worker", "maintenance"}, Join(t, other) PROVE Flags'
    <2>1. /\ UNCHANGED <<limits, history>> /\ Turn(t, <<>>, 1)
          /\ agenda[t][1].do \in {"join_worker", "join_maintenance"}
          /\ \E j : server' = [server EXCEPT !.joined = j]
      BY <1>10, JoinStructure
    <2>2. /\ server'.stop = server.stop /\ server'.bootstrap = server.bootstrap
          /\ server'.ticks = server.ticks /\ server'.event = server.event
      BY <2>1, TypeFacts DEF Servers
    <2> QED BY <2>1, <2>2, FlagsOn
  <1> QED BY <1>1, <1>2, <1>3, <1>4, <1>5, <1>6, <1>7, <1>8, <1>9, <1>10, <1>11, <1>12
          DEF Teardown

\* Every step keeps the flags.
LEMMA FlagsNext ==
    ASSUME Structure, Flags, [Next]_vars
    PROVE  Flags'
  <1>0. Structure'
    BY StructureNext
  <1>1. ASSUME UNCHANGED <<limits, server, agenda, history>> PROVE Flags'
    BY <1>1 DEF Flags, StopFirst, OpenOK, StopAhead, UnpublishedIsStopped,
                NoLostWakeup, requests, At, exited, ended
  <1>2. CASE UNCHANGED vars
    BY <1>1, <1>2 DEF vars
  <1>3. CASE \E c \in Conns : Age(c)
    BY <1>1, <1>3 DEF Age
  <1> QED BY <1>0, <1>2, <1>3, MainFlags, WorkerFlags, MaintenanceFlags, TeardownFlags
          DEF Next

-----------------------------------------------------------------------------
(* The connections.                                                         *)

(* The queued connections are those in the queue, each once.                *)
QueueOK(cs, q) ==
    /\ \A c \in DOMAIN cs : cs[c] = "queued" <=> \E i \in DOMAIN q : q[i] = c
    /\ \A i, k \in DOMAIN q : q[i] = q[k] /\ q[i] # Sentinel => i = k

\* The first entry is taken; a connection among the entries leaves the queue.
LEMMA TakeHead ==
    ASSUME NEW cs, NEW D, DOMAIN cs = D, Sentinel \notin D, NEW q \in Seq({Sentinel} \cup D),
           q # <<>>, QueueOK(cs, q), NEW ds, DOMAIN ds = D,
           \/ q[1] = Sentinel /\ ds = cs
           \/ /\ q[1] # Sentinel /\ ds[q[1]] # "queued"
              /\ \A b \in D : b # q[1] => ds[b] = cs[b],
           NEW r, r = Tail(q)
    PROVE  QueueOK(ds, r)
  <1>1. /\ Len(q) \in Nat /\ Len(q) >= 1 /\ DOMAIN q = 1 .. Len(q)
        /\ r \in Seq({Sentinel} \cup D) /\ Len(r) = Len(q) - 1
        /\ \A i \in 1 .. Len(r) : r[i] = q[i + 1]
    BY HeadTailProperties, LenProperties, EmptySeq
  <1>2. DOMAIN r = 1 .. Len(r)
    BY <1>1, LenProperties
  <1>3. \A i \in DOMAIN r : i + 1 \in DOMAIN q /\ i + 1 # 1 /\ r[i] = q[i + 1]
    BY <1>1, <1>2
  <1>4. \A i \in DOMAIN q : i # 1 => i - 1 \in DOMAIN r /\ r[i - 1] = q[i]
    BY <1>1, <1>2
  <1>5. 1 \in DOMAIN q
    BY <1>1
  <1>6. ASSUME NEW c \in D PROVE ds[c] = "queued" <=> \E i \in DOMAIN r : r[i] = c
    <2>1. CASE c = q[1]
      <3>1. ~\E i \in DOMAIN r : r[i] = c
        BY <1>3, <1>5, <2>1 DEF QueueOK
      <3> QED BY <2>1, <3>1
    <2>2. CASE c # q[1]
      <3>1. ds[c] = cs[c]
        BY <2>2
      <3>2. ASSUME NEW i \in DOMAIN r, r[i] = c PROVE \E k \in DOMAIN q : q[k] = c
        BY <1>3, <3>2
      <3>3. ASSUME NEW i \in DOMAIN q, q[i] = c PROVE \E k \in DOMAIN r : r[k] = c
        <4>1. i # 1
          BY <2>2, <3>3
        <4> QED BY <1>4, <3>3, <4>1
      <3> QED BY <3>1, <3>2, <3>3 DEF QueueOK
    <2> QED BY <2>1, <2>2
  <1>7. ASSUME NEW i \in DOMAIN r, NEW k \in DOMAIN r, r[i] = r[k], r[i] # Sentinel
        PROVE  i = k
    <2>1. i + 1 = k + 1
      BY <1>3, <1>7 DEF QueueOK
    <2> QED BY <1>2, <2>1
  <1> QED BY <1>6, <1>7 DEF QueueOK

\* An entry is put behind the others.
LEMMA PutLast ==
    ASSUME NEW cs, NEW D, DOMAIN cs = D, Sentinel \notin D, NEW q \in Seq({Sentinel} \cup D),
           QueueOK(cs, q), NEW c \in {Sentinel} \cup D, NEW ds, DOMAIN ds = D,
           \/ c = Sentinel /\ ds = cs
           \/ /\ c # Sentinel /\ cs[c] # "queued" /\ ds[c] = "queued"
              /\ \A b \in D : b # c => ds[b] = cs[b],
           NEW r, r = Append(q, c)
    PROVE  QueueOK(ds, r)
  <1>1. /\ Len(q) \in Nat /\ DOMAIN q = 1 .. Len(q) /\ Len(r) = Len(q) + 1
        /\ r[Len(q) + 1] = c /\ \A i \in 1 .. Len(q) : r[i] = q[i]
        /\ r \in Seq({Sentinel} \cup D)
    <2>1. /\ r \in Seq({Sentinel} \cup D) /\ Len(r) = Len(q) + 1
          /\ r[Len(q) + 1] = c /\ \A i \in 1 .. Len(q) : r[i] = q[i]
      BY AppendProperties
    <2> QED BY <2>1, LenProperties, Zenon
  <1>2. PICK n \in Nat : n = Len(q)
    BY <1>1, Zenon
  <1>3. /\ DOMAIN r = 1 .. n + 1 /\ DOMAIN q = 1 .. n /\ r[n + 1] = c
        /\ \A i \in 1 .. n : r[i] = q[i]
    BY <1>1, <1>2, LenProperties
  <1>4. /\ \A i \in DOMAIN r : i \in DOMAIN q \/ i = n + 1
        /\ \A i \in DOMAIN q : i \in DOMAIN r /\ i # n + 1 /\ r[i] = q[i]
        /\ n + 1 \in DOMAIN r
    BY <1>3
  <1>5. c # Sentinel => \A i \in DOMAIN q : q[i] # c
    BY DEF QueueOK
  <1>6. ASSUME NEW b \in D PROVE ds[b] = "queued" <=> \E i \in DOMAIN r : r[i] = b
    <2>1. CASE b = c
      BY <1>3, <1>4, <2>1
    <2>2. CASE b # c
      <3>1. ds[b] = cs[b]
        BY <2>2
      <3>2. (\E i \in DOMAIN r : r[i] = b) <=> \E i \in DOMAIN q : q[i] = b
        BY <1>3, <1>4, <2>2
      <3> QED BY <3>1, <3>2 DEF QueueOK
    <2> QED BY <2>1, <2>2
  <1>7. ASSUME NEW i \in DOMAIN r, NEW k \in DOMAIN r, r[i] = r[k], r[i] # Sentinel
        PROVE  i = k
    <2>1. CASE i \in DOMAIN q /\ k \in DOMAIN q
      BY <1>4, <1>7, <2>1 DEF QueueOK
    <2>2. CASE i = n + 1 \/ k = n + 1
      BY <1>3, <1>4, <1>5, <1>7, <2>2
    <2> QED BY <1>4, <2>1, <2>2
  <1> QED BY <1>6, <1>7 DEF QueueOK

\* A connection that is not queued changes to another state than queued.
LEMMA MarkOther ==
    ASSUME NEW cs, NEW D, DOMAIN cs = D, NEW q, QueueOK(cs, q), NEW c \in D,
           cs[c] # "queued", NEW ds, DOMAIN ds = D, ds[c] # "queued",
           \A b \in D : b # c => ds[b] = cs[b]
    PROVE  QueueOK(ds, q)
  BY DEF QueueOK

\* The queue part of ClosedHasNoEffect.
LEMMA QueueParts ==
    ASSUME Connections
    PROVE  QueueOK(conns, queue)
  BY DEF Connections, ClosedHasNoEffect, QueueOK, Conns

\* put_nowait: who is queued is in the queue, and only an accepted connection
\* changes its state.
LEMMA PutQueue ==
    ASSUME Structure, Connections, NEW c \in {Sentinel} \cup Conns, Put(c),
           c # Sentinel => conns[c] = "accepted"
    PROVE  /\ QueueOK(conns', queue')
           /\ \A b \in Conns : conns'[b] = conns[b] \/ b = c
  <1>1. /\ conns \in Seq(ConnStates) /\ Len(conns) \in Nat /\ Conns = 1 .. Len(conns)
        /\ queue \in Seq({Sentinel} \cup Conns) /\ Sentinel \notin Conns
    BY TypeFacts DEF Sentinel
  <1>2. DOMAIN conns = Conns /\ QueueOK(conns, queue)
    BY QueueParts DEF Conns
  <1>3. PICK ds, r : ds = conns' /\ r = queue'
    OBVIOUS
  <1>4. r = Append(queue, c)
    BY <1>3 DEF Put
  <1>5. CASE c = Sentinel
    <2>1. ds = conns
      BY <1>3, <1>5 DEF Put
    <2>2. QueueOK(ds, r)
      BY <1>1, <1>2, <1>4, <1>5, <2>1, PutLast
    <2> QED BY <1>3, <2>1, <2>2
  <1>6. CASE c # Sentinel
    <2>1. ds = [conns EXCEPT ![c] = "queued"] /\ c \in 1 .. Len(conns)
          /\ "queued" \in ConnStates
      BY <1>1, <1>3, <1>6 DEF Put, ConnStates
    <2>2. /\ ds \in Seq(ConnStates) /\ Len(ds) = Len(conns) /\ ds[c] = "queued"
          /\ \A b \in Conns : b # c => ds[b] = conns[b]
      BY <1>1, <2>1, ExceptSeq
    <2>3. DOMAIN ds = Conns
      BY <1>1, <2>2, LenProperties
    <2>4. QueueOK(ds, r)
      BY <1>1, <1>2, <1>4, <1>6, <2>2, <2>3, PutLast
    <2> QED BY <1>3, <2>2, <2>4
  <1> QED BY <1>5, <1>6

(* Steps that hold no connection.                                           *)
NoHand(p) ==
    \A k \in DOMAIN p : p[k].do \notin {"enqueue", "put", "put_again", "dispatch", "admit",
                                     "return", "respond"}

(* Only connections that nobody has in hand change their state.             *)
Steady ==
    \A b \in Conns : conns'[b] = conns[b] \/ conns[b] \in {"accepted", "queued"}

\* The steps of a teardown hold no connection.
LEMMA PlainNoHand ==
    ASSUME NEW p, \A k \in DOMAIN p : p[k] \in Plain
    PROVE  NoHand(p)
  BY DEF NoHand, Plain, Do

\* What the worker has in hand after a turn it had in hand before, or it is new.
LEMMA WorkerHolds ==
    ASSUME Structure, NEW t \in Threads, NEW p, NEW d, Turn(t, p, d),
           NEW k \in DOMAIN agenda'["worker"]
    PROVE  \/ t = "worker" /\ k \in DOMAIN p /\ agenda'["worker"][k] = p[k]
           \/ /\ t = "worker" /\ k > Len(p)
              /\ k + d - Len(p) \in DOMAIN agenda["worker"] /\ k + d - Len(p) > d
              /\ agenda'["worker"][k] = agenda["worker"][k + d - Len(p)]
           \/ /\ t # "worker" /\ k \in DOMAIN agenda["worker"]
              /\ agenda'["worker"][k] = agenda["worker"][k]
  <1>0. "worker" \in Threads
    BY DEF Threads
  <1>1. CASE t # "worker"
    BY <1>0, <1>1 DEF Turn
  <1>2. CASE t = "worker"
    BY <1>2 DEF Turn, Splice
  <1> QED BY <1>1, <1>2

\* What is in hand stays in hand.
LEMMA HandKept ==
    ASSUME Structure, Connections, NEW t \in Threads, NEW p, NEW d, Turn(t, p, d),
           NoHand(p), Steady
    PROVE  InHand(agenda["worker"])'
  <1> DEFINE Hands == {"dispatch", "admit", "return", "respond"}
  <1>0. "worker" \in Threads
    BY DEF Threads
  <1>1. PICK n, a : n = agenda'["worker"] /\ a = agenda["worker"]
    OBVIOUS
  <1>2. /\ DOMAIN n = 1 .. Len(n) /\ Len(n) \in Nat /\ DOMAIN a = 1 .. Len(a)
        /\ Len(a) \in Nat /\ Len(p) \in Nat /\ DOMAIN p = 1 .. Len(p)
    BY <1>0, <1>1, TurnDomains
  <1>3. d \in Nat
    <2>1. d \in 0 .. Len(agenda[t]) /\ Len(agenda[t]) \in Nat
      BY TurnDomains DEF Turn, Splice
    <2> QED BY <2>1
  <1>4. PICK e \in Int : e = (IF t = "worker" THEN d - Len(p) ELSE 0)
    BY <1>2, <1>3
  <1>5. \A k \in DOMAIN n : n[k].do \in Hands => k + e \in DOMAIN a /\ n[k] = a[k + e]
    <2> TAKE k \in DOMAIN n
    <2> HAVE n[k].do \in Hands
    <2>1. CASE t = "worker" /\ k \in DOMAIN p /\ n[k] = p[k]
      BY <2>1 DEF NoHand
    <2>2. CASE /\ t = "worker" /\ k > Len(p)
               /\ k + d - Len(p) \in DOMAIN a /\ n[k] = a[k + d - Len(p)]
      <3>1. k + e = k + d - Len(p)
        BY <1>2, <1>3, <1>4, <2>2
      <3> QED BY <2>2, <3>1
    <2>3. CASE t # "worker" /\ k \in DOMAIN a /\ n[k] = a[k]
      <3>1. k + e = k
        BY <1>2, <1>4, <2>3
      <3> QED BY <2>3, <3>1
    <2> QED BY <1>1, <2>1, <2>2, <2>3, WorkerHolds
  <1>6. InHand(a)
    BY <1>1 DEF Connections
  <1>7. \A k \in DOMAIN a : a[k].do \in Hands => a[k].conn \in Conns
    BY <1>0, <1>1 DEF Structure, StepsOK, StepOK
  <1>8. \A i, k \in DOMAIN n : i + e = k + e => i = k
    BY <1>2
  <1>9. \A i, k \in DOMAIN n :
            /\ /\ n[i].do \in {"dispatch", "admit", "return"}
               /\ n[k].do \in {"dispatch", "admit", "return"}
               => i = k
            /\ n[i].do = "respond" /\ n[k].do = "respond" => i = k
    BY <1>5, <1>6, <1>8 DEF InHand
  <1>10. ASSUME NEW k \in DOMAIN n, n[k].do \in Hands
         PROVE  /\ n[k].do \in {"dispatch", "admit"} => conns'[n[k].conn] = "read"
                /\ n[k].do = "return" => conns'[n[k].conn] = "handling"
                /\ n[k].do = "respond" =>
                    conns'[n[k].conn] \in {"read", "refused", "handling", "handled"}
    <2>1. PICK m \in DOMAIN a : n[k] = a[m]
      BY <1>5, <1>10
    <2>2. /\ a[m].do \in {"dispatch", "admit"} => conns[a[m].conn] = "read"
          /\ a[m].do = "return" => conns[a[m].conn] = "handling"
          /\ a[m].do = "respond" =>
              conns[a[m].conn] \in {"read", "refused", "handling", "handled"}
      BY <1>6, <2>1 DEF InHand
    <2>3. conns'[a[m].conn] = conns[a[m].conn]
      BY <1>7, <1>10, <2>1, <2>2 DEF Steady
    <2> QED BY <2>1, <2>2, <2>3
  <1> QED BY <1>1, <1>9, <1>10 DEF InHand

\* What main has accepted stays accepted until main queues it.
LEMMA AcceptedKept ==
    ASSUME Structure, Connections, NEW t \in Threads, NEW p, NEW d, Turn(t, p, d),
           \A k \in DOMAIN p : t = "main" /\ p[k].do \in {"enqueue", "put", "put_again"} =>
                conns'[p[k].conn] = "accepted",
           \A b \in Conns : conns[b] = "accepted" => conns'[b] = "accepted"
    PROVE  AcceptedOK'
  <1>0. "main" \in Threads
    BY DEF Threads
  <1> SUFFICES ASSUME NEW k \in DOMAIN agenda'["main"],
                      agenda'["main"][k].do \in {"enqueue", "put", "put_again"}
               PROVE  conns'[agenda'["main"][k].conn] = "accepted"
    BY DEF AcceptedOK
  <1>1. ASSUME NEW m \in DOMAIN agenda["main"], agenda'["main"][k] = agenda["main"][m]
        PROVE  conns'[agenda'["main"][k].conn] = "accepted"
    <2>1. agenda["main"][m].conn \in Conns
      BY <1>0, <1>1 DEF Structure, StepsOK, StepOK
    <2> QED BY <1>1, <2>1 DEF Connections, AcceptedOK
  <1>2. CASE t # "main"
    BY <1>0, <1>1, <1>2 DEF Turn
  <1>3. CASE t = "main"
    <2>1. \/ k \in DOMAIN p /\ agenda'["main"][k] = p[k]
          \/ \E m \in DOMAIN agenda["main"] : agenda'["main"][k] = agenda["main"][m]
      BY <1>3 DEF Turn, Splice
    <2> QED BY <1>1, <1>3, <2>1
  <1> QED BY <1>2, <1>3

\* Once a connection is queued or closed, main has no other to queue.
LEMMA AcceptedDone ==
    ASSUME Structure, Structure', Turn("main", <<>>, 1), 1 \in DOMAIN agenda["main"],
           agenda["main"][1].do \in {"enqueue", "put", "put_again"}
    PROVE  AcceptedOK'
  <1>0. "main" \in Threads
    BY DEF Threads
  <1>1. PICK p : p = <<>> /\ Len(p) = 0 /\ Turn("main", p, 1)
    OBVIOUS
  <1>2. PICK n, a : n = agenda'["main"] /\ a = agenda["main"]
    OBVIOUS
  <1>3. 1 + 1 = Len(a)
    <2>1. FollowedAt(a, 1) /\ a[1].do \in {"enqueue", "put", "put_again"}
      BY <1>0, <1>2, Zenon DEF Structure, AllFollowed, Followed
    <2> QED BY <2>1 DEF FollowedAt
  <1>4. Len(n) = Len(p) + Len(a) - 1
    <2>1. Splice(n, p, a, 1)
      BY <1>1, <1>2 DEF Turn
    <2> QED BY <2>1 DEF Splice
  <1>5. DOMAIN n = 1 .. Len(n)
    BY <1>0, <1>1, <1>2, TurnDomains
  <1>6. Len(n) = 1 /\ \A k \in DOMAIN n : k = 1
    <2>1. Len(p) = 0
      BY <1>1
    <2>2. PICK i \in Nat, j \in Nat : i = Len(a) /\ j = Len(n)
      BY <1>0, <1>1, <1>2, TurnDomains
    <2>3. j = 1
      BY <1>3, <1>4, <2>1, <2>2
    <2> QED BY <1>5, <2>2, <2>3
  <1>7. ASSUME NEW k \in DOMAIN n PROVE n[k].do \notin {"enqueue", "put", "put_again"}
    <2>1. Followed(n)
      <3>1. AllFollowed'
        BY DEF Structure
      <3> QED BY <1>0, <1>2, <3>1 DEF AllFollowed, Followed, FollowedAt
    <2>2. n[k].do \in {"enqueue", "put", "put_again"} => k + 1 = Len(n)
      BY <1>7, <2>1 DEF Followed, FollowedAt
    <2> QED BY <1>6, <1>7, <2>2
  <1> QED BY <1>2, <1>7 DEF AcceptedOK

\* Handled connections are past the queue.
LEMMA HandledKept ==
    ASSUME Structure, Connections, Steady, history'.handled = history.handled
    PROVE  HandledOK'
  <1>1. history.handled \subseteq Conns
    BY TypeFacts DEF Histories
  <1> QED BY <1>1 DEF Connections, HandledOK, Steady

\* The parts make the whole.
LEMMA ConnectionsMade ==
    ASSUME InHand(agenda["worker"])', AcceptedOK', HandledOK', QueueOK(conns', queue')
    PROVE  Connections'
  <1>1. \A c \in Conns' : conns'[c] = "closed" => c \notin history'.handled
    BY DEF HandledOK
  <1>2. ClosedHasNoEffect'
    BY <1>1 DEF QueueOK, ClosedHasNoEffect, Conns
  <1> QED BY <1>2 DEF Connections

\* A turn that leaves the connections alone.
LEMMA ConnectionsQuiet ==
    ASSUME Structure, Connections, NEW t \in Threads, NEW p, NEW d, Turn(t, p, d),
           NoHand(p), UNCHANGED <<conns, queue>>, history'.handled = history.handled
    PROVE  Connections'
  <1>1. Steady /\ \A b \in Conns : conns[b] = "accepted" => conns'[b] = "accepted"
    BY DEF Steady
  <1>2. AcceptedOK'
    BY <1>1, AcceptedKept DEF NoHand
  <1>3. InHand(agenda["worker"])'
    BY <1>1, HandKept
  <1>4. HandledOK'
    BY <1>1, HandledKept
  <1>5. QueueOK(conns', queue')
    BY QueueParts
  <1> QED BY <1>2, <1>3, <1>4, <1>5, ConnectionsMade

\* A thread goes on.
LEMMA ConnectionsOn ==
    ASSUME Structure, Connections, NEW t \in Threads, NEW d, Turn(t, <<>>, d),
           UNCHANGED <<conns, queue>>, history'.handled = history.handled
    PROVE  Connections'
  <1>1. PICK p : p = <<>> /\ DOMAIN p = {} /\ Turn(t, p, d)
    OBVIOUS
  <1>2. NoHand(p)
    BY <1>1 DEF NoHand
  <1> QED BY <1>1, <1>2, ConnectionsQuiet

\* Another thread takes a turn.
LEMMA WorkerSame ==
    ASSUME Structure, Connections, NEW t \in Threads, t # "worker", NEW p, NEW d,
           Turn(t, p, d), Steady
    PROVE  InHand(agenda["worker"])'
  <1>0. "worker" \in Threads
    BY DEF Threads
  <1>1. agenda'["worker"] = agenda["worker"]
    BY <1>0 DEF Turn
  <1>2. \A k \in DOMAIN agenda["worker"] :
            agenda["worker"][k].do \in {"dispatch", "admit", "return", "respond"} =>
                agenda["worker"][k].conn \in Conns
    BY <1>0 DEF Structure, StepsOK, StepOK
  <1> QED BY <1>1, <1>2 DEF Connections, InHand, Steady

\* Main.
LEMMA MainConnections ==
    ASSUME Structure, Structure', Connections, Main
    PROVE  Connections'
  <1>0. "main" \in Threads /\ "main" # "worker" /\ Sentinel = 0
    BY DEF Threads, Sentinel
  <1>5. ASSUME NEW c \in Conns, conns[c] = "accepted", Put(c), UNCHANGED history,
               Turn("main", <<>>, 1), 1 \in DOMAIN agenda["main"],
               agenda["main"][1].do \in {"enqueue", "put", "put_again"}
        PROVE  Connections'
    <2>1. /\ QueueOK(conns', queue')
          /\ \A b \in Conns : conns'[b] = conns[b] \/ b = c
      BY <1>5, PutQueue
    <2>2. Steady
      BY <1>5, <2>1 DEF Steady
    <2>3. AcceptedOK'
      BY <1>5, AcceptedDone
    <2>4. InHand(agenda["worker"])'
      BY <1>0, <1>5, <2>2, WorkerSame
    <2> QED BY <1>5, <2>1, <2>2, <2>3, <2>4, HandledKept, ConnectionsMade
  <1>7. ASSUME NEW c \in Conns, conns[c] = "accepted",
               conns' = [conns EXCEPT ![c] = "closed"], UNCHANGED <<queue, history>>,
               Turn("main", <<>>, 1), 1 \in DOMAIN agenda["main"],
               agenda["main"][1].do \in {"enqueue", "put", "put_again"}
        PROVE  Connections'
    <2>1. /\ Conns' = Conns /\ conns'[c] = "closed"
          /\ \A b \in Conns : b # c => conns'[b] = conns[b]
      BY <1>7, MarkType DEF ConnStates
    <2>2. Steady
      BY <1>7, <2>1 DEF Steady
    <2>3. AcceptedOK'
      BY <1>7, AcceptedDone
    <2>4. InHand(agenda["worker"])'
      BY <1>0, <1>7, <2>2, WorkerSame
    <2>5. QueueOK(conns', queue')
      <3>1. PICK ds : ds = conns'
        OBVIOUS
      <3>2. DOMAIN ds = Conns /\ DOMAIN conns = Conns
        BY <2>1, <3>1 DEF Conns
      <3>3. QueueOK(ds, queue)
        BY <1>7, <2>1, <3>1, <3>2, QueueParts, MarkOther
      <3> QED BY <1>7, <3>1, <3>3
    <2> QED BY <1>7, <2>2, <2>3, <2>4, <2>5, HandledKept, ConnectionsMade
  <1>1. CASE Accept
    <2>1. PICK c : c = Len(conns) + 1
      OBVIOUS
    <2>2. /\ Conns' = Conns \cup {c} /\ conns'[c] = "accepted" /\ c \notin Conns
          /\ \A b \in Conns : conns'[b] = conns[b]
          /\ UNCHANGED <<queue, history>>
      BY <1>1, <2>1, AcceptTurn, TypeFacts DEF Accept
    <2>3. PICK p : /\ Turn("main", p, 1) /\ DOMAIN p = 1 .. 2
                   /\ p[1] = Serve("enqueue", c) /\ p[2] = Do("accept")
      BY <1>1, <2>1, AcceptTurn
    <2>4. /\ p[1].do = "enqueue" /\ p[1].conn = c /\ p[2].do = "accept"
          /\ \A k \in DOMAIN p : k = 1 \/ k = 2
      BY <2>3 DEF Serve, Do
    <2>5. Steady /\ \A b \in Conns : conns[b] = "accepted" => conns'[b] = "accepted"
      BY <2>2 DEF Steady
    <2>6. AcceptedOK'
      BY <1>0, <2>2, <2>3, <2>4, <2>5, AcceptedKept
    <2>7. InHand(agenda["worker"])'
      BY <1>0, <2>2, <2>3, <2>5, WorkerSame
    <2>8. QueueOK(conns', queue')
      <3>1. \A i \in DOMAIN queue : queue[i] # c
        <4>1. \A i \in DOMAIN queue : queue[i] \in {Sentinel} \cup Conns
          BY TypeFacts, ElementOfSeq, LenProperties
        <4>2. c # 0
          BY <2>1, TypeFacts
        <4> QED BY <1>0, <2>2, <4>1, <4>2
      <3>2. DOMAIN conns' = DOMAIN conns \cup {c} /\ DOMAIN conns = Conns
        BY <2>2 DEF Conns
      <3> QED BY <2>2, <3>1, <3>2, QueueParts DEF QueueOK
    <2> QED BY <2>2, <2>5, <2>6, <2>7, <2>8, HandledKept, ConnectionsMade
  <1>2. CASE EnqueueCheck
    <2>1. PICK c \in Conns :
             /\ agenda["main"][1].do = "enqueue" /\ agenda["main"][1].conn = c
             /\ \/ Turn("main", <<>>, 1) /\ conns' = [conns EXCEPT ![c] = "closed"]
                \/ /\ UNCHANGED conns
                   /\ \E p : /\ Turn("main", p, 1) /\ DOMAIN p = {1}
                             /\ p[1] = Serve("put", c)
      BY <1>2, EnqueueCheckTurn
    <2>2. UNCHANGED <<queue, history>> /\ 1 \in DOMAIN agenda["main"]
      BY <1>0, <1>2, AtFacts DEF EnqueueCheck
    <2>3. conns[c] = "accepted"
      BY <2>1, <2>2 DEF Connections, AcceptedOK
    <2>4. CASE Turn("main", <<>>, 1) /\ conns' = [conns EXCEPT ![c] = "closed"]
      BY <1>7, <2>1, <2>2, <2>3, <2>4
    <2>5. ASSUME UNCHANGED conns, NEW p, Turn("main", p, 1), DOMAIN p = {1},
                 p[1] = Serve("put", c)
          PROVE  Connections'
      <3>1. p[1].conn = c /\ Steady
        BY <2>5 DEF Serve, Steady
      <3>2. AcceptedOK'
        BY <1>0, <2>3, <2>5, <3>1, AcceptedKept
      <3>3. InHand(agenda["worker"])'
        BY <1>0, <2>5, <3>1, WorkerSame
      <3>4. QueueOK(conns', queue')
        BY <2>2, <2>5, QueueParts
      <3> QED BY <2>2, <3>1, <3>2, <3>3, <3>4, HandledKept, ConnectionsMade
    <2> QED BY <2>1, <2>4, <2>5
  <1>3. CASE EnqueuePut
    <2>1. PICK c \in Conns :
             /\ agenda["main"][1].do = "put" /\ agenda["main"][1].conn = c
             /\ \/ Turn("main", <<>>, 1) /\ Put(c)
                \/ /\ UNCHANGED <<conns, queue>>
                   /\ \E p : /\ Turn("main", p, 1) /\ DOMAIN p = 1 .. 2
                             /\ p[1] = Do("make_room") /\ p[2] = Serve("put_again", c)
      BY <1>3, EnqueuePutTurn
    <2>2. UNCHANGED history /\ 1 \in DOMAIN agenda["main"]
      BY <1>0, <1>3, AtFacts DEF EnqueuePut
    <2>3. conns[c] = "accepted"
      BY <2>1, <2>2 DEF Connections, AcceptedOK
    <2>4. CASE Turn("main", <<>>, 1) /\ Put(c)
      BY <1>5, <2>1, <2>2, <2>3, <2>4
    <2>5. ASSUME UNCHANGED <<conns, queue>>, NEW p, Turn("main", p, 1), DOMAIN p = 1 .. 2,
                 p[1] = Do("make_room"), p[2] = Serve("put_again", c)
          PROVE  Connections'
      <3>1. p[1].do = "make_room" /\ p[2].conn = c /\ Steady
        BY <2>5 DEF Do, Serve, Steady
      <3>2. \A k \in DOMAIN p : k = 1 \/ k = 2
        BY <2>5
      <3>3. AcceptedOK'
        BY <1>0, <2>3, <2>5, <3>1, <3>2, AcceptedKept
      <3>4. InHand(agenda["worker"])'
        BY <1>0, <2>5, <3>1, WorkerSame
      <3>5. QueueOK(conns', queue')
        BY <2>5, QueueParts
      <3> QED BY <2>2, <3>1, <3>3, <3>4, <3>5, HandledKept, ConnectionsMade
    <2> QED BY <2>1, <2>4, <2>5
  <1>6. CASE EnqueueAgain
    <2>1. PICK c \in Conns :
             /\ agenda["main"][1].do = "put_again" /\ agenda["main"][1].conn = c
             /\ \/ Put(c)
                \/ UNCHANGED queue /\ conns' = [conns EXCEPT ![c] = "closed"]
      BY <1>6, EnqueueAgainStructure
    <2>2. UNCHANGED history /\ 1 \in DOMAIN agenda["main"] /\ Turn("main", <<>>, 1)
      BY <1>0, <1>6, AtFacts, EnqueueAgainStructure DEF EnqueueAgain
    <2>3. conns[c] = "accepted"
      BY <2>1, <2>2 DEF Connections, AcceptedOK
    <2>4. CASE Put(c)
      BY <1>5, <2>1, <2>2, <2>3, <2>4
    <2>5. CASE UNCHANGED queue /\ conns' = [conns EXCEPT ![c] = "closed"]
      BY <1>7, <2>1, <2>2, <2>3, <2>5
    <2> QED BY <2>1, <2>4, <2>5
  <1>4. CASE AcceptStops \/ AcceptFails
    <2>1. PICK p : Turn("main", p, 1) /\ IsLeave(p)
      BY <1>4, LeaveStructure
    <2>2. UNCHANGED <<conns, queue, history>>
      BY <1>4, LeaveStructure
    <2>3. NoHand(p)
      BY <2>1, LeaveFollowed, PlainNoHand
    <2> QED BY <1>0, <2>1, <2>2, <2>3, ConnectionsQuiet
  <1> QED BY <1>1, <1>2, <1>3, <1>4, <1>6 DEF Main

\* The worker has a connection in hand and moves it on.
LEMMA HandMoves ==
    ASSUME Structure, Connections, NEW p, Turn("worker", p, 1), NEW c \in Conns,
           1 \in DOMAIN agenda["worker"],
           agenda["worker"][1].do \in {"dispatch", "admit", "return"},
           agenda["worker"][1].conn = c,
           NEW st \in {"read", "refused", "handling", "handled"}, conns'[c] = st,
           \A b \in Conns : b # c => conns'[b] = conns[b],
           \A k \in DOMAIN p : p[k].do \notin {"dispatch", "respond"},
           \A k \in DOMAIN p : p[k].do \in {"admit", "return"} =>
                /\ k = Len(p) /\ p[k].conn = c
                /\ st = IF p[k].do = "admit" THEN "read" ELSE "handling"
    PROVE  InHand(agenda["worker"])'
  <1>0. "worker" \in Threads
    BY DEF Threads
  <1>1. PICK n, a : n = agenda'["worker"] /\ a = agenda["worker"]
    OBVIOUS
  <1>2. /\ DOMAIN n = 1 .. Len(n) /\ Len(n) \in Nat /\ DOMAIN a = 1 .. Len(a)
        /\ Len(a) \in Nat /\ Len(p) \in Nat /\ DOMAIN p = 1 .. Len(p)
    BY <1>0, <1>1, TurnDomains
  <1>3. InHand(a) /\ FollowedAt(a, 1) /\ 1 \in DOMAIN a
    BY <1>0, <1>1 DEF Connections, Structure, AllFollowed, Followed
  <1>4. PICK r \in DOMAIN a : 1 < r /\ a[r].do = "respond" /\ a[r].conn = c
    BY <1>1, <1>3 DEF FollowedAt
  <1>5. \A m \in DOMAIN a : m > 1 =>
            /\ a[m].do \notin {"dispatch", "admit", "return"}
            /\ a[m].do = "respond" => m = r
    BY <1>1, <1>2, <1>3, <1>4 DEF InHand
  <1>6. PICK e \in Int : e = 1 - Len(p)
    BY <1>2
  <1>7. \A k \in DOMAIN n :
            \/ k \in DOMAIN p /\ n[k] = p[k]
            \/ k + e \in DOMAIN a /\ k + e > 1 /\ n[k] = a[k + e]
    <2> TAKE k \in DOMAIN n
    <2>1. k + e = k + 1 - Len(p)
      BY <1>2, <1>6
    <2> QED BY <1>0, <1>1, <2>1, WorkerHolds
  <1>8. \A k \in DOMAIN n :
            /\ n[k].do # "dispatch"
            /\ n[k].do \in {"admit", "return"} =>
                /\ k = Len(p) /\ n[k].conn = c
                /\ st = IF n[k].do = "admit" THEN "read" ELSE "handling"
            /\ n[k].do = "respond" => k + e = r /\ n[k].conn = c
    BY <1>4, <1>5, <1>7
  <1>9. \A i, k \in DOMAIN n : i + e = k + e => i = k
    BY <1>2
  <1>10. \A i, k \in DOMAIN n :
            /\ /\ n[i].do \in {"dispatch", "admit", "return"}
               /\ n[k].do \in {"dispatch", "admit", "return"}
               => i = k
            /\ n[i].do = "respond" /\ n[k].do = "respond" => i = k
    BY <1>8, <1>9
  <1>11. ASSUME NEW k \in DOMAIN n
         PROVE  /\ n[k].do \in {"dispatch", "admit"} => conns'[n[k].conn] = "read"
                /\ n[k].do = "return" => conns'[n[k].conn] = "handling"
                /\ n[k].do = "respond" =>
                    conns'[n[k].conn] \in {"read", "refused", "handling", "handled"}
    BY <1>8, <1>11
  <1> QED BY <1>1, <1>10, <1>11 DEF InHand

\* Once it has responded the worker has nothing in hand.
LEMMA HandEmpties ==
    ASSUME Structure, Connections, Turn("worker", <<>>, 1), 1 \in DOMAIN agenda["worker"],
           agenda["worker"][1].do = "respond"
    PROVE  InHand(agenda["worker"])'
  <1>0. "worker" \in Threads
    BY DEF Threads
  <1>1. PICK p : p = <<>> /\ DOMAIN p = {} /\ Turn("worker", p, 1)
    OBVIOUS
  <1>2. PICK n, a : n = agenda'["worker"] /\ a = agenda["worker"]
    OBVIOUS
  <1>3. InHand(a) /\ Followed(a) /\ DOMAIN a \subseteq Int
    <2>1. DOMAIN a = 1 .. Len(a)
      BY <1>0, <1>1, <1>2, TurnDomains
    <2> QED BY <1>0, <1>2, <2>1 DEF Connections, Structure, AllFollowed
  <1>4. ASSUME NEW m \in DOMAIN a, m > 1
        PROVE  a[m].do \notin {"dispatch", "admit", "return", "respond"}
    <2>1. a[m].do # "respond"
      BY <1>2, <1>3, <1>4 DEF InHand
    <2>2. ASSUME a[m].do \in {"dispatch", "admit", "return"} PROVE FALSE
      <3>1. PICK i \in DOMAIN a : m < i /\ a[i].do = "respond"
        BY <1>3, <1>4, <2>2 DEF Followed, FollowedAt
      <3>2. i # 1
        BY <1>3, <1>4, <3>1
      <3> QED BY <1>2, <1>3, <3>1, <3>2 DEF InHand
    <2> QED BY <2>1, <2>2
  <1>5. ASSUME NEW k \in DOMAIN n PROVE n[k].do \notin {"dispatch", "admit", "return", "respond"}
    <2>1. PICK m \in DOMAIN a : m > 1 /\ n[k] = a[m]
      BY <1>0, <1>1, <1>2, WorkerHolds
    <2> QED BY <1>4, <2>1
  <1> QED BY <1>2, <1>5 DEF InHand

\* A connection past the queue changes its state.
LEMMA MarkConnections ==
    ASSUME Structure, Connections, NEW c \in Conns, NEW st \in ConnStates,
           conns' = [conns EXCEPT ![c] = st], UNCHANGED queue,
           conns[c] \notin {"accepted", "queued"}, st \notin {"accepted", "queued"},
           NEW p, NEW d, Turn("worker", p, d),
           InHand(agenda["worker"])', HandledOK'
    PROVE  Connections'
  <1>0. "worker" \in Threads /\ "worker" # "main"
    BY DEF Threads
  <1>1. /\ Conns' = Conns /\ conns'[c] = st
        /\ \A b \in Conns : b # c => conns'[b] = conns[b]
    BY MarkType
  <1>2. AcceptedOK'
    BY <1>0, <1>1, AcceptedKept
  <1>3. PICK ds : ds = conns'
    OBVIOUS
  <1>4. DOMAIN ds = Conns /\ DOMAIN conns = Conns
    BY <1>1, <1>3 DEF Conns
  <1>5. QueueOK(ds, queue)
    BY <1>1, <1>3, <1>4, QueueParts, MarkOther
  <1> QED BY <1>2, <1>3, <1>5, ConnectionsMade

\* The connection at the head of the queue is taken.
LEMMA HeadConnections ==
    ASSUME Structure, Connections, queue # <<>>, NEW h, h = Head(queue),
           h # Sentinel, NEW st \in ConnStates, st \notin {"accepted", "queued"},
           conns' = [conns EXCEPT ![h] = st], queue' = Tail(queue)
    PROVE  /\ h \in Conns /\ conns[h] = "queued" /\ conns'[h] = st /\ Conns' = Conns
           /\ QueueOK(conns', queue') /\ Steady
           /\ \A b \in Conns : conns[b] = "accepted" => conns'[b] = "accepted"
  <1>1. h \in Conns /\ h = queue[1] /\ 1 \in DOMAIN queue
    BY QueueHead
  <1>2. DOMAIN conns = Conns
    BY DEF Conns
  <1>3. conns[h] = "queued"
    BY <1>1, <1>2, QueueParts DEF QueueOK
  <1>4. /\ Conns' = Conns /\ conns'[h] = st
        /\ \A b \in Conns : b # h => conns'[b] = conns[b]
    BY <1>1, MarkType
  <1>5. PICK ds, r : ds = conns' /\ r = queue'
    OBVIOUS
  <1>6. DOMAIN ds = Conns
    BY <1>4, <1>5 DEF Conns
  <1>7. queue \in Seq({Sentinel} \cup Conns) /\ Sentinel \notin Conns
    BY TypeFacts DEF Sentinel
  <1>8. QueueOK(ds, r)
    BY <1>1, <1>2, <1>4, <1>5, <1>6, <1>7, QueueParts, TakeHead
  <1> QED BY <1>1, <1>3, <1>4, <1>5, <1>8 DEF Steady

\* A sentinel at the head of the queue is taken.
LEMMA SentinelConnections ==
    ASSUME Structure, Connections, queue # <<>>, Head(queue) = Sentinel,
           UNCHANGED conns, queue' = Tail(queue)
    PROVE  QueueOK(conns', queue')
  <1>1. queue[1] = Sentinel
    BY QueueHead
  <1>2. DOMAIN conns = Conns
    BY DEF Conns
  <1>3. PICK r : r = queue'
    OBVIOUS
  <1>4. queue \in Seq({Sentinel} \cup Conns) /\ Sentinel \notin Conns
    BY TypeFacts DEF Sentinel
  <1>5. QueueOK(conns, r)
    BY <1>1, <1>2, <1>3, <1>4, QueueParts, TakeHead
  <1> QED BY <1>3, <1>5

\* The worker takes the head of the queue.
LEMMA GetConnections ==
    ASSUME Structure, Structure', Connections, WorkerGet
    PROVE  Connections'
  <1>0. "worker" \in Threads /\ "worker" # "main"
    BY DEF Threads
  <1>1. /\ Len(agenda["worker"]) = 1 /\ queue # <<>> /\ queue' = Tail(queue)
        /\ UNCHANGED history
    BY WorkerGetTurn
  <1>2. PICK h : h = Head(queue)
    OBVIOUS
  <1>3. PICK z : z = <<>> /\ DOMAIN z = {} /\ NoHand(z)
    BY DEF NoHand
  <1>4. CASE h = Sentinel /\ Turn("worker", <<>>, 1) /\ UNCHANGED conns
    <2>1. Steady /\ \A b \in Conns : conns[b] = "accepted" => conns'[b] = "accepted"
      BY <1>4 DEF Steady
    <2>2. Turn("worker", z, 1)
      BY <1>3, <1>4
    <2>3. AcceptedOK' /\ InHand(agenda["worker"])' /\ HandledOK'
      BY <1>0, <1>1, <1>3, <2>1, <2>2, AcceptedKept, HandKept, HandledKept
    <2> QED BY <1>1, <1>2, <1>4, <2>3, SentinelConnections, ConnectionsMade
  <1>5. CASE /\ h # Sentinel /\ Turn("worker", <<>>, 0)
             /\ conns' = [conns EXCEPT ![h] = "closed"]
    <2>0. "closed" \in ConnStates
      BY DEF ConnStates
    <2>1. /\ QueueOK(conns', queue') /\ Steady
          /\ \A b \in Conns : conns[b] = "accepted" => conns'[b] = "accepted"
      BY <1>1, <1>2, <1>5, <2>0, HeadConnections
    <2>2. Turn("worker", z, 0)
      BY <1>3, <1>5
    <2>3. AcceptedOK' /\ InHand(agenda["worker"])' /\ HandledOK'
      BY <1>0, <1>1, <1>3, <2>1, <2>2, AcceptedKept, HandKept, HandledKept
    <2> QED BY <2>1, <2>3, ConnectionsMade
  <1>6. ASSUME h # Sentinel, conns' = [conns EXCEPT ![h] = "read"],
               NEW p, Turn("worker", p, 1), DOMAIN p = 1 .. 4,
               p[1] = Serve("dispatch", h), p[2] = Serve("respond", h),
               p[3] = Serve("post", h), p[4] = Do("get")
        PROVE  Connections'
    <2>0. /\ "read" \in ConnStates /\ "read" \notin {"accepted", "queued"}
          /\ h # Sentinel /\ conns' = [conns EXCEPT ![h] = "read"]
      BY <1>6 DEF ConnStates
    <2>1. /\ QueueOK(conns', queue') /\ Steady /\ conns'[h] = "read"
          /\ \A b \in Conns : conns[b] = "accepted" => conns'[b] = "accepted"
      BY <1>1, <1>2, <2>0, HeadConnections
    <2>2. AcceptedOK' /\ HandledOK'
      BY <1>0, <1>1, <1>6, <2>1, AcceptedKept, HandledKept
    <2>3. PICK n : n = agenda'["worker"]
      OBVIOUS
    <2>4. /\ p[1].do = "dispatch" /\ p[1].conn = h /\ p[2].do = "respond"
          /\ p[2].conn = h /\ p[3].do = "post" /\ p[4].do = "get"
      BY <1>6 DEF Serve, Do
    <2>5. \A k \in DOMAIN n : k \in DOMAIN p /\ n[k] = p[k]
      <3> TAKE k \in DOMAIN n
      <3>1. ASSUME k + 1 - Len(p) \in DOMAIN agenda["worker"], k + 1 - Len(p) > 1
            PROVE  FALSE
        <4>1. DOMAIN agenda["worker"] = 1 .. 1
          BY <1>0, <1>1, <1>6, TurnDomains
        <4> QED BY <3>1, <4>1
      <3> QED BY <1>0, <1>6, <2>3, <3>1, WorkerHolds
    <2>6. \A k \in DOMAIN n :
              /\ n[k].do \in {"dispatch", "admit", "return"} => k = 1
              /\ n[k].do = "respond" => k = 2
              /\ n[k].do \notin {"admit", "return"}
              /\ n[k].do \in {"dispatch", "respond"} => n[k].conn = h
      <3> TAKE k \in DOMAIN n
      <3>1. n[k] = p[k] /\ (k = 1 \/ k = 2 \/ k = 3 \/ k = 4)
        BY <1>6, <2>5
      <3> QED BY <2>4, <3>1
    <2>7. InHand(agenda["worker"])'
      BY <2>1, <2>3, <2>6 DEF InHand
    <2> QED BY <2>1, <2>2, <2>7, ConnectionsMade
  <1> QED BY <1>2, <1>4, <1>5, <1>6, WorkerGetTurn

\* The request worker.
LEMMA WorkerConnections ==
    ASSUME Structure, Structure', Connections, Worker
    PROVE  Connections'
  <1>0. /\ "worker" \in Threads
        /\ {"refused", "handling", "handled", "answered"} \subseteq ConnStates
    BY DEF Threads, ConnStates
  <1>1. PICK z : z = <<>> /\ DOMAIN z = {}
    OBVIOUS
  <1>8. ASSUME NEW c \in Conns, 1 \in DOMAIN agenda["worker"],
               agenda["worker"][1].do \in {"dispatch", "admit"},
               agenda["worker"][1].conn = c, UNCHANGED <<queue, history>>,
               conns' = [conns EXCEPT ![c] = "refused"], Turn("worker", <<>>, 1)
        PROVE  Connections'
    <2>1. conns[c] = "read" /\ history.handled \subseteq Conns
      BY <1>8, TypeFacts DEF Connections, InHand, Histories
    <2>2. conns'[c] = "refused" /\ \A b \in Conns : b # c => conns'[b] = conns[b]
      BY <1>0, <1>8, MarkType
    <2>3. Turn("worker", z, 1)
      BY <1>1, <1>8
    <2>4. InHand(agenda["worker"])'
      BY <1>1, <1>8, <2>2, <2>3, HandMoves
    <2>5. HandledOK'
      BY <1>8, <2>1, <2>2 DEF Connections, HandledOK
    <2>6. /\ UNCHANGED queue /\ conns' = [conns EXCEPT ![c] = "refused"]
          /\ conns[c] \notin {"accepted", "queued"} /\ "refused" \in ConnStates
          /\ "refused" \notin {"accepted", "queued"}
      BY <1>0, <1>8, <2>1
    <2> QED BY <2>3, <2>4, <2>5, <2>6, MarkConnections
  <1>2. CASE Dispatch
    <2>1. PICK c \in Conns :
             /\ agenda["worker"][1].do = "dispatch" /\ agenda["worker"][1].conn = c
             /\ UNCHANGED <<queue, history>>
             /\ \/ /\ conns' = [conns EXCEPT ![c] = "refused"]
                   /\ Turn("worker", <<>>, 1)
                \/ /\ UNCHANGED conns
                   /\ \E p : /\ Turn("worker", p, 1) /\ DOMAIN p = {1}
                             /\ p[1] = Serve("admit", c)
      BY <1>2, DispatchTurn, Zenon
    <2>2. 1 \in DOMAIN agenda["worker"]
      BY <1>0, <1>2, AtFacts DEF Dispatch
    <2>3. CASE /\ conns' = [conns EXCEPT ![c] = "refused"]
               /\ Turn("worker", <<>>, 1)
      BY <1>8, <2>1, <2>2, <2>3
    <2>4. ASSUME UNCHANGED conns, NEW p, Turn("worker", p, 1), DOMAIN p = {1},
                 p[1] = Serve("admit", c)
          PROVE  Connections'
      <3>1. p[1].do = "admit" /\ p[1].conn = c
        BY <2>4 DEF Serve
      <3>2. conns[c] = "read"
        BY <2>1, <2>2 DEF Connections, InHand
      <3>3. Len(p) = 1
        <4>1. DOMAIN p = 1 .. Len(p) /\ Len(p) \in Nat
          BY <1>0, <2>4, TurnDomains
        <4> QED BY <2>4, <4>1
      <3>4. InHand(agenda["worker"])'
        <4>1. PICK st \in {"read", "refused", "handling", "handled"} :
                  st = "read" /\ conns'[c] = st
          BY <2>4, <3>2
        <4>2. /\ \A k \in DOMAIN p : p[k].do \notin {"dispatch", "respond"}
              /\ \A k \in DOMAIN p : p[k].do \in {"admit", "return"} =>
                    /\ k = Len(p) /\ p[k].conn = c
                    /\ st = IF p[k].do = "admit" THEN "read" ELSE "handling"
          BY <2>4, <3>1, <3>3, <4>1
        <4>3. /\ Turn("worker", p, 1) /\ \A b \in Conns : b # c => conns'[b] = conns[b]
              /\ agenda["worker"][1].do \in {"dispatch", "admit", "return"}
          BY <2>1, <2>4
        <4> QED BY <2>1, <2>2, <4>1, <4>2, <4>3, HandMoves
      <3>5. Steady /\ \A b \in Conns : conns[b] = "accepted" => conns'[b] = "accepted"
        BY <2>4 DEF Steady
      <3>6. AcceptedOK'
        BY <1>0, <2>4, <3>5, AcceptedKept
      <3>7. QueueOK(conns', queue')
        BY <2>1, <2>4, QueueParts
      <3> QED BY <2>1, <3>4, <3>5, <3>6, <3>7, HandledKept, ConnectionsMade
    <2> QED BY <2>1, <2>3, <2>4, Zenon
  <1>7. CASE Admit
    <2>1. PICK c \in Conns :
             /\ agenda["worker"][1].do = "admit" /\ agenda["worker"][1].conn = c
             /\ UNCHANGED queue
             /\ \/ /\ conns' = [conns EXCEPT ![c] = "refused"]
                   /\ Turn("worker", <<>>, 1) /\ UNCHANGED history
                \/ /\ conns' = [conns EXCEPT ![c] = "handling"]
                   /\ history' = [history EXCEPT !.handled = @ \cup {c},
                                    !.owed = IF requests[c] = "stop-all"
                                             THEN @ \cup {c} ELSE @]
                   /\ \E p, b : /\ Turn("worker", p, 1) /\ Len(p) = Len(b) + 1
                                /\ Len(b) \in Nat /\ p[Len(p)] = Serve("return", c)
                                /\ \A k \in 1 .. Len(b) : p[k] \in Plain
      BY <1>7, AdmitTurn, Zenon
    <2>2. 1 \in DOMAIN agenda["worker"]
      BY <1>0, <1>7, AtFacts DEF Admit
    <2>3. conns[c] = "read" /\ c \notin history.handled
      <3>1. conns[c] = "read"
        BY <2>1, <2>2 DEF Connections, InHand
      <3> QED BY <3>1 DEF Connections, HandledOK
    <2>4. history.handled \subseteq Conns
      BY TypeFacts DEF Histories
    <2>5. CASE /\ conns' = [conns EXCEPT ![c] = "refused"]
               /\ Turn("worker", <<>>, 1) /\ UNCHANGED history
      BY <1>8, <2>1, <2>2, <2>5
    <2>6. ASSUME conns' = [conns EXCEPT ![c] = "handling"],
                 history' = [history EXCEPT !.handled = @ \cup {c},
                               !.owed = IF requests[c] = "stop-all"
                                        THEN @ \cup {c} ELSE @],
                 NEW p, NEW b, Turn("worker", p, 1), Len(p) = Len(b) + 1,
                 Len(b) \in Nat, p[Len(p)] = Serve("return", c),
                 \A k \in 1 .. Len(b) : p[k] \in Plain
          PROVE  Connections'
      <3>1. conns'[c] = "handling" /\ \A i \in Conns : i # c => conns'[i] = conns[i]
        BY <1>0, <2>6, MarkType
      <3>2. \A k \in DOMAIN p : \/ p[k] \in Plain
                                \/ k = Len(p) /\ p[k].do = "return" /\ p[k].conn = c
        <4>1. DOMAIN p = 1 .. Len(p)
          BY <1>0, <2>6, TurnDomains
        <4>2. \A k \in DOMAIN p : k \in 1 .. Len(b) \/ k = Len(p)
          BY <2>6, <4>1
        <4>3. p[Len(p)].do = "return" /\ p[Len(p)].conn = c
          BY <2>6 DEF Serve
        <4> QED BY <2>6, <4>2, <4>3
      <3>3. \A s \in Plain : s.do \notin {"dispatch", "admit", "return", "respond"}
        BY DEF Plain, Do
      <3>4. InHand(agenda["worker"])'
        <4>1. /\ agenda["worker"][1].do \in {"dispatch", "admit", "return"}
              /\ agenda["worker"][1].conn = c
              /\ "handling" \in {"read", "refused", "handling", "handled"}
          BY <2>1
        <4>2. /\ \A k \in DOMAIN p : p[k].do \notin {"dispatch", "respond"}
              /\ \A k \in DOMAIN p : p[k].do \in {"admit", "return"} =>
                    /\ k = Len(p) /\ p[k].conn = c
                    /\ "handling" = IF p[k].do = "admit" THEN "read" ELSE "handling"
          BY <3>2, <3>3
        <4>3. Turn("worker", p, 1)
          BY <2>6
        <4> QED BY <2>2, <3>1, <4>1, <4>2, <4>3, HandMoves
      <3>5. history'.handled = history.handled \cup {c}
        BY <2>6, TypeFacts DEF Histories
      <3>6. HandledOK'
        BY <2>4, <3>1, <3>5 DEF Connections, HandledOK
      <3> QED BY <1>0, <2>1, <2>3, <2>6, <3>4, <3>6, MarkConnections
    <2> QED BY <2>1, <2>5, <2>6
  <1>3. CASE HandlerReturns
    <2>1. PICK c \in Conns :
                /\ agenda["worker"][1].do = "return" /\ agenda["worker"][1].conn = c
                /\ conns' = [conns EXCEPT ![c] = "handled"]
      BY <1>3, HandlerReturnsStructure
    <2>2. UNCHANGED <<queue, history>> /\ Turn("worker", z, 1) /\ 1 \in DOMAIN agenda["worker"]
      BY <1>0, <1>1, <1>3, AtFacts, HandlerReturnsStructure DEF HandlerReturns
    <2>3. conns[c] = "handling"
      BY <2>1, <2>2 DEF Connections, InHand
    <2>4. conns'[c] = "handled" /\ \A b \in Conns : b # c => conns'[b] = conns[b]
      BY <1>0, <2>1, MarkType
    <2>5. InHand(agenda["worker"])'
      BY <1>1, <2>1, <2>2, <2>4, HandMoves
    <2>6. HandledOK'
      <3>1. history.handled \subseteq Conns
        BY TypeFacts DEF Histories
      <3> QED BY <2>2, <2>4, <3>1 DEF Connections, HandledOK
    <2> QED BY <1>0, <2>1, <2>2, <2>3, <2>5, <2>6, MarkConnections
  <1>4. CASE Respond
    <2>1. PICK c \in Conns :
                /\ agenda["worker"][1].do = "respond" /\ agenda["worker"][1].conn = c
                /\ conns' = [conns EXCEPT ![c] = "answered"]
      BY <1>4, RespondStructure
    <2>2. /\ UNCHANGED <<queue, history>> /\ Turn("worker", z, 1)
          /\ Turn("worker", <<>>, 1) /\ 1 \in DOMAIN agenda["worker"]
      BY <1>0, <1>1, <1>4, AtFacts, RespondStructure DEF Respond
    <2>3. conns[c] \in {"read", "refused", "handling", "handled"}
      BY <2>1, <2>2 DEF Connections, InHand
    <2>4. conns'[c] = "answered" /\ \A b \in Conns : b # c => conns'[b] = conns[b]
      BY <1>0, <2>1, MarkType
    <2>5. InHand(agenda["worker"])'
      BY <2>1, <2>2, HandEmpties
    <2>6. HandledOK'
      <3>1. history.handled \subseteq Conns
        BY TypeFacts DEF Histories
      <3> QED BY <2>2, <2>4, <3>1 DEF Connections, HandledOK
    <2> QED BY <1>0, <2>1, <2>2, <2>3, <2>5, <2>6, MarkConnections
  <1>5. CASE PostRequest
    <2>1. /\ Turn("worker", <<>>, 1) /\ UNCHANGED <<conns, queue>>
          /\ \/ UNCHANGED history
             \/ \E c \in Conns : history' = [history EXCEPT !.posted = @ \cup {c}]
      BY <1>5, PostRequestStructure
    <2>2. history'.handled = history.handled
      BY <2>1, TypeFacts DEF Histories
    <2> QED BY <1>0, <2>1, <2>2, ConnectionsOn
  <1>6. CASE WorkerStops
    <2>1. Turn("worker", <<>>, 1) /\ UNCHANGED <<conns, queue, history>>
      BY <1>6, WorkerStopsStructure DEF WorkerStops
    <2> QED BY <1>0, <2>1, ConnectionsOn
  <1> QED BY <1>2, <1>3, <1>4, <1>5, <1>6, <1>7, GetConnections DEF Worker

\* The maintenance worker.
LEMMA MaintenanceConnections ==
    ASSUME Structure, Connections, Maintenance
    PROVE  Connections'
  <1>0. "maintenance" \in Threads
    BY DEF Threads
  <1>1. CASE MaintenanceWakes
    <2>1. UNCHANGED <<conns, queue, history>>
      BY <1>1, WakesStructure
    <2>2. PICK p : /\ Turn("maintenance", p, 1) /\ DOMAIN p = {1}
                   /\ p[1] = Do("woken") \/ p[1] = Do("timed_out")
      BY <1>1, WakesStructure
    <2>3. NoHand(p)
      BY <2>2 DEF NoHand, Do
    <2> QED BY <1>0, <2>1, <2>2, <2>3, ConnectionsQuiet
  <1>2. CASE MaintenanceActions
    <2>1. UNCHANGED <<conns, queue, history>>
      BY <1>2, ActionsTurn
    <2>2. PICK p, b : /\ Turn("maintenance", p, 1) /\ b \in Seq(Steps')
                      /\ \A k \in DOMAIN b : b[k].do \in {"run", "end_batch"} /\ p[k] = b[k]
                      /\ \/ Len(p) = Len(b)
                         \/ /\ Len(p) = Len(b) + 1
                            /\ p[Len(p)].do \in {"post_request_tick", "tick_if_needed"}
      BY <1>2, ActionsTurn
    <2>3. /\ DOMAIN p = 1 .. Len(p) /\ DOMAIN b = 1 .. Len(b) /\ Len(b) \in Nat
          /\ Len(p) \in Nat
      BY <1>0, <2>2, TurnDomains, LenProperties
    <2>4. \A k \in DOMAIN p : \/ p[k].do \in {"run", "end_batch"}
                              \/ p[k].do \in {"post_request_tick", "tick_if_needed"}
      BY <2>2, <2>3, ThenOneNames, Zenon
    <2>5. NoHand(p)
      BY <2>4 DEF NoHand
    <2> QED BY <1>0, <2>1, <2>2, <2>5, ConnectionsQuiet
  <1>3. CASE MaintenanceTicks
    <2>1. UNCHANGED <<conns, queue, history>>
      BY <1>3, TicksTurn
    <2>2. PICK p : /\ Turn("maintenance", p, 1)
                   /\ \A k \in DOMAIN p : p[k] = Do("tick") \/ p[k] = Do("wait")
      BY <1>3, TicksTurn
    <2>3. NoHand(p)
      BY <2>2 DEF NoHand, Do
    <2> QED BY <1>0, <2>1, <2>2, <2>3, ConnectionsQuiet
  <1>4. CASE Tick
    <2>1. UNCHANGED <<conns, queue>> /\ history' = [history EXCEPT !.posted = {}]
      BY <1>4, TickStructure
    <2>2. PICK p : Turn("maintenance", p, 1) /\ \A k \in DOMAIN p : p[k] \in Plain
      BY <1>4, TickStructure
    <2>3. history'.handled = history.handled
      BY <2>1, TypeFacts DEF Histories
    <2> QED BY <1>0, <2>1, <2>2, <2>3, PlainNoHand, ConnectionsQuiet
  <1>5. CASE TickFails
    <2>1. UNCHANGED <<conns, queue, history>> /\ \E d : Turn("maintenance", <<>>, d)
      BY <1>5, TickFailsStructure
    <2> QED BY <1>0, <2>1, ConnectionsOn
  <1> QED BY <1>1, <1>2, <1>3, <1>4, <1>5 DEF Maintenance

\* The entry at the head of the queue is taken, and closed if it is a connection.
LEMMA TakeConnections ==
    ASSUME Structure, Connections, queue # <<>>, conns' = Close(conns, Head(queue)),
           queue' = Tail(queue)
    PROVE  /\ QueueOK(conns', queue') /\ Steady
           /\ \A b \in Conns : conns[b] = "accepted" => conns'[b] = "accepted"
  <1>1. CASE Head(queue) = Sentinel
    <2>1. UNCHANGED conns
      BY <1>1 DEF Close
    <2>2. QueueOK(conns', queue')
      BY <1>1, <2>1, SentinelConnections
    <2> QED BY <2>1, <2>2 DEF Steady
  <1>2. CASE Head(queue) # Sentinel
    <2>1. PICK h : h = Head(queue)
      OBVIOUS
    <2>2. /\ conns' = [conns EXCEPT ![h] = "closed"] /\ "closed" \in ConnStates
          /\ h # Sentinel /\ "closed" \notin {"accepted", "queued"}
          /\ queue # <<>> /\ queue' = Tail(queue)
      BY <1>2, <2>1 DEF Close, ConnStates
    <2> QED BY <2>1, <2>2, HeadConnections
  <1> QED BY <1>1, <1>2

\* Only what is taken from the queue changes, and it is closed.
LEMMA TakenClosed ==
    ASSUME Structure, queue # <<>>, conns' = Close(conns, Head(queue))
    PROVE  \A b \in Conns : conns'[b] = conns[b] \/ conns'[b] = "closed"
  <1>1. DOMAIN conns = Conns
    BY DEF Conns
  <1> QED BY <1>1 DEF Close

\* A turn that changes the queue and connections nobody has in hand.
LEMMA QueueTurn ==
    ASSUME Structure, Connections, NEW t \in Threads, NEW p, NEW d, Turn(t, p, d),
           NoHand(p), UNCHANGED history, QueueOK(conns', queue'), Steady,
           \A b \in Conns : conns[b] = "accepted" => conns'[b] = "accepted"
    PROVE  Connections'
  <1>1. AcceptedOK'
    BY AcceptedKept DEF NoHand
  <1>2. InHand(agenda["worker"])' /\ HandledOK'
    BY HandKept, HandledKept
  <1> QED BY <1>1, <1>2, ConnectionsMade

\* stop_worker closes what is queued and puts a sentinel.
LEMMA StopConnections ==
    ASSUME Structure, Connections, NEW t \in Threads, StopWorker(t)
    PROVE  Connections'
  <1>1. UNCHANGED history
    BY StopWorkerStructure
  <1>2. CASE UNCHANGED <<conns, queue>> /\ (Turn(t, <<>>, 1) \/ Turn(t, <<>>, 3))
    BY <1>1, <1>2, ConnectionsOn
  <1>3. PICK z : z = <<>> /\ DOMAIN z = {} /\ NoHand(z)
    BY DEF NoHand
  <1>5. CASE /\ Turn(t, <<>>, 0) /\ queue # <<>>
             /\ conns' = Close(conns, Head(queue)) /\ queue' = Tail(queue)
    <2>1. Turn(t, z, 0)
      BY <1>3, <1>5
    <2>2. /\ QueueOK(conns', queue') /\ Steady
          /\ \A b \in Conns : conns[b] = "accepted" => conns'[b] = "accepted"
      BY <1>5, TakeConnections
    <2> QED BY <1>1, <1>3, <2>1, <2>2, QueueTurn
  <1>6. CASE Turn(t, <<>>, 1) /\ Put(Sentinel)
    <2>0. Turn(t, z, 1)
      BY <1>3, <1>6
    <2>1. /\ QueueOK(conns', queue')
          /\ \A b \in Conns : conns'[b] = conns[b] \/ b = Sentinel
      <3>1. Sentinel \in {Sentinel} \cup Conns
        OBVIOUS
      <3> QED BY <1>6, <3>1, PutQueue
    <2>2. Sentinel \notin Conns
      BY TypeFacts DEF Sentinel
    <2>3. Steady /\ \A b \in Conns : conns[b] = "accepted" => conns'[b] = "accepted"
      BY <2>1, <2>2 DEF Steady
    <2> QED BY <1>1, <1>3, <2>0, <2>1, <2>3, QueueTurn
  <1>7. ASSUME UNCHANGED <<conns, queue>>, NEW p, Turn(t, p, 1), DOMAIN p = 1 .. 2,
               p[1] = Do("make_room"), p[2] = Do("put_sentinel_again")
        PROVE  Connections'
    <2>1. p[1].do = "make_room" /\ p[2].do = "put_sentinel_again"
      BY <1>7 DEF Do
    <2>2. \A k \in DOMAIN p : k = 1 \/ k = 2
      BY <1>7
    <2>3. NoHand(p)
      BY <2>1, <2>2 DEF NoHand
    <2> QED BY <1>1, <1>7, <2>3, ConnectionsQuiet
  <1> QED BY <1>2, <1>5, <1>6, <1>7, StopWorkerStructure

\* close_oldest_queued_connection.
LEMMA MakeRoomConnections ==
    ASSUME Structure, Connections, NEW t \in Threads, MakeRoom(t)
    PROVE  Connections'
  <1>1. UNCHANGED history
    BY MakeRoomStructure
  <1>2. PICK p : Turn(t, p, 1) /\ \A k \in DOMAIN p : p[k] = Do("put_sentinel_again")
    BY MakeRoomStructure
  <1>3. NoHand(p)
    BY <1>2 DEF NoHand, Do
  <1>4. CASE UNCHANGED <<conns, queue>>
    BY <1>1, <1>2, <1>3, <1>4, ConnectionsQuiet
  <1>5. CASE /\ queue # <<>> /\ conns' = Close(conns, Head(queue))
             /\ queue' = Tail(queue)
    <2>1. /\ QueueOK(conns', queue') /\ Steady
          /\ \A b \in Conns : conns[b] = "accepted" => conns'[b] = "accepted"
      BY <1>5, TakeConnections
    <2> QED BY <1>1, <1>2, <1>3, <2>1, QueueTurn
  <1> QED BY <1>4, <1>5, MakeRoomStructure

\* Actions and teardown.
LEMMA TeardownConnections ==
    ASSUME Structure, Connections, NEW t \in Threads, Teardown(t)
    PROVE  Connections'
  <1>1. CASE RunAction(t)
    <2>1. UNCHANGED <<conns, queue, history>>
      BY <1>1, RunTurn
    <2>2. PICK p : /\ Turn(t, p, 1)
                   /\ \/ \A k \in DOMAIN p : p[k] \in Plain
                      \/ DOMAIN p = {1} /\ p[1] = Do("publish")
                      \/ /\ DOMAIN p = 1 .. 9 /\ \A k \in 1 .. 8 : p[k] \in Plain
                         /\ p[9] = [do |-> "finalize", conn |-> agenda[t][1].conn,
                                    op |-> "stop-all"]
      BY <1>1, RunTurn
    <2>3. NoHand(p)
      <3>1. CASE \A k \in DOMAIN p : p[k] \in Plain
        BY <3>1, PlainNoHand
      <3>2. CASE DOMAIN p = {1} /\ p[1] = Do("publish")
        BY <3>2 DEF NoHand, Do
      <3>3. CASE /\ DOMAIN p = 1 .. 9 /\ \A k \in 1 .. 8 : p[k] \in Plain
                 /\ p[9] = [do |-> "finalize", conn |-> agenda[t][1].conn,
                            op |-> "stop-all"]
        <4>1. \A k \in DOMAIN p : k \in 1 .. 8 \/ k = 9
          BY <3>3
        <4>2. \A k \in DOMAIN p : p[k] \in Plain \/ p[k].do = "finalize"
          BY <3>3, <4>1
        <4> QED BY <4>2 DEF NoHand, Plain, Do
      <3> QED BY <2>2, <3>1, <3>2, <3>3
    <2> QED BY <2>1, <2>2, <2>3, ConnectionsQuiet
  <1>2. CASE ActionFails(t)
    <2>1. UNCHANGED <<conns, queue, history>>
      BY <1>2, ActionFailsStructure
    <2>2. ASSUME NEW d, Turn(t, <<>>, d) PROVE Connections'
      BY <2>1, <2>2, ConnectionsOn
    <2>3. ASSUME NEW p, Turn(t, p, 1), \A k \in DOMAIN p : p[k] \in Plain
          PROVE  Connections'
      BY <2>1, <2>3, PlainNoHand, ConnectionsQuiet
    <2> QED BY <1>2, <2>2, <2>3, ActionFailsStructure
  <1>10. CASE RaiseAfterRelease(t)
    <2>1. UNCHANGED <<conns, queue, history>> /\ \E d : Turn(t, <<>>, d)
      BY <1>10, RaiseStructure
    <2> QED BY <2>1, ConnectionsOn
  <1>3. CASE EndBatch(t)
    <2>1. UNCHANGED <<conns, queue, history>> /\ Turn(t, <<>>, 1)
      BY <1>3, EndBatchStructure
    <2> QED BY <2>1, ConnectionsOn
  <1>4. CASE Publish(t)
    <2>1. UNCHANGED <<conns, queue>>
      BY <1>4, PublishStructure
    <2>2. ASSUME history' = [history EXCEPT !.failed = TRUE],
                 NEW p, Turn(t, p, 1), \A k \in DOMAIN p : p[k] \in Plain
          PROVE  Connections'
      <3>1. history'.handled = history.handled
        BY <2>2, TypeFacts DEF Histories
      <3> QED BY <2>1, <2>2, <3>1, PlainNoHand, ConnectionsQuiet
    <2>3. ASSUME history' = [history EXCEPT !.published = TRUE],
                 NEW p, Turn(t, p, 1), DOMAIN p = {1}, p[1] = Do("open")
          PROVE  Connections'
      <3>1. history'.handled = history.handled
        BY <2>3, TypeFacts DEF Histories
      <3>2. NoHand(p)
        BY <2>3 DEF NoHand, Do
      <3> QED BY <2>1, <2>3, <3>1, <3>2, ConnectionsQuiet
    <2> QED BY <1>4, <2>2, <2>3, PublishStructure
  <1>5. CASE Open(t)
    <2>1. UNCHANGED <<conns, queue>>
      BY <1>5, OpenStructure
    <2>2. PICK p : Turn(t, p, 1) /\ \A k \in DOMAIN p : p[k] \in Plain
      BY <1>5, OpenStructure
    <2>3. UNCHANGED history \/ history' = [history EXCEPT !.failed = TRUE]
      BY <1>5, OpenStructure
    <2>4. history'.handled = history.handled
      BY <2>3, TypeFacts DEF Histories
    <2> QED BY <2>1, <2>2, <2>4, PlainNoHand, ConnectionsQuiet
  <1>6. CASE Finalize(t)
    <2>1. PICK c : history' = [history EXCEPT !.finalized = Append(@, c)]
      BY <1>6, FinalizeStructure
    <2>2. PICK l : l = Append(history.finalized, c)
      OBVIOUS
    <2>3. history' = [history EXCEPT !.finalized = l]
      BY <2>1, <2>2
    <2>4. history'.handled = history.handled
      BY <2>3, TypeFacts DEF Histories
    <2>5. UNCHANGED <<conns, queue>> /\ Turn(t, <<>>, 1)
      BY <1>6, FinalizeStructure
    <2> QED BY <2>4, <2>5, ConnectionsOn
  <1>7. CASE ShutdownServer(t)
    <2>1. UNCHANGED <<conns, queue, history>> /\ Turn(t, <<>>, 1)
      BY <1>7, ShutdownStructure
    <2> QED BY <2>1, ConnectionsOn
  <1>8. CASE StopMaintenance(t)
    <2>1. UNCHANGED <<conns, queue, history>>
      BY <1>8, StopMaintenanceTurn
    <2>2. \E p, d : Turn(t, p, d) /\ NoHand(p)
      <3>1. ASSUME NEW d, Turn(t, <<>>, d) PROVE \E p : Turn(t, p, d) /\ NoHand(p)
        <4>1. PICK p : p = <<>> /\ DOMAIN p = {} /\ Turn(t, p, d)
          BY <3>1
        <4> QED BY <4>1 DEF NoHand
      <3>2. ASSUME NEW b, Turn(t, b, 1), \A k \in DOMAIN b : b[k].do \in {"run", "end_batch"}
            PROVE  Turn(t, b, 1) /\ NoHand(b)
        BY <3>2 DEF NoHand
      <3>3. \/ \E d : Turn(t, <<>>, d)
            \/ \E b : Turn(t, b, 1) /\ \A k \in DOMAIN b : b[k].do \in {"run", "end_batch"}
        BY <1>8, StopMaintenanceTurn
      <3> QED BY <3>1, <3>2, <3>3
    <2> QED BY <2>1, <2>2, ConnectionsQuiet
  <1>9. ASSUME NEW other \in {"worker", "maintenance"}, Join(t, other) PROVE Connections'
    <2>1. UNCHANGED <<conns, queue, history>> /\ Turn(t, <<>>, 1)
      BY <1>9, JoinStructure
    <2> QED BY <2>1, ConnectionsOn
  <1> QED BY <1>1, <1>2, <1>3, <1>4, <1>5, <1>6, <1>7, <1>8, <1>9, <1>10,
             StopConnections, MakeRoomConnections
          DEF Teardown

\* At the start there is no connection.
LEMMA InitConnections == ASSUME Init PROVE Connections
  <1>1. conns = <<>> /\ queue = <<>> /\ history.handled = {}
    BY DEF Init
  <1>2. agenda["main"] = <<Do("accept")>> /\ agenda["worker"] = <<Do("get")>>
    BY DEF Init, Threads
  <1>3. ASSUME NEW what PROVE DOMAIN <<Do(what)>> = {1} /\ <<Do(what)>>[1].do = what
    BY DEF Do
  <1>4. InHand(agenda["worker"])
    BY <1>2, <1>3 DEF InHand
  <1>5. AcceptedOK
    BY <1>2, <1>3 DEF AcceptedOK
  <1>6. ClosedHasNoEffect
    BY <1>1 DEF ClosedHasNoEffect, Conns
  <1> QED BY <1>1, <1>4, <1>5, <1>6 DEF Connections, HandledOK

\* Every step keeps what is known of the connections.
LEMMA ConnectionsNext ==
    ASSUME Structure, Connections, [Next]_vars
    PROVE  Connections'
  <1>0. Structure'
    BY StructureNext
  <1>1. ASSUME UNCHANGED <<conns, queue, agenda, history>> PROVE Connections'
    BY <1>1 DEF Connections, InHand, AcceptedOK, HandledOK, ClosedHasNoEffect, Conns
  <1>2. CASE UNCHANGED vars
    BY <1>1, <1>2 DEF vars
  <1>3. CASE \E c \in Conns : Age(c)
    BY <1>1, <1>3 DEF Age
  <1> QED BY <1>0, <1>2, <1>3, MainConnections, WorkerConnections,
             MaintenanceConnections, TeardownConnections DEF Next

-----------------------------------------------------------------------------
(* The finalizers.                                                          *)

\* Where each step of the agendas was before a turn: h gives the place.
Carried(h, t, p, d) ==
    /\ \A x \in Places : \A i, k \in Nat : h[x][i] = h[x][k] => i = k
    /\ \A i \in Nat : h["list"][i] = i /\ h["done"][i] = i
    /\ \A u \in Threads : \A i \in DOMAIN agenda'[u] :
        /\ i \in Nat
        /\ \/ u = t /\ i \in DOMAIN p /\ agenda'[u][i] = p[i]
           \/ /\ h[u][i] \in DOMAIN agenda[u] /\ h[u][i] \in Nat /\ (u = t => h[u][i] > d)
              /\ agenda'[u][i] = agenda[u][h[u][i]]

\* A turn gives such places.
LEMMA CarriedBy ==
    ASSUME Structure, NEW t \in Threads, NEW p, NEW d, Turn(t, p, d)
    PROVE  \E h : Carried(h, t, p, d)
  <1>1. PICK lp \in Nat, dd \in Nat : lp = Len(p) /\ dd = d
    <2>1. d \in 0 .. Len(agenda[t]) /\ Len(agenda[t]) \in Nat /\ Len(p) \in Nat
      BY TurnDomains DEF Turn, Splice
    <2>2. d \in Nat
      BY <2>1
    <2> QED BY <2>1, <2>2
  <1>2. PICK h : h = [x \in Places |-> [i \in Nat |-> IF x = t THEN i + dd - lp ELSE i]]
    OBVIOUS
  <1>3. \A x \in Places : \A i \in Nat : h[x][i] = IF x = t THEN i + dd - lp ELSE i
    BY <1>2
  <1>4. \A i, k \in Nat : i + dd - lp = k + dd - lp => i = k
    BY <1>1
  <1>5. \A x \in Places : \A i, k \in Nat : h[x][i] = h[x][k] => i = k
    BY <1>3, <1>4
  <1>6. "list" \in Places /\ "done" \in Places /\ Threads \subseteq Places
        /\ t # "list" /\ t # "done"
    BY DEF Places, Threads
  <1>7. \A i \in Nat : h["list"][i] = i /\ h["done"][i] = i
    BY <1>3, <1>6
  <1>8. ASSUME NEW u \in Threads, NEW i \in DOMAIN agenda'[u]
        PROVE  /\ i \in Nat
               /\ \/ u = t /\ i \in DOMAIN p /\ agenda'[u][i] = p[i]
                  \/ /\ h[u][i] \in DOMAIN agenda[u] /\ h[u][i] \in Nat
                     /\ (u = t => h[u][i] > d)
                     /\ agenda'[u][i] = agenda[u][h[u][i]]
    <2>1. DOMAIN agenda'[u] \subseteq Nat /\ DOMAIN agenda[u] \subseteq Nat
      BY TurnDomains
    <2>2. h[u][i] = IF u = t THEN i + d - Len(p) ELSE i
      BY <1>1, <1>3, <1>6, <2>1
    <2>3. CASE u # t
      <3>1. agenda'[u] = agenda[u]
        BY <2>3 DEF Turn
      <3> QED BY <2>1, <2>2, <2>3, <3>1
    <2>4. CASE u = t
      <3>1. \/ i \in DOMAIN p /\ agenda'[t][i] = p[i]
            \/ /\ i + d - Len(p) \in DOMAIN agenda[t] /\ i + d - Len(p) > d
               /\ agenda'[t][i] = agenda[t][i + d - Len(p)]
        BY <2>4 DEF Turn, Splice
      <3> QED BY <2>1, <2>2, <2>4, <3>1
    <2> QED BY <2>3, <2>4
  <1>9. Carried(h, t, p, d)
    BY <1>5, <1>7, <1>8 DEF Carried
  <1> QED BY <1>9

\* A step that is not dropped is still there, and what is put in front is there.
LEMMA StepsStay ==
    ASSUME NEW t \in Threads, NEW p, NEW d, Turn(t, p, d)
    PROVE  /\ \A i \in DOMAIN p : i \in DOMAIN agenda'[t] /\ agenda'[t][i] = p[i]
           /\ \A u \in Threads : \A m \in DOMAIN agenda[u] : (u = t => m > d) =>
                \E i \in DOMAIN agenda'[u] : agenda'[u][i] = agenda[u][m]
  <1>1. \A i \in DOMAIN p : i \in DOMAIN agenda'[t] /\ agenda'[t][i] = p[i]
    BY DEF Turn, Splice
  <1>2. ASSUME NEW u \in Threads, NEW m \in DOMAIN agenda[u], u = t => m > d
        PROVE  \E i \in DOMAIN agenda'[u] : agenda'[u][i] = agenda[u][m]
    <2>1. CASE u # t
      BY <2>1 DEF Turn
    <2>2. CASE u = t
      BY <1>2, <2>2 DEF Turn, Splice
    <2> QED BY <2>1, <2>2
  <1> QED BY <1>1, <1>2

(* The tokens after a step: N are the places of new ones, C those from      *)
(* which the others come, h where.                                          *)
Sources(N, C, h) ==
    /\ \A x \in Places : \A i, k \in Nat : h[x][i] = h[x][k] => i = k
    /\ \A c \in Nat : \A x \in Places : \A i \in Nat : Token(x, i, c)' =>
        \/ <<x, i>> \in N
        \/ h[x][i] \in Nat /\ <<x, h[x][i]>> \in C /\ Token(x, h[x][i], c)
    /\ \A c \in Nat : \A x, y \in Places : \A i, k \in Nat :
        <<x, i>> \in N /\ <<y, k>> \in N /\ Token(x, i, c)' /\ Token(y, k, c)'
        => x = y /\ i = k
    /\ \A c \in Nat : \A x, y \in Places : \A i, o \in Nat :
        <<x, i>> \in N /\ Token(x, i, c)' /\ <<y, o>> \in C => ~Token(y, o, c)

\* Finalizers keep to one place each.
LEMMA UniqueKept ==
    ASSUME Unique, NEW N, NEW C, NEW h, Sources(N, C, h)
    PROVE  Unique'
  <1> SUFFICES ASSUME NEW c \in Nat, NEW x \in Places, NEW y \in Places,
                      NEW i \in Nat, NEW k \in Nat, Token(x, i, c)', Token(y, k, c)'
               PROVE  x = y /\ i = k
    BY DEF Unique
  <1>1. \/ <<x, i>> \in N
        \/ h[x][i] \in Nat /\ <<x, h[x][i]>> \in C /\ Token(x, h[x][i], c)
    BY DEF Sources
  <1>2. \/ <<y, k>> \in N
        \/ h[y][k] \in Nat /\ <<y, h[y][k]>> \in C /\ Token(y, h[y][k], c)
    BY DEF Sources
  <1>3. CASE <<x, i>> \in N /\ <<y, k>> \in N
    BY <1>3 DEF Sources
  <1>4. ASSUME h[x][i] \in Nat, Token(x, h[x][i], c), h[y][k] \in Nat, Token(y, h[y][k], c)
        PROVE  x = y /\ i = k
    <2>1. x = y /\ h[x][i] = h[y][k]
      BY <1>4 DEF Unique
    <2> QED BY <2>1 DEF Sources
  <1> QED BY <1>1, <1>2, <1>3, <1>4 DEF Sources

\* The tokens after a turn: those in front, and those that were there.
LEMMA TokenFrom ==
    ASSUME NEW h, NEW t \in Threads, NEW p, NEW d, Carried(h, t, p, d),
           NEW u \in Threads, NEW i \in Nat, NEW c, Token(u, i, c)'
    PROVE  \/ u = t /\ i \in DOMAIN p /\ IsToken(p[i], c)
           \/ h[u][i] \in Nat /\ (u = t => h[u][i] > d) /\ Token(u, h[u][i], c)
  <1>1. u # "list" /\ u # "done"
    BY DEF Threads
  <1>2. i \in DOMAIN agenda'[u] /\ IsToken(agenda'[u][i], c)
    BY <1>1 DEF Token
  <1>3. \/ u = t /\ i \in DOMAIN p /\ agenda'[u][i] = p[i]
        \/ /\ h[u][i] \in DOMAIN agenda[u] /\ h[u][i] \in Nat /\ (u = t => h[u][i] > d)
           /\ agenda'[u][i] = agenda[u][h[u][i]]
    BY <1>2, Zenon DEF Carried
  <1> QED BY <1>2, <1>3, Zenon DEF Token

\* Tokens in the list and in the history are where they were.
LEMMA TokenKept ==
    ASSUME NEW x \in {"list", "done"}, NEW i, NEW c, Token(x, i, c)',
           x = "list" => server'.actions = server.actions,
           x = "done" => history'.finalized = history.finalized
    PROVE  Token(x, i, c)
  BY DEF Token, Threads

\* A token that is not dropped is still there.
LEMMA TokenStays ==
    ASSUME Structure', NEW t \in Threads, NEW p, NEW d, Turn(t, p, d),
           NEW u \in Threads, NEW m, NEW c, Token(u, m, c), u = t => m > d
    PROVE  Home(c)'
  <1>1. m \in DOMAIN agenda[u] /\ IsToken(agenda[u][m], c)
    BY DEF Token, Threads
  <1>2. PICK i \in DOMAIN agenda'[u] : agenda'[u][i] = agenda[u][m]
    BY <1>1, StepsStay
  <1>3. i \in Nat
    <2>1. agenda'[u] \in Seq(Steps')
      BY DEF Structure, TypeOK
    <2>2. DOMAIN agenda'[u] = 1 .. Len(agenda'[u]) /\ Len(agenda'[u]) \in Nat
      BY <2>1, LenProperties
    <2> QED BY <1>2, <2>2
  <1>4. Token(u, i, c)' /\ u \in Places
    BY <1>1, <1>2 DEF Token, Places
  <1> QED BY <1>3, <1>4 DEF Home

\* A thread goes on or calls; the token it has at hand may be handed on.
LEMMA TokensMove ==
    ASSUME Structure, Structure', Unique, NEW t \in Threads, NEW p, NEW d, Turn(t, p, d),
           server'.actions = server.actions, history'.finalized = history.finalized,
           \A i \in DOMAIN p : \A c : IsToken(p[i], c) => Token(t, 1, c) /\ 1 <= d,
           \A i, k \in DOMAIN p : \A c : IsToken(p[i], c) /\ IsToken(p[k], c) => i = k
    PROVE  /\ Unique'
           /\ \A c \in Nat : Home(c)' => Home(c)
  <1>1. PICK h : Carried(h, t, p, d)
    BY CarriedBy
  <1>2. PICK N : N = {t} \X (DOMAIN p)
    OBVIOUS
  <1>3. PICK C : C = {q \in Places \X Nat : q[1] = t => q[2] > d}
    OBVIOUS
  <1>4. ASSUME NEW c \in Nat, NEW x \in Places, NEW i \in Nat, Token(x, i, c)'
        PROVE  \/ x = t /\ i \in DOMAIN p /\ IsToken(p[i], c)
               \/ h[x][i] \in Nat /\ (x = t => h[x][i] > d) /\ Token(x, h[x][i], c)
    <2>1. CASE x \in Threads
      BY <1>1, <1>4, <2>1, TokenFrom
    <2>2. CASE x \in {"list", "done"}
      <3>1. Token(x, i, c) /\ h[x][i] = i /\ x # t
        BY <1>1, <1>4, <2>2, TokenKept DEF Carried, Threads
      <3> QED BY <3>1
    <2> QED BY <2>1, <2>2 DEF Places
  <1>5. \A c \in Nat : \A x \in Places : \A i \in Nat : Token(x, i, c)' =>
                \/ <<x, i>> \in N
                \/ h[x][i] \in Nat /\ <<x, h[x][i]>> \in C /\ Token(x, h[x][i], c)
    BY <1>2, <1>3, <1>4
  <1>6. \A x, i : <<x, i>> \in N => x = t /\ i \in DOMAIN p
    BY <1>2
  <1>7. ASSUME NEW i \in DOMAIN p, NEW c, Token(t, i, c)' PROVE IsToken(p[i], c)
    BY <1>7, StepsStay DEF Token, Threads
  <1>8. ASSUME NEW c \in Nat, NEW y \in Places, NEW o \in Nat, <<y, o>> \in C,
               NEW i \in DOMAIN p, IsToken(p[i], c), Token(y, o, c)
        PROVE  FALSE
    <2>1. t \in Places
      BY DEF Places
    <2>2. Token(t, 1, c) /\ 1 <= d
      BY <1>8
    <2>3. y = t /\ o = 1
      BY <1>8, <2>1, <2>2 DEF Unique
    <2>4. o > d
      BY <1>3, <1>8, <2>3
    <2>5. d \in Nat
      <3>1. d \in 0 .. Len(agenda[t]) /\ Len(agenda[t]) \in Nat
        BY TurnDomains DEF Turn, Splice
      <3> QED BY <3>1
    <2> QED BY <2>2, <2>3, <2>4, <2>5
  <1>9. Unique'
    <2>1. \A x \in Places : \A i, k \in Nat : h[x][i] = h[x][k] => i = k
      BY <1>1 DEF Carried
    <2>2. \A c \in Nat : \A x, y \in Places : \A i, k \in Nat :
                /\ <<x, i>> \in N /\ <<y, k>> \in N
                /\ Token(x, i, c)' /\ Token(y, k, c)'
                => x = y /\ i = k
      BY <1>6, <1>7
    <2>3. \A c \in Nat : \A x, y \in Places : \A i, o \in Nat :
                <<x, i>> \in N /\ Token(x, i, c)' /\ <<y, o>> \in C => ~Token(y, o, c)
      BY <1>6, <1>7, <1>8
    <2>4. Sources(N, C, h)
      BY <1>5, <2>1, <2>2, <2>3, Zenon DEF Sources
    <2> QED BY <2>4, UniqueKept
  <1>10. ASSUME NEW c \in Nat, Home(c)' PROVE Home(c)
    <2>1. PICK x \in Places, i \in Nat : Token(x, i, c)'
      BY <1>10 DEF Home
    <2>2. CASE x = t /\ i \in DOMAIN p /\ IsToken(p[i], c)
      BY <2>2 DEF Home, Places
    <2>3. CASE h[x][i] \in Nat /\ Token(x, h[x][i], c)
      BY <2>3 DEF Home
    <2> QED BY <1>4, <2>1, <2>2, <2>3
  <1> QED BY <1>9, <1>10

\* Nothing is lost by a turn that drops no token.
LEMMA HomeStays ==
    ASSUME Structure', NEW t \in Threads, NEW p, NEW d, Turn(t, p, d),
           server'.actions = server.actions, history'.finalized = history.finalized,
           NEW c, Home(c), \A m : Token(t, m, c) => m > d
    PROVE  Home(c)'
  <1>1. PICK x \in Places, i \in Nat : Token(x, i, c)
    BY DEF Home
  <1>2. CASE x \in Threads
    BY <1>1, <1>2, TokenStays
  <1>3. CASE x \in {"list", "done"}
    <2>1. Token(x, i, c)'
      BY <1>1, <1>3 DEF Token, Threads
    <2> QED BY <2>1 DEF Home
  <1> QED BY <1>2, <1>3 DEF Places

\* The actions of the list are popped: a token of the list comes to the agenda.
LEMMA TokensPop ==
    ASSUME Structure, Structure', Unique, NEW t \in Threads, NEW p, Turn(t, p, 1),
           server'.actions = <<>>, history'.finalized = history.finalized,
           \A i \in DOMAIN p : \A c : IsToken(p[i], c) => \E j \in Nat : Token("list", j, c),
           \A i, k \in DOMAIN p : \A c \in Nat : IsToken(p[i], c) /\ IsToken(p[k], c) => i = k
    PROVE  /\ Unique'
           /\ \A c \in Nat : Home(c)' => Home(c)
  <1>1. PICK h : Carried(h, t, p, 1)
    BY CarriedBy
  <1>2. PICK N : N = {t} \X (DOMAIN p)
    OBVIOUS
  <1>3. PICK C : C = (Places \ {"list"}) \X Nat
    OBVIOUS
  <1>4. ASSUME NEW c \in Nat, NEW x \in Places, NEW i \in Nat, Token(x, i, c)'
        PROVE  \/ x = t /\ i \in DOMAIN p /\ IsToken(p[i], c)
               \/ h[x][i] \in Nat /\ x # "list" /\ Token(x, h[x][i], c)
    <2>1. CASE x \in Threads
      <3>1. x # "list"
        BY <2>1 DEF Threads
      <3> QED BY <1>1, <1>4, <2>1, <3>1, TokenFrom
    <2>2. CASE x = "done"
      <3>1. Token(x, i, c) /\ h[x][i] = i
        BY <1>1, <1>4, <2>2, TokenKept DEF Carried
      <3> QED BY <2>2, <3>1
    <2>3. CASE x = "list"
      BY <1>4, <2>3 DEF Token, Threads
    <2> QED BY <2>1, <2>2, <2>3 DEF Places
  <1>5. \A c \in Nat : \A x \in Places : \A i \in Nat : Token(x, i, c)' =>
                \/ <<x, i>> \in N
                \/ h[x][i] \in Nat /\ <<x, h[x][i]>> \in C /\ Token(x, h[x][i], c)
    BY <1>2, <1>3, <1>4
  <1>6. \A x, i : <<x, i>> \in N => x = t /\ i \in DOMAIN p
    BY <1>2
  <1>7. ASSUME NEW i \in DOMAIN p, NEW c, Token(t, i, c)' PROVE IsToken(p[i], c)
    BY <1>7, StepsStay DEF Token, Threads
  <1>8. ASSUME NEW c \in Nat, NEW y \in Places, NEW o \in Nat, <<y, o>> \in C,
               NEW i \in DOMAIN p, IsToken(p[i], c), Token(y, o, c)
        PROVE  FALSE
    <2>1. PICK j \in Nat : Token("list", j, c)
      BY <1>8
    <2>2. "list" \in Places /\ y # "list"
      BY <1>3, <1>8 DEF Places
    <2> QED BY <1>8, <2>1, <2>2 DEF Unique
  <1>9. Unique'
    <2>1. \A x \in Places : \A i, k \in Nat : h[x][i] = h[x][k] => i = k
      BY <1>1 DEF Carried
    <2>2. \A c \in Nat : \A x, y \in Places : \A i, k \in Nat :
                /\ <<x, i>> \in N /\ <<y, k>> \in N
                /\ Token(x, i, c)' /\ Token(y, k, c)'
                => x = y /\ i = k
      BY <1>6, <1>7
    <2>3. \A c \in Nat : \A x, y \in Places : \A i, o \in Nat :
                <<x, i>> \in N /\ Token(x, i, c)' /\ <<y, o>> \in C => ~Token(y, o, c)
      BY <1>6, <1>7, <1>8
    <2>4. Sources(N, C, h)
      BY <1>5, <2>1, <2>2, <2>3, Zenon DEF Sources
    <2> QED BY <2>4, UniqueKept
  <1>10. ASSUME NEW c \in Nat, Home(c)' PROVE Home(c)
    <2>1. PICK x \in Places, i \in Nat : Token(x, i, c)'
      BY <1>10 DEF Home
    <2>2. CASE x = t /\ i \in DOMAIN p /\ IsToken(p[i], c)
      <3>1. "list" \in Places
        BY DEF Places
      <3> QED BY <2>2, <3>1 DEF Home
    <2>3. CASE h[x][i] \in Nat /\ Token(x, h[x][i], c)
      BY <2>3 DEF Home
    <2> QED BY <1>4, <2>1, <2>2, <2>3
  <1> QED BY <1>9, <1>10

\* A finalizer has run: its token goes from the agenda to the history.
LEMMA TokensDone ==
    ASSUME Structure, Structure', Unique, NEW t \in Threads, NEW p, DOMAIN p = {},
           Turn(t, p, 1), NEW e \in Nat, Token(t, 1, e), server'.actions = server.actions,
           NEW n \in Nat, DOMAIN history.finalized = 1 .. n,
           DOMAIN history'.finalized = 1 .. n + 1, history'.finalized[n + 1] = e,
           \A i \in 1 .. n : history'.finalized[i] = history.finalized[i]
    PROVE  /\ Unique'
           /\ \A c \in Nat : Home(c)' => Home(c)
           /\ \A c \in Nat : Home(c) => Home(c)'
  <1>1. PICK h : Carried(h, t, p, 1)
    BY CarriedBy
  <1>2. PICK N : N = {<<"done", n + 1>>}
    OBVIOUS
  <1>3. PICK C : C = {q \in Places \X Nat : q[1] = t => q[2] > 1}
    OBVIOUS
  <1>4. t # "done" /\ t # "list" /\ t \in Places /\ "done" \in Places
        /\ "done" \notin Threads /\ "done" # "list" /\ "list" \notin Threads
    BY DEF Threads, Places
  <1>5. ASSUME NEW c \in Nat, NEW x \in Places, NEW i \in Nat, Token(x, i, c)'
        PROVE  \/ x = "done" /\ i = n + 1 /\ c = e
               \/ h[x][i] \in Nat /\ (x = t => h[x][i] > 1) /\ Token(x, h[x][i], c)
    <2>1. CASE x \in Threads
      <3>1. \/ x = t /\ i \in DOMAIN p /\ IsToken(p[i], c)
            \/ h[x][i] \in Nat /\ (x = t => h[x][i] > 1) /\ Token(x, h[x][i], c)
        BY <1>1, <1>5, <2>1, TokenFrom
      <3> QED BY <3>1
    <2>2. CASE x = "list"
      <3>1. Token(x, i, c) /\ h[x][i] = i
        BY <1>1, <1>5, <2>2, TokenKept DEF Carried
      <3> QED BY <1>4, <2>2, <3>1
    <2>3. CASE x = "done"
      <3>1. i \in 1 .. n + 1 /\ history'.finalized[i] = c
        BY <1>4, <1>5, <2>3 DEF Token
      <3>2. CASE i = n + 1
        BY <2>3, <3>1, <3>2
      <3>3. CASE i \in 1 .. n
        <4>1. Token(x, i, c) /\ h[x][i] = i
          BY <1>1, <2>3, <3>1, <3>3 DEF Token, Carried
        <4> QED BY <1>4, <2>3, <4>1
      <3> QED BY <3>1, <3>2, <3>3
    <2> QED BY <2>1, <2>2, <2>3 DEF Places
  <1>6. Unique'
    <2>1. \A x \in Places : \A i, k \in Nat : h[x][i] = h[x][k] => i = k
      BY <1>1 DEF Carried
    <2>2. \A c \in Nat : \A x \in Places : \A i \in Nat : Token(x, i, c)' =>
                \/ <<x, i>> \in N
                \/ h[x][i] \in Nat /\ <<x, h[x][i]>> \in C /\ Token(x, h[x][i], c)
      BY <1>2, <1>3, <1>5
    <2>3. \A x, i : <<x, i>> \in N => x = "done" /\ i = n + 1
      BY <1>2
    <2>4. \A c \in Nat : Token("done", n + 1, c)' => c = e
      BY <1>4 DEF Token
    <2>5. \A y \in Places : \A o \in Nat : <<y, o>> \in C => ~Token(y, o, e)
      <3> SUFFICES ASSUME NEW y \in Places, NEW o \in Nat, <<y, o>> \in C, Token(y, o, e)
                   PROVE  FALSE
        OBVIOUS
      <3>1. y = t /\ o = 1
        BY <1>4 DEF Unique
      <3>2. o > 1
        BY <1>3, <3>1
      <3> QED BY <3>1, <3>2
    <2>6. \A c \in Nat : \A x, y \in Places : \A i, k \in Nat :
                <<x, i>> \in N /\ <<y, k>> \in N /\ Token(x, i, c)' /\ Token(y, k, c)'
                => x = y /\ i = k
      BY <2>3
    <2>7. \A c \in Nat : \A x, y \in Places : \A i, o \in Nat :
                <<x, i>> \in N /\ Token(x, i, c)' /\ <<y, o>> \in C => ~Token(y, o, c)
      BY <2>3, <2>4, <2>5
    <2>8. Sources(N, C, h)
      BY <2>1, <2>2, <2>6, <2>7, Zenon DEF Sources
    <2> QED BY <2>8, UniqueKept
  <1>7. ASSUME NEW c \in Nat, Home(c)' PROVE Home(c)
    <2>1. PICK x \in Places, i \in Nat : Token(x, i, c)'
      BY <1>7 DEF Home
    <2>2. CASE c = e
      BY <1>4, <2>2 DEF Home
    <2>3. CASE h[x][i] \in Nat /\ Token(x, h[x][i], c)
      BY <2>3 DEF Home
    <2> QED BY <1>5, <2>1, <2>2, <2>3
  <1>8. ASSUME NEW c \in Nat, Home(c) PROVE Home(c)'
    <2>1. PICK x \in Places, i \in Nat : Token(x, i, c)
      BY <1>8 DEF Home
    <2>2. CASE x \in Threads /\ (x = t => i > 1)
      BY <2>1, <2>2, TokenStays
    <2>3. CASE x = t /\ ~(i > 1)
      <3>1. i \in DOMAIN agenda[t] /\ DOMAIN agenda[t] = 1 .. Len(agenda[t])
            /\ IsToken(agenda[t][i], c)
        BY <1>4, <2>1, <2>3, TurnDomains DEF Token
      <3>2. i = 1
        BY <2>3, <3>1
      <3>3. c = e
        BY <1>4, <3>1, <3>2 DEF Token, IsToken
      <3>4. Token("done", n + 1, c)' /\ n + 1 \in Nat
        BY <1>4, <3>3 DEF Token
      <3> QED BY <1>4, <3>4 DEF Home
    <2>4. CASE x = "list"
      <3>1. Token(x, i, c)'
        BY <1>4, <2>1, <2>4 DEF Token
      <3> QED BY <3>1 DEF Home
    <2>5. CASE x = "done"
      <3>1. i \in 1 .. n /\ history.finalized[i] = c
        BY <1>4, <2>1, <2>5 DEF Token
      <3>2. i \in 1 .. n + 1
        BY <3>1
      <3>3. Token(x, i, c)'
        BY <2>5, <3>1, <3>2 DEF Token
      <3> QED BY <3>3 DEF Home
    <2> QED BY <2>1, <2>2, <2>3, <2>4, <2>5 DEF Places
  <1> QED BY <1>6, <1>7, <1>8

\* A response is written: the action of its connection joins the list.
LEMMA TokensAdded ==
    ASSUME Structure, Structure', Unique, NEW t \in Threads, NEW p, DOMAIN p = {},
           Turn(t, p, 1), NEW e \in Nat, ~Home(e), NEW x0, x0.conn = e, Adds(server', x0),
           history' = history, agenda[t][1].do \notin {"run", "finalize"}
    PROVE  /\ Unique'
           /\ \A c \in Nat : Home(c)' => Home(c) \/ c = e
           /\ \A c \in Nat : Home(c) => Home(c)'
           /\ x0.op = "stop-all" => Home(e)'
  <1>1. PICK h : Carried(h, t, p, 1)
    BY CarriedBy
  <1>2. PICK n \in Nat : /\ n = Len(server.actions) /\ DOMAIN server.actions = 1 .. n
                         /\ DOMAIN server'.actions = 1 .. n + 1
                         /\ server'.actions[n + 1] = x0
                         /\ \A i \in 1 .. n : server'.actions[i] = server.actions[i]
    BY DEF Adds
  <1>3. PICK N, C : N = {<<"list", n + 1>>} /\ C = Places \X Nat
    OBVIOUS
  <1>4. t # "done" /\ t # "list" /\ t \in Places /\ "list" \in Places
        /\ "done" \notin Threads /\ "done" # "list" /\ "list" \notin Threads
    BY DEF Threads, Places
  <1>5. ASSUME NEW c \in Nat, NEW x \in Places, NEW i \in Nat, Token(x, i, c)'
        PROVE  \/ x = "list" /\ i = n + 1 /\ c = e
               \/ h[x][i] \in Nat /\ Token(x, h[x][i], c)
    <2>1. CASE x \in Threads
      <3>1. \/ x = t /\ i \in DOMAIN p /\ IsToken(p[i], c)
            \/ h[x][i] \in Nat /\ (x = t => h[x][i] > 1) /\ Token(x, h[x][i], c)
        BY <1>1, <1>5, <2>1, TokenFrom
      <3> QED BY <3>1
    <2>2. CASE x = "done"
      <3>1. Token(x, i, c) /\ h[x][i] = i
        BY <1>1, <1>5, <2>2, TokenKept DEF Carried
      <3> QED BY <1>4, <2>2, <3>1
    <2>3. CASE x = "list"
      <3>1. i \in 1 .. n + 1 /\ server'.actions[i].op = "stop-all"
            /\ server'.actions[i].conn = c
        BY <1>2, <1>4, <1>5, <2>3 DEF Token
      <3>2. CASE i = n + 1
        BY <1>2, <2>3, <3>1, <3>2
      <3>3. CASE i \in 1 .. n
        <4>1. Token(x, i, c) /\ h[x][i] = i
          BY <1>1, <1>2, <2>3, <3>1, <3>3 DEF Token, Carried
        <4> QED BY <1>4, <2>3, <4>1
      <3> QED BY <3>1, <3>2, <3>3
    <2> QED BY <2>1, <2>2, <2>3 DEF Places
  <1>6. Unique'
    <2>1. \A x \in Places : \A i, k \in Nat : h[x][i] = h[x][k] => i = k
      BY <1>1 DEF Carried
    <2>2. \A c \in Nat : \A x \in Places : \A i \in Nat : Token(x, i, c)' =>
                \/ <<x, i>> \in N
                \/ h[x][i] \in Nat /\ <<x, h[x][i]>> \in C /\ Token(x, h[x][i], c)
      BY <1>3, <1>5
    <2>3. \A x, i : <<x, i>> \in N => x = "list" /\ i = n + 1
      BY <1>3
    <2>4. \A c \in Nat : Token("list", n + 1, c)' => c = e
      BY <1>2, <1>4 DEF Token
    <2>5. \A y \in Places : \A o \in Nat : ~Token(y, o, e)
      BY DEF Home
    <2>6. \A c \in Nat : \A x, y \in Places : \A i, k \in Nat :
                <<x, i>> \in N /\ <<y, k>> \in N /\ Token(x, i, c)' /\ Token(y, k, c)'
                => x = y /\ i = k
      BY <2>3
    <2>7. \A c \in Nat : \A x, y \in Places : \A i, o \in Nat :
                <<x, i>> \in N /\ Token(x, i, c)' /\ <<y, o>> \in C => ~Token(y, o, c)
      BY <2>3, <2>4, <2>5
    <2>8. Sources(N, C, h)
      BY <2>1, <2>2, <2>6, <2>7, Zenon DEF Sources
    <2> QED BY <2>8, UniqueKept
  <1>7. ASSUME NEW c \in Nat, Home(c)' PROVE Home(c) \/ c = e
    <2>1. PICK x \in Places, i \in Nat : Token(x, i, c)'
      BY <1>7 DEF Home
    <2> QED BY <1>5, <2>1 DEF Home
  <1>8. ASSUME NEW c \in Nat, Home(c) PROVE Home(c)'
    <2>1. PICK x \in Places, i \in Nat : Token(x, i, c)
      BY <1>8 DEF Home
    <2>2. CASE x \in Threads
      <3>1. x = t => i > 1
        <4>1. x = t => i \in DOMAIN agenda[t] /\ DOMAIN agenda[t] = 1 .. Len(agenda[t])
                       /\ IsToken(agenda[t][i], c)
          BY <1>4, <2>1, TurnDomains DEF Token
        <4>2. x = t => i # 1
          BY <4>1 DEF IsToken
        <4> QED BY <4>1, <4>2
      <3> QED BY <2>1, <2>2, <3>1, TokenStays
    <2>3. CASE x = "done"
      <3>1. Token(x, i, c)'
        BY <1>4, <2>1, <2>3 DEF Token
      <3> QED BY <3>1 DEF Home
    <2>4. CASE x = "list"
      <3>1. i \in 1 .. n /\ server.actions[i].op = "stop-all" /\ server.actions[i].conn = c
        BY <1>2, <1>4, <2>1, <2>4 DEF Token
      <3>2. i \in 1 .. n + 1
        BY <3>1
      <3>3. Token(x, i, c)'
        BY <1>2, <2>4, <3>1, <3>2 DEF Token
      <3> QED BY <3>3 DEF Home
    <2> QED BY <2>1, <2>2, <2>3, <2>4 DEF Places
  <1>9. ASSUME x0.op = "stop-all" PROVE Home(e)'
    <2>1. Token("list", n + 1, e)' /\ n + 1 \in Nat
      BY <1>2, <1>9 DEF Token
    <2> QED BY <1>4, <2>1 DEF Home
  <1> QED BY <1>6, <1>7, <1>8, <1>9

(* Connections past the queue stay past it; a handled one stays handled.    *)
Past ==
    \A b \in Conns :
        conns[b] \notin {"accepted", "queued"} => conns'[b] \notin {"accepted", "queued"}
Forward == Past /\ \A b \in Conns : conns[b] = "handled" => conns'[b] = "handled"

\* The worker gets nothing to answer by a turn that puts no response in front.
LEMMA RespondsFrom ==
    ASSUME Structure, NEW t \in Threads, NEW p, NEW d, Turn(t, p, d),
           \A k \in DOMAIN p : p[k].do # "respond", NEW c, Responds(c)'
    PROVE  Responds(c)
  <1>1. PICK k \in DOMAIN agenda'["worker"] :
            agenda'["worker"][k].do = "respond" /\ agenda'["worker"][k].conn = c
    BY DEF Responds
  <1>2. \E m \in DOMAIN agenda["worker"] : agenda'["worker"][k] = agenda["worker"][m]
    BY <1>1, WorkerHolds
  <1> QED BY <1>1, <1>2 DEF Responds

\* A finalizer stays with a connection that is past the queue.
LEMMA HomeOKKept ==
    ASSUME HomeOK, Conns \subseteq Conns', \A c \in Nat : Home(c)' => Home(c),
           \A b \in Conns : conns[b] \notin {"accepted", "queued"} =>
                conns'[b] \notin {"accepted", "queued"},
           \A c \in Conns : Responds(c)' => Responds(c) \/ conns[c] \in {"accepted", "queued"}
    PROVE  HomeOK'
  <1> SUFFICES ASSUME NEW c \in Nat, Home(c)'
               PROVE  /\ c \in Conns' /\ conns'[c] \notin {"accepted", "queued"}
                      /\ ~Responds(c)'
    BY DEF HomeOK
  <1>1. c \in Conns /\ conns[c] \notin {"accepted", "queued"} /\ ~Responds(c)
    BY DEF HomeOK
  <1> QED BY <1>1

\* A response that is ahead stays ahead.
LEMMA ToRespondKept ==
    ASSUME Structure, NEW t \in Threads, NEW p, NEW d, Turn(t, p, d), Forward,
           t = "worker" => \A i \in 1 .. d : agenda[t][i].do \notin {"return", "respond"},
           NEW c \in Conns, ToRespond(c)
    PROVE  ToRespond(c)'
  <1>0. "worker" \in Threads
    BY DEF Threads
  <1>1. \A m \in DOMAIN agenda["worker"] :
            agenda["worker"][m].do \in {"return", "respond"} =>
                \E i \in DOMAIN agenda'["worker"] : agenda'["worker"][i] = agenda["worker"][m]
    <2> TAKE m \in DOMAIN agenda["worker"]
    <2> HAVE agenda["worker"][m].do \in {"return", "respond"}
    <2>1. t = "worker" => m > d
      <3>1. DOMAIN agenda["worker"] = 1 .. Len(agenda["worker"])
        BY <1>0, TurnDomains
      <3>2. d \in 0 .. Len(agenda[t]) /\ Len(agenda[t]) \in Nat
        BY TurnDomains DEF Turn, Splice
      <3>3. t = "worker" => m \notin 1 .. d
        OBVIOUS
      <3>4. m \in Nat /\ m >= 1 /\ d \in Nat
        BY <3>1, <3>2
      <3> QED BY <3>3, <3>4
    <2> QED BY <1>0, <2>1, StepsStay
  <1>2. Responds(c)'
    BY <1>1 DEF ToRespond, Responds
  <1>3. Returns(c) => Returns(c)'
    BY <1>1 DEF Returns
  <1>4. conns[c] = "handled" => conns'[c] = "handled"
    BY DEF Forward
  <1> QED BY <1>2, <1>3, <1>4 DEF ToRespond

\* Nothing owed is lost.
LEMMA OwedKept ==
    ASSUME OwedOK, limits' = limits, history'.owed = history.owed,
           server.error => server'.error,
           \/ server'.error
           \/ \A c \in history.owed : ToRespond(c) \/ Home(c) => ToRespond(c)' \/ Home(c)'
    PROVE  OwedOK'
  BY DEF OwedOK, requests

\* A thread that is joined has ended and does not begin again.
LEMMA JoinedKept ==
    ASSUME Structure, JoinedEnded, NEW t \in Threads, NEW p, NEW d, Turn(t, p, d), ~ended(t),
           server'.joined = server.joined
    PROVE  JoinedEnded'
  <1>1. server.joined \subseteq Threads
    BY TypeFacts DEF Servers, Threads
  <1> QED BY <1>1 DEF JoinedEnded, Turn, ended

\* A drain that is ahead stays ahead.
LEMMA DrainStays ==
    ASSUME Structure, NEW t \in Threads, NEW p, NEW d, Turn(t, p, d), DrainAhead,
           \A i \in 1 .. d : agenda[t][i].do # "drain"
    PROVE  DrainAhead'
  <1>0. PICK u \in Threads : \E k \in DOMAIN agenda[u] : agenda[u][k].do = "drain"
    BY DEF DrainAhead
  <1>1. PICK m \in DOMAIN agenda[u] : agenda[u][m].do = "drain"
    BY <1>0
  <1>2. u = t => m > d
    <2>1. DOMAIN agenda[u] = 1 .. Len(agenda[u])
      BY TurnDomains
    <2>2. d \in 0 .. Len(agenda[t]) /\ Len(agenda[t]) \in Nat
      BY TurnDomains DEF Turn, Splice
    <2>3. u = t => m \notin 1 .. d
      BY <1>1
    <2> QED BY <2>1, <2>2, <2>3
  <1>3. \E i \in DOMAIN agenda'[u] : agenda'[u][i] = agenda[u][m]
    BY <1>2, StepsStay
  <1> QED BY <1>1, <1>3 DEF DrainAhead

(* A step that no finalizer and no drain, and one that no response either,  *)
(* is lost with.                                                            *)
Inert(s) == s.do \notin {"finalize", "drain"} /\ (s.do = "run" => s.op # "stop-all")
Droppable(s) == Inert(s) /\ s.do \notin {"return", "respond"}

\* A turn that has nothing to do with finalizers.
LEMMA QuietParts ==
    ASSUME Structure, Structure', Finalizers,
           NEW t \in Threads, NEW p, NEW d, Turn(t, p, d), ~ended(t), Past,
           Conns \subseteq Conns',
           server'.actions = server.actions, server'.joined = server.joined,
           server.error => server'.error, history'.finalized = history.finalized,
           \A k \in DOMAIN p : p[k].do \notin {"run", "finalize"},
           \A c \in Conns : Responds(c)' => Responds(c) \/ conns[c] \in {"accepted", "queued"},
           server'.error \/ \A i \in 1 .. d : Inert(agenda[t][i])
    PROVE  /\ Unique' /\ HomeOK' /\ JoinedEnded' /\ Drained'
           /\ server'.error \/ \A c \in Conns : Home(c) => Home(c)'
  <1>0. Unique /\ HomeOK /\ JoinedEnded /\ Drained
    BY DEF Finalizers
  <1>1. \A i \in DOMAIN p : \A c : ~IsToken(p[i], c)
    BY DEF IsToken
  <1>2. Unique' /\ \A c \in Nat : Home(c)' => Home(c)
    BY <1>0, <1>1, TokensMove
  <1>3. \A b \in Conns : conns[b] \notin {"accepted", "queued"} =>
            conns'[b] \notin {"accepted", "queued"}
    BY DEF Past
  <1>4. HomeOK'
    BY <1>0, <1>2, <1>3, HomeOKKept
  <1>5. ASSUME \A i \in 1 .. d : Inert(agenda[t][i]), NEW c \in Conns, Home(c)
        PROVE  Home(c)'
    <2>1. ASSUME NEW m, Token(t, m, c) PROVE m > d
      <3>1. m \in DOMAIN agenda[t] /\ IsToken(agenda[t][m], c)
        BY <2>1 DEF Token, Threads
      <3>2. DOMAIN agenda[t] = 1 .. Len(agenda[t])
        BY TurnDomains
      <3>3. d \in 0 .. Len(agenda[t]) /\ Len(agenda[t]) \in Nat
        BY TurnDomains DEF Turn, Splice
      <3>4. m \notin 1 .. d
        BY <1>5, <3>1 DEF Inert, IsToken
      <3> QED BY <3>1, <3>2, <3>3, <3>4
    <2> QED BY <1>5, <2>1, HomeStays
  <1>6. JoinedEnded'
    BY <1>0, JoinedKept
  <1>7. Drained'
    <2>1. CASE server'.error
      BY <2>1 DEF Drained
    <2>2. CASE \A i \in 1 .. d : Inert(agenda[t][i])
      <3>1. DrainAhead => DrainAhead'
        BY <2>2, DrainStays DEF Inert
      <3> QED BY <1>0, <3>1 DEF Drained
    <2> QED BY <2>1, <2>2
  <1> QED BY <1>2, <1>4, <1>5, <1>6, <1>7

\* A turn that has nothing to do with responses either.
LEMMA FinalizersQuiet ==
    ASSUME Structure, Structure', Finalizers,
           NEW t \in Threads, NEW p, NEW d, Turn(t, p, d), ~ended(t), Forward,
           Conns \subseteq Conns', limits' = limits,
           server'.actions = server.actions, server'.joined = server.joined,
           server.error => server'.error,
           history'.owed = history.owed, history'.finalized = history.finalized,
           \A k \in DOMAIN p : p[k].do \notin {"respond", "run", "finalize"},
           server'.error \/ \A i \in 1 .. d : Droppable(agenda[t][i])
    PROVE  Finalizers'
  <1>1. \A c \in Conns : Responds(c)' => Responds(c) \/ conns[c] \in {"accepted", "queued"}
    BY RespondsFrom
  <1>2. /\ Past
        /\ \A k \in DOMAIN p : p[k].do \notin {"run", "finalize"}
        /\ server'.error \/ \A i \in 1 .. d : Inert(agenda[t][i])
    BY DEF Droppable, Forward
  <1>3. /\ Unique' /\ HomeOK' /\ JoinedEnded' /\ Drained'
        /\ server'.error \/ \A c \in Conns : Home(c) => Home(c)'
    BY <1>1, <1>2, QuietParts
  <1>4. server'.error \/ \A c \in Conns : ToRespond(c) => ToRespond(c)'
    BY ToRespondKept DEF Droppable
  <1>5. history.owed \subseteq Conns /\ OwedOK
    BY TypeFacts DEF Histories, Finalizers
  <1>6. OwedOK'
    BY <1>3, <1>4, <1>5, OwedKept
  <1> QED BY <1>3, <1>6 DEF Finalizers

\* A thread goes on.
LEMMA FinalizersOn ==
    ASSUME Structure, Structure', Finalizers,
           NEW t \in Threads, Turn(t, <<>>, 1) \/ Turn(t, <<>>, 0), ~ended(t), Forward,
           Conns \subseteq Conns', limits' = limits,
           server'.actions = server.actions, server'.joined = server.joined,
           server.error => server'.error,
           history'.owed = history.owed, history'.finalized = history.finalized,
           Droppable(agenda[t][1])
    PROVE  Finalizers'
  <1>1. PICK p, d : p = <<>> /\ DOMAIN p = {} /\ Turn(t, p, d) /\ (d = 0 \/ d = 1)
    OBVIOUS
  <1>2. \A i \in 1 .. d : i = 1
    BY <1>1
  <1> QED BY <1>1, <1>2, FinalizersQuiet

\* The main thread.
LEMMA MainFinalizers ==
    ASSUME Structure, Structure', Connections, Finalizers, Main
    PROVE  Finalizers'
  <1>0. "main" \in Threads /\ Sentinel = 0
    BY DEF Threads, Sentinel
  <1>1. CASE Accept
    <2>1. PICK c : c = Len(conns) + 1
      OBVIOUS
    <2>2. /\ Conns' = Conns \cup {c} /\ \A b \in Conns : conns'[b] = conns[b]
          /\ UNCHANGED <<limits, server, history>> /\ ~ended("main")
          /\ agenda["main"][1].do = "accept"
      BY <1>0, <1>1, <2>1, AcceptTurn, AtFacts DEF Accept
    <2>3. PICK p : /\ Turn("main", p, 1) /\ DOMAIN p = 1 .. 2
                   /\ p[1] = Serve("enqueue", c) /\ p[2] = Do("accept")
      BY <1>1, <2>1, AcceptTurn
    <2>4. /\ p[1].do = "enqueue" /\ p[2].do = "accept"
          /\ \A k \in DOMAIN p : k = 1 \/ k = 2
      BY <2>3 DEF Serve, Do
    <2>5. \A k \in DOMAIN p : p[k].do \notin {"respond", "run", "finalize"}
      BY <2>4
    <2>6. Forward /\ \A i \in 1 .. 1 : Droppable(agenda["main"][i])
      BY <2>2 DEF Forward, Past, Droppable, Inert
    <2> QED BY <1>0, <2>2, <2>3, <2>5, <2>6, FinalizersQuiet
  <1>2. CASE EnqueueCheck
    <2>1. PICK c \in Conns :
             /\ agenda["main"][1].do = "enqueue" /\ agenda["main"][1].conn = c
             /\ \/ Turn("main", <<>>, 1) /\ conns' = [conns EXCEPT ![c] = "closed"]
                \/ /\ UNCHANGED conns
                   /\ \E p : /\ Turn("main", p, 1) /\ DOMAIN p = {1}
                             /\ p[1] = Serve("put", c)
      BY <1>2, EnqueueCheckTurn
    <2>2. /\ UNCHANGED <<limits, server, history>> /\ 1 \in DOMAIN agenda["main"]
          /\ ~ended("main")
      BY <1>0, <1>2, AtFacts DEF EnqueueCheck
    <2>3. conns[c] = "accepted"
      BY <2>1, <2>2 DEF Connections, AcceptedOK
    <2>4. Droppable(agenda["main"][1]) /\ \A i \in 1 .. 1 : i = 1
      BY <2>1 DEF Droppable, Inert
    <2>5. CASE Turn("main", <<>>, 1) /\ conns' = [conns EXCEPT ![c] = "closed"]
      <3>1. Conns' = Conns /\ \A b \in Conns : b # c => conns'[b] = conns[b]
        BY <2>5, MarkType DEF ConnStates
      <3>2. Forward
        BY <2>3, <3>1 DEF Forward, Past
      <3> QED BY <1>0, <2>2, <2>4, <2>5, <3>1, <3>2, FinalizersOn
    <2>6. ASSUME UNCHANGED conns, NEW p, Turn("main", p, 1), DOMAIN p = {1},
                 p[1] = Serve("put", c)
          PROVE  Finalizers'
      <3>1. Forward /\ Conns' = Conns
        BY <2>6 DEF Forward, Past, Conns
      <3>2. \A k \in DOMAIN p : p[k].do \notin {"respond", "run", "finalize"}
        BY <2>6 DEF Serve
      <3> QED BY <1>0, <2>2, <2>4, <2>6, <3>1, <3>2, FinalizersQuiet
    <2> QED BY <2>1, <2>5, <2>6
  <1>3. CASE EnqueuePut
    <2>1. PICK c \in Conns :
             /\ agenda["main"][1].do = "put" /\ agenda["main"][1].conn = c
             /\ \/ Turn("main", <<>>, 1) /\ ~Full(queue) /\ Put(c)
                \/ /\ UNCHANGED conns
                   /\ \E p : /\ Turn("main", p, 1) /\ DOMAIN p = 1 .. 2
                             /\ p[1] = Do("make_room") /\ p[2] = Serve("put_again", c)
      BY <1>3, EnqueuePutTurn
    <2>2. /\ UNCHANGED <<limits, server, history>> /\ 1 \in DOMAIN agenda["main"]
          /\ ~ended("main")
      BY <1>0, <1>3, AtFacts DEF EnqueuePut
    <2>3. conns[c] = "accepted"
      BY <2>1, <2>2 DEF Connections, AcceptedOK
    <2>4. Droppable(agenda["main"][1]) /\ \A i \in 1 .. 1 : i = 1
      BY <2>1 DEF Droppable, Inert
    <2>5. CASE Turn("main", <<>>, 1) /\ ~Full(queue) /\ Put(c)
      <3>1. /\ Conns' = Conns /\ \A b \in Conns : conns'[b] = conns[b] \/ b = c
        BY <2>3, <2>5, PutQueue, PutType
      <3>2. Forward
        BY <2>3, <3>1 DEF Forward, Past
      <3> QED BY <1>0, <2>2, <2>4, <2>5, <3>1, <3>2, FinalizersOn
    <2>6. ASSUME UNCHANGED conns, NEW p, Turn("main", p, 1), DOMAIN p = 1 .. 2,
                 p[1] = Do("make_room"), p[2] = Serve("put_again", c)
          PROVE  Finalizers'
      <3>1. Forward /\ Conns' = Conns
        BY <2>6 DEF Forward, Past, Conns
      <3>2. p[1].do = "make_room" /\ p[2].do = "put_again"
        BY <2>6 DEF Do, Serve
      <3>3. \A k \in DOMAIN p : k = 1 \/ k = 2
        BY <2>6
      <3>4. \A k \in DOMAIN p : p[k].do \notin {"respond", "run", "finalize"}
        BY <3>2, <3>3
      <3>5. Turn("main", p, 1)
        BY <2>6
      <3> QED BY <1>0, <2>2, <2>4, <3>1, <3>4, <3>5, FinalizersQuiet
    <2> QED BY <2>1, <2>5, <2>6
  <1>5. CASE EnqueueAgain
    <2>1. PICK c \in Conns :
             /\ agenda["main"][1].do = "put_again" /\ agenda["main"][1].conn = c
             /\ \/ ~Full(queue) /\ Put(c)
                \/ conns' = [conns EXCEPT ![c] = "closed"]
      BY <1>5, EnqueueAgainStructure
    <2>2. /\ UNCHANGED <<limits, server, history>> /\ 1 \in DOMAIN agenda["main"]
          /\ ~ended("main") /\ Turn("main", <<>>, 1)
      BY <1>0, <1>5, AtFacts, EnqueueAgainStructure DEF EnqueueAgain
    <2>3. conns[c] = "accepted"
      BY <2>1, <2>2 DEF Connections, AcceptedOK
    <2>4. Conns' = Conns /\ \A b \in Conns : conns'[b] = conns[b] \/ b = c
      <3>1. CASE ~Full(queue) /\ Put(c)
        BY <2>3, <3>1, PutQueue, PutType
      <3>2. CASE conns' = [conns EXCEPT ![c] = "closed"]
        BY <3>2, MarkType DEF ConnStates
      <3> QED BY <2>1, <3>1, <3>2
    <2>5. Forward /\ Droppable(agenda["main"][1])
      BY <2>1, <2>3, <2>4 DEF Forward, Past, Droppable, Inert
    <2> QED BY <1>0, <2>2, <2>4, <2>5, FinalizersOn
  <1>4. CASE AcceptStops \/ AcceptFails
    <2>1. PICK p : Turn("main", p, 1) /\ IsLeave(p)
      BY <1>4, LeaveStructure
    <2>2. /\ UNCHANGED <<limits, conns, server, history>> /\ agenda["main"][1].do = "accept"
          /\ ~ended("main")
      BY <1>0, <1>4, LeaveStructure, AtFacts DEF AcceptStops, AcceptFails
    <2>3. \A k \in DOMAIN p : p[k] \in Plain
      BY <2>1, LeaveFollowed
    <2>4. \A k \in DOMAIN p : p[k].do \notin {"respond", "run", "finalize"}
      BY <2>3 DEF Plain, Do
    <2>5. Forward /\ Conns' = Conns /\ \A i \in 1 .. 1 : Droppable(agenda["main"][i])
      BY <2>2 DEF Forward, Past, Conns, Droppable, Inert
    <2> QED BY <1>0, <2>1, <2>2, <2>4, <2>5, FinalizersQuiet
  <1> QED BY <1>1, <1>2, <1>3, <1>4, <1>5 DEF Main

\* The response that a dispatch or a return has behind it is the only one.
LEMMA OneResponse ==
    ASSUME Structure, Connections, 1 \in DOMAIN agenda["worker"],
           agenda["worker"][1].do \in {"dispatch", "admit", "return"}
    PROVE  \E r \in DOMAIN agenda["worker"] :
             /\ r > 1 /\ agenda["worker"][r].do = "respond"
             /\ agenda["worker"][r].conn = agenda["worker"][1].conn
             /\ \A m \in DOMAIN agenda["worker"] :
                    /\ agenda["worker"][m].do = "respond" => m = r
                    /\ agenda["worker"][m].do \in {"dispatch", "admit", "return"} => m = 1
  <1>0. "worker" \in Threads
    BY DEF Threads
  <1>1. PICK a : a = agenda["worker"]
    OBVIOUS
  <1>2. InHand(a) /\ FollowedAt(a, 1) /\ 1 \in DOMAIN a
    BY <1>0, <1>1 DEF Connections, Structure, AllFollowed, Followed
  <1>3. PICK r \in DOMAIN a : 1 < r /\ a[r].do = "respond" /\ a[r].conn = a[1].conn
    BY <1>1, <1>2 DEF FollowedAt
  <1>4. \A m \in DOMAIN a : /\ a[m].do = "respond" => m = r
                            /\ a[m].do \in {"dispatch", "admit", "return"} => m = 1
    BY <1>1, <1>2, <1>3 DEF InHand
  <1>5. r > 1
    <2>1. DOMAIN a = 1 .. Len(a)
      BY <1>0, <1>1, TypeFacts, LenProperties
    <2> QED BY <1>3, <2>1
  <1> QED BY <1>1, <1>3, <1>4, <1>5

\* A response has no other behind it, and no return.
LEMMA LastResponse ==
    ASSUME Structure, Connections, 1 \in DOMAIN agenda["worker"],
           agenda["worker"][1].do = "respond"
    PROVE  /\ \A m \in DOMAIN agenda["worker"] : agenda["worker"][m].do = "respond" => m = 1
           /\ \A c : ~Returns(c)
  <1>0. "worker" \in Threads
    BY DEF Threads
  <1>1. PICK a : a = agenda["worker"]
    OBVIOUS
  <1>2. InHand(a) /\ Followed(a) /\ 1 \in DOMAIN a
    BY <1>0, <1>1 DEF Connections, Structure, AllFollowed
  <1>3. \A m \in DOMAIN a : a[m].do = "respond" => m = 1
    BY <1>1, <1>2 DEF InHand
  <1>4. ASSUME NEW m \in DOMAIN a, a[m].do = "return" PROVE FALSE
    <2>1. PICK i \in DOMAIN a : m < i /\ a[i].do = "respond"
      BY <1>2, <1>4 DEF Followed, FollowedAt
    <2>2. i = 1 /\ DOMAIN a = 1 .. Len(a)
      BY <1>0, <1>1, <1>3, <2>1, TypeFacts, LenProperties
    <2> QED BY <1>4, <2>1, <2>2
  <1> QED BY <1>1, <1>3, <1>4 DEF Returns

\* The worker takes a connection from the queue.
LEMMA GetFinalizers ==
    ASSUME Structure, Structure', Connections, Finalizers, WorkerGet
    PROVE  Finalizers'
  <1>0. "worker" \in Threads
    BY DEF Threads
  <1>1. /\ Len(agenda["worker"]) = 1 /\ queue # <<>> /\ queue' = Tail(queue)
        /\ UNCHANGED <<limits, server, history>> /\ agenda["worker"][1].do = "get"
        /\ ~ended("worker")
    BY <1>0, WorkerGetTurn, AtFacts DEF WorkerGet
  <1>2. PICK h : h = Head(queue)
    OBVIOUS
  <1>3. Droppable(agenda["worker"][1]) /\ Inert(agenda["worker"][1])
    BY <1>1 DEF Droppable, Inert
  <1>4. CASE h = Sentinel /\ Turn("worker", <<>>, 1) /\ UNCHANGED conns
    <2>1. Forward /\ Conns' = Conns
      BY <1>4 DEF Forward, Past, Conns
    <2> QED BY <1>0, <1>1, <1>3, <1>4, <2>1, FinalizersOn
  <1>5. CASE /\ h # Sentinel /\ Turn("worker", <<>>, 0)
             /\ conns' = [conns EXCEPT ![h] = "closed"]
    <2>1. "closed" \in ConnStates /\ "closed" \notin {"accepted", "queued"}
      BY DEF ConnStates
    <2>2. Conns' = Conns /\ Steady
      BY <1>1, <1>2, <1>5, <2>1, HeadConnections
    <2>3. Forward
      BY <2>2 DEF Forward, Past, Steady
    <2> QED BY <1>0, <1>1, <1>3, <1>5, <2>2, <2>3, FinalizersOn
  <1>6. ASSUME h # Sentinel, conns' = [conns EXCEPT ![h] = "read"],
               NEW p, Turn("worker", p, 1), DOMAIN p = 1 .. 4,
               p[1] = Serve("dispatch", h), p[2] = Serve("respond", h),
               p[3] = Serve("post", h), p[4] = Do("get")
        PROVE  Finalizers'
    <2>1. "read" \in ConnStates /\ "read" \notin {"accepted", "queued"}
      BY DEF ConnStates
    <2>2. h # Sentinel /\ conns' = [conns EXCEPT ![h] = "read"]
      BY <1>6
    <2>3. h \in Conns /\ conns[h] = "queued" /\ Conns' = Conns /\ Steady
      BY <1>1, <1>2, <2>1, <2>2, HeadConnections
    <2>4. Forward /\ Past
      BY <2>3 DEF Forward, Past, Steady
    <2>5. /\ p[1].do = "dispatch" /\ p[2].do = "respond" /\ p[2].conn = h
          /\ p[3].do = "post" /\ p[4].do = "get"
          /\ \A k \in DOMAIN p : k = 1 \/ k = 2 \/ k = 3 \/ k = 4
      BY <1>6 DEF Serve, Do
    <2>6. \A k \in DOMAIN p : /\ p[k].do \notin {"run", "finalize"}
                              /\ p[k].do = "respond" => p[k].conn = h
      BY <2>5
    <2>7. \A c \in Conns : Responds(c)' => Responds(c) \/ conns[c] \in {"accepted", "queued"}
      <3> SUFFICES ASSUME NEW c \in Conns, Responds(c)' PROVE Responds(c) \/ c = h
        BY <2>3
      <3>1. PICK k \in DOMAIN agenda'["worker"] :
              agenda'["worker"][k].do = "respond" /\ agenda'["worker"][k].conn = c
        BY DEF Responds
      <3>2. \/ k \in DOMAIN p /\ agenda'["worker"][k] = p[k]
            \/ \E m \in DOMAIN agenda["worker"] : agenda'["worker"][k] = agenda["worker"][m]
        BY <1>0, <1>6, <3>1, WorkerHolds
      <3> QED BY <2>6, <3>1, <3>2 DEF Responds
    <2>8. \A i \in 1 .. 1 : Inert(agenda["worker"][i])
      BY <1>3
    <2>9. /\ Unique' /\ HomeOK' /\ JoinedEnded' /\ Drained'
          /\ server'.error \/ \A c \in Conns : Home(c) => Home(c)'
      BY <1>0, <1>1, <1>6, <2>3, <2>4, <2>6, <2>7, <2>8, QuietParts
    <2>10. \A c : ~ToRespond(c)
      <3>1. DOMAIN agenda["worker"] = 1 .. 1
        BY <1>0, <1>1, TypeFacts, LenProperties
      <3>2. \A m \in DOMAIN agenda["worker"] : m = 1
        BY <3>1
      <3> QED BY <1>1, <3>2 DEF ToRespond, Responds
    <2>11. OwedOK'
      <3>1. history.owed \subseteq Conns /\ OwedOK
        BY TypeFacts DEF Histories, Finalizers
      <3> QED BY <1>1, <2>9, <2>10, <3>1, OwedKept
    <2> QED BY <2>9, <2>11 DEF Finalizers
  <1> QED BY <1>2, <1>4, <1>5, <1>6, WorkerGetTurn

\* The worker reads the stop event for a request.
LEMMA DispatchFinalizers ==
    ASSUME Structure, Structure', Connections, Finalizers, Dispatch
    PROVE  Finalizers'
  <1>0. "worker" \in Threads /\ "refused" \in ConnStates
    BY DEF Threads, ConnStates
  <1>1. PICK c \in Conns :
             /\ agenda["worker"][1].do = "dispatch" /\ agenda["worker"][1].conn = c
             /\ UNCHANGED <<limits, history>>
             /\ \/ /\ conns' = [conns EXCEPT ![c] = "refused"]
                   /\ Turn("worker", <<>>, 1) /\ UNCHANGED server
                \/ /\ UNCHANGED conns /\ server' = [server EXCEPT !.gate = "worker"]
                   /\ \E p : /\ Turn("worker", p, 1) /\ DOMAIN p = {1}
                             /\ p[1] = Serve("admit", c)
    BY DispatchTurn, Zenon
  <1>2. 1 \in DOMAIN agenda["worker"] /\ ~ended("worker")
    BY <1>0, AtFacts DEF Dispatch
  <1>3. conns[c] = "read"
    BY <1>1, <1>2 DEF Connections, InHand
  <1>4. Droppable(agenda["worker"][1]) /\ \A i \in 1 .. 1 : i = 1
    BY <1>1 DEF Droppable, Inert
  <1>5. CASE /\ conns' = [conns EXCEPT ![c] = "refused"]
             /\ Turn("worker", <<>>, 1) /\ UNCHANGED server
    <2>1. Conns' = Conns /\ conns'[c] = "refused"
          /\ \A b \in Conns : b # c => conns'[b] = conns[b]
      BY <1>0, <1>5, MarkType
    <2>2. Forward
      BY <1>3, <2>1 DEF Forward, Past
    <2> QED BY <1>0, <1>1, <1>2, <1>4, <1>5, <2>1, <2>2, FinalizersOn
  <1>6. ASSUME UNCHANGED conns, server' = [server EXCEPT !.gate = "worker"],
               NEW p, Turn("worker", p, 1), DOMAIN p = {1}, p[1] = Serve("admit", c)
        PROVE  Finalizers'
    <2>1. Forward /\ Conns' = Conns
      BY <1>6 DEF Forward, Past, Conns
    <2>2. \A k \in DOMAIN p : p[k].do \notin {"respond", "run", "finalize"}
      BY <1>6 DEF Serve
    <2>3. /\ server'.actions = server.actions /\ server'.joined = server.joined
          /\ server'.error = server.error
      BY <1>6, TypeFacts DEF Servers
    <2>4. Turn("worker", p, 1)
      BY <1>6
    <2> QED BY <1>0, <1>1, <1>2, <1>4, <2>1, <2>2, <2>3, <2>4, FinalizersQuiet
  <1> QED BY <1>1, <1>5, <1>6, Zenon

\* The worker reads the bootstrap flags for a request.
LEMMA AdmitFinalizers ==
    ASSUME Structure, Structure', Connections, Finalizers, Admit
    PROVE  Finalizers'
  <1>0. /\ "worker" \in Threads /\ "refused" \in ConnStates /\ "handling" \in ConnStates
    BY DEF Threads, ConnStates
  <1>1. PICK c \in Conns :
             /\ agenda["worker"][1].do = "admit" /\ agenda["worker"][1].conn = c
             /\ UNCHANGED limits
             /\ \/ /\ conns' = [conns EXCEPT ![c] = "refused"]
                   /\ Turn("worker", <<>>, 1) /\ UNCHANGED history
                   /\ server' = [server EXCEPT !.gate = Nobody]
                \/ /\ conns' = [conns EXCEPT ![c] = "handling"]
                   /\ server' = [server EXCEPT !.stopping = @ \/ requests[c] \in ShutdownOps]
                   /\ history' = [history EXCEPT !.handled = @ \cup {c},
                                    !.owed = IF requests[c] = "stop-all"
                                             THEN @ \cup {c} ELSE @]
                   /\ \E p, b : /\ Turn("worker", p, 1) /\ Len(p) = Len(b) + 1
                                /\ Len(b) \in Nat /\ p[Len(p)] = Serve("return", c)
                                /\ \A k \in 1 .. Len(b) : p[k] \in Plain
    BY AdmitTurn, Zenon
  <1>2. 1 \in DOMAIN agenda["worker"] /\ ~ended("worker")
    BY <1>0, AtFacts DEF Admit
  <1>3. conns[c] = "read"
    BY <1>1, <1>2 DEF Connections, InHand
  <1>4. Droppable(agenda["worker"][1]) /\ \A i \in 1 .. 1 : i = 1
    BY <1>1 DEF Droppable, Inert
  <1>5. CASE /\ conns' = [conns EXCEPT ![c] = "refused"]
             /\ Turn("worker", <<>>, 1) /\ UNCHANGED history
             /\ server' = [server EXCEPT !.gate = Nobody]
    <2>1. Conns' = Conns /\ conns'[c] = "refused"
          /\ \A b \in Conns : b # c => conns'[b] = conns[b]
      BY <1>0, <1>5, MarkType
    <2>2. Forward /\ Past
      BY <1>3, <2>1 DEF Forward, Past
    <2>3. /\ server'.actions = server.actions /\ server'.joined = server.joined
          /\ server'.error = server.error
      BY <1>5, TypeFacts DEF Servers
    <2> QED BY <1>0, <1>1, <1>2, <1>4, <1>5, <2>1, <2>2, <2>3, FinalizersOn
  <1>6. ASSUME conns' = [conns EXCEPT ![c] = "handling"],
               server' = [server EXCEPT !.stopping = @ \/ requests[c] \in ShutdownOps],
               history' = [history EXCEPT !.handled = @ \cup {c},
                               !.owed = IF requests[c] = "stop-all"
                                        THEN @ \cup {c} ELSE @],
               NEW p, NEW b, Turn("worker", p, 1), Len(p) = Len(b) + 1,
               Len(b) \in Nat, p[Len(p)] = Serve("return", c),
               \A k \in 1 .. Len(b) : p[k] \in Plain
        PROVE  Finalizers'
    <2>1. Conns' = Conns /\ conns'[c] = "handling"
          /\ \A i \in Conns : i # c => conns'[i] = conns[i]
      BY <1>0, <1>6, MarkType
    <2>2. Forward /\ Past
      BY <1>3, <2>1 DEF Forward, Past
    <2>3. DOMAIN p = 1 .. Len(p) /\ Len(p) \in DOMAIN p
      <3>1. DOMAIN p = 1 .. Len(p)
        BY <1>0, <1>6, TurnDomains
      <3> QED BY <1>6, <3>1
    <2>4. p[Len(p)].do = "return" /\ p[Len(p)].conn = c
      BY <1>6 DEF Serve
    <2>5. \A k \in DOMAIN p : p[k] \in Plain \/ p[k].do = "return"
      <3>1. \A k \in DOMAIN p : k \in 1 .. Len(b) \/ k = Len(p)
        BY <1>6, <2>3
      <3> QED BY <1>6, <2>4, <3>1
    <2>6. \A k \in DOMAIN p : p[k].do \notin {"run", "finalize", "respond"}
      BY <2>5 DEF Plain, Do
    <2>7. /\ server'.actions = server.actions /\ server'.joined = server.joined
          /\ server'.error = server.error
      BY <1>6, TypeFacts DEF Servers
    <2>8. /\ history'.finalized = history.finalized /\ history.owed \subseteq Conns
          /\ history'.owed = IF requests[c] = "stop-all" THEN history.owed \cup {c}
                             ELSE history.owed
      BY <1>6, TypeFacts DEF Histories
    <2>9. Turn("worker", p, 1)
      BY <1>6
    <2>10. \A a \in Conns : Responds(a)' => Responds(a)
      BY <1>0, <2>6, <2>9, RespondsFrom
    <2>11. \A i \in 1 .. 1 : Inert(agenda["worker"][i])
      BY <1>4 DEF Droppable
    <2>12. /\ Unique' /\ HomeOK' /\ JoinedEnded' /\ Drained'
           /\ server'.error \/ \A a \in Conns : Home(a) => Home(a)'
      BY <1>0, <1>2, <2>1, <2>2, <2>6, <2>7, <2>8, <2>9, <2>10, <2>11, QuietParts
    <2>13. \A a \in Conns : ToRespond(a) => ToRespond(a)'
      <3>1. \A i \in 1 .. 1 : agenda["worker"][i].do \notin {"return", "respond"}
        BY <1>1
      <3> QED BY <1>0, <2>2, <2>9, <3>1, ToRespondKept
    <2>14. ToRespond(c)'
      <3>1. PICK r \in DOMAIN agenda["worker"] :
                r > 1 /\ agenda["worker"][r].do = "respond" /\ agenda["worker"][r].conn = c
        BY <1>1, <1>2, OneResponse
      <3>2. PICK i \in DOMAIN agenda'["worker"] : agenda'["worker"][i] = agenda["worker"][r]
        BY <1>0, <2>9, <3>1, StepsStay
      <3>3. Len(p) \in DOMAIN agenda'["worker"] /\ agenda'["worker"][Len(p)] = p[Len(p)]
        BY <1>0, <2>3, <2>9, StepsStay
      <3>4. Responds(c)'
        BY <3>1, <3>2 DEF Responds
      <3>5. Returns(c)'
        BY <2>4, <3>3 DEF Returns
      <3> QED BY <3>4, <3>5 DEF ToRespond
    <2>15. OwedOK'
      <3>1. requests' = requests /\ OwedOK
        BY <1>1 DEF requests, Finalizers
      <3>2. ASSUME ~server'.error, NEW a \in history'.owed
            PROVE  requests[a] = "stop-all" /\ (ToRespond(a)' \/ Home(a)')
        <4>1. CASE a \in history.owed
          BY <2>7, <2>8, <2>12, <2>13, <3>1, <3>2, <4>1 DEF OwedOK
        <4>2. CASE a = c /\ requests[c] = "stop-all"
          BY <2>14, <4>2
        <4> QED BY <2>8, <3>2, <4>1, <4>2
      <3> QED BY <3>1, <3>2 DEF OwedOK
    <2> QED BY <2>12, <2>15 DEF Finalizers
  <1> QED BY <1>1, <1>5, <1>6

\* The handler returns.
LEMMA ReturnFinalizers ==
    ASSUME Structure, Structure', Connections, Finalizers, HandlerReturns
    PROVE  Finalizers'
  <1>0. "worker" \in Threads /\ "handled" \in ConnStates
    BY DEF Threads, ConnStates
  <1>1. PICK c \in Conns :
            /\ agenda["worker"][1].do = "return" /\ agenda["worker"][1].conn = c
            /\ conns' = [conns EXCEPT ![c] = "handled"]
    BY HandlerReturnsStructure
  <1>2. /\ UNCHANGED <<limits, history>> /\ server' = [server EXCEPT !.gate = Nobody]
        /\ 1 \in DOMAIN agenda["worker"] /\ ~ended("worker")
    BY <1>0, AtFacts, HandlerReturnsStructure DEF HandlerReturns
  <1>3. PICK z : z = <<>> /\ DOMAIN z = {} /\ Turn("worker", z, 1)
    BY HandlerReturnsStructure
  <1>4. conns[c] = "handling"
    BY <1>1, <1>2 DEF Connections, InHand
  <1>5. /\ Conns' = Conns /\ conns'[c] = "handled"
        /\ \A b \in Conns : b # c => conns'[b] = conns[b]
    BY <1>0, <1>1, MarkType
  <1>6. Forward /\ Past
    BY <1>4, <1>5 DEF Forward, Past
  <1>7. /\ server'.actions = server.actions /\ server'.joined = server.joined
        /\ server'.error = server.error
    BY <1>2, TypeFacts DEF Servers
  <1>8. \A a \in Conns : Responds(a)' => Responds(a)
    BY <1>0, <1>3, RespondsFrom
  <1>9. \A i \in 1 .. 1 : Inert(agenda["worker"][i])
    BY <1>1 DEF Inert
  <1>10. /\ Unique' /\ HomeOK' /\ JoinedEnded' /\ Drained'
         /\ server'.error \/ \A a \in Conns : Home(a) => Home(a)'
    BY <1>0, <1>2, <1>3, <1>5, <1>6, <1>7, <1>8, <1>9, QuietParts
  <1>11. ASSUME NEW a \in Conns, ToRespond(a) PROVE ToRespond(a)'
    <2>1. PICK r \in DOMAIN agenda["worker"] :
             /\ r > 1 /\ agenda["worker"][r].do = "respond"
             /\ agenda["worker"][r].conn = c
             /\ \A m \in DOMAIN agenda["worker"] : agenda["worker"][m].do = "respond" => m = r
      BY <1>1, <1>2, OneResponse
    <2>2. a = c
      BY <1>11, <2>1 DEF ToRespond, Responds
    <2>3. \E i \in DOMAIN agenda'["worker"] : agenda'["worker"][i] = agenda["worker"][r]
      BY <1>0, <1>3, <2>1, StepsStay
    <2>4. Responds(c)'
      BY <2>1, <2>3 DEF Responds
    <2> QED BY <1>5, <2>2, <2>4 DEF ToRespond
  <1>12. OwedOK'
    <2>1. history.owed \subseteq Conns /\ OwedOK
      BY TypeFacts DEF Histories, Finalizers
    <2> QED BY <1>2, <1>7, <1>10, <1>11, <2>1, OwedKept
  <1> QED BY <1>10, <1>12 DEF Finalizers

\* The response is written, or lost; the finalizer is queued.
LEMMA RespondFinalizers ==
    ASSUME Structure, Structure', Connections, Finalizers, Respond
    PROVE  Finalizers'
  <1>0. "worker" \in Threads /\ "answered" \in ConnStates
    BY DEF Threads, ConnStates
  <1>1. PICK c \in Conns :
            /\ agenda["worker"][1].do = "respond" /\ agenda["worker"][1].conn = c
            /\ conns' = [conns EXCEPT ![c] = "answered"]
            /\ server' = IF conns[c] = "handled" /\ requests[c] \in FinalizedOps
                         THEN queue_after_response_action(server,
                                 [op |-> requests[c], conn |-> c])
                         ELSE server
    BY RespondStructure
  <1>2. /\ UNCHANGED <<limits, history>> /\ 1 \in DOMAIN agenda["worker"] /\ ~ended("worker")
    BY <1>0, AtFacts, RespondStructure DEF Respond
  <1>3. PICK z : z = <<>> /\ DOMAIN z = {} /\ Len(z) = 0 /\ Turn("worker", z, 1)
    BY RespondStructure
  <1>4. /\ \A m \in DOMAIN agenda["worker"] : agenda["worker"][m].do = "respond" => m = 1
        /\ \A a : ~Returns(a)
    BY <1>1, <1>2, LastResponse
  <1>5. /\ Conns' = Conns /\ conns'[c] = "answered"
        /\ \A b \in Conns : b # c => conns'[b] = conns[b]
    BY <1>0, <1>1, MarkType
  <1>6. Past
    BY <1>5 DEF Past
  <1>7. \A a : Responds(a)' => FALSE
    <2> SUFFICES ASSUME NEW k \in DOMAIN agenda'["worker"],
                        agenda'["worker"][k].do = "respond"
                 PROVE  FALSE
      BY DEF Responds
    <2>1. \E m \in DOMAIN agenda["worker"] :
             m > 1 /\ agenda'["worker"][k] = agenda["worker"][m]
      BY <1>0, <1>3, WorkerHolds
    <2> QED BY <1>4, <2>1
  <1>8. Responds(c) /\ c \in Nat
    BY <1>1, <1>2, TypeFacts DEF Responds
  <1>9. history.owed \subseteq Conns /\ OwedOK /\ Unique /\ HomeOK /\ JoinedEnded
    BY TypeFacts DEF Histories, Finalizers
  <1>10. ASSUME ~server.error, NEW a \in history.owed, ToRespond(a)
         PROVE  a = c /\ conns[c] = "handled" /\ requests[c] = "stop-all"
    <2>1. a = c
      BY <1>1, <1>4, <1>10 DEF ToRespond, Responds
    <2> QED BY <1>4, <1>9, <1>10, <2>1 DEF ToRespond, OwedOK
  <1>11. CASE server' = server /\ ~(conns[c] = "handled" /\ requests[c] \in FinalizedOps)
    <2>1. \A i \in 1 .. 1 : Inert(agenda["worker"][i])
      BY <1>1 DEF Inert
    <2>2. /\ Unique' /\ HomeOK' /\ JoinedEnded' /\ Drained'
          /\ server'.error \/ \A a \in Conns : Home(a) => Home(a)'
      BY <1>0, <1>2, <1>3, <1>5, <1>6, <1>7, <1>11, <2>1, QuietParts
    <2>3. server.error \/ \A a \in history.owed : ~ToRespond(a)
      BY <1>10, <1>11 DEF FinalizedOps
    <2>4. OwedOK'
      BY <1>2, <1>9, <1>11, <2>2, <2>3, OwedKept
    <2> QED BY <2>2, <2>4 DEF Finalizers
  <1>12. CASE /\ conns[c] = "handled" /\ requests[c] \in FinalizedOps
              /\ server' = queue_after_response_action(server,
                              [op |-> requests[c], conn |-> c])
    <2>1. PICK x : x = [op |-> requests[c], conn |-> c]
      OBVIOUS
    <2>2. x \in Action
      <3>1. c \in 0 .. Len(requests)
        BY TypeFacts
      <3> QED BY <1>12, <2>1, <3>1 DEF Action
    <2>3. Adds(server', x) /\ x.conn = c /\ x.op = requests[c]
      BY <1>12, <2>1, <2>2, ActionAdded
    <2>4. ~Home(c)
      BY <1>8, <1>9 DEF HomeOK
    <2>5. agenda["worker"][1].do \notin {"run", "finalize"}
      BY <1>1
    <2>6. /\ Unique'
          /\ \A a \in Nat : Home(a)' => Home(a) \/ a = c
          /\ \A a \in Nat : Home(a) => Home(a)'
          /\ x.op = "stop-all" => Home(c)'
      BY <1>0, <1>2, <1>3, <1>8, <1>9, <2>3, <2>4, <2>5, TokensAdded
    <2>7. HomeOK'
      <3> SUFFICES ASSUME NEW a \in Nat, Home(a)'
                   PROVE  a \in Conns' /\ conns'[a] \notin {"accepted", "queued"}
        BY <1>7 DEF HomeOK
      <3>1. CASE a = c
        BY <1>5, <3>1
      <3>2. CASE Home(a)
        <4>1. a \in Conns /\ conns[a] \notin {"accepted", "queued"}
          BY <1>9, <3>2 DEF HomeOK
        <4> QED BY <1>5, <1>6, <4>1 DEF Past
      <3> QED BY <2>6, <3>1, <3>2
    <2>8. server'.joined = server.joined /\ server'.error = server.error
      BY <2>3 DEF Adds
    <2>9. JoinedEnded'
      BY <1>0, <1>2, <1>3, <1>9, <2>8, JoinedKept
    <2>10. Drained'
      BY <1>2, <1>9, <2>8 DEF JoinedEnded, Drained
    <2>11. \A a \in Conns : a \in Nat
      BY TypeFacts
    <2>12. server'.error
           \/ \A a \in history.owed : ToRespond(a) \/ Home(a) => ToRespond(a)' \/ Home(a)'
      BY <1>9, <1>10, <2>3, <2>6, <2>8, <2>11
    <2>13. OwedOK'
      BY <1>2, <1>9, <2>8, <2>12, OwedKept
    <2> QED BY <2>6, <2>7, <2>9, <2>10, <2>13 DEF Finalizers
  <1> QED BY <1>1, <1>11, <1>12

\* The request worker.
LEMMA WorkerFinalizers ==
    ASSUME Structure, Structure', Connections, Finalizers, Worker
    PROVE  Finalizers'
  <1>0. "worker" \in Threads
    BY DEF Threads
  <1>1. ASSUME UNCHANGED conns PROVE Forward /\ Conns' = Conns
    BY <1>1 DEF Forward, Past, Conns
  <1>2. CASE PostRequest
    <2>1. /\ Turn("worker", <<>>, 1) /\ UNCHANGED <<limits, conns>>
          /\ agenda["worker"][1].do = "post"
          /\ \/ UNCHANGED <<server, history>>
             \/ /\ server' = queue_maintenance_ticks(server)
                /\ \E c \in Conns : history' = [history EXCEPT !.posted = @ \cup {c}]
      BY <1>2, PostRequestStructure
    <2>2. ~ended("worker") /\ Droppable(agenda["worker"][1])
      BY <1>0, <1>2, <2>1, AtFacts DEF PostRequest, Droppable, Inert
    <2>3. /\ server'.actions = server.actions /\ server'.joined = server.joined
          /\ server'.error = server.error
      BY <2>1, TypeFacts DEF Servers, queue_maintenance_ticks
    <2>4. history'.owed = history.owed /\ history'.finalized = history.finalized
      BY <2>1, TypeFacts DEF Histories
    <2> QED BY <1>0, <1>1, <2>1, <2>2, <2>3, <2>4, FinalizersOn
  <1>3. CASE WorkerStops
    <2>1. Turn("worker", <<>>, 1) /\ UNCHANGED <<limits, conns, server, history>>
      BY <1>3, WorkerStopsStructure DEF WorkerStops
    <2>2. ~ended("worker") /\ Droppable(agenda["worker"][1])
      BY <1>0, <1>3, AtFacts DEF WorkerStops, Droppable, Inert
    <2> QED BY <1>0, <1>1, <2>1, <2>2, FinalizersOn
  <1> QED BY <1>2, <1>3, GetFinalizers, DispatchFinalizers, AdmitFinalizers,
             ReturnFinalizers, RespondFinalizers DEF Worker

\* The actions are popped: every finalizer comes to the agenda.
LEMMA PopFinalizers ==
    ASSUME Structure, Structure', Finalizers, NEW t \in Threads, ~ended(t),
           NEW p, Turn(t, p, 1), server' = pop_after_response_actions(server),
           UNCHANGED <<limits, conns, history>>,
           agenda[t][1].do \in {"woken", "timed_out", "drain"},
           NEW q \in Seq(Action),
           Selects(q, server.actions, server.stop, Len(server.actions)),
           NEW b, DOMAIN b = 1 .. Len(b), Len(b) \in Nat, IsBatch(b, q),
           \A k \in DOMAIN b : k \in DOMAIN p /\ p[k] = b[k],
           \A k \in DOMAIN p :
                k \in DOMAIN b \/ p[k].do \in {"post_request_tick", "tick_if_needed"}
    PROVE  Finalizers'
  <1>0. "list" \in Places /\ "list" \notin Threads /\ t \in Places /\ t # "list"
        /\ "done" \notin Threads /\ "done" # "list" /\ t # "done"
    BY DEF Places, Threads
  <1>1. /\ server'.actions = <<>> /\ server'.joined = server.joined
        /\ server'.error = server.error
    BY PopFacts
  <1>2. PICK n \in Nat, l \in Nat :
            /\ n = Len(server.actions) /\ DOMAIN server.actions = 1 .. n /\ l = Len(q)
    BY TypeFacts, LenProperties DEF Servers
  <1>3. PICK a, e : a = server.actions /\ e = server.stop
    OBVIOUS
  <1>4. Selects(q, a, e, n)
    BY <1>2, <1>3, Zenon
  <1>5. PICK f \in [1 .. l -> 1 .. n] :
            /\ \A i, k \in 1 .. l : f[i] = f[k] => i = k
            /\ \A i \in 1 .. l : q[i] = a[f[i]]
            /\ \A k \in 1 .. n :
                ~e \/ a[k].op \in ShutdownOps => \E i \in 1 .. l : f[i] = k
    <2>1. l = Len(q)
      BY <1>2, Zenon
    <2> QED BY ONLY <1>4, <2>1 DEF Selects
  <1>6. \A i \in 1 .. l : f[i] \in 1 .. n /\ f[i] \in Nat
    BY <1>5
  <1>7. ASSUME NEW i \in 1 .. l PROVE i \in DOMAIN p /\ p[i] = Run(server.actions[f[i]])
    <2>1. l # 0
      BY ONLY i \in 1 .. l, l \in Nat
    <2>2. Len(b) = l + 1 /\ b[i] = Run(q[i])
      <3>1. IsBatch(b, q) /\ l = Len(q) /\ i \in 1 .. l
        BY <1>2, Zenon
      <3> QED BY ONLY <2>1, <3>1, Zenon DEF IsBatch
    <2>3. i \in DOMAIN b
      <3>1. DOMAIN b = 1 .. Len(b) /\ i \in 1 .. l /\ l \in Nat
        BY Zenon
      <3> QED BY ONLY <2>2, <3>1
    <2>4. q[i] = server.actions[f[i]]
      BY <1>5, <1>3, Zenon
    <2> QED BY <2>2, <2>3, <2>4, Zenon
  <1>8. ASSUME NEW k \in DOMAIN p
        PROVE  k \in 1 .. l \/ p[k].do \in {"end_batch", "post_request_tick", "tick_if_needed"}
    <2>1. CASE k \in DOMAIN b
      <3>1. CASE l = 0
        BY <1>2, <2>1, <3>1 DEF IsBatch
      <3>2. CASE l # 0
        <4>1. Len(b) = l + 1 /\ b[Len(b)] = Do("end_batch")
          BY <1>2, <3>2, Zenon DEF IsBatch
        <4>2. k \in 1 .. l \/ k = Len(b)
          BY <2>1, <4>1
        <4>3. Do("end_batch").do = "end_batch" /\ p[k] = b[k]
          BY <2>1 DEF Do
        <4> QED BY ONLY <4>1, <4>2, <4>3
      <3> QED BY <3>1, <3>2
    <2> QED BY <2>1
  <1>9. ASSUME NEW i \in DOMAIN p, NEW c, IsToken(p[i], c)
        PROVE  i \in 1 .. l /\ f[i] \in Nat /\ Token("list", f[i], c)
    <2>1. i \in 1 .. l
      BY <1>8, <1>9 DEF IsToken
    <2>2. f[i] \in 1 .. n /\ f[i] \in Nat /\ p[i] = Run(server.actions[f[i]])
      BY <1>6, <1>7, <2>1
    <2>3. server.actions[f[i]].op = "stop-all" /\ server.actions[f[i]].conn = c
      BY <1>9, <2>2 DEF IsToken, Run
    <2> QED BY <1>2, <2>1, <2>2, <2>3 DEF Token
  <1>10. Unique /\ HomeOK /\ OwedOK /\ JoinedEnded /\ Drained
    BY DEF Finalizers
  <1>11. \A i \in DOMAIN p : \A c : IsToken(p[i], c) => \E j \in Nat : Token("list", j, c)
    BY <1>9
  <1>12. ASSUME NEW i \in DOMAIN p, NEW k \in DOMAIN p, NEW c \in Nat,
                IsToken(p[i], c), IsToken(p[k], c)
         PROVE  i = k
    <2>1. f[i] = f[k]
      BY <1>0, <1>9, <1>10, <1>12 DEF Unique
    <2>2. i \in 1 .. l /\ k \in 1 .. l
      BY <1>9, <1>12
    <2> QED BY <1>5, <2>1, <2>2
  <1>13. Unique' /\ \A c \in Nat : Home(c)' => Home(c)
    BY <1>1, <1>10, <1>11, <1>12, TokensPop
  <1>14. ASSUME NEW c, Home(c) PROVE Home(c)'
    <2>1. PICK x \in Places, j \in Nat : Token(x, j, c)
      BY <1>14 DEF Home
    <2>2. CASE x \in Threads
      <3>1. ASSUME x = t PROVE j > 1
        <4>1. /\ j \in DOMAIN agenda[t] /\ DOMAIN agenda[t] = 1 .. Len(agenda[t])
              /\ IsToken(agenda[t][j], c)
          BY <1>0, <2>1, <3>1, TurnDomains DEF Token
        <4>2. j # 1
          BY <4>1 DEF IsToken
        <4> QED BY <4>1, <4>2
      <3> QED BY <2>1, <2>2, <3>1, TokenStays
    <2>3. CASE x = "done"
      <3>1. Token(x, j, c)'
        BY <1>0, <2>1, <2>3 DEF Token
      <3> QED BY <3>1 DEF Home
    <2>4. CASE x = "list"
      <3>1. j \in 1 .. n /\ server.actions[j].op = "stop-all" /\ server.actions[j].conn = c
        BY <1>0, <1>2, <2>1, <2>4 DEF Token
      <3>2. PICK i \in 1 .. l : f[i] = j
        <4>1. a[j].op \in ShutdownOps /\ j \in 1 .. n
          BY <1>3, <3>1 DEF ShutdownOps
        <4> QED BY <1>5, <4>1, Zenon
      <3>3. i \in DOMAIN p /\ IsToken(p[i], c)
        <4>1. i \in DOMAIN p /\ p[i] = Run(server.actions[j])
          BY <1>7, <3>2, Zenon
        <4>2. Run(server.actions[j]).do = "run" /\ Run(server.actions[j]).op = "stop-all"
              /\ Run(server.actions[j]).conn = c
          BY ONLY <3>1 DEF Run
        <4> QED BY <4>1, <4>2, Zenon DEF IsToken
      <3>4. i \in DOMAIN agenda'[t] /\ agenda'[t][i] = p[i]
        BY <3>3, StepsStay
      <3>5. Token(t, i, c)' /\ i \in Nat
        BY <3>3, <3>4 DEF Token
      <3> QED BY <1>0, <3>5 DEF Home
    <2> QED BY <2>1, <2>2, <2>3, <2>4 DEF Places
  <1>15. \A k \in DOMAIN p : p[k].do # "respond"
    <2>1. \A x : Run(x).do = "run"
      BY DEF Run
    <2>2. ASSUME NEW k \in 1 .. l PROVE p[k].do = "run"
      <3>1. p[k] = Run(server.actions[f[k]])
        BY <1>7, Zenon
      <3> QED BY <2>1, <3>1, Zenon
    <2>3. \A k \in DOMAIN p :
            p[k].do \in {"run", "end_batch", "post_request_tick", "tick_if_needed"}
      BY <1>8, <2>2, Zenon
    <2> QED BY ONLY <2>3
  <1>16. Forward /\ Past /\ Conns' = Conns
    BY DEF Forward, Past, Conns
  <1>17. \A c \in Conns : Responds(c)' => Responds(c)
    BY <1>15, RespondsFrom
  <1>18. HomeOK'
    BY <1>10, <1>13, <1>16, <1>17, HomeOKKept DEF Past
  <1>19. \A c \in Conns : ToRespond(c) => ToRespond(c)'
    <2>1. \A i \in 1 .. 1 : agenda[t][i].do \notin {"return", "respond"}
      OBVIOUS
    <2> QED BY <1>16, <2>1, ToRespondKept
  <1>20. OwedOK'
    <2>1. history.owed \subseteq Conns
      BY TypeFacts DEF Histories
    <2> QED BY <1>1, <1>10, <1>14, <1>19, <2>1, OwedKept
  <1>21. JoinedEnded'
    BY <1>1, <1>10, JoinedKept
  <1>22. Drained'
    BY <1>1 DEF Drained
  <1> QED BY <1>13, <1>18, <1>20, <1>21, <1>22 DEF Finalizers

\* The maintenance worker.
LEMMA MaintenanceFinalizers ==
    ASSUME Structure, Structure', Finalizers, Maintenance
    PROVE  Finalizers'
  <1>0. "maintenance" \in Threads
    BY DEF Threads
  <1>1. ASSUME UNCHANGED conns PROVE Forward /\ Conns' = Conns
    BY <1>1 DEF Forward, Past, Conns
  <1>2. ASSUME agenda["maintenance"][1].do \in MaintenanceSteps
        PROVE  \A i \in 1 .. 1 : Droppable(agenda["maintenance"][i])
    BY <1>2 DEF Droppable, Inert, MaintenanceSteps
  <1>3. CASE MaintenanceWakes
    <2>1. /\ UNCHANGED <<limits, conns, server, history>>
          /\ agenda["maintenance"][1].do = "wait" /\ ~ended("maintenance")
      BY <1>0, <1>3, WakesStructure, AtFacts DEF MaintenanceWakes
    <2>2. PICK p : /\ Turn("maintenance", p, 1) /\ DOMAIN p = {1}
                   /\ p[1] = Do("woken") \/ p[1] = Do("timed_out")
      BY <1>3, WakesStructure
    <2>3. \A k \in DOMAIN p : p[k].do \notin {"respond", "run", "finalize"}
      BY <2>2 DEF Do
    <2>4. \A i \in 1 .. 1 : Droppable(agenda["maintenance"][i])
      <3>1. agenda["maintenance"][1].do \in MaintenanceSteps
        BY ONLY <2>1, Zenon DEF MaintenanceSteps
      <3> QED BY <1>2, <3>1, Zenon
    <2> QED BY <1>0, <1>1, <2>1, <2>2, <2>3, <2>4, FinalizersQuiet
  <1>4. CASE MaintenanceActions
    <2>1. /\ server' = pop_after_response_actions(server)
          /\ UNCHANGED <<limits, conns, history>>
          /\ agenda["maintenance"][1].do \in {"woken", "timed_out", "drain"}
          /\ ~ended("maintenance")
      BY <1>0, <1>4, ActionsTurn, AtFacts DEF MaintenanceActions
    <2>2. PICK p, b, q :
                /\ Turn("maintenance", p, 1) /\ q \in Seq(Action)
                /\ Selects(q, server.actions, server.stop, Len(server.actions))
                /\ b \in Seq(Steps') /\ IsBatch(b, q)
                /\ \A k \in DOMAIN b : p[k] = b[k]
                /\ \/ Len(p) = Len(b)
                   \/ /\ Len(p) = Len(b) + 1
                      /\ p[Len(p)].do \in {"post_request_tick", "tick_if_needed"}
      BY <1>4, ActionsTurn
    <2>3. /\ DOMAIN p = 1 .. Len(p) /\ DOMAIN b = 1 .. Len(b) /\ Len(b) \in Nat
          /\ Len(p) \in Nat
      BY <1>0, <2>2, TurnDomains, LenProperties
    <2>4. PICK m \in Nat, n \in Nat :
            /\ m = Len(p) /\ n = Len(b) /\ DOMAIN p = 1 .. m /\ DOMAIN b = 1 .. n
            /\ \/ m = n
               \/ m = n + 1 /\ p[m].do \in {"post_request_tick", "tick_if_needed"}
      <3>1. PICK m \in Nat, n \in Nat : m = Len(p) /\ n = Len(b)
        BY <2>3, Zenon
      <3>2. DOMAIN p = 1 .. m /\ DOMAIN b = 1 .. n
        BY <2>3, <3>1, Zenon
      <3>3. \/ Len(p) = Len(b)
            \/ /\ Len(p) = Len(b) + 1
               /\ p[Len(p)].do \in {"post_request_tick", "tick_if_needed"}
        BY <2>2, Zenon
      <3>4. m = n \/ (m = n + 1 /\ p[m].do \in {"post_request_tick", "tick_if_needed"})
        BY <3>1, <3>3, Zenon
      <3> QED BY <3>1, <3>2, <3>4, Zenon
    <2>5. /\ \A k \in DOMAIN b : k \in DOMAIN p
          /\ \A k \in DOMAIN p : k \in DOMAIN b \/ (m = n + 1 /\ k = m)
      <3>0. m \in Nat /\ n \in Nat /\ (m = n \/ m = n + 1)
        BY <2>4, Zenon
      <3>1. DOMAIN p = 1 .. m /\ DOMAIN b = 1 .. n
        BY <2>4, Zenon
      <3>2. \A k \in 1 .. n : k \in 1 .. m
        BY ONLY <3>0
      <3>3. \A k \in 1 .. m : k \in 1 .. n \/ (m = n + 1 /\ k = m)
        BY ONLY <3>0
      <3> QED BY <3>1, <3>2, <3>3, Zenon
    <2>6. \A k \in DOMAIN b : k \in DOMAIN p /\ p[k] = b[k]
      BY <2>2, <2>5, Zenon
    <2>7. \A k \in DOMAIN p :
                k \in DOMAIN b \/ p[k].do \in {"post_request_tick", "tick_if_needed"}
      <3>1. m # n + 1 \/ p[m].do \in {"post_request_tick", "tick_if_needed"}
        <4>1. m = n => m # n + 1
          BY <2>4
        <4> QED BY <2>4, <4>1, Zenon
      <3> QED BY <2>5, <3>1, Zenon
    <2> QED BY <1>0, <2>1, <2>2, <2>3, <2>6, <2>7, PopFinalizers
  <1>5. CASE MaintenanceTicks
    <2>1. /\ UNCHANGED <<limits, conns, history>> /\ ~ended("maintenance")
          /\ agenda["maintenance"][1].do \in {"post_request_tick", "tick_if_needed"}
      BY <1>0, <1>5, TicksTurn, AtFacts DEF MaintenanceTicks
    <2>2. PICK p : /\ Turn("maintenance", p, 1)
                   /\ \A k \in DOMAIN p : p[k] = Do("tick") \/ p[k] = Do("wait")
                   /\ \/ server' = server
                      \/ server' = take_queued_maintenance_ticks(server)
      BY <1>5, TicksTurn
    <2>3. \A k \in DOMAIN p : p[k].do \notin {"respond", "run", "finalize"}
      BY <2>2 DEF Do
    <2>4. \A i \in 1 .. 1 : Droppable(agenda["maintenance"][i])
      <3>1. agenda["maintenance"][1].do \in MaintenanceSteps
        BY ONLY <2>1, Zenon DEF MaintenanceSteps
      <3> QED BY <1>2, <3>1, Zenon
    <2>5. /\ server'.actions = server.actions /\ server'.joined = server.joined
          /\ server'.error = server.error
      BY <2>2, TakeFacts
    <2> QED BY <1>0, <1>1, <2>1, <2>2, <2>3, <2>4, <2>5, FinalizersQuiet
  <1>6. CASE Tick
    <2>1. /\ UNCHANGED <<limits, conns, server>> /\ history' = [history EXCEPT !.posted = {}]
          /\ agenda["maintenance"][1].do = "tick" /\ ~ended("maintenance")
      BY <1>0, <1>6, TickStructure, AtFacts DEF Tick
    <2>2. PICK p : Turn("maintenance", p, 1) /\ \A k \in DOMAIN p : p[k] \in Plain
      BY <1>6, TickStructure
    <2>3. \A k \in DOMAIN p : p[k].do \notin {"respond", "run", "finalize"}
      BY <2>2 DEF Plain, Do
    <2>4. \A i \in 1 .. 1 : Droppable(agenda["maintenance"][i])
      <3>1. agenda["maintenance"][1].do \in MaintenanceSteps
        BY ONLY <2>1, Zenon DEF MaintenanceSteps
      <3> QED BY <1>2, <3>1, Zenon
    <2>5. history'.owed = history.owed /\ history'.finalized = history.finalized
      BY <2>1, TypeFacts DEF Histories
    <2> QED BY <1>0, <1>1, <2>1, <2>2, <2>3, <2>4, <2>5, FinalizersQuiet
  <1>7. CASE TickFails
    <2>1. /\ UNCHANGED <<limits, conns, history>> /\ server'.error /\ ~ended("maintenance")
          /\ server'.actions = server.actions /\ server'.joined = server.joined
      BY <1>7, TickFailsStructure
    <2>2. PICK p, d : Turn("maintenance", p, d) /\ p = <<>> /\ DOMAIN p = {}
      BY <1>7, TickFailsStructure
    <2> QED BY <1>0, <1>1, <2>1, <2>2, FinalizersQuiet
  <1> QED BY <1>3, <1>4, <1>5, <1>6, <1>7 DEF Maintenance

\* What follows once the finalizers have kept to their places.
LEMMA PlacesKept ==
    ASSUME Structure, Structure', Finalizers, NEW t \in Threads, NEW p, Turn(t, p, 1),
           ~ended(t), UNCHANGED <<limits, conns>>, history'.owed = history.owed,
           server'.joined = server.joined, server'.error = server.error,
           server'.actions = server.actions,
           \A k \in DOMAIN p : p[k].do # "respond",
           agenda[t][1].do \notin {"return", "respond", "drain"},
           Unique', \A c \in Nat : Home(c)' => Home(c), \A c \in Nat : Home(c) => Home(c)'
    PROVE  Finalizers'
  <1>1. Unique /\ HomeOK /\ OwedOK /\ JoinedEnded /\ Drained
    BY DEF Finalizers
  <1>2. Forward /\ Past /\ Conns' = Conns
    BY DEF Forward, Past, Conns
  <1>3. \A c \in Conns : Responds(c)' => Responds(c)
    BY RespondsFrom
  <1>4. HomeOK'
    BY <1>1, <1>2, <1>3, HomeOKKept DEF Past
  <1>5. \A i \in 1 .. 1 : agenda[t][i].do \notin {"return", "respond", "drain"}
    OBVIOUS
  <1>6. \A c \in Conns : ToRespond(c) => ToRespond(c)'
    BY <1>2, <1>5, ToRespondKept
  <1>7. OwedOK'
    <2>1. history.owed \subseteq Conns /\ \A c \in Conns : c \in Nat
      BY TypeFacts DEF Histories
    <2> QED BY <1>1, <1>6, <2>1, OwedKept
  <1>8. JoinedEnded'
    BY <1>1, JoinedKept
  <1>9. DrainAhead => DrainAhead'
    BY <1>5, DrainStays
  <1>10. Drained'
    BY <1>1, <1>9 DEF Drained
  <1> QED BY <1>4, <1>7, <1>8, <1>10 DEF Finalizers

\* An action runs; the finalizer of a stop-all comes behind the release.
LEMMA RunFinalizers ==
    ASSUME Structure, Structure', Finalizers, NEW t \in Threads, RunAction(t)
    PROVE  Finalizers'
  <1>0. UNCHANGED <<limits, conns, server, history>> /\ agenda[t][1].do = "run"
        /\ ~ended(t) /\ 1 \in DOMAIN agenda[t] /\ DOMAIN agenda[t] = 1 .. Len(agenda[t])
    BY RunTurn, AtFacts DEF RunAction
  <1>1. PICK p :
            /\ Turn(t, p, 1)
            /\ \/ \A k \in DOMAIN p : p[k] \in Plain
               \/ DOMAIN p = {1} /\ p[1] = Do("publish")
               \/ /\ agenda[t][1].op = "stop-all" /\ DOMAIN p = 1 .. 9
                  /\ \A k \in 1 .. 8 : p[k] \in Plain
                  /\ p[9] = [do |-> "finalize", conn |-> agenda[t][1].conn,
                             op |-> "stop-all"]
            /\ agenda[t][1].op = "stop-all" => 9 \in DOMAIN p /\ p[9].do = "finalize"
    BY RunTurn
  <1>2. \A s \in Plain : s.do \notin {"respond", "run", "finalize"}
    BY DEF Plain, Do
  <1>3. Do("publish").do = "publish"
    BY DEF Do
  <1>4. CASE agenda[t][1].op # "stop-all"
    <2>1. \A k \in DOMAIN p : p[k].do \notin {"respond", "run", "finalize"}
      BY <1>1, <1>2, <1>3, <1>4
    <2>2. Forward /\ Conns' = Conns /\ \A i \in 1 .. 1 : Droppable(agenda[t][i])
      BY <1>0, <1>4 DEF Forward, Past, Conns, Droppable, Inert
    <2> QED BY <1>0, <1>1, <2>1, <2>2, FinalizersQuiet
  <1>5. CASE agenda[t][1].op = "stop-all"
    <2>1. PICK e : e = agenda[t][1].conn
      OBVIOUS
    <2>2. /\ DOMAIN p = 1 .. 9 /\ \A k \in 1 .. 8 : p[k] \in Plain
          /\ p[9].do = "finalize" /\ p[9].conn = e /\ p[9].op = "stop-all"
      BY <1>1, <1>2, <1>3, <1>5, <2>1
    <2>3. 9 \in DOMAIN p /\ \A k \in DOMAIN p : k \in 1 .. 8 \/ k = 9
      BY <2>2
    <2>4. Token(t, 1, e)
      BY <1>0, <1>5, <2>1 DEF Token, IsToken
    <2>5. ASSUME NEW i \in DOMAIN p, NEW c, IsToken(p[i], c) PROVE i = 9 /\ c = e
      <3>1. i = 9
        BY <1>2, <2>2, <2>3, <2>5 DEF IsToken
      <3> QED BY <2>2, <2>5, <3>1 DEF IsToken
    <2>6. Unique
      BY DEF Finalizers
    <2>7. /\ \A i \in DOMAIN p : \A c : IsToken(p[i], c) => Token(t, 1, c) /\ 1 <= 1
          /\ \A i, k \in DOMAIN p : \A c : IsToken(p[i], c) /\ IsToken(p[k], c) => i = k
      BY <2>4, <2>5
    <2>8. Unique' /\ \A c \in Nat : Home(c)' => Home(c)
      BY <1>0, <1>1, <2>6, <2>7, TokensMove
    <2>9. ASSUME NEW c \in Nat, Home(c) PROVE Home(c)'
      <3>1. CASE c = e
        <4>1. 9 \in DOMAIN agenda'[t] /\ agenda'[t][9] = p[9]
          BY <1>1, <2>3, StepsStay
        <4>2. Token(t, 9, c)' /\ t \in Places
          BY <2>2, <3>1, <4>1 DEF Token, IsToken, Places
        <4> QED BY <4>2 DEF Home
      <3>2. CASE c # e
        <4>1. ASSUME NEW m, Token(t, m, c) PROVE m > 1
          <5>1. m \in DOMAIN agenda[t] /\ IsToken(agenda[t][m], c)
            BY <4>1 DEF Token, Threads
          <5>2. m # 1
            BY <2>1, <3>2, <5>1 DEF IsToken
          <5> QED BY <1>0, <5>1, <5>2
        <4> QED BY <1>0, <1>1, <2>9, <4>1, HomeStays
      <3> QED BY <3>1, <3>2
    <2>10. \A k \in DOMAIN p : p[k].do # "respond"
      BY <1>2, <2>2, <2>3
    <2>11. /\ agenda[t][1].do \notin {"return", "respond", "drain"} /\ Turn(t, p, 1)
           /\ server'.joined = server.joined /\ server'.error = server.error
           /\ server'.actions = server.actions /\ history'.owed = history.owed
      BY <1>0, <1>1
    <2> QED BY <1>0, <2>8, <2>9, <2>10, <2>11, PlacesKept
  <1> QED BY <1>4, <1>5

\* A finalizer runs.
LEMMA FinalizeFinalizers ==
    ASSUME Structure, Structure', Finalizers, NEW t \in Threads, Finalize(t)
    PROVE  Finalizers'
  <1>0. UNCHANGED <<limits, conns, server>> /\ ~ended(t) /\ 1 \in DOMAIN agenda[t]
    BY FinalizeStructure, AtFacts DEF Finalize
  <1>1. PICK c \in Conns :
            /\ IsToken(agenda[t][1], c) /\ agenda[t][1].do = "finalize"
            /\ history' = [history EXCEPT !.finalized = Append(@, c)]
    BY FinalizeStructure
  <1>2. PICK p : p = <<>> /\ DOMAIN p = {} /\ Turn(t, p, 1)
    BY FinalizeStructure
  <1>3. PICK l, f : f = history.finalized /\ l = Append(f, c)
    OBVIOUS
  <1>4. history' = [history EXCEPT !.finalized = l]
    BY <1>1, <1>3
  <1>5. history'.finalized = l /\ history'.owed = history.owed
    BY <1>4, TypeFacts DEF Histories
  <1>6. PICK n : n = Len(f)
    OBVIOUS
  <1>7. f \in Seq(Conns) /\ c \in Nat
    BY <1>3, TypeFacts DEF Histories
  <1>8. /\ n \in Nat /\ DOMAIN f = 1 .. n /\ Len(l) = n + 1 /\ l \in Seq(Conns)
        /\ l[n + 1] = c /\ \A i \in 1 .. n : l[i] = f[i]
    BY <1>3, <1>6, <1>7, AppendProperties, LenProperties
  <1>9. DOMAIN l = 1 .. n + 1
    BY <1>8, LenProperties
  <1>10. Token(t, 1, c) /\ Unique
    BY <1>0, <1>1 DEF Token, Finalizers
  <1>11. /\ DOMAIN history.finalized = 1 .. n
         /\ DOMAIN history'.finalized = 1 .. n + 1 /\ history'.finalized[n + 1] = c
         /\ \A i \in 1 .. n : history'.finalized[i] = history.finalized[i]
    BY <1>3, <1>5, <1>8, <1>9, Zenon
  <1>12. n \in Nat /\ server'.actions = server.actions /\ server'.joined = server.joined
         /\ server'.error = server.error
    BY <1>0, <1>8, Zenon
  <1>13. /\ Unique'
         /\ \A a \in Nat : Home(a)' => Home(a)
         /\ \A a \in Nat : Home(a) => Home(a)'
    BY <1>2, <1>7, <1>10, <1>11, <1>12, TokensDone
  <1>14. /\ \A k \in DOMAIN p : p[k].do # "respond"
         /\ agenda[t][1].do \notin {"return", "respond", "drain"}
         /\ Turn(t, p, 1) /\ history'.owed = history.owed
    BY <1>1, <1>2, <1>5
  <1> QED BY <1>0, <1>12, <1>13, <1>14, PlacesKept

\* stop_worker drops what is queued and puts a sentinel.
LEMMA StopFinalizers ==
    ASSUME Structure, Structure', Connections, Finalizers, NEW t \in Threads, StopWorker(t)
    PROVE  Finalizers'
  <1>1. UNCHANGED <<limits, server, history>> /\ ~ended(t)
    BY StopWorkerStructure
  <1>2. CASE UNCHANGED conns /\ Turn(t, <<>>, 1) /\ agenda[t][1].do = "close_pending"
    <2>1. Forward /\ Conns' = Conns /\ Droppable(agenda[t][1])
      BY <1>2 DEF Forward, Past, Conns, Droppable, Inert
    <2> QED BY <1>1, <1>2, <2>1, FinalizersOn
  <1>3. CASE /\ UNCHANGED conns /\ Turn(t, <<>>, 3) /\ agenda[t][1].do = "close_pending"
             /\ agenda[t][2].do = "put_sentinel" /\ agenda[t][3].do = "join_worker"
    <2>1. PICK p : p = <<>> /\ DOMAIN p = {} /\ Turn(t, p, 3)
      BY <1>3
    <2>2. \A i \in 1 .. 3 : i = 1 \/ i = 2 \/ i = 3
      OBVIOUS
    <2>3. \A i \in 1 .. 3 : Droppable(agenda[t][i])
      BY <1>3, <2>2 DEF Droppable, Inert
    <2>4. Forward /\ Conns' = Conns
      BY <1>3 DEF Forward, Past, Conns
    <2> QED BY <1>1, <2>1, <2>3, <2>4, FinalizersQuiet
  <1>4. CASE /\ Turn(t, <<>>, 0) /\ queue # <<>>
             /\ conns' = Close(conns, Head(queue)) /\ queue' = Tail(queue)
    <2>1. PICK p : p = <<>> /\ DOMAIN p = {} /\ Turn(t, p, 0)
      BY <1>4
    <2>2. Forward /\ Conns' = Conns
      <3>1. Steady /\ Conns' = Conns
        BY <1>4, TakeConnections, TakeType
      <3>2. \A b \in Conns : conns'[b] = conns[b] \/ conns'[b] = "closed"
        BY <1>4, TakenClosed
      <3> QED BY <3>1, <3>2 DEF Forward, Past, Steady
    <2>3. \A i \in 1 .. 0 : Droppable(agenda[t][i])
      OBVIOUS
    <2> QED BY <1>1, <2>1, <2>2, <2>3, FinalizersQuiet
  <1>5. CASE /\ Turn(t, <<>>, 1)
             /\ agenda[t][1].do \in {"put_sentinel", "put_sentinel_again"}
             /\ UNCHANGED <<conns, queue>> \/ (~Full(queue) /\ Put(Sentinel))
    <2>1. UNCHANGED conns
      BY <1>5 DEF Put
    <2>2. Forward /\ Conns' = Conns /\ Droppable(agenda[t][1])
      BY <1>5, <2>1 DEF Forward, Past, Conns, Droppable, Inert
    <2> QED BY <1>1, <1>5, <2>2, FinalizersOn
  <1>6. ASSUME UNCHANGED conns, agenda[t][1].do = "put_sentinel",
               NEW p, Turn(t, p, 1), DOMAIN p = 1 .. 2,
               p[1] = Do("make_room"), p[2] = Do("put_sentinel_again")
        PROVE  Finalizers'
    <2>1. Forward /\ Conns' = Conns
      BY <1>6 DEF Forward, Past, Conns
    <2>2. p[1].do = "make_room" /\ p[2].do = "put_sentinel_again"
      BY <1>6 DEF Do
    <2>3. \A k \in DOMAIN p : k = 1 \/ k = 2
      BY <1>6
    <2>4. \A k \in DOMAIN p : p[k].do \notin {"respond", "run", "finalize"}
      BY <2>2, <2>3
    <2>5. Turn(t, p, 1) /\ \A i \in 1 .. 1 : Droppable(agenda[t][i])
      BY <1>6 DEF Droppable, Inert
    <2> QED BY <1>1, <2>1, <2>4, <2>5, FinalizersQuiet
  <1> QED BY <1>2, <1>3, <1>4, <1>5, <1>6, StopWorkerStructure

\* close_oldest_queued_connection has nothing to do with finalizers.
LEMMA MakeRoomFinalizers ==
    ASSUME Structure, Structure', Connections, Finalizers, NEW t \in Threads, MakeRoom(t)
    PROVE  Finalizers'
  <1>1. /\ UNCHANGED <<limits, server, history>> /\ ~ended(t)
        /\ agenda[t][1].do = "make_room"
    BY MakeRoomStructure
  <1>2. PICK p : Turn(t, p, 1) /\ \A k \in DOMAIN p : p[k] = Do("put_sentinel_again")
    BY MakeRoomStructure
  <1>3. \A k \in DOMAIN p : p[k].do \notin {"respond", "run", "finalize"}
    BY <1>2 DEF Do
  <1>4. Droppable(agenda[t][1]) /\ \A i \in 1 .. 1 : i = 1
    BY <1>1 DEF Droppable, Inert
  <1>5. Forward /\ Conns' = Conns
    <2>1. CASE UNCHANGED <<conns, queue>>
      BY <2>1 DEF Forward, Past, Conns
    <2>2. CASE /\ queue # <<>> /\ conns' = Close(conns, Head(queue))
               /\ queue' = Tail(queue)
      <3>1. Steady /\ Conns' = Conns
        BY <2>2, TakeConnections, TakeType
      <3>2. \A b \in Conns : conns'[b] = conns[b] \/ conns'[b] = "closed"
        BY <2>2, TakenClosed
      <3> QED BY <3>1, <3>2 DEF Forward, Past, Steady
    <2> QED BY <2>1, <2>2, MakeRoomStructure
  <1> QED BY <1>1, <1>2, <1>3, <1>4, <1>5, FinalizersQuiet

\* stop_maintenance_worker wakes the worker and drains the actions.
LEMMA DrainFinalizers ==
    ASSUME Structure, Structure', Finalizers, NEW t \in Threads, StopMaintenance(t)
    PROVE  Finalizers'
  <1>1. UNCHANGED <<limits, conns, history>> /\ ~ended(t)
    BY StopMaintenanceTurn
  <1>2. Forward /\ Conns' = Conns
    BY <1>1 DEF Forward, Past, Conns
  <1>3. CASE /\ Turn(t, <<>>, 2) /\ server' = server
             /\ agenda[t][1].do = "wake" /\ agenda[t][2].do = "join_maintenance"
    <2>1. PICK p : p = <<>> /\ DOMAIN p = {} /\ Turn(t, p, 2)
      BY <1>3
    <2>2. \A i \in 1 .. 2 : i = 1 \/ i = 2
      OBVIOUS
    <2>3. \A i \in 1 .. 2 : Droppable(agenda[t][i])
      BY <1>3, <2>2 DEF Droppable, Inert
    <2> QED BY <1>1, <1>2, <1>3, <2>1, <2>3, FinalizersQuiet
  <1>4. CASE /\ Turn(t, <<>>, 1) /\ server' = [server EXCEPT !.event = TRUE]
             /\ agenda[t][1].do = "wake"
    <2>1. /\ server'.actions = server.actions /\ server'.joined = server.joined
          /\ server'.error = server.error
      BY <1>4, TypeFacts DEF Servers
    <2>2. Droppable(agenda[t][1])
      BY <1>4 DEF Droppable, Inert
    <2> QED BY <1>1, <1>2, <1>4, <2>1, <2>2, FinalizersOn
  <1>5. ASSUME server' = pop_after_response_actions(server), agenda[t][1].do = "drain",
               NEW b, NEW q, Turn(t, b, 1), q \in Seq(Action),
               Selects(q, server.actions, server.stop, Len(server.actions)),
               IsBatch(b, q)
        PROVE  Finalizers'
    <2>1. DOMAIN b = 1 .. Len(b) /\ Len(b) \in Nat
      BY <1>5, TurnDomains
    <2>2. /\ \A k \in DOMAIN b : k \in DOMAIN b /\ b[k] = b[k]
          /\ \A k \in DOMAIN b :
                k \in DOMAIN b \/ b[k].do \in {"post_request_tick", "tick_if_needed"}
      OBVIOUS
    <2>3. agenda[t][1].do \in {"woken", "timed_out", "drain"}
      BY <1>5
    <2> QED BY <1>1, <1>5, <2>1, <2>2, <2>3, PopFinalizers
  <1> QED BY <1>3, <1>4, <1>5, StopMaintenanceTurn

\* A thread is joined, or the join times out.
LEMMA JoinFinalizers ==
    ASSUME Structure, Structure', Finalizers, NEW t \in Threads,
           NEW other \in {"worker", "maintenance"}, Join(t, other)
    PROVE  Finalizers'
  <1>1. /\ UNCHANGED <<limits, conns, history>> /\ ~ended(t)
        /\ agenda[t][1].do = IF other = "worker" THEN "join_worker" ELSE "join_maintenance"
        /\ server' = [server EXCEPT !.joined =
                        IF ended(other) THEN @ \cup {other} ELSE @]
    BY JoinStructure
  <1>2. PICK p : p = <<>> /\ DOMAIN p = {} /\ Turn(t, p, 1)
    BY JoinStructure
  <1>3. /\ server'.actions = server.actions /\ server'.error = server.error
        /\ server'.joined = IF ended(other) THEN server.joined \cup {other}
                            ELSE server.joined
    BY <1>1, TypeFacts DEF Servers
  <1>4. Forward /\ Past /\ Conns' = Conns /\ Droppable(agenda[t][1])
    BY <1>1 DEF Forward, Past, Conns, Droppable, Inert
  <1>5. CASE ~ended(other)
    BY <1>1, <1>2, <1>3, <1>4, <1>5, FinalizersOn
  <1>6. CASE ended(other)
    <2>1. Unique /\ HomeOK /\ OwedOK /\ JoinedEnded /\ Drained
      BY DEF Finalizers
    <2>2. Unique' /\ \A c \in Nat : Home(c)' => Home(c)
      BY <1>1, <1>2, <1>3, <2>1, TokensMove
    <2>3. \A c \in Conns : Responds(c)' => Responds(c)
      BY <1>2, RespondsFrom
    <2>4. HomeOK'
      BY <1>4, <2>1, <2>2, <2>3, HomeOKKept DEF Past
    <2>5. \A i \in 1 .. 1 : agenda[t][i].do \notin {"return", "respond", "drain"}
      BY <1>1
    <2>6. \A c \in Conns : ToRespond(c) => ToRespond(c)'
      BY <1>2, <1>4, <2>5, ToRespondKept
    <2>7. 1 \in DOMAIN agenda[t] /\ DOMAIN agenda[t] = 1 .. Len(agenda[t])
          /\ FollowedAt(agenda[t], 1)
      BY AtFacts DEF Join
    <2>8. ASSUME NEW c, Home(c) PROVE Home(c)'
      <3>1. ASSUME NEW m, Token(t, m, c) PROVE m > 1
        <4>1. m \in DOMAIN agenda[t] /\ IsToken(agenda[t][m], c)
          BY <3>1 DEF Token, Threads
        <4>2. m # 1
          BY <1>1, <4>1 DEF IsToken
        <4> QED BY <2>7, <4>1, <4>2
      <3> QED BY <1>1, <1>2, <1>3, <2>8, <3>1, HomeStays
    <2>9. OwedOK'
      <3>1. history.owed \subseteq Conns
        BY TypeFacts DEF Histories
      <3> QED BY <1>1, <1>3, <2>1, <2>6, <2>8, <3>1, OwedKept
    <2>10. JoinedEnded'
      <3> SUFFICES ASSUME NEW u \in server'.joined PROVE ended(u)'
        BY DEF JoinedEnded
      <3>1. ended(u) /\ u \in Threads
        BY <1>3, <1>6, <2>1, TypeFacts DEF JoinedEnded, Servers, Threads
      <3>2. agenda'[u] = agenda[u]
        BY <1>1, <1>2, <3>1 DEF Turn
      <3> QED BY <3>1, <3>2 DEF ended
    <2>11. DrainAhead => DrainAhead'
      BY <1>2, <2>5, DrainStays
    <2>12. CASE other = "worker"
      <3>1. PICK m \in DOMAIN agenda[t] : 1 < m /\ agenda[t][m].do = "drain"
        BY <1>1, <2>7, <2>12 DEF FollowedAt
      <3>2. m > 1
        BY <2>7, <3>1
      <3>3. \E i \in DOMAIN agenda'[t] : agenda'[t][i] = agenda[t][m]
        BY <1>2, <3>2, StepsStay
      <3>4. DrainAhead'
        BY <3>1, <3>3 DEF DrainAhead
      <3> QED BY <2>2, <2>4, <2>9, <2>10, <3>4 DEF Finalizers, Drained
    <2>13. CASE other = "maintenance"
      <3>1. "worker" \in server'.joined => "worker" \in server.joined
        BY <1>3, <2>13
      <3>2. Drained'
        BY <1>3, <2>1, <2>11, <3>1 DEF Drained
      <3> QED BY <2>2, <2>4, <2>9, <2>10, <3>2 DEF Finalizers
    <2> QED BY <2>12, <2>13
  <1> QED BY <1>5, <1>6

\* Actions and teardown.
LEMMA TeardownFinalizers ==
    ASSUME Structure, Structure', Connections, Finalizers, NEW t \in Threads, Teardown(t)
    PROVE  Finalizers'
  <1>0. ASSUME UNCHANGED conns PROVE Forward /\ Conns' = Conns
    BY <1>0 DEF Forward, Past, Conns
  <1>1. ASSUME UNCHANGED <<limits, conns, history>>, server'.error, ~ended(t),
               server'.actions = server.actions, server'.joined = server.joined,
               NEW d, Turn(t, <<>>, d)
        PROVE  Finalizers'
    <2>1. PICK p : p = <<>> /\ DOMAIN p = {} /\ Turn(t, p, d)
      BY <1>1
    <2> QED BY <1>0, <1>1, <2>1, FinalizersQuiet
  <1>7. ASSUME UNCHANGED <<limits, conns>>, server.error => server'.error, ~ended(t),
               server'.actions = server.actions, server'.joined = server.joined,
               history'.owed = history.owed, history'.finalized = history.finalized,
               \A i \in 1 .. 1 : Droppable(agenda[t][i]),
               NEW p, Turn(t, p, 1), \A k \in DOMAIN p : p[k] \in Plain
        PROVE  Finalizers'
    <2>1. \A k \in DOMAIN p : p[k].do \notin {"respond", "run", "finalize"}
      BY <1>7 DEF Plain, Do
    <2> QED BY <1>0, <1>7, <2>1, FinalizersQuiet
  <1>2. CASE ActionFails(t)
    <2>1. UNCHANGED <<limits, conns, history>> /\ ~ended(t)
      BY <1>2, ActionFailsStructure
    <2>2. ASSUME server'.error, server'.actions = server.actions,
                 server'.joined = server.joined, NEW d, Turn(t, <<>>, d)
          PROVE  Finalizers'
      BY <1>1, <2>1, <2>2
    <2>3. ASSUME agenda[t][1].do = "run", agenda[t][1].op = "serving", UNCHANGED server,
                 NEW p, Turn(t, p, 1), \A k \in DOMAIN p : p[k] \in Plain
          PROVE  Finalizers'
      <3>1. \A i \in 1 .. 1 : Droppable(agenda[t][i])
        BY <2>3 DEF Droppable, Inert
      <3> QED BY <1>7, <2>1, <2>3, <3>1
    <2> QED BY <1>2, <2>2, <2>3, ActionFailsStructure
  <1>8. CASE RaiseAfterRelease(t)
    BY <1>1, <1>8, RaiseStructure
  <1>3. CASE EndBatch(t)
    <2>1. /\ UNCHANGED <<limits, conns, server, history>> /\ Turn(t, <<>>, 1)
          /\ ~ended(t) /\ agenda[t][1].do = "end_batch"
      BY <1>3, EndBatchStructure, AtFacts DEF EndBatch
    <2>2. Droppable(agenda[t][1])
      BY <2>1 DEF Droppable, Inert
    <2> QED BY <1>0, <2>1, <2>2, FinalizersOn
  <1>4. CASE Publish(t)
    <2>1. /\ UNCHANGED <<limits, conns>> /\ ~ended(t)
          /\ server'.actions = server.actions /\ server'.joined = server.joined
      BY <1>4, PublishStructure
    <2>2. ASSUME agenda[t][1].do = "publish", server'.error = server.error,
                 history' = [history EXCEPT !.failed = TRUE],
                 NEW p, Turn(t, p, 1), \A k \in DOMAIN p : p[k] \in Plain
          PROVE  Finalizers'
      <3>1. history'.owed = history.owed /\ history'.finalized = history.finalized
        BY <2>2, TypeFacts DEF Histories
      <3>2. \A i \in 1 .. 1 : Droppable(agenda[t][i])
        BY <2>2 DEF Droppable, Inert
      <3> QED BY <1>7, <2>1, <2>2, <3>1, <3>2
    <2>3. ASSUME agenda[t][1].do = "publish", server' = [server EXCEPT !.gate = t],
                 history' = [history EXCEPT !.published = TRUE],
                 NEW p, Turn(t, p, 1), DOMAIN p = {1}, p[1] = Do("open")
          PROVE  Finalizers'
      <3>1. history'.owed = history.owed /\ history'.finalized = history.finalized
        BY <2>3, TypeFacts DEF Histories
      <3>2. server'.error = server.error
        BY <2>3, TypeFacts DEF Servers
      <3>3. \A k \in DOMAIN p : p[k].do \notin {"respond", "run", "finalize"}
        BY <2>3 DEF Do
      <3>4. \A i \in 1 .. 1 : Droppable(agenda[t][i])
        BY <2>3 DEF Droppable, Inert
      <3>5. Turn(t, p, 1)
        BY <2>3
      <3> QED BY <1>0, <2>1, <3>1, <3>2, <3>3, <3>4, <3>5, FinalizersQuiet
    <2> QED BY <1>4, <2>2, <2>3, PublishStructure
  <1>5. CASE Open(t)
    <2>1. /\ UNCHANGED <<limits, conns>> /\ ~ended(t) /\ agenda[t][1].do = "open"
          /\ server'.actions = server.actions /\ server'.joined = server.joined
      BY <1>5, OpenStructure
    <2>2. PICK p : Turn(t, p, 1) /\ \A k \in DOMAIN p : p[k] \in Plain
      BY <1>5, OpenStructure
    <2>3. \A i \in 1 .. 1 : Droppable(agenda[t][i])
      BY <2>1 DEF Droppable, Inert
    <2>4. CASE /\ server'.error = server.error
               /\ history' = [history EXCEPT !.failed = TRUE]
      <3>1. history'.owed = history.owed /\ history'.finalized = history.finalized
        BY <2>4, TypeFacts DEF Histories
      <3> QED BY <1>7, <2>1, <2>2, <2>3, <2>4, <3>1
    <2>5. CASE /\ server' = [server EXCEPT !.gate = Nobody, !.bootstrap = FALSE]
               /\ UNCHANGED history
      <3>1. server'.error = server.error
        BY <2>5, TypeFacts DEF Servers
      <3> QED BY <1>7, <2>1, <2>2, <2>3, <2>5, <3>1
    <2> QED BY <1>5, <2>4, <2>5, OpenStructure
  <1>6. CASE ShutdownServer(t)
    <2>1. /\ UNCHANGED <<limits, conns, history>> /\ Turn(t, <<>>, 1)
          /\ \/ /\ agenda[t][1].do = "set_stop" /\ server' = [server EXCEPT !.stop = TRUE]
             \/ /\ agenda[t][1].do = "close_listener"
                /\ server' = [server EXCEPT !.listening = FALSE, !.bootstrap = FALSE]
      BY <1>6, ShutdownStructure
    <2>2. /\ server'.actions = server.actions /\ server'.joined = server.joined
          /\ server'.error = server.error
      BY <2>1, TypeFacts DEF Servers
    <2>3. Droppable(agenda[t][1]) /\ ~ended(t)
      BY <1>6, <2>1, AtFacts DEF Droppable, Inert, ShutdownServer
    <2> QED BY <1>0, <2>1, <2>2, <2>3, FinalizersOn
  <1> QED BY <1>2, <1>3, <1>4, <1>5, <1>6, <1>8, RunFinalizers, FinalizeFinalizers,
             StopFinalizers, MakeRoomFinalizers, DrainFinalizers, JoinFinalizers
          DEF Teardown

\* At the start there is no finalizer.
LEMMA InitFinalizers == ASSUME Init PROVE Finalizers
  <1>1. /\ history.owed = {} /\ history.finalized = <<>> /\ server.joined = {}
        /\ server.actions = <<Serving>>
    BY DEF Init
  <1>2. /\ agenda["main"] = <<Do("accept")>> /\ agenda["worker"] = <<Do("get")>>
        /\ agenda["maintenance"] = <<Do("wait")>>
    BY DEF Init, Threads
  <1>3. ASSUME NEW what PROVE DOMAIN <<Do(what)>> = {1} /\ <<Do(what)>>[1].do = what
    BY DEF Do
  <1>4. \A t \in Threads : \A k \in DOMAIN agenda[t] :
            agenda[t][k].do \in {"accept", "get", "wait"}
    BY <1>2, <1>3 DEF Threads
  <1>5. DOMAIN server.actions = {1} /\ server.actions[1].op = "serving"
    BY <1>1 DEF Serving
  <1>6. DOMAIN history.finalized = {}
    BY <1>1
  <1>7. ASSUME NEW x, NEW i, NEW c PROVE ~Token(x, i, c)
    BY <1>4, <1>5, <1>6 DEF Token, IsToken
  <1>8. Unique /\ HomeOK
    BY <1>7 DEF Unique, HomeOK, Home
  <1>9. OwedOK /\ JoinedEnded /\ Drained
    BY <1>1 DEF OwedOK, JoinedEnded, Drained
  <1> QED BY <1>8, <1>9 DEF Finalizers

\* Every step keeps the finalizers.
LEMMA FinalizersNext ==
    ASSUME Structure, Connections, Finalizers, [Next]_vars
    PROVE  Finalizers'
  <1>0. Structure'
    BY StructureNext
  <1>1. ASSUME UNCHANGED <<limits, conns, server, agenda, history>> PROVE Finalizers'
    <2>1. \A x, i, c : Token(x, i, c)' <=> Token(x, i, c)
      BY <1>1 DEF Token
    <2>2. \A c : Home(c)' <=> Home(c)
      BY <2>1 DEF Home
    <2>3. \A c : Responds(c)' <=> Responds(c)
      BY <1>1 DEF Responds
    <2>4. \A c : ToRespond(c)' <=> ToRespond(c)
      BY <1>1, <2>3 DEF ToRespond, Returns
    <2>5. Unique /\ HomeOK /\ OwedOK /\ JoinedEnded /\ Drained
      BY DEF Finalizers
    <2>6. Unique'
      BY <2>1, <2>5, Zenon DEF Unique
    <2>7. HomeOK'
      BY <1>1, <2>2, <2>3, <2>5 DEF HomeOK, Conns
    <2>8. OwedOK'
      BY <1>1, <2>2, <2>4, <2>5 DEF OwedOK, requests
    <2>9. JoinedEnded' /\ Drained'
      BY <1>1, <2>5 DEF JoinedEnded, ended, Drained, DrainAhead
    <2> QED BY <2>6, <2>7, <2>8, <2>9 DEF Finalizers
  <1>2. CASE UNCHANGED vars
    BY <1>1, <1>2 DEF vars
  <1>3. CASE \E c \in Conns : Age(c)
    BY <1>1, <1>3 DEF Age
  <1> QED BY <1>0, <1>2, <1>3, MainFinalizers, WorkerFinalizers,
             MaintenanceFinalizers, TeardownFinalizers DEF Next

\* What the finalizers come to.
LEMMA FinalizersGive ==
    ASSUME Structure, Finalizers
    PROVE  FinalizerRunsOnce
  <1>0. /\ Unique /\ HomeOK /\ OwedOK /\ JoinedEnded /\ Drained
        /\ "done" \in Places /\ "done" \notin Threads
    BY DEF Finalizers, Places, Threads
  <1>1. ASSUME NEW i \in DOMAIN history.finalized, NEW k \in DOMAIN history.finalized,
               history.finalized[i] = history.finalized[k]
        PROVE  i = k
    <2>1. PICK c : c = history.finalized[i]
      OBVIOUS
    <2>2. history.finalized \in Seq(Conns)
      BY TypeFacts DEF Histories
    <2>3. /\ DOMAIN history.finalized = 1 .. Len(history.finalized)
          /\ Len(history.finalized) \in Nat /\ c \in Conns
      BY <2>1, <2>2, LenProperties, ElementOfSeq
    <2>4. c \in Nat /\ i \in Nat /\ k \in Nat
      BY <2>3, TypeFacts
    <2>5. Token("done", i, c) /\ Token("done", k, c)
      BY <1>1, <2>1 DEF Token
    <2> QED BY <1>0, <2>4, <2>5 DEF Unique
  <1>2. ASSUME exited, server.joined = {"worker", "maintenance"}, ~server.error,
               NEW c \in history.owed
        PROVE  Finalized(c)
    <2>1. \A t \in Threads : DOMAIN agenda[t] = {}
      <3>1. \A t \in Threads : agenda[t] = <<>>
        BY <1>0, <1>2 DEF JoinedEnded, exited, ended, Threads
      <3> QED BY <3>1
    <2>2. "worker" \in Threads
      BY DEF Threads
    <2>3. Home(c)
      BY <1>0, <1>2, <2>1, <2>2 DEF OwedOK, ToRespond, Responds
    <2>4. PICK x \in Places, i \in Nat : Token(x, i, c)
      BY <2>3 DEF Home
    <2>5. ~DrainAhead
      BY <2>1 DEF DrainAhead
    <2>6. x = "done"
      BY <1>0, <1>2, <2>1, <2>4, <2>5 DEF Token, Drained
    <2> QED BY <1>0, <2>4, <2>6 DEF Token, Finalized
  <1> QED BY <1>1, <1>2 DEF FinalizerRunsOnce

-----------------------------------------------------------------------------
(* The theorems.                                                            *)

Inv == Structure /\ Flags /\ Connections /\ Finalizers

(* In every behaviour each thread's agenda is well formed, the flags and    *)
(* the connections agree with it, and each finalizer is in one place.       *)
THEOREM InvAlways == Spec => []Inv
  <1>1. Init => Inv
    BY InitStructure, InitFlags, InitConnections, InitFinalizers DEF Inv
  <1>2. Inv /\ [Next]_vars => Inv'
    BY StructureNext, FlagsNext, ConnectionsNext, FinalizersNext DEF Inv
  <1> QED BY <1>1, <1>2, PTL DEF Spec

(* For any requests and any queue size: the connection queue stays within   *)
(* _CONNECTION_QUEUE_MAXSIZE, the dirty signal is a flag, and each thread   *)
(* only ever has to do with connections that were accepted                  *)
(* (enqueue_connection, queue_maintenance_ticks).                           *)
THEOREM ServerTypes == Spec => []TypeOK
  <1>1. Inv => TypeOK
    BY DEF Inv, Structure
  <1> QED BY <1>1, InvAlways, PTL

(* A posted mutation is followed by a tick without waiting for the period   *)
(* (take_queued_maintenance_ticks, pop_after_response_actions).             *)
THEOREM WakeupKept == Spec => []NoLostWakeup
  <1>1. Inv => NoLostWakeup
    BY DEF Inv, Flags
  <1> QED BY <1>1, InvAlways, PTL

(* As long as serving has not stopped only ping is handled before the       *)
(* bootstrap is published, although the stop event and the bootstrap flags  *)
(* are read one after the other and shutdown_server does not take the gate: *)
(* a request that slips past the flags belongs to a server that has stopped *)
(* (handle_connection, finish_runtime_bootstrap, shutdown_server).          *)
THEOREM PublishedOrStopped == Spec => []UnpublishedIsStopped
  <1>1. Inv => UnpublishedIsStopped
    BY DEF Inv, Flags
  <1> QED BY <1>1, InvAlways, PTL

(* A connection that the server closes without an answer was not handled,   *)
(* and an open one waits in the queue exactly once (enqueue_connection,     *)
(* worker_loop, close_pending_connections).                                 *)
THEOREM ClosedUnhandled == Spec => []ClosedHasNoEffect
  <1>1. Inv => ClosedHasNoEffect
    BY DEF Inv, Connections
  <1> QED BY <1>1, InvAlways, PTL

(* The finalizer of a stop-all runs at most once, whichever thread drains   *)
(* the actions, and has run when the process ends with both workers joined  *)
(* and without an exception, however the three threads interleave           *)
(* (queue_after_response_action, run_after_response_actions,                *)
(* stop_maintenance_worker).                                                *)
THEOREM FinalizerOnce == Spec => []FinalizerRunsOnce
  <1>1. Inv => FinalizerRunsOnce
    BY FinalizersGive DEF Inv
  <1> QED BY <1>1, InvAlways, PTL
=============================================================================
