------------------------- MODULE MailboxStepsProofs -------------------------
(***************************************************************************)
(* The mailbox kernel at the grain of its file operations keeps the lane   *)
(* when operations do not overlap, for any number of events, claims and    *)
(* crashes.  What a crash leaves in the files is enough: an event in       *)
(* delivery is the head, and so is the event of a lease, unless it has     *)
(* left the inbox.  A thread between two file operations relies on one     *)
(* fact it has read (Expects), which only another thread could undo.       *)
(***************************************************************************)
EXTENDS MailboxSteps, OperatorLemmas

Busy(t) == ~At(t, "idle")

\* Where the caller of an operation goes on.
Continuations == {"idle", "term_load", "start", "rewrite_load"}

\* Every event that a thread or a file names is in the inbox.
Named ==
    /\ \A t \in Threads : /\ Busy(t) => /\ thread[t].e \in DOMAIN inbox
                                        /\ thread[t].arg \in DOMAIN inbox
                          /\ thread[t].then \in Continuations
    /\ running = 0 \/ running \in DOMAIN inbox
    /\ Acquired => lease.event \in DOMAIN inbox

Delivering(e) == inbox[e].status = "delivering"

\* What the files say between any two of the operations.
Lane ==
    /\ \A e \in Pending : Delivering(e) => IsHead(e)
    /\ LeaseNeverSkips

\* What thread t has read and relies on at its next write.
Expects(t) ==
    /\ At(t, "claim_append") \/ At(t, "claim_save") => IsHead(thread[t].e)
    /\ At(t, "rewrite_append") => thread[t].e \in Pending

Alone == \A t, u \in Threads : Busy(t) /\ Busy(u) => t = u

Serial ==
    MaxOverlap = 1 => Alone /\ Lane /\ \A t \in Threads : Expects(t)

Inv == TypeOK /\ Named /\ Serial
-----------------------------------------------------------------------------
(* Records and program counters.                                           *)

\* A thread that does nothing is well-typed.
LEMMA IdleType == TypeOK => Idle \in Local
  BY MailboxStepsAssumption
  DEF TypeOK, Idle, Local, Labels, Terminal, NoRecord, Record, MaxEvents

(* A thread that begins was idle, and with one operation at a time so were *)
(* all others.                                                             *)
LEMMA BeginAlone ==
    ASSUME TypeOK, MaxOverlap = 1,
           Cardinality({u \in Threads : Busy(u)}) < MaxOverlap
    PROVE  \A u \in Threads : ~Busy(u)
  <1> DEFINE B == {u \in Threads : Busy(u)}
  <1>1. IsFiniteSet(Threads)
    <2>1. IsFiniteSet({"socket"}) /\ Threads = {"socket"} \cup {"maintenance"}
      BY FS_Singleton DEF Threads
    <2> QED BY <2>1, FS_AddElement
  <1>2. IsFiniteSet(B)
    BY <1>1, FS_Subset
  <1>3. Cardinality(B) \in Nat
    BY <1>2, FS_CardinalityType
  <1>4. Cardinality(B) = 0
    BY <1>3
  <1>5. B = {}
    BY <1>2, <1>4, FS_EmptySet
  <1> QED BY <1>5
-----------------------------------------------------------------------------
(* What Begin, Goto, Return and Load do to the threads.                    *)

\* Thread t has gone to pc; the others stay where they are.
Moves(t, pc) ==
    /\ thread' \in [Threads -> Local]
    /\ \A u \in Threads \ {t} : thread'[u] = thread[u]
    /\ thread'[t].pc = pc
    /\ pc # "idle" => thread'[t].e \in DOMAIN inbox /\ thread'[t].arg \in DOMAIN inbox
    /\ thread'[t].then \in Continuations

\* Thread t has written record l.
LEMMA ThreadMoves ==
    ASSUME TypeOK, NEW t \in Threads, NEW l \in Local,
           thread' = [thread EXCEPT ![t] = l],
           l.pc # "idle" => l.e \in DOMAIN inbox /\ l.arg \in DOMAIN inbox,
           l.then \in Continuations
    PROVE  Moves(t, l.pc) /\ thread'[t] = l
  BY DEF TypeOK, Moves

\* Begin moves an idle thread.
LEMMA BeginMoves ==
    ASSUME TypeOK, NEW t \in Threads, NEW e \in DOMAIN inbox,
           NEW pc \in Labels \ {"idle"}, NEW goal \in Terminal,
           NEW then \in Continuations, Begin(t, pc, e, goal, then)
    PROVE  Moves(t, pc) /\ ~Busy(t)
  <1> DEFINE l == [Idle EXCEPT !.pc = pc, !.e = e, !.goal = goal,
                               !.then = then, !.arg = e]
  <1>1. e \in 0 .. MaxEvents
    BY MailboxStepsAssumption DEF TypeOK, MaxEvents
  <1>2. l \in Local /\ l.pc = pc /\ l.e = e /\ l.arg = e /\ l.then = then
    BY <1>1, IdleType, ZenonT(30) DEF Idle, Local, NoRecord, Record, Continuations, Labels
  <1>3. thread' = [thread EXCEPT ![t] = l] /\ ~Busy(t)
    BY DEF Begin, Busy
  <1> HIDE DEF l
  <1> QED BY <1>2, <1>3, ThreadMoves

\* Goto moves a busy thread, which keeps its event.
LEMMA GotoMoves ==
    ASSUME TypeOK, Named, NEW t \in Threads, Busy(t), NEW pc \in Labels,
           Goto(t, pc)
    PROVE  Moves(t, pc) /\ (pc # "idle" => thread'[t].e = thread[t].e)
  <1> DEFINE l == IF pc = "idle" THEN Idle ELSE [thread[t] EXCEPT !.pc = pc]
  <1>1. l \in Local /\ l.pc = pc /\ l.then \in Continuations
    BY IdleType DEF TypeOK, Named, Local, Idle, Continuations
  <1>2. pc # "idle" => l.e = thread[t].e /\ l.arg = thread[t].arg
    BY DEF TypeOK, Local
  <1>3. thread' = [thread EXCEPT ![t] = l]
    BY DEF Goto
  <1>4. thread[t].e \in DOMAIN inbox /\ thread[t].arg \in DOMAIN inbox
    BY DEF Named
  <1> HIDE DEF l
  <1> QED BY <1>1, <1>2, <1>3, <1>4, ThreadMoves

\* Return moves a busy thread to its continuation.
LEMMA ReturnMoves ==
    ASSUME TypeOK, Named, NEW t \in Threads, Busy(t), Return(t)
    PROVE  \E pc \in Continuations : Moves(t, pc)
  <1> DEFINE next == thread[t].then
             l == IF next = "idle" THEN Idle
                  ELSE [thread[t] EXCEPT !.pc = next, !.then = "idle"]
  <1>1. l \in Local /\ l.pc = next /\ l.then \in Continuations
        /\ next \in Continuations
    BY IdleType DEF TypeOK, Named, Local, Idle, Continuations, Labels
  <1>2. next # "idle" => l.e = thread[t].e /\ l.arg = thread[t].arg
    BY DEF TypeOK, Local
  <1>3. thread' = [thread EXCEPT ![t] = l]
    BY DEF Return
  <1>4. thread[t].e \in DOMAIN inbox /\ thread[t].arg \in DOMAIN inbox
    BY DEF Named
  <1> HIDE DEF l
  <1> QED BY <1>1, <1>2, <1>3, <1>4, ThreadMoves

\* Load moves a busy thread to another event.
LEMMA LoadMoves ==
    ASSUME TypeOK, Named, NEW t \in Threads, Busy(t),
           NEW pc \in Labels \ {"idle"}, NEW e \in DOMAIN inbox, Load(t, pc, e)
    PROVE  Moves(t, pc) /\ thread'[t].e = e
  <1> DEFINE l == [thread[t] EXCEPT !.pc = pc, !.e = e, !.current = inbox[e]]
  <1>1. e \in 0 .. MaxEvents /\ inbox[e] \in Record
    BY MailboxStepsAssumption DEF TypeOK, MaxEvents
  <1>2. thread[t].arg \in DOMAIN inbox /\ thread[t].then \in Continuations
    BY DEF Named
  <1>3. /\ l \in Local /\ l.pc = pc /\ l.e = e /\ l.arg = thread[t].arg
        /\ l.then = thread[t].then
    BY <1>1 DEF TypeOK, Local
  <1>4. thread' = [thread EXCEPT ![t] = l]
    BY DEF Load, TypeOK
  <1> HIDE DEF l
  <1> QED BY <1>2, <1>3, <1>4, ThreadMoves
-----------------------------------------------------------------------------
(* Two frames: what any move does to the types, and what a move does to    *)
(* the lane that writes neither the inbox nor the lease.                   *)

\* A move, with writes of the right types, keeps the types.
LEMMA MoveKeepsTypes ==
    ASSUME TypeOK, Named, NEW t \in Threads, NEW pc \in Labels, Moves(t, pc),
           inbox' \in Seq(Record), Len(inbox') = Len(inbox),
           lease' = lease \/ lease' = [event |-> 0, state |-> "none"]
             \/ \E e \in DOMAIN inbox, st \in {"acquired", "expired"} :
                    lease' = [event |-> e, state |-> st],
           running' \in {0, running} \cup DOMAIN inbox,
           claims' \in 0 .. MaxClaims, UNCHANGED <<crashes, limits>>
    PROVE  TypeOK' /\ Named'
  <1> USE DEF MaxEvents, MaxCrashes
  <1>1. /\ Len(inbox) \in Nat /\ DOMAIN inbox = 1 .. Len(inbox)
        /\ DOMAIN inbox' = DOMAIN inbox /\ MaxEvents \in Nat
    BY MailboxStepsAssumption DEF TypeOK
  <1>2. /\ lease' \in [event : 0 .. MaxEvents, state : {"none", "acquired", "expired"}]
        /\ Acquired' => lease'.event \in DOMAIN inbox
    BY <1>1 DEF TypeOK, Named, Acquired
  <1>3. thread' \in [Threads -> Local]'
    BY DEF Moves, Local
  <1>4. TypeOK'
    BY <1>1, <1>2, <1>3 DEF TypeOK
  <1>5. ASSUME NEW u \in Threads
        PROVE  /\ Busy(u)' => /\ thread'[u].e \in DOMAIN inbox'
                              /\ thread'[u].arg \in DOMAIN inbox'
               /\ thread'[u].then \in Continuations
    BY <1>1, <1>5 DEF Moves, Named, Busy, At
  <1>6. running' = 0 \/ running' \in DOMAIN inbox'
    BY <1>1 DEF Named
  <1> QED BY <1>1, <1>2, <1>4, <1>5, <1>6 DEF Named

\* Nobody else is in an operation when one at a time is the rule.
OthersIdle(t) == MaxOverlap = 1 => \A u \in Threads \ {t} : ~Busy(u)

\* In a serial behaviour the others are idle while one is busy.
LEMMA BusyIsAlone ==
    ASSUME Serial, NEW t \in Threads, Busy(t)
    PROVE  OthersIdle(t)
  BY DEF Serial, Alone, OthersIdle

Writes == {"claim_append", "claim_save", "rewrite_append"}

(* The lane and what the moving thread expects are all there is to show.   *)
LEMMA MoveIsSerial ==
    ASSUME NEW t \in Threads, NEW pc \in Labels, Moves(t, pc), OthersIdle(t),
           limits' = limits, MaxOverlap = 1 => Lane' /\ Expects(t)'
    PROVE  Serial'
  <1> SUFFICES ASSUME MaxOverlap = 1
               PROVE  Alone' /\ Lane' /\ \A u \in Threads : Expects(u)'
    BY DEF Serial, MaxOverlap
  <1>1. \A u \in Threads \ {t} : thread'[u].pc = "idle"
    BY DEF OthersIdle, Busy, At, Moves
  <1>2. Alone'
    BY <1>1 DEF Alone, Busy, At
  <1>3. \A u \in Threads \ {t} : Expects(u)'
    BY <1>1 DEF Expects, At
  <1> QED BY <1>2, <1>3

\* A move that writes nothing keeps the lane serial.
LEMMA QuietIsSerial ==
    ASSUME Serial, NEW t \in Threads, NEW pc \in Labels, Moves(t, pc),
           pc \in Writes => Expects(t)', OthersIdle(t),
           UNCHANGED <<inbox, lease, limits>>
    PROVE  Serial'
  <1> SUFFICES ASSUME MaxOverlap = 1
               PROVE  Lane' /\ Expects(t)'
    BY MoveIsSerial
  <1>1. Lane
    BY DEF Serial
  <1>2. Lane'
    BY <1>1 DEF Lane, IsHead, Pending, Delivering, LeaseNeverSkips, Acquired
  <1>3. Expects(t)'
    BY DEF Expects, At, Moves, Writes
  <1> QED BY <1>2, <1>3

(* An event that leaves the inbox, and a lease that goes, disturb nothing. *)
LEMMA LeavingKeepsLane ==
    ASSUME TypeOK, Lane, NEW e \in DOMAIN inbox, NEW r \in Record,
           r.status # "delivering", r.status \in Terminal \/ e \in Pending,
           inbox' = [inbox EXCEPT ![e] = r], lease' = lease
    PROVE  Lane'
  <1>1. Pending' \subseteq Pending
    BY DEF Pending, TypeOK
  <1>2. \A f \in Pending' : Delivering(f)' => Delivering(f)
    BY <1>1 DEF Delivering, Pending, TypeOK
  <1> QED BY <1>1, <1>2 DEF Lane, IsHead, LeaseNeverSkips, Acquired
-----------------------------------------------------------------------------
(* The steps.                                                              *)

(* A caller begins an operation on an event of the inbox.                  *)
LEMMA BeginKeeps ==
    ASSUME Inv, NEW t \in Threads, NEW e \in DOMAIN inbox,
           NEW pc \in Labels \ (Writes \cup {"idle"}), NEW goal \in Terminal,
           NEW then \in Continuations, Begin(t, pc, e, goal, then),
           running' \in {0, running}, claims' \in 0 .. MaxClaims,
           UNCHANGED <<inbox, lease, crashes, limits>>
    PROVE  Inv'
  <1>1. Moves(t, pc) /\ ~Busy(t)
    BY BeginMoves DEF Inv
  <1>2. OthersIdle(t)
    BY BeginAlone DEF Inv, OthersIdle, Begin, Busy
  <1>3. Serial'
    BY <1>1, <1>2, QuietIsSerial DEF Inv
  <1>4. inbox' \in Seq(Record) /\ Len(inbox') = Len(inbox)
    BY DEF Inv, TypeOK
  <1>5. TypeOK' /\ Named'
    BY <1>1, <1>4, MoveKeepsTypes DEF Inv
  <1> QED BY <1>3, <1>5 DEF Inv

\* Beginning an operation keeps the invariant.
LEMMA BeginsKeep ==
    ASSUME Inv,
           \/ \E e \in Pending : \/ BeginAck(e) \/ BeginCancel(e) \/ BeginStart(e)
                                 \/ BeginPrepare(e) \/ BeginRepairStall(e)
           \/ BeginComplete \/ BeginSweep
    PROVE  Inv'
  <1>1. /\ {"socket", "maintenance"} \subseteq Threads
        /\ {"consumed", "abandoned"} \subseteq Terminal
        /\ {"claim_load", "term_load", "rewrite_load", "expire_load"}
                \subseteq Labels \ (Writes \cup {"idle"})
        /\ Pending \subseteq DOMAIN inbox
    BY DEF Threads, Terminal, Labels, Writes, Pending
  <1>2. claims \in 0 .. MaxClaims /\ (CountClaim => claims' \in 0 .. MaxClaims)
    BY MailboxStepsAssumption DEF Inv, TypeOK, CountClaim
  <1>3. (running # 0 => running \in DOMAIN inbox) /\ (Acquired => lease.event \in DOMAIN inbox)
    BY DEF Inv, Named
  <1>4. {"idle", "term_load", "start", "rewrite_load"} \subseteq Continuations
    BY DEF Continuations
  <1>5. ASSUME NEW e \in Pending, BeginAck(e)
        PROVE  Inv'
    BY <1>1, <1>2, <1>4, <1>5, BeginKeeps DEF BeginAck
  <1>6. ASSUME NEW e \in Pending, BeginCancel(e)
        PROVE  Inv'
    <2> DEFINE goal == IF inbox[e].status = "queued" THEN "abandoned" ELSE "consumed"
    <2>1. goal \in Terminal
      BY <1>1
    <2>2. /\ Begin("socket", "term_load", e, goal, "idle") /\ running' \in {0, running}
          /\ claims' \in 0 .. MaxClaims /\ UNCHANGED <<inbox, lease, crashes, limits>>
      BY <1>2, <1>6 DEF BeginCancel
    <2> HIDE DEF goal
    <2> QED BY <1>1, <1>4, <2>1, <2>2, BeginKeeps
  <1>7. ASSUME NEW e \in Pending, BeginStart(e)
        PROVE  Inv'
    BY <1>1, <1>2, <1>4, <1>7, BeginKeeps DEF BeginStart
  <1>8. ASSUME NEW e \in Pending, BeginPrepare(e)
        PROVE  Inv'
    BY <1>1, <1>2, <1>4, <1>8, BeginKeeps DEF BeginPrepare
  <1>9. ASSUME NEW e \in Pending, BeginRepairStall(e)
        PROVE  Inv'
    BY <1>1, <1>2, <1>4, <1>9, BeginKeeps DEF BeginRepairStall
  <1>10. CASE BeginComplete
    BY <1>1, <1>2, <1>3, <1>4, <1>10, BeginKeeps DEF BeginComplete
  <1>11. CASE BeginSweep
    BY <1>1, <1>2, <1>3, <1>4, <1>11, BeginKeeps DEF BeginSweep
  <1> QED BY <1>5, <1>6, <1>7, <1>8, <1>9, <1>10, <1>11

(* A step that reads, or writes the job store: it goes on, returns to its  *)
(* caller or loads a record, and what it relies on afterwards it has read. *)
LEMMA ReadKeeps ==
    ASSUME Inv, NEW t \in Threads, Busy(t), NEW pc \in Labels, Moves(t, pc),
           pc \in Writes => Expects(t)',
           running' \in {0, running} \cup DOMAIN inbox,
           UNCHANGED <<inbox, lease, crashes, claims, limits>>
    PROVE  Inv'
  <1>1. Serial'
    BY BusyIsAlone, QuietIsSerial DEF Inv
  <1>2. inbox' \in Seq(Record) /\ Len(inbox') = Len(inbox) /\ claims' \in 0 .. MaxClaims
    BY DEF Inv, TypeOK
  <1>3. TypeOK' /\ Named'
    BY <1>2, MoveKeepsTypes DEF Inv
  <1> QED BY <1>1, <1>3 DEF Inv

(* A step that writes the lease.                                           *)
LEMMA LeaseKeeps ==
    ASSUME Inv, NEW t \in Threads, Busy(t), NEW pc \in Labels \ Writes,
           Moves(t, pc), UNCHANGED <<inbox, running, crashes, claims, limits>>,
           lease' = [event |-> 0, state |-> "none"]
             \/ \E e \in DOMAIN inbox, st \in {"acquired", "expired"} :
                    lease' = [event |-> e, state |-> st],
           MaxOverlap = 1 => LeaseNeverSkips'
    PROVE  Inv'
  <1>1. MaxOverlap = 1 => Lane'
    BY DEF Inv, Serial, Lane, IsHead, Pending, Delivering
  <1>2. MaxOverlap = 1 => Expects(t)'
    BY DEF Expects, At, Moves, Writes
  <1>3. Serial'
    BY <1>1, <1>2, BusyIsAlone, MoveIsSerial DEF Inv
  <1>4. inbox' \in Seq(Record) /\ Len(inbox') = Len(inbox) /\ claims' \in 0 .. MaxClaims
    BY DEF Inv, TypeOK
  <1>5. TypeOK' /\ Named'
    BY <1>4, MoveKeepsTypes DEF Inv
  <1> QED BY <1>3, <1>5 DEF Inv

(* A step that appends a record of an event.                               *)
LEMMA AppendKeeps ==
    ASSUME Inv, NEW t \in Threads, Busy(t), NEW pc \in Labels, Moves(t, pc),
           UNCHANGED <<lease, running, crashes, claims, limits>>,
           NEW r \in Record, inbox' = [inbox EXCEPT ![thread[t].e] = r],
           MaxOverlap = 1 => Lane' /\ Expects(t)'
    PROVE  Inv'
  <1>1. Serial'
    BY BusyIsAlone, MoveIsSerial DEF Inv
  <1>2. inbox' \in Seq(Record) /\ Len(inbox') = Len(inbox) /\ claims' \in 0 .. MaxClaims
    BY DEF Inv, TypeOK, Named
  <1>3. TypeOK' /\ Named'
    BY <1>2, MoveKeepsTypes DEF Inv
  <1> QED BY <1>1, <1>3 DEF Inv

(* Every file operation of a thread keeps the invariant.                   *)
LEMMA StepKeeps ==
    ASSUME Inv, NEW t \in Threads, Step(t)
    PROVE  Inv'
  <1> DEFINE e == thread[t].e
  <1>0. Continuations \subseteq Labels \ Writes
    BY DEF Continuations, Labels, Writes
  <1>1. TypeOK /\ Named
    BY DEF Inv
  <1>2. thread[t] \in Local /\ thread[t].current \in Record /\ thread[t].goal \in Terminal
    BY <1>1 DEF TypeOK, Local
  <1>3. Busy(t) => e \in DOMAIN inbox /\ thread[t].arg \in DOMAIN inbox
    BY <1>1 DEF Named
  <1>4. MaxOverlap = 1 => Lane /\ Expects(t)
    BY DEF Inv, Serial
  <1>5. Pending \subseteq DOMAIN inbox /\ \A f \in DOMAIN inbox : inbox[f] \in Record /\ f \in Nat
    BY <1>1 DEF Pending, TypeOK
  <1>6. ASSUME Busy(t), Return(t), running' \in {0, running} \cup DOMAIN inbox,
               UNCHANGED <<inbox, lease, crashes, claims, limits>>
        PROVE  Inv'
    BY <1>0, <1>1, <1>6, ReturnMoves, ReadKeeps
  <1>7. ASSUME Busy(t), NEW pc \in Labels \ Writes, Goto(t, pc),
               running' \in {0, running} \cup DOMAIN inbox,
               UNCHANGED <<inbox, lease, crashes, claims, limits>>
        PROVE  Inv'
    BY <1>1, <1>7, GotoMoves, ReadKeeps
  <1>8. ASSUME Busy(t), NEW pc \in Labels \ (Writes \cup {"idle"}),
               NEW f \in DOMAIN inbox, Load(t, pc, f),
               UNCHANGED <<inbox, lease, running, crashes, claims, limits>>
        PROVE  Inv'
    BY <1>1, <1>8, LoadMoves, ReadKeeps
  <1>9. /\ AfterClaimFailed(t) \in Labels \ Writes
        /\ {"idle", "claim_lease", "claim_head", "claim_append", "claim_save",
            "term_append", "term_lease", "term_load", "term_remove", "rewrite_append",
            "expire_remove", "expire_save"} \subseteq Labels
        /\ {"idle", "claim_lease", "claim_head", "term_append", "term_lease",
            "term_load", "term_remove", "expire_remove", "expire_save"} \cap Writes = {}
    BY DEF AfterClaimFailed, Labels, Writes
  <1>10. CASE ClaimLoad(t)
    <2>1. Busy(t)
      BY <1>10 DEF ClaimLoad, At, Busy
    <2> QED BY <1>3, <1>8, <1>9, <1>10, <2>1 DEF ClaimLoad
  <1>11. CASE ClaimLease(t)
    <2>1. Busy(t)
      BY <1>11 DEF ClaimLease, At, Busy
    <2> QED BY <1>6, <1>7, <1>9, <1>11, <2>1 DEF ClaimLease
  <1>12. CASE ClaimHead(t)
    <2>1. Busy(t)
      BY <1>12 DEF ClaimHead, At, Busy
    <2>2. CASE ~IsHead(e)
      BY <1>7, <1>9, <1>12, <2>1, <2>2 DEF ClaimHead
    <2>3. CASE IsHead(e)
      <3>1. Moves(t, "claim_append") /\ thread'[t].e = e
        BY <1>1, <1>9, <1>12, <2>1, <2>3, GotoMoves DEF ClaimHead
      <3>2. UNCHANGED <<inbox, lease, running, crashes, claims, limits>>
        BY <1>12 DEF ClaimHead
      <3>3. Expects(t)'
        BY <2>3, <3>1, <3>2 DEF Expects, At, Moves, IsHead, Pending
      <3> QED BY <1>9, <2>1, <3>1, <3>2, <3>3, ReadKeeps
    <2> QED BY <2>2, <2>3
  <1>13. CASE ClaimAppend(t)
    <2> DEFINE r == [thread[t].current EXCEPT !.status = "delivering"]
    <2>1. Busy(t) /\ r \in Record /\ r.status = "delivering"
      BY <1>2, <1>13 DEF ClaimAppend, At, Busy, Record
    <2>2. Moves(t, "claim_save") /\ thread'[t].e = e
      BY <1>1, <1>9, <1>13, <2>1, GotoMoves DEF ClaimAppend
    <2>3. /\ inbox' = [inbox EXCEPT ![e] = r]
          /\ UNCHANGED <<lease, running, crashes, claims, limits>>
      BY <1>13 DEF ClaimAppend
    <2>4. ASSUME MaxOverlap = 1
          PROVE  Lane' /\ Expects(t)'
      <3>1. IsHead(e) /\ Lane
        BY <1>4, <1>13, <2>4 DEF Expects, ClaimAppend
      <3>2. Pending' = Pending
        BY <1>1, <2>1, <2>3, <3>1 DEF Pending, TypeOK, IsHead, Terminal
      <3>3. \A f \in Pending : f # e => (Delivering(f)' <=> Delivering(f))
        BY <1>1, <2>3 DEF Delivering, Pending, TypeOK
      <3>4. Lane'
        BY <2>3, <3>1, <3>2, <3>3 DEF Lane, IsHead, LeaseNeverSkips, Acquired
      <3>5. Expects(t)'
        BY <2>2, <3>1, <3>2 DEF Expects, At, Moves, IsHead
      <3> QED BY <3>4, <3>5
    <2> HIDE DEF r
    <2> QED BY <1>9, <2>1, <2>2, <2>3, <2>4, AppendKeeps
  <1>14. CASE ClaimSave(t)
    <2>1. Busy(t)
      BY <1>14 DEF ClaimSave, At, Busy
    <2>2. PICK pc \in Labels \ Writes : Moves(t, pc)
      BY <1>0, <1>1, <1>14, <2>1, ReturnMoves DEF ClaimSave
    <2>3. MaxOverlap = 1 => LeaseNeverSkips'
      BY <1>4, <1>14 DEF ClaimSave, Expects, IsHead, LeaseNeverSkips, Acquired, Pending
    <2>4. /\ lease' = [event |-> e, state |-> "acquired"]
          /\ UNCHANGED <<inbox, running, crashes, claims, limits>>
      BY <1>14 DEF ClaimSave
    <2> QED BY <1>3, <2>1, <2>2, <2>3, <2>4, LeaseKeeps
  <1>15. CASE StartAppend(t)
    <2>1. Busy(t)
      BY <1>15 DEF StartAppend, At, Busy
    <2> QED BY <1>3, <1>7, <1>9, <1>15, <2>1 DEF StartAppend
  <1>16. CASE TermLoad(t)
    <2>1. Busy(t)
      BY <1>16 DEF TermLoad, At, Busy
    <2> QED BY <1>3, <1>6, <1>8, <1>9, <1>16, <2>1 DEF TermLoad
  <1>17. CASE TermAppend(t)
    <2> DEFINE r == [thread[t].current EXCEPT !.status = thread[t].goal]
    <2>1. Busy(t) /\ r \in Record /\ r.status \in Terminal /\ r.status # "delivering"
      BY <1>2, <1>17 DEF TermAppend, At, Busy, Record, Terminal
    <2>2. Moves(t, "term_lease")
      BY <1>1, <1>9, <1>17, <2>1, GotoMoves DEF TermAppend
    <2>3. /\ inbox' = [inbox EXCEPT ![e] = r]
          /\ UNCHANGED <<lease, running, crashes, claims, limits>>
      BY <1>17 DEF TermAppend
    <2> HIDE DEF r
    <2>4. MaxOverlap = 1 => Lane'
      BY <1>1, <1>3, <1>4, <2>1, <2>3, LeavingKeepsLane
    <2>5. Expects(t)'
      BY <2>2 DEF Expects, At, Moves
    <2> QED BY <1>9, <2>1, <2>2, <2>3, <2>4, <2>5, AppendKeeps
  <1>18. CASE TermLease(t)
    <2>1. Busy(t)
      BY <1>18 DEF TermLease, At, Busy
    <2> QED BY <1>6, <1>7, <1>9, <1>18, <2>1 DEF TermLease
  <1>19. CASE TermRemove(t) \/ ExpireRemove(t)
    <2>1. Busy(t)
      BY <1>19 DEF TermRemove, ExpireRemove, At, Busy
    <2>2. /\ Return(t) /\ lease' = [event |-> 0, state |-> "none"]
          /\ UNCHANGED <<inbox, running, crashes, claims, limits>>
      BY <1>19 DEF TermRemove, ExpireRemove
    <2>3. PICK pc \in Labels \ Writes : Moves(t, pc)
      BY <1>0, <1>1, <2>1, <2>2, ReturnMoves
    <2>4. LeaseNeverSkips'
      BY <2>2 DEF LeaseNeverSkips, Acquired
    <2> QED BY <2>1, <2>2, <2>3, <2>4, LeaseKeeps
  <1>20. CASE RewriteLoad(t)
    <2> DEFINE a == thread[t].arg
    <2>1. Busy(t)
      BY <1>20 DEF RewriteLoad, At, Busy
    <2>2. CASE inbox[a].status \in Terminal
      BY <1>7, <1>9, <1>20, <2>1, <2>2 DEF RewriteLoad
    <2>3. CASE inbox[a].status \notin Terminal
      <3>1. Moves(t, "rewrite_append") /\ thread'[t].e = a
        BY <1>1, <1>3, <1>9, <1>20, <2>1, <2>3, LoadMoves DEF RewriteLoad
      <3>2. UNCHANGED <<inbox, lease, running, crashes, claims, limits>>
        BY <1>20 DEF RewriteLoad
      <3>3. Expects(t)'
        BY <1>3, <2>1, <2>3, <3>1, <3>2 DEF Expects, At, Moves, Pending
      <3> QED BY <1>9, <2>1, <3>1, <3>2, <3>3, ReadKeeps
    <2> QED BY <2>2, <2>3
  <1>21. CASE RewriteAppend(t)
    <2> DEFINE r == [thread[t].current EXCEPT !.status = "queued", !.scheduled = TRUE]
    <2>1. Busy(t) /\ r \in Record /\ r.status # "delivering"
      BY <1>2, <1>21 DEF RewriteAppend, At, Busy, Record
    <2>2. Moves(t, "term_lease")
      BY <1>1, <1>9, <1>21, <2>1, GotoMoves DEF RewriteAppend
    <2>3. /\ inbox' = [inbox EXCEPT ![e] = r] /\ At(t, "rewrite_append")
          /\ UNCHANGED <<lease, running, crashes, claims, limits>>
      BY <1>21 DEF RewriteAppend
    <2> HIDE DEF r
    <2>4. ASSUME MaxOverlap = 1
          PROVE  Lane'
      <3>1. e \in Pending /\ Lane
        BY <1>4, <2>3, <2>4 DEF Expects
      <3> QED BY <1>1, <1>5, <2>1, <2>3, <3>1, LeavingKeepsLane
    <2>5. Expects(t)'
      BY <2>2 DEF Expects, At, Moves
    <2> QED BY <1>9, <2>1, <2>2, <2>3, <2>4, <2>5, AppendKeeps
  <1>22. CASE ExpireLoad(t)
    <2>1. Busy(t)
      BY <1>22 DEF ExpireLoad, At, Busy
    <2>2. Acquired => lease.event \in DOMAIN inbox
      BY <1>1 DEF Named
    <2> QED BY <1>6, <1>8, <1>9, <1>22, <2>1, <2>2 DEF ExpireLoad
  <1>23. CASE ExpireSave(t)
    <2>1. Busy(t)
      BY <1>23 DEF ExpireSave, At, Busy
    <2>2. Moves(t, "term_load")
      BY <1>1, <1>9, <1>23, <2>1, GotoMoves DEF ExpireSave
    <2>3. /\ lease' = [event |-> e, state |-> "expired"]
          /\ UNCHANGED <<inbox, running, crashes, claims, limits>>
      BY <1>23 DEF ExpireSave
    <2>4. LeaseNeverSkips'
      BY <2>3 DEF LeaseNeverSkips, Acquired
    <2> QED BY <1>3, <1>9, <2>1, <2>2, <2>3, <2>4, LeaseKeeps
  <1> QED BY <1>10, <1>11, <1>12, <1>13, <1>14, <1>15, <1>16, <1>17, <1>18,
             <1>19, <1>20, <1>21, <1>22, <1>23 DEF Step

(* A new event is the youngest: the head stays the head.                   *)
LEMMA RecordKeeps ==
    ASSUME Inv, NEW type \in {"task_request", "task_reply"}, RecordEvent(type)
    PROVE  Inv'
  <1> USE DEF MaxEvents, MaxCrashes
  <1>1. TypeOK /\ Named /\ Serial
    BY DEF Inv
  <1>n. PICK n \in Nat \ {0} : n = Len(inbox) + 1
    BY <1>1 DEF TypeOK
  <1>2. /\ inbox' \in Seq(Record) /\ Len(inbox') = n /\ n <= MaxEvents
        /\ DOMAIN inbox = 1 .. n - 1 /\ DOMAIN inbox' = 1 .. n /\ n \in Nat
        /\ MaxEvents \in Nat
        /\ \A e \in DOMAIN inbox : inbox'[e] = inbox[e]
        /\ inbox'[n].status = "queued"
    BY <1>1, <1>n, MailboxStepsAssumption DEF RecordEvent, TypeOK, Record
  <1>3. UNCHANGED <<lease, running, thread, crashes, claims, limits>>
    BY DEF RecordEvent
  <1>4. TypeOK'
    BY <1>1, <1>2, <1>3 DEF TypeOK, Local
  <1>5. Named'
    BY <1>1, <1>2, <1>3 DEF Named, Busy, At, Acquired
  <1>6. Pending' = Pending \cup {n} /\ n \notin DOMAIN inbox
    <2>1. DOMAIN inbox' = DOMAIN inbox \cup {n} /\ n \notin DOMAIN inbox
      BY <1>2
    <2>2. inbox'[n].status \notin Terminal
      BY <1>2 DEF Terminal
    <2> QED BY <1>2, <2>1, <2>2 DEF Pending
  <1>7. \A e \in Pending : e <= n /\ (Delivering(e)' <=> Delivering(e))
    BY <1>2 DEF Pending, Delivering
  <1>8. \A e \in Pending : IsHead(e) => IsHead(e)'
    BY <1>6, <1>7 DEF IsHead
  <1>9. ASSUME Lane
        PROVE  Lane'
    <2>1. ~Delivering(n)'
      BY <1>2 DEF Delivering
    <2>2. LeaseNeverSkips'
      BY <1>1, <1>2, <1>3, <1>6, <1>9 DEF Lane, LeaseNeverSkips, Acquired, Named
    <2> QED BY <1>6, <1>7, <1>8, <1>9, <2>1, <2>2 DEF Lane
  <1>10. \A t \in Threads : Expects(t) => Expects(t)'
    BY <1>3, <1>6, <1>8 DEF Expects, At, IsHead
  <1>11. Alone => Alone'
    BY <1>3 DEF Alone, Busy, At
  <1>12. Serial'
    BY <1>1, <1>3, <1>9, <1>10, <1>11 DEF Serial, MaxOverlap
  <1> QED BY <1>4, <1>5, <1>12 DEF Inv

(* A crash loses what the threads expect and leaves the lane.              *)
LEMMA CrashKeeps ==
    ASSUME Inv, Crash
    PROVE  Inv'
  <1> USE DEF MaxEvents, MaxCrashes
  <1>1. /\ \A t \in Threads : thread'[t] = Idle
        /\ UNCHANGED <<inbox, lease, running, claims, limits>>
    BY DEF Crash
  <1>2. TypeOK'
    BY <1>1, IdleType, MailboxStepsAssumption DEF Crash, Inv, TypeOK, Local
  <1>3. Named'
    BY <1>1 DEF Inv, Named, Busy, At, Idle, Acquired, Continuations
  <1>4. Serial'
    BY <1>1 DEF Inv, Serial, Alone, Lane, Expects, Busy, At, Idle, MaxOverlap,
                IsHead, Pending, Delivering, LeaseNeverSkips, Acquired
  <1> QED BY <1>2, <1>3, <1>4 DEF Inv

\* Nobody is busy and the inbox is empty.
LEMMA InitInv == Init => Inv
  <1> SUFFICES ASSUME Init PROVE Inv
    OBVIOUS
  <1> USE DEF MaxEvents, MaxCrashes
  <1>1. TypeOK
    BY MailboxStepsAssumption
    DEF Init, TypeOK, Idle, Local, Labels, Terminal, NoRecord, Record
  <1>2. Named
    BY DEF Init, Named, Busy, At, Idle, Acquired, Continuations
  <1>3. Serial
    BY DEF Init, Serial, Alone, Lane, Expects, Busy, At, Idle, Pending,
           LeaseNeverSkips, Acquired
  <1> QED BY <1>1, <1>2, <1>3 DEF Inv

\* One step per operation, as above.
LEMMA InvStep == Inv /\ [Next]_vars => Inv'
  <1> SUFFICES ASSUME Inv, [Next]_vars PROVE Inv'
    OBVIOUS
  <1>1. CASE UNCHANGED vars
    BY <1>1 DEF vars, Inv, TypeOK, Named, Serial, Alone, Lane, Expects, Busy, At,
                Local, MaxEvents, MaxCrashes, MaxOverlap, IsHead, Pending,
                Delivering, LeaseNeverSkips, Acquired
  <1> QED BY <1>1, RecordKeeps, BeginsKeep, StepKeeps, CrashKeeps DEF Next

(* The inductive invariant of the thread steps.                            *)
THEOREM StepsInvariant == Spec => []Inv
  <1> QED BY InitInv, InvStep, PTL DEF Spec

(* Every record, lease and loaded copy stays well formed, whatever the     *)
(* overlap and wherever the process crashes.                               *)
THEOREM StepsTypes == Spec => []TypeOK
  <1>1. Inv => TypeOK
    BY DEF Inv
  <1> QED BY <1>1, StepsInvariant, PTL

(* Claims, ends, rewrites and expiries that do not overlap keep one event  *)
(* in delivery and let no lease overtake an older event, for any number of *)
(* events and of crashes between their file operations.                    *)
THEOREM SerialLaneHolds == Spec => []SerialLane
  <1>1. Inv => SerialLane
    <2> SUFFICES ASSUME Inv, MaxOverlap = 1
                 PROVE  OneInDelivery /\ LeaseNeverSkips
      BY DEF SerialLane
    <2> DEFINE D == {e \in DOMAIN inbox : inbox[e].status = "delivering"}
    <2>1. Lane /\ TypeOK
      BY DEF Inv, Serial
    <2>2. D \subseteq Pending /\ \A e \in D : Delivering(e) /\ e \in Nat
      BY <2>1 DEF Pending, Delivering, Terminal, TypeOK
    <2>3. \A e, f \in D : e <= f
      BY <2>1, <2>2 DEF Lane, IsHead
    <2>4. \A e, f \in D : e = f
      BY <2>2, <2>3
    <2>5. Cardinality(D) <= 1
      BY <2>4, AtMostOne
    <2> QED BY <2>1, <2>5 DEF OneInDelivery, Lane
  <1> QED BY <1>1, StepsInvariant, PTL
=============================================================================
