-------------------------- MODULE DispatcherProofs --------------------------
(***************************************************************************)
(* Proofs about the dispatcher, in three layers.                           *)
(*                                                                         *)
(* Types and control (TypeInv) hold in every behaviour: whatever the two   *)
(* threads do and wherever the process ends, a thread works on a job there *)
(* is, every event of the mailbox names one, and the mailbox is consistent *)
(* (OperatorLemmas).                                                     *)
(*                                                                         *)
(* What makes the dispatcher correct (Inv) holds when no cancellation runs *)
(* beside another operation.  It says where the job, the attempt, the      *)
(* reply, the queue and the lane of the agent stand between any two writes *)
(* of an operation that is under way.  It rests on how a thread may move   *)
(* (Turn) and on which step writes which variable, so that each part of it *)
(* is looked at only where something it reads is written.                  *)
(*                                                                         *)
(* Lineages, answers and the order of the queue (Inv2) hold when nothing   *)
(* that a user asks of a job (a cancellation, a retry) runs beside another *)
(* operation: the attempts of a message are a line within the budget, the  *)
(* last of them is answered once it has ended, and the queue in memory is  *)
(* in the order of the mailbox.                                            *)
(***************************************************************************)
EXTENDS Dispatcher, OperatorLemmas, SequenceTheorems

\* No job is twice in q.
Distinct(q) == \A i, k \in DOMAIN q : q[i] = q[k] => i = k

\* A sequence over a set is one over every larger set.
LEMMA SeqGrows ==
    ASSUME NEW S, NEW T, S \subseteq T, NEW s \in Seq(S)
    PROVE  s \in Seq(T)
  OBVIOUS

\* RemoveFirst, place by place.
LEMMA RemoveFirstAt ==
    ASSUME NEW T, NEW q \in Seq(T), NEW x,
           NEW r, r = RemoveFirst(q, x)
    PROVE  /\ x \notin ToSet(q) => r = q
           /\ x \in ToSet(q) =>
                \E i \in DOMAIN q :
                    /\ q[i] = x /\ r \in Seq(T) /\ Len(r) = Len(q) - 1
                    /\ \A k \in 1 .. Len(r) :
                        r[k] = IF k < i THEN q[k] ELSE q[k + 1]
  <1>1. CASE x \notin ToSet(q)
    <2>1. ~\E i \in 1 .. Len(q) : q[i] = x
      BY <1>1 DEF ToSet
    <2>2. r = q
      BY <2>1 DEF RemoveFirst
    <2> QED BY <1>1, <2>2
  <1>2. CASE x \in ToSet(q)
    <2> DEFINE I == {k \in 1 .. Len(q) : q[k] = x}
    <2>1. I \in SUBSET Nat /\ I # {} /\ Len(q) \in Nat
      BY <1>2 DEF ToSet
    <2>2. PICK i \in I : i = Min(I)
      BY <2>1, MinNat
    <2>3. r = RemoveAt(q, i)
      BY <1>2, <2>1, <2>2 DEF RemoveFirst, SelectInSeq, ToSet
    <2>4. i \in 1 .. Len(q) /\ q[i] = x
      OBVIOUS
    <2> HIDE DEF I
    <2> DEFINE a == SubSeq(q, 1, i - 1)
               b == SubSeq(q, i + 1, Len(q))
    <2>5. /\ a \in Seq(T) /\ Len(a) = i - 1
          /\ \A k \in 1 .. i - 1 : a[k] = q[k]
      BY <2>1, <2>4, SubSeqProperties
    <2>6. /\ b \in Seq(T) /\ Len(b) = Len(q) - i
          /\ \A k \in 1 .. Len(q) - i : b[k] = q[k + i]
      BY <2>1, <2>4, SubSeqProperties
    <2>7. r = a \o b
      BY <2>3 DEF RemoveAt
    <2> HIDE DEF a, b
    <2>8. /\ r \in Seq(T) /\ Len(r) = Len(q) - 1
          /\ \A k \in 1 .. Len(r) : r[k] = IF k < i THEN q[k] ELSE q[k + 1]
      <3>1. r \in Seq(T) /\ Len(r) = Len(q) - 1
        <4>1. r \in Seq(T) /\ Len(r) = Len(a) + Len(b)
          <5>1. a \in Seq(T) /\ b \in Seq(T)
            BY <2>5, <2>6
          <5> QED BY <2>7, <5>1
        <4>2. Len(a) + Len(b) = Len(q) - 1
          BY <2>1, <2>4, <2>5, <2>6
        <4> QED BY <4>1, <4>2
      <3>2. ASSUME NEW k \in 1 .. Len(r), k < i PROVE r[k] = q[k]
        <4>1. k \in 1 .. Len(a) /\ k \in 1 .. Len(a) + Len(b)
          BY <2>1, <2>4, <2>5, <2>6, <3>1, <3>2
        <4> QED BY <2>5, <2>6, <2>7, <4>1
      <3>3. ASSUME NEW k \in 1 .. Len(r), ~(k < i) PROVE r[k] = q[k + 1]
        <4>1. /\ k \in 1 .. Len(a) + Len(b) /\ ~(k <= Len(a))
              /\ k - Len(a) \in 1 .. Len(q) - i
              /\ (k - Len(a)) + i = k + 1
          BY <2>1, <2>4, <2>5, <2>6, <3>1, <3>3
        <4>2. r[k] = b[k - Len(a)]
          BY <2>5, <2>6, <2>7, <4>1
        <4> QED BY <2>6, <4>1, <4>2
      <3> QED BY <3>1, <3>2, <3>3
    <2> QED BY <1>2, <2>4, <2>8 
  <1> QED BY <1>1, <1>2

\* list.remove takes the job off a queue that holds it once.
LEMMA RemoveFirstSet ==
    ASSUME NEW T, NEW q \in Seq(T), NEW x, Distinct(q),
           NEW r, r = RemoveFirst(q, x)
    PROVE  /\ r \in Seq(T) /\ Distinct(r)
           /\ ToSet(r) = ToSet(q) \ {x}
  <1>1. CASE x \notin ToSet(q)
    BY <1>1, RemoveFirstAt
  <1>2. CASE x \in ToSet(q)
    <2>1. PICK i \in DOMAIN q :
              /\ q[i] = x /\ r \in Seq(T) /\ Len(r) = Len(q) - 1
              /\ \A k \in 1 .. Len(r) :
                  r[k] = IF k < i THEN q[k] ELSE q[k + 1]
      BY <1>2, RemoveFirstAt
    <2>2. Len(q) \in Nat /\ DOMAIN q = 1 .. Len(q) /\ DOMAIN r = 1 .. Len(q) - 1
          /\ i \in 1 .. Len(q)
      BY <2>1
    <2>3. Distinct(r)
      BY <2>1, <2>2, SMTT(20) DEF Distinct
    <2>4. ASSUME NEW y \in ToSet(q), y # x PROVE y \in ToSet(r)
      <3>1. PICK k \in 1 .. Len(q) : q[k] = y
        BY <2>2, <2>4 DEF ToSet
      <3>2. CASE k < i
        BY <2>1, <2>2, <3>1, <3>2 DEF ToSet
      <3>3. CASE k > i
        <4>1. k - 1 \in 1 .. Len(q) - 1 /\ r[k - 1] = q[k]
          BY <2>1, <2>2, <3>3
        <4> QED BY <2>2, <3>1, <4>1 DEF ToSet
      <3> QED BY <2>1, <2>2, <2>4, <3>1, <3>2, <3>3
    <2>5. ASSUME NEW y \in ToSet(r) PROVE y \in ToSet(q) \ {x}
      <3>1. PICK k \in 1 .. Len(q) - 1 : r[k] = y
        BY <2>2, <2>5 DEF ToSet
      <3>2. PICK n \in 1 .. Len(q) : q[n] = y /\ n # i
        BY <2>1, <2>2, <3>1
      <3> QED BY <2>1, <2>2, <3>2 DEF ToSet, Distinct
    <2> QED BY <2>1, <2>3, <2>4, <2>5
  <1> QED BY <1>1, <1>2

\* A job that is appended is in the queue once if it was not in it before.
LEMMA AppendSet ==
    ASSUME NEW T, NEW q \in Seq(T), NEW x \in T, NEW r, r = Append(q, x)
    PROVE  /\ r \in Seq(T)
           /\ ToSet(r) = ToSet(q) \cup {x}
           /\ Distinct(q) /\ x \notin ToSet(q) => Distinct(r)
  <1>1. /\ r \in Seq(T) /\ Len(q) \in Nat /\ DOMAIN q = 1 .. Len(q)
        /\ DOMAIN r = 1 .. Len(q) + 1 /\ r[Len(q) + 1] = x
        /\ \A k \in 1 .. Len(q) : r[k] = q[k]
    OBVIOUS
  <1>2. ToSet(r) = ToSet(q) \cup {x}
    BY <1>1 DEF ToSet
  <1>3. Distinct(q) /\ x \notin ToSet(q) => Distinct(r)
    BY <1>1 DEF ToSet, Distinct
  <1> QED BY <1>1, <1>2, <1>3
-----------------------------------------------------------------------------
(* The threads: what Goto and Begin leave.                                 *)

\* A thread that does nothing.
LEMMA IdleFields ==
    /\ Idle \in Local /\ Idle.pc = "idle" /\ Idle.job = 0
    /\ Idle.then = "idle" /\ Idle.new = 0
    /\ QueuedJob \in Job /\ QueuedJob.status = "queued"
    /\ NoAttempt \in Attempt /\ NoAttempt.state = "none"
    /\ NoDecision \in Decision
  BY DEF Idle, Local, QueuedJob, Job, JobStatuses, NoDecision, Decision, Ended,
         Labels, NoAttempt, Attempt

\* The fields of a thread have their types.
LEMMA LocalFields ==
    ASSUME NEW l \in Local
    PROVE  /\ l.pc \in Labels /\ l.job \in Nat /\ l.seen \in Job
           /\ l.decision \in Decision /\ l.decision.status \in Ended
           /\ l.new \in Nat /\ l.then \in Labels
  BY DEF Local, Decision

\* Thread t goes on: its other fields and the other thread stay.
LEMMA GotoFacts ==
    ASSUME thread \in [Threads -> Local], NEW t \in Threads,
           NEW pc \in Labels, Goto(t, pc)
    PROVE  /\ thread' \in [Threads -> Local]
           /\ \A u \in Threads \ {t} : thread'[u] = thread[u]
           /\ thread'[t].pc = pc
           /\ pc = "idle" => thread'[t] = Idle
           /\ pc # "idle" => /\ thread'[t].job = thread[t].job
                             /\ thread'[t].seen = thread[t].seen
                             /\ thread'[t].decision = thread[t].decision
                             /\ thread'[t].new = thread[t].new
                             /\ thread'[t].then = thread[t].then
  <1>1. thread[t] \in Local
    OBVIOUS
  <1>2. PICK l : l = [thread[t] EXCEPT !.pc = pc]
    OBVIOUS
  <1>3. /\ l \in Local /\ l.pc = pc /\ l.job = thread[t].job
        /\ l.seen = thread[t].seen /\ l.decision = thread[t].decision
        /\ l.new = thread[t].new /\ l.then = thread[t].then
    BY <1>1, <1>2 DEF Local
  <1>4. thread' = [thread EXCEPT ![t] = IF pc = "idle" THEN Idle ELSE l]
    BY <1>2 DEF Goto
  <1> QED BY <1>3, <1>4, IdleFields

\* Thread t begins an operation.
LEMMA BeginFacts ==
    ASSUME thread \in [Threads -> Local], NEW t \in Threads,
           NEW pc \in Labels, NEW j \in Nat, NEW decision \in Decision,
           NEW then \in Labels, Begin(t, pc, j, decision, then)
    PROVE  /\ thread' \in [Threads -> Local]
           /\ \A u \in Threads \ {t} : thread'[u] = thread[u]
           /\ thread'[t].pc = pc /\ thread'[t].job = j
           /\ thread'[t].then = then /\ thread'[t].new = 0
  <1>1. PICK l : l = [Idle EXCEPT !.pc = pc, !.job = j,
                                  !.decision = decision, !.then = then]
    OBVIOUS
  <1>2. /\ l \in Local /\ l.pc = pc /\ l.job = j /\ l.then = then
        /\ l.new = 0
    BY <1>1, IdleFields DEF Local
  <1>3. thread' = [thread EXCEPT ![t] = l]
    BY <1>1 DEF Begin
  <1> QED BY <1>2, <1>3
-----------------------------------------------------------------------------
(* The writes.                                                             *)

\* A newer record of job j, which the reader sees instead of the last one.
LEMMA AppendJobFacts ==
    ASSUME jobs \in Seq(Job), NEW j \in DOMAIN jobs, NEW r \in Job,
           append_job(j, r)
    PROVE  /\ jobs' \in Seq(Job) /\ Len(jobs') = Len(jobs)
           /\ DOMAIN jobs' = DOMAIN jobs /\ jobs'[j] = r
           /\ \A k \in DOMAIN jobs : k # j => jobs'[k] = jobs[k]
  BY DEF append_job

\* A newer record of the attempt of job j: only its state changes.
LEMMA AppendAttemptFacts ==
    ASSUME attempts \in Seq(Attempt), NEW j \in DOMAIN attempts,
           NEW st \in {"running"} \cup Ended, append_attempt(j, st)
    PROVE  /\ attempts' \in Seq(Attempt) /\ Len(attempts') = Len(attempts)
           /\ attempts'[j].state = st
           /\ \A k \in DOMAIN attempts :
                /\ attempts'[k].message = attempts[k].message
                /\ attempts'[k].retry_index = attempts[k].retry_index
                /\ k # j => attempts'[k] = attempts[k]
  <1>1. attempts[j] \in Attempt
    OBVIOUS
  <1>2. PICK a : a = [attempts[j] EXCEPT !.state = st]
    OBVIOUS
  <1>3. /\ a \in Attempt /\ a.state = st /\ a.message = attempts[j].message
        /\ a.retry_index = attempts[j].retry_index
    BY <1>1, <1>2 DEF Attempt
  <1>4. attempts' = [attempts EXCEPT ![j] = a]
    BY <1>2 DEF append_attempt
  <1> QED BY <1>3, <1>4

\* The state of a message: no message is added or lost.
LEMMA SetMessageFacts ==
    ASSUME messages \in Seq(MessageStates), NEW m, NEW st \in MessageStates,
           set_message_state(m, st)
    PROVE  messages' \in Seq(MessageStates) /\ Len(messages') = Len(messages)
  <1>1. messages' = [k \in DOMAIN messages |-> IF k = m THEN st ELSE messages[k]]
    BY DEF set_message_state
  <1> QED BY <1>1

\* refresh_message_state gives one of the states.
LEMMA MessageStateType ==
    ASSUME NEW m, NEW rs
    PROVE  next_message_state(m, rs) \in MessageStates
  BY DEF next_message_state, MessageStates

\* The number of the next attempt is a natural: there is a highest one.
LEMMA RetryIndexType ==
    ASSUME TypeOK, NEW m
    PROVE  next_retry_index(m) \in Nat
  <1>1. CASE lineage(m) = {}
    BY <1>1 DEF next_retry_index
  <1>2. CASE lineage(m) # {}
    <2> DEFINE I == {attempts[j].retry_index : j \in lineage(m)}
    <2>1. lineage(m) \in SUBSET DOMAIN jobs /\ jobs \in Seq(Job)
      BY DEF lineage, TypeOK
    <2>2. IsFiniteSet(lineage(m))
      BY <2>1, IndicesFinite
    <2>3. \A j \in lineage(m) : attempts[j] \in Attempt
      BY <2>1 DEF TypeOK
    <2>4. I \in SUBSET Nat /\ I # {}
      BY <1>2, <2>3 DEF Attempt
    <2>5. IsFiniteSet(I)
      <3> DEFINE f == [j \in lineage(m) |-> attempts[j].retry_index]
      <3>1. f \in Surjection(lineage(m), I)
        BY DEF Surjection
      <3> QED BY <2>2, <3>1, FS_Surjection
    <2>6. \E i \in I : \A j \in lineage(m) : attempts[j].retry_index <= i
      BY <2>4, <2>5, GreatestNat
    <2>7. PICK i \in I : i = CHOOSE n \in I :
                                \A j \in lineage(m) : attempts[j].retry_index <= n
      BY <2>6
    <2>8. next_retry_index(m) = 1 + i
      BY <1>2, <2>7 DEF next_retry_index
    <2>9. i \in Nat
      BY <2>4
    <2> QED BY <2>8, <2>9
  <1> QED BY <1>1, <1>2

\* The event of a job, if it has one.
LEMMA EventOf ==
    ASSUME NEW j
    PROVE  /\ (\E e \in events(box) : box.inbox[e].ref = j) =>
                event_of(j) \in events(box) /\ box.inbox[event_of(j)].ref = j
           /\ ~(\E e \in events(box) : box.inbox[e].ref = j) => event_of(j) = 0
  BY DEF event_of

\* The rebuilt queue is the pending jobs of the store, each once.
LEMMA AdmissionSet ==
    ASSUME TypeOK, NEW q \in admission_ordered
    PROVE  /\ q \in Seq(DOMAIN jobs) /\ Distinct(q)
           /\ ToSet(q) = {j \in DOMAIN jobs : jobs[j].status = "queued"}
  <1> DEFINE pending == {j \in DOMAIN jobs : jobs[j].status = "queued"}
  <1>1. jobs \in Seq(Job) /\ box \in Mailbox
    BY DEF TypeOK
  <1>2. IsFiniteSet(pending) /\ pending \in SUBSET Nat
    BY <1>1, IndicesFinite
  <1>3. PICK n \in Nat : n = Cardinality(pending)
    BY <1>2, FS_CardinalityType
  <1>4. /\ q \in [1 .. n -> pending]
        /\ \A i, k \in 1 .. n :
            i < k => admission_position(q[i]) < admission_position(q[k])
    BY <1>3 DEF admission_ordered
  <1>5. \A j \in pending : admission_position(j) \in Nat
    BY <1>1, <1>2, PendingIds DEF admission_position, is_pending, Mailbox
  <1>6. \A i, k \in 1 .. n : q[i] = q[k] => i = k
    BY <1>4, <1>5
  <1>7. q \in Injection(1 .. n, pending)
    BY <1>4, <1>6 DEF Injection, IsInjective
  <1>8. IsFiniteSet(1 .. n) /\ Cardinality(1 .. n) = Cardinality(pending)
    BY <1>3, FS_Interval
  <1>9. q \in Surjection(1 .. n, pending)
    BY <1>2, <1>7, <1>8, FS_Injection
  <1>10. \A j \in pending : \E i \in 1 .. n : q[i] = j
    BY <1>9 DEF Surjection
  <1> QED BY <1>4, <1>6, <1>10 DEF Distinct, ToSet
-----------------------------------------------------------------------------
(* Types and control: whatever the threads do, in any order, each works on *)
(* a job there is, and the mailbox is consistent.                          *)

Recording == {"record_attempt", "record_event"}

ThreadOK(l, n) ==
    /\ l.job \in 0 .. n
    /\ l.then \in {"idle", "finish", "unqueue", "restored"}
    /\ l.pc \notin {"idle", "enqueue"} \cup Recording => l.job # 0
    /\ l.pc \in Recording => l.new \in 1 .. n
    /\ l.then # "idle" => l.job # 0

\* Every event of the mailbox is the request of a job.
RequestsOK(b, n) ==
    \A e \in events(b) : b.inbox[e].ref \in 1 .. n /\ b.inbox[e].type = "task_request"

Control ==
    /\ \A t \in Threads : ThreadOK(thread[t], Len(jobs))
    /\ thread["socket"].then = "idle"
    /\ RequestsOK(box, Len(jobs))

TypeInv == TypeOK /\ Consistent(box) /\ Control

\* What TypeInv says of thread t.
LEMMA ThreadFacts ==
    ASSUME TypeInv, NEW t \in Threads
    PROVE  /\ thread \in [Threads -> Local] /\ thread[t] \in Local
           /\ thread[t].pc \in Labels /\ thread[t].then \in Labels
           /\ thread[t].seen \in Job
           /\ thread[t].decision \in Decision /\ thread[t].decision.status \in Ended
           /\ ThreadOK(thread[t], Len(jobs))
           /\ thread[t].job \in Nat /\ Len(jobs) \in Nat
           /\ jobs \in Seq(Job) /\ DOMAIN jobs = 1 .. Len(jobs)
           /\ attempts \in Seq(Attempt) /\ DOMAIN attempts = 1 .. Len(jobs)
           /\ thread[t].job # 0 => /\ thread[t].job \in DOMAIN jobs
                                   /\ thread[t].job \in DOMAIN attempts
  <1>1. /\ thread \in [Threads -> Local] /\ thread[t] \in Local
        /\ jobs \in Seq(Job) /\ Len(jobs) \in Nat
        /\ attempts \in Seq(Attempt) /\ Len(attempts) = Len(jobs)
    BY DEF TypeInv, TypeOK
  <1>2. ThreadOK(thread[t], Len(jobs))
    BY DEF TypeInv, Control
  <1> QED BY <1>1, <1>2, LocalFields DEF ThreadOK

\* Requests stay requests: no operation changes the job of an event, and
\* there are never fewer jobs.
LEMMA RequestsKept ==
    ASSUME NEW b, NEW c, NEW n \in Nat, NEW m \in Nat, n <= m,
           RequestsOK(b, n), SameEvents(b, c)
    PROVE  RequestsOK(c, m)
  BY DEF RequestsOK, SameEvents, events

\* What a thread works on stays in the store when the store grows.
LEMMA ThreadKept ==
    ASSUME NEW l, NEW n \in Nat, NEW m \in Nat, n <= m, ThreadOK(l, n)
    PROVE  ThreadOK(l, m)
  BY DEF ThreadOK

\* Steps that change the threads and the bounds only.
LEMMA MovesType ==
    ASSUME TypeInv, UNCHANGED <<durable, queue, active, exec, starting>>,
           lock' \in Threads \cup {"none"},
           thread' \in [Threads -> Local],
           \A t \in Threads : ThreadOK(thread'[t], Len(jobs)),
           thread'["socket"].then = "idle",
           retries' \in 0 .. MaxRetries, cancels' \in 0 .. MaxCancels,
           crashes' \in 0 .. MaxCrashes, limits' = limits
    PROVE  TypeInv'
  <1>1. TypeOK'
    BY DEF TypeInv, TypeOK, durable, MaxRetries, MaxCancels, MaxCrashes
  <1>2. Control'
    BY DEF TypeInv, Control, durable
  <1>3. Consistent(box')
    BY DEF TypeInv, durable
  <1> QED BY <1>1, <1>2, <1>3 DEF TypeInv

\* The bounds, where a step leaves them alone.
LEMMA BoundsKept ==
    ASSUME TypeInv
    PROVE  /\ retries \in 0 .. MaxRetries /\ cancels \in 0 .. MaxCancels
           /\ crashes \in 0 .. MaxCrashes /\ lock \in Threads \cup {"none"}
           /\ MaxRetries \in Nat /\ MaxCancels \in Nat /\ MaxCrashes \in Nat
           /\ limits \in Limits
  BY DispatcherAssumption DEF TypeInv, TypeOK, MaxRetries, MaxCancels, MaxCrashes

\* A thread that goes on with the job it has, or to rest.
LEMMA GoesOnOK ==
    ASSUME TypeInv, NEW t \in Threads, NEW pc \in Labels, Goto(t, pc),
           pc \in Recording => thread[t].new \in 1 .. Len(jobs),
           pc \notin {"idle", "enqueue"} \cup Recording => thread[t].job # 0
    PROVE  /\ thread' \in [Threads -> Local]
           /\ \A u \in Threads : ThreadOK(thread'[u], Len(jobs))
           /\ thread'["socket"].then = "idle"
           /\ \A u \in Threads \ {t} : thread'[u] = thread[u]
  <1>1. thread \in [Threads -> Local] /\ Len(jobs) \in Nat
    BY ThreadFacts
  <1>2. /\ \A u \in Threads : ThreadOK(thread[u], Len(jobs))
        /\ thread["socket"].then = "idle"
    BY DEF TypeInv, Control
  <1>3. ThreadOK(Idle, Len(jobs)) /\ Idle.then = "idle"
    BY <1>1, IdleFields DEF ThreadOK, Recording
  <1>4. /\ thread' \in [Threads -> Local]
        /\ \A u \in Threads \ {t} : thread'[u] = thread[u]
        /\ thread'[t].pc = pc
        /\ pc = "idle" => thread'[t] = Idle
        /\ pc # "idle" => /\ thread'[t].job = thread[t].job
                          /\ thread'[t].new = thread[t].new
                          /\ thread'[t].then = thread[t].then
    BY <1>1, GotoFacts
  <1>5. ThreadOK(thread'[t], Len(jobs))
    BY <1>2, <1>3, <1>4 DEF ThreadOK
  <1> QED BY <1>2, <1>3, <1>4, <1>5 DEF Threads

\* A thread that begins with a job there is.
LEMMA BeginsOK ==
    ASSUME TypeInv, NEW t \in Threads, NEW pc \in Labels, NEW j \in 0 .. Len(jobs),
           NEW decision \in Decision,
           NEW then \in {"idle", "finish", "unqueue", "restored"},
           Begin(t, pc, j, decision, then),
           pc \notin Recording, pc # "enqueue" => j # 0,
           then # "idle" => j # 0 /\ t # "socket"
    PROVE  /\ thread' \in [Threads -> Local]
           /\ \A u \in Threads : ThreadOK(thread'[u], Len(jobs))
           /\ thread'["socket"].then = "idle"
  <1>1. thread \in [Threads -> Local] /\ Len(jobs) \in Nat /\ j \in Nat
    BY ThreadFacts
  <1>2. /\ \A u \in Threads : ThreadOK(thread[u], Len(jobs))
        /\ thread["socket"].then = "idle"
    BY DEF TypeInv, Control
  <1>3. then \in Labels
    BY DEF Labels
  <1>4. /\ thread' \in [Threads -> Local]
        /\ \A u \in Threads \ {t} : thread'[u] = thread[u]
        /\ thread'[t].pc = pc /\ thread'[t].job = j /\ thread'[t].then = then
    BY <1>1, <1>3, BeginFacts
  <1>5. ThreadOK(thread'[t], Len(jobs))
    BY <1>4 DEF ThreadOK, Recording
  <1> QED BY <1>2, <1>4, <1>5 DEF Threads

\* A thread that loads the record of a job there is.
LEMMA LoadsOK ==
    ASSUME TypeInv, NEW t \in Threads, NEW j \in DOMAIN jobs,
           NEW pc \in {"preclaim", "cancel_mark", "restore"},
           thread'[t] \in Local, thread'[t].pc = pc, thread'[t].job = j,
           thread'[t].then = "idle", DOMAIN thread' = Threads,
           \A u \in Threads \ {t} : thread'[u] = thread[u]
    PROVE  /\ \A u \in Threads : ThreadOK(thread'[u], Len(jobs))
           /\ thread'["socket"].then = "idle"
  <1>1. /\ \A u \in Threads : ThreadOK(thread[u], Len(jobs))
        /\ thread["socket"].then = "idle"
        /\ DOMAIN jobs = 1 .. Len(jobs) /\ Len(jobs) \in Nat
    BY ThreadFacts DEF TypeInv, Control
  <1>2. ThreadOK(thread'[t], Len(jobs))
    BY <1>1 DEF ThreadOK, Recording
  <1> QED BY <1>1, <1>2 DEF Threads

\* Submit, Retry and RetryCheck.
LEMMA SubmitType ==
    ASSUME TypeInv, Submit
    PROVE  TypeInv'
  <1>1. /\ thread' \in [Threads -> Local]
        /\ \A u \in Threads : ThreadOK(thread'[u], Len(jobs))
        /\ thread'["socket"].then = "idle"
    <2>1. Begin("socket", "enqueue", 0, NoDecision, "idle")
      BY DEF Submit
    <2>2. "socket" \in Threads /\ "enqueue" \in Labels /\ 0 \in 0 .. Len(jobs)
          /\ "enqueue" \notin Recording
      BY ThreadFacts DEF Threads, Labels, Recording
    <2> QED BY <2>1, <2>2, BeginsOK, IdleFields
  <1>2. /\ UNCHANGED <<durable, queue, active, exec, starting, bounds>>
        /\ lock' \in Threads \cup {"none"}
    BY DEF Submit, Threads
  <1> QED BY <1>1, <1>2, BoundsKept, MovesType DEF bounds

\* A retry begins on a job there is.
LEMMA RetryType ==
    ASSUME TypeInv, NEW j \in DOMAIN jobs, Retry(j)
    PROVE  TypeInv'
  <1>1. /\ thread' \in [Threads -> Local]
        /\ \A u \in Threads : ThreadOK(thread'[u], Len(jobs))
        /\ thread'["socket"].then = "idle"
    <2>1. Begin("socket", "retry_check", j, NoDecision, "idle")
      BY DEF Retry
    <2>2. /\ "socket" \in Threads /\ "retry_check" \in Labels
          /\ j \in 0 .. Len(jobs) /\ j # 0 /\ "retry_check" \notin Recording
      BY ThreadFacts DEF Threads, Labels, Recording
    <2> QED BY <2>1, <2>2, BeginsOK, IdleFields
  <1>2. /\ UNCHANGED <<durable, memory, cancels, crashes, limits>>
        /\ retries' \in 0 .. MaxRetries
    BY BoundsKept DEF Retry
  <1> QED BY <1>1, <1>2, BoundsKept, MovesType DEF memory

\* retry_check goes on with the job it was given.
LEMMA RetryCheckType ==
    ASSUME TypeInv, NEW t \in Threads, RetryCheck(t)
    PROVE  TypeInv'
  <1>0. thread[t].job # 0
    BY ThreadFacts DEF RetryCheck, At, ThreadOK, Recording
  <1>1. PICK pc \in {"enqueue", "idle", "reply"} : Goto(t, pc)
    BY DEF RetryCheck
  <1>2. pc \in Labels /\ pc \notin Recording
    BY DEF Labels, Recording
  <1>3. /\ thread' \in [Threads -> Local]
        /\ \A u \in Threads : ThreadOK(thread'[u], Len(jobs))
        /\ thread'["socket"].then = "idle"
    BY <1>0, <1>1, <1>2, GoesOnOK
  <1>4. UNCHANGED <<durable, memory, bounds>>
    BY DEF RetryCheck
  <1> QED BY <1>3, <1>4, BoundsKept, MovesType DEF memory, bounds

\* What TypeInv says of the stores and of the memory.
LEMMA StoreFacts ==
    ASSUME TypeInv
    PROVE  /\ jobs \in Seq(Job) /\ attempts \in Seq(Attempt)
           /\ Len(attempts) = Len(jobs) /\ Len(jobs) \in Nat
           /\ DOMAIN jobs = 1 .. Len(jobs) /\ DOMAIN attempts = 1 .. Len(jobs)
           /\ messages \in Seq(MessageStates)
           /\ replies \in Seq([job : DOMAIN jobs, status : Ended])
           /\ Consistent(box) /\ RequestsOK(box, Len(jobs)) /\ box \in Mailbox
           /\ queue \in Seq(DOMAIN jobs) /\ active \in {0} \cup DOMAIN jobs
           /\ exec \subseteq DOMAIN jobs /\ starting \in {0} \cup DOMAIN jobs
           /\ TypeOK
  BY DEF TypeInv, TypeOK, Control

\* Steps that write records of jobs there are.
LEMMA WritesType ==
    ASSUME TypeInv,
           jobs' \in Seq(Job), Len(jobs') = Len(jobs),
           attempts' \in Seq(Attempt), Len(attempts') = Len(attempts),
           messages' \in Seq(MessageStates),
           replies' \in Seq([job : DOMAIN jobs, status : Ended]),
           Consistent(box'), RequestsOK(box', Len(jobs)),
           queue' \in Seq(DOMAIN jobs), active' \in {0} \cup DOMAIN jobs,
           exec' \subseteq DOMAIN jobs, starting' \in {0} \cup DOMAIN jobs,
           lock' \in Threads \cup {"none"},
           thread' \in [Threads -> Local],
           \A t \in Threads : ThreadOK(thread'[t], Len(jobs)),
           thread'["socket"].then = "idle",
           retries' \in 0 .. MaxRetries, cancels' \in 0 .. MaxCancels,
           crashes' \in 0 .. MaxCrashes, limits' = limits
    PROVE  TypeInv'
  <1>0. /\ DOMAIN jobs' = DOMAIN jobs /\ Len(attempts) = Len(jobs)
        /\ limits \in Limits /\ box' \in Mailbox
    BY StoreFacts, BoundsKept DEF Consistent
  <1>1. TypeOK'
    BY <1>0 DEF TypeOK, MaxRetries, MaxCancels, MaxCrashes
  <1>2. Control'
    BY DEF Control
  <1> QED BY <1>1, <1>2 DEF TypeInv

\* Enqueue adds a job and its place in the attempts.
LEMMA EnqueueFacts ==
    ASSUME TypeInv, NEW t \in Threads, Enqueue(t)
    PROVE  /\ jobs' \in Seq(Job) /\ Len(jobs') = Len(jobs) + 1
           /\ jobs'[Len(jobs) + 1] = QueuedJob
           /\ \A j \in DOMAIN jobs : j \in DOMAIN jobs' /\ jobs'[j] = jobs[j]
           /\ attempts' \in Seq(Attempt) /\ Len(attempts') = Len(jobs) + 1
           /\ attempts'[Len(jobs) + 1] = NoAttempt
           /\ \A j \in DOMAIN jobs : attempts'[j] = attempts[j]
           /\ thread' \in [Threads -> Local]
           /\ \A u \in Threads \ {t} : thread'[u] = thread[u]
           /\ thread'[t].pc = "record_attempt" /\ thread'[t].new = Len(jobs) + 1
           /\ thread'[t].job = thread[t].job /\ thread'[t].then = thread[t].then
           /\ thread'[t].decision = thread[t].decision
  <1>1. PICK n \in Nat : n = Len(jobs) + 1
    BY StoreFacts
  <1>2. thread \in [Threads -> Local] /\ thread[t] \in Local
    BY ThreadFacts
  <1>3. PICK l : l = [thread[t] EXCEPT !.pc = "record_attempt", !.new = n]
    OBVIOUS
  <1>4. /\ l \in Local /\ l.pc = "record_attempt" /\ l.new = n
        /\ l.job = thread[t].job /\ l.then = thread[t].then
        /\ l.decision = thread[t].decision
    BY <1>2, <1>3 DEF Local, Labels
  <1>5. thread' = [thread EXCEPT ![t] = l]
    BY <1>1, <1>2, <1>3 DEF Enqueue
  <1>6. jobs' = Append(jobs, QueuedJob) /\ attempts' = Append(attempts, NoAttempt)
    BY DEF Enqueue
  <1> QED BY <1>1, <1>2, <1>4, <1>5, <1>6, IdleFields, StoreFacts

\* Enqueue adds one job, and its thread works on that one next.
LEMMA EnqueueType ==
    ASSUME TypeInv, NEW t \in Threads, Enqueue(t)
    PROVE  TypeInv'
  <1>1. PICK n \in Nat : n = Len(jobs) + 1
    BY StoreFacts
  <1>2. /\ jobs' \in Seq(Job) /\ Len(jobs') = n /\ Len(jobs) \in Nat
        /\ DOMAIN jobs' = 1 .. n /\ DOMAIN jobs = 1 .. Len(jobs) /\ n = Len(jobs) + 1
        /\ DOMAIN jobs \subseteq DOMAIN jobs'
    BY <1>1, EnqueueFacts, StoreFacts
  <1>3. /\ attempts' \in Seq(Attempt) /\ Len(attempts') = Len(jobs')
    BY <1>1, EnqueueFacts
  <1>4. replies' \in Seq([job : DOMAIN jobs', status : Ended])
    <2>1. [job : DOMAIN jobs, status : Ended] \subseteq
                [job : DOMAIN jobs', status : Ended]
      BY <1>2
    <2>2. replies \in Seq([job : DOMAIN jobs, status : Ended]) /\ replies' = replies
      BY StoreFacts DEF Enqueue
    <2> QED BY <2>1, <2>2, SeqGrows
  <1>5. queue' \in Seq(DOMAIN jobs')
    <2>1. queue \in Seq(DOMAIN jobs')
      BY <1>2, StoreFacts
    <2> QED BY <1>1, <1>2, <2>1 DEF Enqueue
  <1>6. /\ active' \in {0} \cup DOMAIN jobs' /\ exec' \subseteq DOMAIN jobs'
        /\ starting' \in {0} \cup DOMAIN jobs'
        /\ messages' \in Seq(MessageStates) /\ Consistent(box') /\ box' \in Mailbox
    BY <1>2, StoreFacts DEF Enqueue
  <1>7. /\ thread' \in [Threads -> Local]
        /\ \A u \in Threads \ {t} : thread'[u] = thread[u]
        /\ thread'[t].pc = "record_attempt" /\ thread'[t].new = n
        /\ thread'[t].job = thread[t].job /\ thread'[t].then = thread[t].then
    BY <1>1, EnqueueFacts
  <1>8. \A u \in Threads : ThreadOK(thread'[u], n)
    <2>1. \A u \in Threads : ThreadOK(thread[u], n)
      BY <1>1, <1>2, ThreadKept DEF TypeInv, Control
    <2>2. ThreadOK(thread'[t], n)
      BY <1>2, <1>7, <2>1 DEF ThreadOK, Recording
    <2> QED BY <1>7, <2>1, <2>2
  <1>9. Control'
    <2>1. thread'["socket"].then = "idle"
      BY <1>7 DEF TypeInv, Control, Threads
    <2>2. RequestsOK(box, n)
      BY <1>2, StoreFacts DEF RequestsOK
    <2> QED BY <1>2, <1>8, <2>1, <2>2 DEF Control, Enqueue
  <1>10. /\ lock' \in Threads \cup {"none"}
         /\ retries' \in 0 .. limits'.retries /\ cancels' \in 0 .. limits'.cancels
         /\ crashes' \in 0 .. limits'.crashes /\ limits' \in Limits
    BY BoundsKept DEF Enqueue, bounds, MaxRetries, MaxCancels, MaxCrashes
  <1>11. TypeOK'
    BY <1>2, <1>3, <1>4, <1>5, <1>6, <1>7, <1>10
       DEF TypeOK, MaxRetries, MaxCancels, MaxCrashes
  <1> QED BY <1>6, <1>9, <1>11 DEF TypeInv

\* RecordAttempt writes the attempt of the new job.
LEMMA RecordAttemptFacts ==
    ASSUME TypeInv, NEW t \in Threads, RecordAttempt(t)
    PROVE  /\ thread[t].new \in DOMAIN jobs
           /\ attempts' \in Seq(Attempt) /\ Len(attempts') = Len(attempts)
           /\ attempts'[thread[t].new].state = "pending"
           /\ \A k \in DOMAIN jobs : k # thread[t].new => attempts'[k] = attempts[k]
           /\ messages' \in Seq(MessageStates)
           /\ Goto(t, "record_event")
           /\ UNCHANGED <<jobs, replies, box, memory, bounds>>
  <1>1. thread[t].new \in DOMAIN jobs
    BY ThreadFacts DEF RecordAttempt, At, ThreadOK, Recording
  <1>2. PICK m \in Nat : /\ m = IF thread[t].job = 0 THEN Len(messages) + 1
                                ELSE message_of(thread[t].job)
    <2>1. thread[t].job # 0 => message_of(thread[t].job) \in Nat
      <3>1. thread[t].job # 0 => attempts[thread[t].job] \in Attempt
        BY ThreadFacts
      <3> QED BY <3>1 DEF message_of, Attempt
    <2>2. Len(messages) + 1 \in Nat
      BY StoreFacts
    <2> QED BY <2>1, <2>2
  <1>3. PICK a : a = [message |-> m, state |-> "pending",
                      retry_index |-> next_retry_index(m)]
    OBVIOUS
  <1>4. a \in Attempt /\ a.state = "pending"
    BY <1>3, RetryIndexType, StoreFacts DEF Attempt
  <1>5. attempts' = [attempts EXCEPT ![thread[t].new] = a]
    BY <1>2, <1>3 DEF RecordAttempt
  <1>6. messages' \in Seq(MessageStates)
    BY StoreFacts DEF RecordAttempt, MessageStates
  <1> QED BY <1>1, <1>4, <1>5, <1>6, StoreFacts DEF RecordAttempt

\* The attempt is recorded for the job the thread just added.
LEMMA RecordAttemptType ==
    ASSUME TypeInv, NEW t \in Threads, RecordAttempt(t)
    PROVE  TypeInv'
  <1>1. /\ thread' \in [Threads -> Local]
        /\ \A u \in Threads : ThreadOK(thread'[u], Len(jobs))
        /\ thread'["socket"].then = "idle"
    <2>1. "record_event" \in Labels /\ "record_event" \in Recording
      BY DEF Labels, Recording
    <2> QED BY <2>1, RecordAttemptFacts, GoesOnOK, StoreFacts
  <1> QED BY <1>1, RecordAttemptFacts, StoreFacts, BoundsKept, WritesType
          DEF memory, bounds

\* RecordEvent puts the request of the new job at the end of the mailbox.
LEMMA RecordEventFacts ==
    ASSUME TypeInv, NEW t \in Threads, RecordEvent(t)
    PROVE  /\ thread[t].new \in DOMAIN jobs
           /\ Consistent(box') /\ RequestsOK(box', Len(jobs))
           /\ Len(box'.inbox) = Len(box.inbox) + 1
           /\ events(box') = events(box) \cup {Len(box.inbox) + 1}
           /\ Len(box.inbox) + 1 \notin events(box)
           /\ \A e \in events(box) : box'.inbox[e] = box.inbox[e]
           /\ box'.inbox[Len(box.inbox) + 1].ref = thread[t].new
           /\ pending_events(box') = pending_events(box) \cup {Len(box.inbox) + 1}
           /\ Serving(box') = Serving(box)
           /\ messages' \in Seq(MessageStates)
           /\ lock' \in Threads \cup {"none"}
           /\ Goto(t, thread[t].then)
           /\ UNCHANGED <<jobs, attempts, replies, queue, active, exec, starting, bounds>>
  <1>1. thread[t].new \in DOMAIN jobs /\ thread[t].new \in Nat
    BY ThreadFacts DEF RecordEvent, At, ThreadOK, Recording
  <1>2. box' = record_inbound(box, "task_request", thread[t].new)
    BY DEF RecordEvent
  <1>3. "task_request" \in EventTypes /\ box \in Mailbox
    BY StoreFacts DEF EventTypes
  <1>4. Consistent(box')
    BY <1>1, <1>2, <1>3, RecordInboundConsistent, StoreFacts
  <1>5. /\ Len(box'.inbox) = Len(box.inbox) + 1
        /\ \A e \in events(box) : box'.inbox[e] = box.inbox[e]
        /\ box'.inbox[Len(box.inbox) + 1].ref = thread[t].new
        /\ box'.inbox[Len(box.inbox) + 1].type = "task_request"
        /\ pending_events(box') = pending_events(box) \cup {Len(box.inbox) + 1}
        /\ Serving(box') = Serving(box)
    BY <1>1, <1>2, <1>3, RecordSeen
  <1>6. Len(box.inbox) \in Nat
    BY <1>3 DEF Mailbox
  <1>7. /\ events(box') = events(box) \cup {Len(box.inbox) + 1}
        /\ Len(box.inbox) + 1 \notin events(box)
    BY <1>5, <1>6 DEF events
  <1>8. RequestsOK(box', Len(jobs))
    BY <1>1, <1>5, <1>7, StoreFacts DEF RequestsOK
  <1>9. messages' \in Seq(MessageStates)
    BY SetMessageFacts, StoreFacts DEF RecordEvent, MessageStates
  <1>10. lock' \in Threads \cup {"none"}
    BY BoundsKept DEF RecordEvent
  <1>11. /\ Goto(t, thread[t].then)
         /\ UNCHANGED <<jobs, attempts, replies, queue, active, exec, starting, bounds>>
    BY DEF RecordEvent
  <1> QED BY <1>1, <1>4, <1>5, <1>7, <1>8, <1>9, <1>10, <1>11

\* The request enters the inbox; the mailbox stays consistent.
LEMMA RecordEventType ==
    ASSUME TypeInv, NEW t \in Threads, RecordEvent(t)
    PROVE  TypeInv'
  <1>1. /\ thread[t].then \in Labels /\ thread[t].then \notin Recording
        /\ thread[t].then # "idle" => thread[t].job # 0
    BY ThreadFacts DEF ThreadOK, Recording
  <1>2. /\ thread' \in [Threads -> Local]
        /\ \A u \in Threads : ThreadOK(thread'[u], Len(jobs))
        /\ thread'["socket"].then = "idle"
    BY <1>1, RecordEventFacts, GoesOnOK
  <1> QED BY <1>2, RecordEventFacts, StoreFacts, BoundsKept, WritesType
          DEF bounds

\* The queue without a job is still a queue of jobs.
LEMMA RemoveQueuedType ==
    ASSUME TypeInv, NEW j, remove_queued(j)
    PROVE  queue' \in Seq(DOMAIN jobs)
  <1>1. queue \in Seq(DOMAIN jobs) /\ queue' = RemoveFirst(queue, j)
    BY StoreFacts DEF remove_queued
  <1>2. CASE j \notin ToSet(queue)
    BY <1>1, <1>2, RemoveFirstAt
  <1>3. CASE j \in ToSet(queue)
    BY <1>1, <1>3, RemoveFirstAt
  <1> QED BY <1>2, <1>3

\* StartLoad takes the job of the head.
LEMMA StartLoadFacts ==
    ASSUME TypeInv, StartLoad
    PROVE  \E j \in DOMAIN jobs :
             /\ head_pending_event(box) # 0
             /\ box.inbox[head_pending_event(box)].ref = j
             /\ Serving(box) = 0
             /\ j \in ToSet(queue) /\ active = 0
             /\ thread' \in [Threads -> Local]
             /\ thread'["socket"] = thread["socket"]
             /\ thread'["maintenance"].pc = "preclaim"
             /\ thread'["maintenance"].job = j
             /\ thread'["maintenance"].then = "idle"
             /\ UNCHANGED <<durable, memory, bounds>>
  <1>1. PICK e : e = head_pending_event(box)
    OBVIOUS
  <1>2. /\ e # 0 /\ peek_next(box, "task_request") = e
        /\ box.inbox[e].status \in Claimable
    BY <1>1 DEF StartLoad, peek_next
  <1>3. e \in pending_events(box) /\ e \in events(box)
    BY <1>1, <1>2, HeadIsLeast, PendingIds, StoreFacts
  <1>4. PICK j \in DOMAIN jobs : j = box.inbox[e].ref
    BY <1>3, StoreFacts DEF RequestsOK
  <1>5. Serving(box) = 0
    BY <1>1, <1>2, <1>3, ServedIsHead, StoreFacts
  <1>6. j \in ToSet(queue) /\ active = 0 /\ UNCHANGED <<durable, memory, bounds>>
    BY <1>2, <1>4 DEF StartLoad
  <1>7. PICK l : l = [Idle EXCEPT !.pc = "preclaim", !.job = j, !.seen = jobs[j]]
    OBVIOUS
  <1>8. jobs[j] \in Job /\ j \in Nat
    BY StoreFacts
  <1>9. l \in Local /\ l.pc = "preclaim" /\ l.job = j /\ l.then = "idle"
    BY <1>7, <1>8, IdleFields DEF Local, Labels
  <1>10. thread' = [thread EXCEPT !["maintenance"] = l]
    BY <1>2, <1>4, <1>7 DEF StartLoad
  <1>11. /\ thread' \in [Threads -> Local] /\ thread'["socket"] = thread["socket"]
         /\ thread'["maintenance"] = l
    BY <1>9, <1>10 DEF Threads, TypeInv, TypeOK
  <1> QED BY <1>1, <1>2, <1>4, <1>5, <1>6, <1>9, <1>11

\* The request at the head of the mailbox names a job there is.
LEMMA StartLoadType ==
    ASSUME TypeInv, StartLoad
    PROVE  TypeInv'
  <1>1. PICK j \in DOMAIN jobs :
             /\ thread' \in [Threads -> Local]
             /\ thread'["socket"] = thread["socket"]
             /\ thread'["maintenance"].pc = "preclaim"
             /\ thread'["maintenance"].job = j
             /\ thread'["maintenance"].then = "idle"
             /\ UNCHANGED <<durable, memory, bounds>>
    BY StartLoadFacts
  <1>2. /\ \A u \in Threads : ThreadOK(thread'[u], Len(jobs))
        /\ thread'["socket"].then = "idle"
    <2>1. "maintenance" \in Threads /\ Threads \ {"maintenance"} = {"socket"}
      BY DEF Threads
    <2> QED BY <1>1, <2>1, LoadsOK
  <1> QED BY <1>1, <1>2, BoundsKept, MovesType DEF memory, bounds

\* Steps in which the heartbeat goes on with its job, by the label it goes
\* to: the rest of the step is at hand in the action.
LEMMA StartMovesOK ==
    ASSUME TypeInv, thread["maintenance"].pc \notin {"idle", "enqueue"} \cup Recording,
           NEW pc \in {"idle", "start_attempt", "start_claim", "start_running",
                       "start_execute", "start_return"},
           Goto("maintenance", pc)
    PROVE  /\ thread' \in [Threads -> Local]
           /\ \A u \in Threads : ThreadOK(thread'[u], Len(jobs))
           /\ thread'["socket"].then = "idle"
           /\ thread["maintenance"].job \in DOMAIN jobs
  <1>1. "maintenance" \in Threads /\ pc \in Labels /\ pc \notin Recording
    BY DEF Threads, Labels, Recording
  <1>2. thread["maintenance"].job # 0
    BY <1>1, ThreadFacts DEF ThreadOK
  <1>3. thread["maintenance"].job \in DOMAIN jobs
    BY <1>1, <1>2, ThreadFacts
  <1> QED BY <1>1, <1>2, <1>3, GoesOnOK

\* The job leaves the queue; its record is as it was loaded.
LEMMA StartAllowedType ==
    ASSUME TypeInv, StartAllowed
    PROVE  TypeInv'
  <1>1. /\ Goto("maintenance", "start_attempt")
        /\ thread["maintenance"].pc = "preclaim"
        /\ remove_queued(thread["maintenance"].job)
        /\ UNCHANGED <<durable, active, exec, starting, lock, bounds>>
    BY DEF StartAllowed, At
  <1>2. /\ thread' \in [Threads -> Local]
        /\ \A u \in Threads : ThreadOK(thread'[u], Len(jobs))
        /\ thread'["socket"].then = "idle"
    BY <1>1, StartMovesOK DEF Recording
  <1>3. queue' \in Seq(DOMAIN jobs)
    BY <1>1, RemoveQueuedType
  <1> QED BY <1>1, <1>2, <1>3, StoreFacts, BoundsKept, WritesType DEF durable, bounds

\* A blocked start leaves the lane with nothing written.
LEMMA StartBlockedType ==
    ASSUME TypeInv, StartBlocked
    PROVE  TypeInv'
  <1>1. /\ Goto("maintenance", "idle")
        /\ thread["maintenance"].pc = "preclaim"
        /\ UNCHANGED <<durable, memory, bounds>>
    BY DEF StartBlocked, At
  <1>2. /\ thread' \in [Threads -> Local]
        /\ \A u \in Threads : ThreadOK(thread'[u], Len(jobs))
        /\ thread'["socket"].then = "idle"
    BY <1>1, StartMovesOK DEF Recording
  <1> QED BY <1>1, <1>2, BoundsKept, MovesType DEF memory, bounds

\* A job that cannot be started begins to settle as failed.
LEMMA StartUnstartableType ==
    ASSUME TypeInv, StartUnstartable
    PROVE  TypeInv'
  <1> DEFINE j == thread["maintenance"].job
  <1>1. /\ thread["maintenance"].pc = "preclaim"
        /\ lock' \in {"maintenance", lock}
        /\ \/ Begin("maintenance", "complete", j, NoDecision, "unqueue")
           \/ Goto("maintenance", "idle")
        /\ UNCHANGED <<durable, queue, active, exec, starting, bounds>>
    BY DEF StartUnstartable, At
  <1>2. "maintenance" \in Threads /\ "complete" \in Labels /\ "complete" \notin Recording
    BY DEF Threads, Labels, Recording
  <1>3. j \in 0 .. Len(jobs) /\ j # 0
    BY <1>1, <1>2, ThreadFacts DEF ThreadOK, Recording
  <1> HIDE DEF j
  <1>4. /\ thread' \in [Threads -> Local]
        /\ \A u \in Threads : ThreadOK(thread'[u], Len(jobs))
        /\ thread'["socket"].then = "idle"
    <2>1. CASE Goto("maintenance", "idle")
      BY <1>1, <2>1, StartMovesOK DEF Recording
    <2>2. CASE Begin("maintenance", "complete", j, NoDecision, "unqueue")
      BY <1>2, <1>3, <2>2, BeginsOK, IdleFields
    <2> QED BY <1>1, <2>1, <2>2
  <1>5. lock' \in Threads \cup {"none"}
    BY <1>1, <1>2, BoundsKept
  <1> QED BY <1>1, <1>4, <1>5, BoundsKept, MovesType DEF bounds

\* The attempt is marked as running.
LEMMA StartAttemptType ==
    ASSUME TypeInv, StartAttempt
    PROVE  TypeInv'
  <1>1. /\ Goto("maintenance", "start_claim")
        /\ thread["maintenance"].pc = "start_attempt"
        /\ append_attempt(thread["maintenance"].job, "running")
        /\ UNCHANGED <<jobs, messages, replies, box, memory, bounds>>
    BY DEF StartAttempt, At
  <1>2. /\ thread' \in [Threads -> Local]
        /\ \A u \in Threads : ThreadOK(thread'[u], Len(jobs))
        /\ thread'["socket"].then = "idle"
        /\ thread["maintenance"].job \in DOMAIN jobs
    BY <1>1, StartMovesOK DEF Recording
  <1>3. attempts' \in Seq(Attempt) /\ Len(attempts') = Len(attempts)
    BY <1>1, <1>2, AppendAttemptFacts, StoreFacts
  <1> QED BY <1>1, <1>2, <1>3, StoreFacts, BoundsKept, WritesType DEF memory, bounds

\* StartClaim: the mailbox after the claim, whether it succeeds or not.
LEMMA StartClaimBox ==
    ASSUME TypeInv, StartClaim
    PROVE  /\ Consistent(box') /\ SameEvents(box, box')
           /\ pending_events(box') = pending_events(box)
           /\ event_of(thread["maintenance"].job) = head_pending_event(box)
              /\ Serving(box) = 0 /\ head_pending_event(box) # 0
                => Serving(box') = head_pending_event(box)
  <1> DEFINE e == event_of(thread["maintenance"].job)
  <1>0. Consistent(box) /\ box \in Mailbox
    BY StoreFacts
  <1>1. box' = IF ~is_pending(box, e) THEN rebuild_mailbox_summary(box)
               ELSE IF box.inbox[e].status = "delivering" THEN box
               ELSE claim(box, e)
    BY DEF StartClaim
  <1> HIDE DEF e
  <1>2. head_pending_event(box) # 0 => head_pending_event(box) \in pending_events(box)
    BY <1>0, HeadIsLeast
  <1>3. ASSUME box' = rebuild_mailbox_summary(box)
        PROVE  /\ Consistent(box') /\ SameEvents(box, box')
               /\ pending_events(box') = pending_events(box)
    BY <1>0, <1>3, RebuildConsistent, RebuildSeen DEF Consistent
  <1>4. CASE ~is_pending(box, e)
    BY <1>1, <1>2, <1>3, <1>4 DEF is_pending, e
  <1>5. CASE is_pending(box, e) /\ box.inbox[e].status = "delivering"
    <2>1. "delivering" \notin Claimable
      BY DEF Claimable
    <2>2. Serving(box) = e
      BY <1>0, <1>5, <2>1, ServedIsHead DEF is_pending
    <2>3. SameEvents(box, box')
      BY <1>1, <1>5 DEF SameEvents
    <2> QED BY <1>0, <1>1, <1>5, <2>2, <2>3 DEF e
  <1>6. CASE is_pending(box, e) /\ box.inbox[e].status # "delivering"
    <2>1. box' = claim(box, e)
      BY <1>1, <1>6
    <2>2. CASE claim_succeeds(box, e)
      BY <1>0, <2>1, <2>2, ClaimConsistent, ClaimSeen DEF claim_succeeds, e
    <2>3. CASE ~claim_succeeds(box, e)
      <3>1. ~(head_pending_event(box) = e /\ Serving(box) = 0)
        <4>1. e \in pending_events(box) /\ e # 0
          BY <1>0, <1>6, PendingIds DEF is_pending
        <4>2. Serving(box) = 0 => ~holds_lease(box) /\ box.inbox[e].status \in Claimable
          BY <1>0, <4>1, ServedIsHead
        <4> QED BY <1>6, <2>3, <4>2 DEF claim_succeeds
      <3> QED BY <1>3, <2>1, <2>3, <3>1 DEF claim, e
    <2> QED BY <2>2, <2>3
  <1> QED BY <1>4, <1>5, <1>6

\* The claim of the request keeps the mailbox consistent.
LEMMA StartClaimType ==
    ASSUME TypeInv, StartClaim
    PROVE  TypeInv'
  <1>1. /\ Goto("maintenance", "start_running")
        /\ thread["maintenance"].pc = "start_claim"
        /\ set_message_state(message_of(thread["maintenance"].job), "running")
        /\ UNCHANGED <<jobs, attempts, replies, memory, bounds>>
    BY DEF StartClaim, At
  <1>2. /\ thread' \in [Threads -> Local]
        /\ \A u \in Threads : ThreadOK(thread'[u], Len(jobs))
        /\ thread'["socket"].then = "idle"
    BY <1>1, StartMovesOK DEF Recording
  <1>3. messages' \in Seq(MessageStates)
    BY <1>1, SetMessageFacts, StoreFacts DEF MessageStates
  <1>4. Consistent(box') /\ RequestsOK(box', Len(jobs))
    BY StartClaimBox, RequestsKept, StoreFacts
  <1> QED BY <1>1, <1>2, <1>3, <1>4, StoreFacts, BoundsKept, WritesType
          DEF memory, bounds

\* StartRunning writes the record that was loaded, as RUNNING.
LEMMA StartRunningFacts ==
    ASSUME TypeInv, StartRunning
    PROVE  /\ thread["maintenance"].job \in DOMAIN jobs
           /\ jobs' \in Seq(Job) /\ Len(jobs') = Len(jobs)
           /\ DOMAIN jobs' = DOMAIN jobs
           /\ jobs'[thread["maintenance"].job].status = "running"
           /\ \A k \in DOMAIN jobs :
                k # thread["maintenance"].job => jobs'[k] = jobs[k]
  <1>1. "maintenance" \in Threads
    BY DEF Threads
  <1>2. /\ thread["maintenance"].job \in DOMAIN jobs
        /\ thread["maintenance"].seen \in Job
    BY <1>1, ThreadFacts DEF StartRunning, At, ThreadOK, Recording
  <1>3. PICK r : r = [thread["maintenance"].seen EXCEPT !.status = "running"]
    OBVIOUS
  <1>4. r \in Job /\ r.status = "running"
    BY <1>2, <1>3 DEF Job, JobStatuses
  <1>5. append_job(thread["maintenance"].job, r)
    BY <1>3 DEF StartRunning
  <1> QED BY <1>2, <1>4, <1>5, AppendJobFacts, StoreFacts

\* The job record is marked as running.
LEMMA StartRunningType ==
    ASSUME TypeInv, StartRunning
    PROVE  TypeInv'
  <1>1. /\ Goto("maintenance", "start_execute")
        /\ thread["maintenance"].pc = "start_running"
        /\ UNCHANGED <<attempts, messages, replies, box, memory, bounds>>
    BY DEF StartRunning, At
  <1>2. /\ thread' \in [Threads -> Local]
        /\ \A u \in Threads : ThreadOK(thread'[u], Len(jobs))
        /\ thread'["socket"].then = "idle"
    BY <1>1, StartMovesOK DEF Recording
  <1> QED BY <1>1, <1>2, StartRunningFacts, StoreFacts, BoundsKept, WritesType
          DEF memory, bounds

\* The execution of a job there is begins.
LEMMA StartExecuteType ==
    ASSUME TypeInv, StartExecute
    PROVE  TypeInv'
  <1>1. /\ thread["maintenance"].pc = "start_execute"
        /\ Goto("maintenance", "idle") \/ Goto("maintenance", "start_return")
        /\ active' = thread["maintenance"].job
        /\ starting' \in {starting, thread["maintenance"].job}
        /\ UNCHANGED <<durable, queue, exec, lock, bounds>>
    BY DEF StartExecute, At
  <1>2. /\ thread' \in [Threads -> Local]
        /\ \A u \in Threads : ThreadOK(thread'[u], Len(jobs))
        /\ thread'["socket"].then = "idle"
        /\ thread["maintenance"].job \in DOMAIN jobs
    BY <1>1, StartMovesOK DEF Recording
  <1> QED BY <1>1, <1>2, StoreFacts, BoundsKept, WritesType DEF durable, bounds

\* The provider has accepted, or a job there is begins to fail.
LEMMA StartReturnType ==
    ASSUME TypeInv, NEW outcome, StartReturn(outcome)
    PROVE  TypeInv'
  <1> DEFINE j == thread["maintenance"].job
  <1>1. /\ thread["maintenance"].pc = "start_return"
        /\ \/ Goto("maintenance", "idle")
           \/ Begin("maintenance", "complete", j, NoDecision, "finish")
        /\ exec' \in {exec, exec \cup {j}} /\ starting' = 0
        /\ UNCHANGED <<durable, queue, active, lock, bounds>>
    BY DEF StartReturn, At
  <1>2. "maintenance" \in Threads /\ "complete" \in Labels /\ "complete" \notin Recording
    BY DEF Threads, Labels, Recording
  <1>3. j \in 0 .. Len(jobs) /\ j # 0 /\ j \in DOMAIN jobs
    BY <1>1, <1>2, ThreadFacts DEF ThreadOK, Recording
  <1> HIDE DEF j
  <1>4. /\ thread' \in [Threads -> Local]
        /\ \A u \in Threads : ThreadOK(thread'[u], Len(jobs))
        /\ thread'["socket"].then = "idle"
    <2>1. CASE Goto("maintenance", "idle")
      BY <1>1, <2>1, StartMovesOK DEF Recording
    <2>2. CASE Begin("maintenance", "complete", j, NoDecision, "finish")
      BY <1>2, <1>3, <2>2, BeginsOK, IdleFields
    <2> QED BY <1>1, <2>1, <2>2
  <1> QED BY <1>1, <1>3, <1>4, StoreFacts, BoundsKept, WritesType DEF durable, bounds

\* PollDecision, HeartbeatTimeout and RestoreEnds begin a completion.
LEMMA CompletionBegins ==
    ASSUME TypeInv, NEW j \in DOMAIN jobs, NEW decision \in Decision,
           NEW then \in {"finish", "restored"},
           Begin("maintenance", "complete", j, decision, then),
           UNCHANGED <<durable, memory, bounds>>
    PROVE  TypeInv'
  <1>1. /\ "maintenance" \in Threads /\ "complete" \in Labels
        /\ "complete" \notin Recording /\ j \in 0 .. Len(jobs) /\ j # 0
    BY StoreFacts DEF Threads, Labels, Recording
  <1>2. /\ thread' \in [Threads -> Local]
        /\ \A u \in Threads : ThreadOK(thread'[u], Len(jobs))
        /\ thread'["socket"].then = "idle"
    BY <1>1, BeginsOK
  <1> QED BY <1>2, BoundsKept, MovesType DEF memory, bounds

\* The decisions of the providers are decisions.
LEMMA DecisionType == Decisions \subseteq Decision
  BY DispatcherAssumption DEF Decision, Ended

\* Complete ends a job that has not ended, or does nothing.
LEMMA CompleteFacts ==
    ASSUME TypeInv, NEW t \in Threads, Complete(t)
    PROVE  /\ thread[t].pc = "complete" /\ thread[t].job \in DOMAIN jobs
           /\ UNCHANGED <<attempts, messages, replies, box, queue, exec, starting, bounds>>
           /\ \/ /\ is_terminal(thread[t].job) /\ Goto(t, "idle")
                 /\ UNCHANGED <<jobs, active, lock>>
              \/ /\ ~is_terminal(thread[t].job) /\ Goto(t, "attempt_terminal")
                 /\ jobs' \in Seq(Job) /\ Len(jobs') = Len(jobs)
                 /\ DOMAIN jobs' = DOMAIN jobs
                 /\ jobs'[thread[t].job].status \in Ended
                 /\ \A k \in DOMAIN jobs : k # thread[t].job => jobs'[k] = jobs[k]
                 /\ active' = IF active = thread[t].job THEN 0 ELSE active
                 /\ lock' = t
  <1> DEFINE j == thread[t].job
  <1>1. /\ j \in DOMAIN jobs /\ thread[t].decision.status \in Ended
        /\ thread[t].pc = "complete"
    BY ThreadFacts DEF Complete, At, ThreadOK, Recording
  <1>2. UNCHANGED <<attempts, messages, replies, box, queue, exec, starting, bounds>>
    BY DEF Complete
  <1>3. CASE is_terminal(j)
    BY <1>1, <1>2, <1>3 DEF Complete
  <1>4. CASE ~is_terminal(j)
    <2>1. PICK r : r = [jobs[j] EXCEPT !.status = thread[t].decision.status]
      OBVIOUS
    <2>2. jobs[j] \in Job
      BY <1>1, StoreFacts
    <2>3. r \in Job /\ r.status \in Ended
      BY <1>1, <2>1, <2>2 DEF Job, JobStatuses
    <2>4. /\ append_job(j, r) /\ lock' = t /\ Goto(t, "attempt_terminal")
          /\ active' = IF active = j THEN 0 ELSE active
      BY <1>4, <2>1 DEF Complete, clear_active
    <2> HIDE DEF j
    <2>5. /\ jobs' \in Seq(Job) /\ Len(jobs') = Len(jobs)
          /\ DOMAIN jobs' = DOMAIN jobs /\ jobs'[j] = r
          /\ \A k \in DOMAIN jobs : k # j => jobs'[k] = jobs[k]
      BY <1>1, <2>3, <2>4, AppendJobFacts, StoreFacts
    <2> QED BY <1>1, <1>2, <1>4, <2>3, <2>4, <2>5 DEF j
  <1> QED BY <1>3, <1>4

\* A thread that ends a job goes on with that job.
LEMMA EndMovesOK ==
    ASSUME TypeInv, NEW t \in Threads, thread[t].job # 0,
           NEW pc \in Labels \ Recording, Goto(t, pc)
    PROVE  /\ thread' \in [Threads -> Local]
           /\ \A u \in Threads : ThreadOK(thread'[u], Len(jobs))
           /\ thread'["socket"].then = "idle"
  BY GoesOnOK

\* Completion writes the terminal record of a job there is.
LEMMA CompleteType ==
    ASSUME TypeInv, NEW t \in Threads, Complete(t)
    PROVE  TypeInv'
  <1>1. /\ thread[t].job # 0
        /\ {"idle", "attempt_terminal"} \subseteq Labels \ Recording
    BY CompleteFacts, StoreFacts DEF Labels, Recording
  <1>2. /\ thread' \in [Threads -> Local]
        /\ \A u \in Threads : ThreadOK(thread'[u], Len(jobs))
        /\ thread'["socket"].then = "idle"
    BY <1>1, CompleteFacts, EndMovesOK
  <1>3. /\ jobs' \in Seq(Job) /\ Len(jobs') = Len(jobs)
        /\ active' \in {0} \cup DOMAIN jobs /\ lock' \in Threads \cup {"none"}
    BY CompleteFacts, StoreFacts, BoundsKept
  <1>4. UNCHANGED <<attempts, messages, replies, box, queue, exec, starting, bounds>>
    BY CompleteFacts
  <1> QED BY <1>2, <1>3, <1>4, StoreFacts, BoundsKept, WritesType DEF bounds

\* AttemptTerminal writes the state of the attempt, if there is one.
LEMMA AttemptTerminalFacts ==
    ASSUME TypeInv, NEW t \in Threads, AttemptTerminal(t)
    PROVE  /\ thread[t].pc = "attempt_terminal" /\ thread[t].job \in DOMAIN jobs
           /\ UNCHANGED <<jobs, messages, replies, box, memory, bounds>>
           /\ \/ /\ Goto(t, "reply") /\ attempts' = attempts
                 /\ attempts[thread[t].job].state = "none"
              \/ /\ Goto(t, "event_terminal")
                 /\ attempts[thread[t].job].state # "none"
                 /\ attempts'[thread[t].job].state \in Ended
                 /\ attempts' \in Seq(Attempt) /\ Len(attempts') = Len(attempts)
                 /\ \A k \in DOMAIN jobs :
                        k # thread[t].job => attempts'[k] = attempts[k]
  <1>1. /\ thread[t].job \in DOMAIN jobs /\ thread[t].decision.status \in Ended
        /\ thread[t].pc = "attempt_terminal"
    BY ThreadFacts DEF AttemptTerminal, At, ThreadOK, Recording
  <1>2. UNCHANGED <<jobs, messages, replies, box, memory, bounds>>
    BY DEF AttemptTerminal
  <1>3. CASE attempts[thread[t].job].state = "none"
    BY <1>1, <1>2, <1>3 DEF AttemptTerminal
  <1>4. CASE attempts[thread[t].job].state # "none"
    <2>1. /\ append_attempt(thread[t].job, thread[t].decision.status)
          /\ Goto(t, "event_terminal")
      BY <1>4 DEF AttemptTerminal
    <2>2. /\ attempts' \in Seq(Attempt) /\ Len(attempts') = Len(attempts)
          /\ attempts'[thread[t].job].state \in Ended
          /\ \A k \in DOMAIN jobs : k # thread[t].job => attempts'[k] = attempts[k]
      <3>1. PICK st \in {"running"} \cup Ended :
                st = thread[t].decision.status /\ st \in Ended
        BY <1>1
      <3>2. PICK j \in DOMAIN attempts : j = thread[t].job
        BY <1>1, StoreFacts
      <3>3. append_attempt(j, st) /\ attempts \in Seq(Attempt)
        BY <2>1, <3>1, <3>2, StoreFacts
      <3>4. /\ attempts' \in Seq(Attempt) /\ Len(attempts') = Len(attempts)
            /\ attempts'[j].state = st
            /\ \A k \in DOMAIN attempts : k # j => attempts'[k] = attempts[k]
        BY <3>3, AppendAttemptFacts
      <3> QED BY <3>1, <3>2, <3>4, StoreFacts
    <2> QED BY <1>1, <1>2, <1>4, <2>1, <2>2
  <1> QED BY <1>3, <1>4

\* The attempt of a settled job is ended.
LEMMA AttemptTerminalType ==
    ASSUME TypeInv, NEW t \in Threads, AttemptTerminal(t)
    PROVE  TypeInv'
  <1>1. /\ thread[t].job # 0
        /\ {"reply", "event_terminal"} \subseteq Labels \ Recording
    BY AttemptTerminalFacts, StoreFacts DEF Labels, Recording
  <1>2. /\ thread' \in [Threads -> Local]
        /\ \A u \in Threads : ThreadOK(thread'[u], Len(jobs))
        /\ thread'["socket"].then = "idle"
    BY <1>1, AttemptTerminalFacts, EndMovesOK
  <1>3. attempts' \in Seq(Attempt) /\ Len(attempts') = Len(attempts)
    BY AttemptTerminalFacts, StoreFacts
  <1>4. UNCHANGED <<jobs, messages, replies, box, memory, bounds>>
    BY AttemptTerminalFacts
  <1> QED BY <1>2, <1>3, <1>4, StoreFacts, BoundsKept, WritesType DEF memory, bounds

\* mark_terminal of an event that may have ended already, as the callers
\* guard it.
LEMMA GuardedTerminal ==
    ASSUME NEW b, Consistent(b), NEW e, NEW st \in TerminalStatuses, NEW c,
           c = IF e # 0 /\ is_pending(b, e) THEN mark_terminal(b, e, st)
               ELSE rebuild_mailbox_summary(b)
    PROVE  /\ Consistent(c) /\ SameEvents(b, c)
           /\ pending_events(c) = pending_events(b) \ {e}
           /\ Serving(c) = IF Serving(b) = e THEN 0 ELSE Serving(b)
  <1>1. b \in Mailbox
    BY DEF Consistent
  <1>2. CASE e # 0 /\ is_pending(b, e)
    BY <1>1, <1>2, TerminalSeen, MarkTerminalConsistent DEF is_pending
  <1>3. CASE ~(e # 0 /\ is_pending(b, e))
    <2>1. e \notin pending_events(b)
      BY <1>1, <1>3, PendingIds DEF is_pending
    <2>2. /\ Consistent(c) /\ SameEvents(b, c)
          /\ pending_events(c) = pending_events(b) /\ Serving(c) = Serving(b)
      BY <1>1, <1>3, RebuildConsistent, RebuildSeen DEF Consistent
    <2>3. Serving(b) = e => e = 0
      BY <2>1, ServedIsHead
    <2> QED BY <2>1, <2>2, <2>3
  <1> QED BY <1>2, <1>3

\* What the end of a request does to the mailbox: its event is pending no
\* more, the lane is free if it was serving it, and nothing else changes.
LEMMA EventTerminalFacts ==
    ASSUME TypeInv, NEW t \in Threads, EventTerminal(t)
    PROVE  /\ thread[t].pc = "event_terminal" /\ thread[t].job \in DOMAIN jobs
           /\ UNCHANGED <<jobs, attempts, replies, memory, bounds>>
           /\ Consistent(box') /\ SameEvents(box, box')
           /\ pending_events(box') = pending_events(box) \ {event_of(thread[t].job)}
           /\ Serving(box') = IF Serving(box) = event_of(thread[t].job) THEN 0
                              ELSE Serving(box)
           /\ messages' \in Seq(MessageStates)
           /\ Goto(t, "retry_check") \/ Goto(t, "reply")
  <1>1. thread[t].pc = "event_terminal" /\ thread[t].job \in DOMAIN jobs
    BY ThreadFacts DEF EventTerminal, At, ThreadOK, Recording
  <1>2. /\ UNCHANGED <<jobs, attempts, replies, memory, bounds>>
        /\ Goto(t, "retry_check") \/ Goto(t, "reply")
    BY DEF EventTerminal
  <1>3. PICK st \in TerminalStatuses :
            st = terminal_event_status(thread[t].job, thread[t].decision.status)
    BY DEF terminal_event_status, TerminalStatuses
  <1>4. PICK e : e = event_of(thread[t].job)
    OBVIOUS
  <1>5. box' = IF e # 0 /\ is_pending(box, e) THEN mark_terminal(box, e, st)
               ELSE rebuild_mailbox_summary(box)
    BY <1>3, <1>4 DEF EventTerminal
  <1>6. messages' \in Seq(MessageStates)
    <2>1. PICK m : m = message_of(thread[t].job)
      OBVIOUS
    <2>2. set_message_state(m, next_message_state(m, replies))
      BY <2>1 DEF EventTerminal
    <2> QED BY <2>2, SetMessageFacts, MessageStateType, StoreFacts
  <1>7. /\ Consistent(box') /\ SameEvents(box, box')
        /\ pending_events(box') = pending_events(box) \ {e}
        /\ Serving(box') = IF Serving(box) = e THEN 0 ELSE Serving(box)
    BY <1>5, GuardedTerminal, StoreFacts
  <1> QED BY <1>1, <1>2, <1>4, <1>6, <1>7

\* So the types are kept by the end of a request.
LEMMA EventTerminalType ==
    ASSUME TypeInv, NEW t \in Threads, EventTerminal(t)
    PROVE  TypeInv'
  <1>1. /\ thread[t].job # 0
        /\ {"reply", "retry_check"} \subseteq Labels \ Recording
    BY EventTerminalFacts, StoreFacts DEF Labels, Recording
  <1>2. /\ thread' \in [Threads -> Local]
        /\ \A u \in Threads : ThreadOK(thread'[u], Len(jobs))
        /\ thread'["socket"].then = "idle"
    BY <1>1, EventTerminalFacts, EndMovesOK
  <1>3. Consistent(box') /\ RequestsOK(box', Len(jobs))
    BY EventTerminalFacts, RequestsKept, StoreFacts
  <1> QED BY <1>2, <1>3, EventTerminalFacts, StoreFacts, BoundsKept, WritesType
          DEF memory, bounds

\* Reply adds a reply for the job, if its attempt has a message.
LEMMA ReplyFacts ==
    ASSUME TypeInv, NEW t \in Threads, Reply(t)
    PROVE  /\ thread[t].pc = "reply" /\ thread[t].job \in DOMAIN jobs
           /\ UNCHANGED <<jobs, attempts, box, queue, active, exec, starting, bounds>>
           /\ replies' \in Seq([job : DOMAIN jobs, status : Ended])
           /\ \/ replies' = replies
              \/ /\ Len(replies') = Len(replies) + 1
                 /\ \A i \in DOMAIN replies : replies'[i] = replies[i]
                 /\ replies'[Len(replies) + 1].job = thread[t].job
           /\ messages' \in Seq(MessageStates)
           /\ lock' \in Threads \cup {"none"}
           /\ Goto(t, thread[t].then)
  <1>1. /\ thread[t].pc = "reply" /\ thread[t].job \in DOMAIN jobs
        /\ thread[t].decision.status \in Ended
    BY ThreadFacts DEF Reply, At, ThreadOK, Recording
  <1>2. /\ UNCHANGED <<jobs, attempts, box, queue, active, exec, starting, bounds>>
        /\ Goto(t, thread[t].then)
    BY DEF Reply
  <1>3. lock' \in Threads \cup {"none"}
    BY BoundsKept DEF Reply
  <1>4. PICK m : m = message_of(thread[t].job)
    OBVIOUS
  <1>5. PICK r : r = [job |-> thread[t].job, status |-> thread[t].decision.status]
    OBVIOUS
  <1>6. r \in [job : DOMAIN jobs, status : Ended] /\ r.job = thread[t].job
    BY <1>1, <1>5
  <1>7. CASE m = 0
    <2>1. replies' = replies /\ messages' = messages
      BY <1>4, <1>7 DEF Reply
    <2> QED BY <1>1, <1>2, <1>3, <2>1, StoreFacts
  <1>8. CASE m # 0
    <2>1. /\ replies' = Append(replies, r)
          /\ set_message_state(m, next_message_state(m, Append(replies, r)))
      BY <1>4, <1>5, <1>8 DEF Reply
    <2>2. messages' \in Seq(MessageStates)
      BY <2>1, SetMessageFacts, MessageStateType, StoreFacts
    <2>3. /\ replies' \in Seq([job : DOMAIN jobs, status : Ended])
          /\ Len(replies') = Len(replies) + 1
          /\ \A i \in DOMAIN replies : replies'[i] = replies[i]
          /\ replies'[Len(replies) + 1] = r
      BY <1>6, <2>1, StoreFacts
    <2> QED BY <1>1, <1>2, <1>3, <1>6, <2>2, <2>3
  <1> QED BY <1>7, <1>8

\* Where an operation goes on is no place that records a job.
LEMMA ThenLabel ==
    ASSUME TypeInv, NEW t \in Threads
    PROVE  thread[t].then \in Labels \ Recording
  BY ThreadFacts DEF ThreadOK, Recording

\* A reply is added for a job there is.
LEMMA ReplyType ==
    ASSUME TypeInv, NEW t \in Threads, Reply(t)
    PROVE  TypeInv'
  <1>1. thread[t].job # 0
    BY ReplyFacts, StoreFacts
  <1>2. /\ thread' \in [Threads -> Local]
        /\ \A u \in Threads : ThreadOK(thread'[u], Len(jobs))
        /\ thread'["socket"].then = "idle"
    BY <1>1, ReplyFacts, ThenLabel, EndMovesOK
  <1>3. /\ UNCHANGED <<jobs, attempts, box, queue, active, exec, starting, bounds>>
        /\ replies' \in Seq([job : DOMAIN jobs, status : Ended])
        /\ messages' \in Seq(MessageStates)
        /\ lock' \in Threads \cup {"none"}
    BY ReplyFacts
  <1> QED BY <1>2, <1>3, StoreFacts, BoundsKept, WritesType DEF bounds

\* The thread that settled a job clears its execution and is done.
LEMMA FinishType ==
    ASSUME TypeInv, NEW t \in Threads, Finish(t) \/ Unqueue(t)
    PROVE  TypeInv'
  <1>1. Goto(t, "idle") /\ "idle" \in Labels /\ "idle" \notin Recording
    BY DEF Finish, Unqueue, Labels, Recording
  <1>2. /\ thread' \in [Threads -> Local]
        /\ \A u \in Threads : ThreadOK(thread'[u], Len(jobs))
        /\ thread'["socket"].then = "idle"
    BY <1>1, GoesOnOK
  <1>3. /\ UNCHANGED <<durable, active, starting, bounds>>
        /\ exec' \subseteq DOMAIN jobs /\ lock' \in Threads \cup {"none"}
    BY StoreFacts, BoundsKept DEF Finish, Unqueue
  <1>4. queue' \in Seq(DOMAIN jobs)
    BY RemoveQueuedType, StoreFacts DEF Finish, Unqueue
  <1> QED BY <1>2, <1>3, <1>4, StoreFacts, BoundsKept, WritesType DEF durable, bounds

\* CancelLoad remembers the record of a job that has not ended.
LEMMA CancelLoadFacts ==
    ASSUME TypeInv, NEW t \in Threads, NEW j \in DOMAIN jobs, CancelLoad(t, j)
    PROVE  /\ ~is_terminal(j) /\ cancels < MaxCancels
           /\ thread' \in [Threads -> Local]
           /\ \A u \in Threads \ {t} : thread'[u] = thread[u]
           /\ thread'[t].pc = "cancel_mark" /\ thread'[t].job = j
           /\ thread'[t].seen = jobs[j] /\ thread'[t].then = "idle"
           /\ cancels' \in 0 .. MaxCancels
           /\ UNCHANGED <<durable, memory, retries, crashes, limits>>
  <1>1. /\ ~is_terminal(j) /\ cancels < MaxCancels
        /\ cancels' \in 0 .. MaxCancels
        /\ UNCHANGED <<durable, memory, retries, crashes, limits>>
    BY BoundsKept DEF CancelLoad
  <1>2. thread \in [Threads -> Local] /\ jobs[j] \in Job /\ j \in Nat
    BY ThreadFacts, StoreFacts
  <1>3. PICK d \in Decision : d = [status |-> "cancelled", retryable |-> FALSE]
    BY DEF Decision, Ended
  <1>4. PICK l : l = [Idle EXCEPT !.pc = "cancel_mark", !.job = j,
                                  !.seen = jobs[j], !.decision = d]
    OBVIOUS
  <1>5. /\ l \in Local /\ l.pc = "cancel_mark" /\ l.job = j
        /\ l.seen = jobs[j] /\ l.then = "idle"
    BY <1>2, <1>4, IdleFields DEF Local, Labels
  <1>6. thread' = [thread EXCEPT ![t] = l]
    BY <1>3, <1>4 DEF CancelLoad
  <1> QED BY <1>1, <1>2, <1>5, <1>6

\* cancel_job reads the record of a job there is.
LEMMA CancelLoadType ==
    ASSUME TypeInv, NEW t \in Threads, NEW j \in DOMAIN jobs, CancelLoad(t, j)
    PROVE  TypeInv'
  <1>1. /\ \A u \in Threads : ThreadOK(thread'[u], Len(jobs))
        /\ thread'["socket"].then = "idle"
    BY CancelLoadFacts, LoadsOK
  <1> QED BY <1>1, CancelLoadFacts, BoundsKept, MovesType DEF memory

\* CancelMark writes the loaded record back.
LEMMA CancelMarkFacts ==
    ASSUME TypeInv, NEW t \in Threads, CancelMark(t)
    PROVE  /\ thread[t].pc = "cancel_mark" /\ thread[t].job \in DOMAIN jobs
           /\ jobs' \in Seq(Job) /\ Len(jobs') = Len(jobs)
           /\ DOMAIN jobs' = DOMAIN jobs
           /\ jobs'[thread[t].job].status = thread[t].seen.status
           /\ \A k \in DOMAIN jobs : k # thread[t].job => jobs'[k] = jobs[k]
           /\ exec' \subseteq exec
           /\ starting' \in {0} \cup DOMAIN jobs
           /\ Goto(t, "cancel_decide")
           /\ UNCHANGED <<attempts, messages, replies, box, queue, active, lock, bounds>>
  <1>1. /\ thread[t].pc = "cancel_mark" /\ thread[t].job \in DOMAIN jobs
        /\ thread[t].seen \in Job
    BY ThreadFacts DEF CancelMark, At, ThreadOK, Recording
  <1>2. PICK r : r = [thread[t].seen EXCEPT !.cancel_requested = TRUE]
    OBVIOUS
  <1>3. r \in Job /\ r.status = thread[t].seen.status
    BY <1>1, <1>2 DEF Job
  <1>4. append_job(thread[t].job, r)
    BY <1>2 DEF CancelMark
  <1>5. /\ exec' \subseteq exec /\ Goto(t, "cancel_decide")
        /\ UNCHANGED <<attempts, messages, replies, box, queue, active, lock, bounds>>
    BY DEF CancelMark
  <1>6. starting' \in {0} \cup DOMAIN jobs
    BY StoreFacts DEF CancelMark
  <1> QED BY <1>1, <1>3, <1>4, <1>5, <1>6, AppendJobFacts, StoreFacts

\* The request for cancellation is written into the record that was read.
LEMMA CancelMarkType ==
    ASSUME TypeInv, NEW t \in Threads, CancelMark(t)
    PROVE  TypeInv'
  <1>1. thread[t].job # 0 /\ "cancel_decide" \in Labels \ Recording
    BY CancelMarkFacts, StoreFacts DEF Labels, Recording
  <1>2. /\ thread' \in [Threads -> Local]
        /\ \A u \in Threads : ThreadOK(thread'[u], Len(jobs))
        /\ thread'["socket"].then = "idle"
    BY <1>1, CancelMarkFacts, EndMovesOK
  <1>3. exec' \subseteq DOMAIN jobs
    BY CancelMarkFacts, StoreFacts
  <1> QED BY <1>2, <1>3, CancelMarkFacts, StoreFacts, BoundsKept, WritesType
          DEF bounds

\* CancelDecide ends a job that has not ended, or does nothing.
LEMMA CancelDecideFacts ==
    ASSUME TypeInv, NEW t \in Threads, CancelDecide(t)
    PROVE  /\ thread[t].pc = "cancel_decide" /\ thread[t].job \in DOMAIN jobs
           /\ UNCHANGED <<attempts, messages, replies, box, exec, starting, bounds>>
           /\ \/ /\ is_terminal(thread[t].job) /\ Goto(t, "idle")
                 /\ UNCHANGED <<jobs, queue, active, lock>>
              \/ /\ ~is_terminal(thread[t].job) /\ Goto(t, "attempt_terminal")
                 /\ jobs' \in Seq(Job) /\ Len(jobs') = Len(jobs)
                 /\ DOMAIN jobs' = DOMAIN jobs
                 /\ jobs'[thread[t].job].status \in Ended
                 /\ \A k \in DOMAIN jobs : k # thread[t].job => jobs'[k] = jobs[k]
                 /\ remove_queued(thread[t].job)
                 /\ active' = IF active = thread[t].job THEN 0 ELSE active
                 /\ lock' = t
  <1> DEFINE j == thread[t].job
  <1>1. j \in DOMAIN jobs /\ thread[t].pc = "cancel_decide"
    BY ThreadFacts DEF CancelDecide, At, ThreadOK, Recording
  <1>2. UNCHANGED <<attempts, messages, replies, box, exec, starting, bounds>>
    BY DEF CancelDecide
  <1>3. CASE is_terminal(j)
    BY <1>1, <1>2, <1>3 DEF CancelDecide
  <1>4. CASE ~is_terminal(j)
    <2>1. PICK r : r = [jobs[j] EXCEPT !.status = "cancelled",
                                       !.cancel_requested = TRUE]
      OBVIOUS
    <2>2. jobs[j] \in Job
      BY <1>1, StoreFacts
    <2>3. r \in Job /\ r.status \in Ended
      BY <1>1, <2>1, <2>2 DEF Job, JobStatuses, Ended
    <2>4. /\ append_job(j, r) /\ lock' = t /\ Goto(t, "attempt_terminal")
          /\ remove_queued(j)
          /\ active' = IF active = j THEN 0 ELSE active
      BY <1>4, <2>1 DEF CancelDecide, clear_active
    <2> HIDE DEF j
    <2>5. /\ jobs' \in Seq(Job) /\ Len(jobs') = Len(jobs)
          /\ DOMAIN jobs' = DOMAIN jobs /\ jobs'[j] = r
          /\ \A k \in DOMAIN jobs : k # j => jobs'[k] = jobs[k]
      BY <1>1, <2>3, <2>4, AppendJobFacts, StoreFacts
    <2> QED BY <1>1, <1>2, <1>4, <2>3, <2>4, <2>5 DEF j
  <1> QED BY <1>3, <1>4

\* A cancellation ends the job, or finds that it has ended.
LEMMA CancelDecideType ==
    ASSUME TypeInv, NEW t \in Threads, CancelDecide(t)
    PROVE  TypeInv'
  <1>1. /\ thread[t].job # 0
        /\ {"idle", "attempt_terminal"} \subseteq Labels \ Recording
    BY CancelDecideFacts, StoreFacts DEF Labels, Recording
  <1>2. /\ thread' \in [Threads -> Local]
        /\ \A u \in Threads : ThreadOK(thread'[u], Len(jobs))
        /\ thread'["socket"].then = "idle"
    BY <1>1, CancelDecideFacts, EndMovesOK
  <1>3. /\ jobs' \in Seq(Job) /\ Len(jobs') = Len(jobs)
        /\ active' \in {0} \cup DOMAIN jobs /\ lock' \in Threads \cup {"none"}
    BY CancelDecideFacts, StoreFacts, BoundsKept
  <1>4. UNCHANGED <<attempts, messages, replies, box, exec, starting, bounds>>
    BY CancelDecideFacts
  <1>5. queue' \in Seq(DOMAIN jobs)
    BY CancelDecideFacts, RemoveQueuedType, StoreFacts
  <1> QED BY <1>2, <1>3, <1>4, <1>5, StoreFacts, BoundsKept, WritesType DEF bounds

\* The acknowledged event is the head, and the attempt of its job has ended.
LEMMA AckFacts ==
    ASSUME TypeInv, AckTerminalRequest
    PROVE  /\ head_pending_event(box) \in pending_events(box)
           /\ head_pending_event(box) \in events(box)
           /\ attempts[box.inbox[head_pending_event(box)].ref].state \in Ended
           /\ Consistent(box') /\ SameEvents(box, box')
           /\ pending_events(box') = pending_events(box) \ {head_pending_event(box)}
           /\ Serving(box') = IF Serving(box) = head_pending_event(box) THEN 0
                              ELSE Serving(box)
           /\ UNCHANGED <<jobs, attempts, messages, replies, memory, thread, bounds>>
  <1>1. PICK e : e = head_pending_event(box)
    OBVIOUS
  <1>2. /\ e # 0 /\ attempts[box.inbox[e].ref].state \in Ended
        /\ box' = mark_terminal(box, e,
                    terminal_event_status(box.inbox[e].ref,
                                          attempts[box.inbox[e].ref].state))
        /\ UNCHANGED <<jobs, attempts, messages, replies, memory, thread, bounds>>
    BY <1>1 DEF AckTerminalRequest
  <1>3. PICK st \in TerminalStatuses : box' = mark_terminal(box, e, st)
    BY <1>2 DEF terminal_event_status, TerminalStatuses
  <1>4. e \in pending_events(box) /\ e \in events(box)
    BY <1>1, <1>2, HeadIsLeast, PendingIds, StoreFacts
  <1>5. /\ Consistent(box') /\ SameEvents(box, box')
        /\ pending_events(box') = pending_events(box) \ {e}
        /\ Serving(box') = IF Serving(box) = e THEN 0 ELSE Serving(box)
    BY <1>3, <1>4, TerminalSeen, MarkTerminalConsistent, StoreFacts
  <1> QED BY <1>1, <1>2, <1>4, <1>5

\* The sweep ends the event under the lease.
LEMMA SweepFacts ==
    ASSUME TypeInv, Sweep
    PROVE  /\ Free("maintenance") /\ ~(active # 0 /\ is_running(active))
           /\ Consistent(box') /\ SameEvents(box, box')
           /\ pending_events(box') = pending_events(box) \ {Serving(box)}
           /\ Serving(box') = 0
           /\ UNCHANGED <<jobs, attempts, messages, replies, memory, thread, bounds>>
  <1>1. /\ Free("maintenance") /\ ~(active # 0 /\ is_running(active))
        /\ holds_lease(box) /\ box' = expire_lease(box)
        /\ UNCHANGED <<jobs, attempts, messages, replies, memory, thread, bounds>>
    BY DEF Sweep
  <1>2. Consistent(box')
    BY <1>1, ExpireLeaseConsistent, StoreFacts
  <1> QED BY <1>1, <1>2, ExpireSeen, StoreFacts

\* The acknowledgement of a request and the lease sweep change the mailbox only.
LEMMA MailboxStepType ==
    ASSUME TypeInv, AckTerminalRequest \/ Sweep
    PROVE  TypeInv'
  <1>1. /\ Consistent(box') /\ SameEvents(box, box')
        /\ UNCHANGED <<jobs, attempts, messages, replies, memory, thread, bounds>>
    BY AckFacts, SweepFacts
  <1>2. RequestsOK(box', Len(jobs))
    BY <1>1, RequestsKept, StoreFacts
  <1>3. /\ thread' \in [Threads -> Local]
        /\ \A u \in Threads : ThreadOK(thread'[u], Len(jobs))
        /\ thread'["socket"].then = "idle"
    BY <1>1 DEF TypeInv, Control, TypeOK
  <1> QED BY <1>1, <1>2, <1>3, StoreFacts, BoundsKept, WritesType DEF memory, bounds

\* The restarted daemon: nothing runs, the last RUNNING job is restored and
\* the pending jobs are queued.
LEMMA CrashFacts ==
    ASSUME TypeInv, Crash
    PROVE  /\ UNCHANGED <<durable, retries, cancels, limits>>
           /\ crashes' \in 0 .. MaxCrashes
           /\ queue' \in admission_ordered
           /\ exec' = {} /\ starting' = 0 /\ lock' = "none"
           /\ thread' \in [Threads -> Local] /\ thread'["socket"] = Idle
           /\ \/ /\ \A j \in DOMAIN jobs : ~is_running(j)
                 /\ active' = 0 /\ thread'["maintenance"] = Idle
              \/ /\ active' \in DOMAIN jobs /\ is_running(active')
                 /\ thread'["maintenance"].pc = "restore"
                 /\ thread'["maintenance"].job = active'
                 /\ thread'["maintenance"].then = "idle"
  <1> DEFINE running == {j \in DOMAIN jobs : is_running(j)}
  <1>1. /\ UNCHANGED <<durable, retries, cancels, limits>>
        /\ crashes' \in 0 .. MaxCrashes
        /\ queue' \in admission_ordered
        /\ exec' = {} /\ starting' = 0 /\ lock' = "none"
    BY BoundsKept DEF Crash
  <1>2. PICK last : last = IF running = {} THEN 0
                           ELSE CHOOSE j \in running : \A k \in running : k <= j
    OBVIOUS
  <1>3. /\ active' = last
        /\ thread' = [thread EXCEPT
                !["socket"] = Idle,
                !["maintenance"] = IF last = 0 THEN Idle
                                   ELSE [Idle EXCEPT !.pc = "restore", !.job = last]]
    BY <1>2 DEF Crash
  <1>4. running # {} => last \in running
    <2>1. running \in SUBSET Nat /\ IsFiniteSet(running)
      BY IndicesFinite, StoreFacts
    <2> HIDE DEF running
    <2> QED BY <1>2, <2>1, GreatestNat
  <1>5. /\ running # {} => last \in DOMAIN jobs /\ is_running(last) /\ last \in Nat /\ last # 0
        /\ running = {} => last = 0
    <2>1. \A j \in DOMAIN jobs : j \in Nat /\ j # 0
      BY StoreFacts
    <2>2. running = {} => last = 0
      BY <1>2
    <2>3. last \in running => last \in DOMAIN jobs /\ is_running(last)
      OBVIOUS
    <2> HIDE DEF running
    <2> QED BY <1>4, <2>1, <2>2, <2>3
  <1>6. last \in Nat
    BY <1>5
  <1>7. PICK l : l = [Idle EXCEPT !.pc = "restore", !.job = last]
    OBVIOUS
  <1>8. l \in Local /\ l.pc = "restore" /\ l.job = last /\ l.then = "idle"
    BY <1>6, <1>7, IdleFields DEF Local, Labels
  <1>9. thread' = [thread EXCEPT !["socket"] = Idle,
                                 !["maintenance"] = IF last = 0 THEN Idle ELSE l]
    BY <1>3, <1>7
  <1>10. /\ thread' \in [Threads -> Local] /\ thread'["socket"] = Idle
         /\ thread'["maintenance"] = IF last = 0 THEN Idle ELSE l
    BY <1>8, <1>9, IdleFields DEF Threads, TypeInv, TypeOK
  <1> QED BY <1>1, <1>3, <1>5, <1>8, <1>10

\* After a crash the memory is what restore rebuilds from the store.
LEMMA CrashType ==
    ASSUME TypeInv, Crash
    PROVE  TypeInv'
  <1>1. \A u \in Threads : ThreadOK(thread'[u], Len(jobs))
    <2>1. ThreadOK(Idle, Len(jobs))
      BY IdleFields, StoreFacts DEF ThreadOK, Recording
    <2>2. ThreadOK(thread'["maintenance"], Len(jobs))
      BY <2>1, CrashFacts, StoreFacts DEF ThreadOK, Recording
    <2> QED BY <2>1, <2>2, CrashFacts DEF Threads
  <1>2. queue' \in Seq(DOMAIN jobs) /\ active' \in {0} \cup DOMAIN jobs
    BY CrashFacts, AdmissionSet, StoreFacts
  <1>3. /\ UNCHANGED <<durable, retries, cancels, limits>>
        /\ crashes' \in 0 .. MaxCrashes
        /\ exec' \subseteq DOMAIN jobs /\ starting' = 0 /\ lock' = "none"
        /\ thread' \in [Threads -> Local] /\ thread'["socket"].then = "idle"
    BY CrashFacts, IdleFields
  <1> QED BY <1>1, <1>2, <1>3, StoreFacts, BoundsKept, WritesType DEF durable

\* A resumed execution is that of a job there is.
LEMMA RestoreResumedType ==
    ASSUME TypeInv, RestoreResumed
    PROVE  TypeInv'
  <1>1. /\ Goto("maintenance", "idle")
        /\ thread["maintenance"].pc = "restore"
        /\ exec' = exec \cup {thread["maintenance"].job}
        /\ UNCHANGED <<durable, queue, active, starting, lock, bounds>>
    BY DEF RestoreResumed, At
  <1>2. /\ thread' \in [Threads -> Local]
        /\ \A u \in Threads : ThreadOK(thread'[u], Len(jobs))
        /\ thread'["socket"].then = "idle"
        /\ thread["maintenance"].job \in DOMAIN jobs
    BY <1>1, StartMovesOK DEF Recording
  <1> QED BY <1>1, <1>2, StoreFacts, BoundsKept, WritesType DEF durable, bounds

\* An update for a job that has ended only clears its execution.
LEMMA PollStaleType ==
    ASSUME TypeInv, NEW j, PollStale(j)
    PROVE  TypeInv'
  <1>1. /\ exec' \subseteq exec
        /\ UNCHANGED <<durable, queue, active, starting, lock, thread, bounds>>
    BY DEF PollStale
  <1>2. /\ thread' \in [Threads -> Local]
        /\ \A u \in Threads : ThreadOK(thread'[u], Len(jobs))
        /\ thread'["socket"].then = "idle"
    BY <1>1 DEF TypeInv, Control, TypeOK
  <1> QED BY <1>1, <1>2, StoreFacts, BoundsKept, WritesType DEF durable, bounds

\* The empty stores have the right types.
LEMMA InitType == Init => TypeInv
  <1> SUFFICES ASSUME Init PROVE TypeInv
    OBVIOUS
  <1>1. limits \in Limits /\ MaxRetries \in Nat /\ MaxCancels \in Nat /\ MaxCrashes \in Nat
    BY DispatcherAssumption DEF Init, MaxRetries, MaxCancels, MaxCrashes
  <1>2. Consistent(box) /\ box \in Mailbox
    BY EmptyConsistent DEF Init, Consistent
  <1>3. TypeOK
    BY <1>1, <1>2, IdleFields DEF Init, TypeOK, Threads
  <1>4. events(box) = {}
    BY DEF Init, events, EmptyMailbox
  <1>5. Control
    BY <1>4, IdleFields DEF Init, Control, ThreadOK, RequestsOK, Threads, Recording
  <1> QED BY <1>2, <1>3, <1>5 DEF TypeInv

\* One step per action; those of a thread first.
LEMMA NextType ==
    ASSUME TypeInv, [Next]_vars
    PROVE  TypeInv'
  <1>0. "socket" \in Threads /\ "maintenance" \in Threads
    BY DEF Threads
  <1>1. ASSUME NEW t \in Threads, Step(t) PROVE TypeInv'
    BY <1>1, EnqueueType, RecordAttemptType, RecordEventType, RetryCheckType,
       CompleteType, AttemptTerminalType, EventTerminalType, ReplyType,
       FinishType, CancelMarkType, CancelDecideType DEF Step
  <1>2. CASE Handler
    BY <1>0, <1>2, SubmitType, MailboxStepType, RetryType, CancelLoadType DEF Handler
  <1>3. CASE Heartbeat
    <2>1. CASE StartLoad \/ Sweep
      BY <2>1, StartLoadType, MailboxStepType
    <2>2. CASE HeartbeatTimeout
      <3>1. PICK d \in Decision : d = [status |-> "incomplete", retryable |-> FALSE]
        BY DEF Decision, Ended
      <3> QED BY <2>2, <3>1, CompletionBegins, StoreFacts DEF HeartbeatTimeout
    <2>3. CASE CancelDegraded
      BY <1>0, <2>3, CancelLoadType, StoreFacts DEF CancelDegraded
    <2>4. ASSUME NEW j \in exec, PollStale(j) PROVE TypeInv'
      BY <2>4, PollStaleType
    <2>5. ASSUME NEW j \in exec, NEW d \in Decisions, PollDecision(j, d) PROVE TypeInv'
      BY <2>5, CompletionBegins, DecisionType, StoreFacts DEF PollDecision
    <2> QED BY <1>3, <2>1, <2>2, <2>3, <2>4, <2>5 DEF Heartbeat
  <1>4. CASE StartStep
    BY <1>4, StartAllowedType, StartBlockedType, StartUnstartableType,
       StartAttemptType, StartClaimType, StartRunningType, StartExecuteType,
       StartReturnType DEF StartStep
  <1>5. CASE RestoreStep
    <2>1. ASSUME NEW d \in Decisions, RestoreEnds(d) PROVE TypeInv'
      <3>1. thread["maintenance"].job \in DOMAIN jobs
        BY <1>0, <2>1, ThreadFacts DEF RestoreEnds, At, ThreadOK, Recording
      <3> QED BY <2>1, <3>1, CompletionBegins, DecisionType DEF RestoreEnds
    <2> QED BY <1>5, <2>1, RestoreResumedType DEF RestoreStep
  <1>6. CASE Crash
    BY <1>6, CrashType
  <1>7. CASE UNCHANGED vars
    <2>1. UNCHANGED <<durable, memory, bounds, thread>>
      BY <1>7 DEF vars, durable, memory, bounds
    <2>2. /\ thread' \in [Threads -> Local]
          /\ \A u \in Threads : ThreadOK(thread'[u], Len(jobs))
          /\ thread'["socket"].then = "idle"
      BY <2>1 DEF TypeInv, Control, TypeOK
    <2> QED BY <2>1, <2>2, BoundsKept, MovesType DEF memory, bounds
  <1> QED BY <1>1, <1>2, <1>3, <1>4, <1>5, <1>6, <1>7 DEF Next

\* So types and control hold throughout, with or without races.
THEOREM TypeInvAlways == Spec => []TypeInv
  <1>1. TypeInv /\ [Next]_vars => TypeInv'
    BY NextType
  <1> QED BY <1>1, InitType, PTL DEF Spec

(* The dispatcher's stores and its memory only ever hold what they should, *)
(* in any interleaving of the two threads and any number of crashes: no    *)
(* thread works on a job that is not in the store.                         *)
THEOREM DispatcherTypes == Spec => []TypeOK
  <1>1. TypeInv => TypeOK
    BY DEF TypeInv
  <1> QED BY <1>1, TypeInvAlways, PTL
-----------------------------------------------------------------------------
(* The invariant, for behaviours in which no cancellation overlaps another *)
(* operation.  (The run dispatcher_race shows what happens when one does:  *)
(* cancel_job writes back a record that is no longer the latest.)          *)

NoCancelRace == limits.overlap = 1 \/ limits.cancels = 0

Ending == {"attempt_terminal", "event_terminal", "reply"}
Starting == {"start_attempt", "start_claim", "start_running"}

is_queued(j) == jobs[j].status = "queued"
HasEvent(j) == \E e \in events(box) : box.inbox[e].ref = j
HasReply(j) == \E i \in DOMAIN replies : replies[i].job = j

\* Who may be inside an operation beside the other thread.
Solo ==
    /\ limits.overlap = 1 => At("socket", "idle") \/ At("maintenance", "idle")
    /\ limits.cancels = 0 =>
        /\ thread["socket"].pc \in {"idle", "enqueue", "retry_check"} \cup Recording
        /\ thread["maintenance"].pc \notin {"cancel_mark", "cancel_decide"}

\* The job record is written before the attempt and the reply; the attempt
\* runs before the job does.
RecordsAgree ==
    /\ \A j \in DOMAIN jobs : attempts[j].state \in Ended => is_terminal(j)
    /\ \A j \in DOMAIN jobs : is_running(j) => attempts[j].state = "running"
    /\ \A i \in DOMAIN replies : is_terminal(replies[i].job)
    /\ \A j \in exec : ~is_queued(j)

\* A thread that ends a job: the job has ended and is not answered yet.
SettlingOK(t) ==
    /\ (thread[t].pc \in Ending \/ (thread[t].then # "idle" /\ thread[t].pc # "complete"))
        => is_terminal(thread[t].job)
    /\ (thread[t].pc \in Ending \/ (thread[t].then # "idle" /\ thread[t].pc = "retry_check"))
        => ~HasReply(thread[t].job)

\* Where an operation goes on is where it goes in the end.
ThenOK(t) ==
    /\ thread[t].pc \in {"finish", "restored", "unqueue"} => thread[t].then = thread[t].pc
    /\ thread[t].pc = "complete" => thread[t].then # "idle"
    /\ thread[t].pc \in {"idle", "cancel_mark", "cancel_decide"} => thread[t].then = "idle"

\* A thread that cancels: the record it has loaded is the latest one.
CancelOK(t) ==
    thread[t].pc = "cancel_mark" =>
        /\ jobs[thread[t].job].status = thread[t].seen.status
        /\ ~is_terminal(thread[t].job)

\* A thread that adds a job: nobody else can have seen it.
AddingOK(t) ==
    /\ thread[t].pc \in Recording => is_queued(thread[t].new) /\ ~HasEvent(thread[t].new)
    /\ thread[t].pc = "record_event" => attempts[thread[t].new].state # "none"

NewApart ==
    thread["socket"].pc \in Recording /\ thread["maintenance"].pc \in Recording =>
        thread["socket"].new # thread["maintenance"].new

\* The heartbeat between the queue and the RUNNING record, and where it
\* ends a job.
StartOK ==
    LET pc == thread["maintenance"].pc
        j == thread["maintenance"].job
    IN /\ pc \in Starting \cup {"preclaim"} => is_queued(j)
       /\ pc \in {"start_claim", "start_running"} => attempts[j].state = "running"
       /\ pc \in {"start_execute", "start_return", "restore"} => is_running(j)
       /\ pc = "complete" => IF thread["maintenance"].then = "unqueue"
                             THEN is_queued(j) /\ HasEvent(j)
                             ELSE ~is_queued(j)
       /\ pc \in {"preclaim", "start_attempt", "start_claim"} =>
            /\ Serving(box) = 0 /\ head_pending_event(box) # 0
            /\ box.inbox[head_pending_event(box)].ref = j
       /\ pc = "start_running" => Serving(box) # 0 /\ box.inbox[Serving(box)].ref = j

\* A job has one event, after its attempt; a RUNNING job is the one served
\* and holds the slot, or is about to take it.
LaneOK ==
    /\ \A e, f \in events(box) : box.inbox[e].ref = box.inbox[f].ref => e = f
    /\ \A e \in events(box) : attempts[box.inbox[e].ref].state # "none"
    /\ \A j \in DOMAIN jobs : is_running(j) =>
        /\ Serving(box) # 0 /\ box.inbox[Serving(box)].ref = j
        /\ \/ active = j
           \/ At("maintenance", "start_execute") /\ thread["maintenance"].job = j

\* Off the queue and not RUNNING yet; ended and still on the queue.
Taken(j) == thread["maintenance"].pc \in Starting /\ thread["maintenance"].job = j
Leaving(j) ==
    /\ thread["maintenance"].then = "unqueue" /\ thread["maintenance"].job = j
    /\ thread["maintenance"].pc \notin {"complete", "idle"}

QueueOK ==
    /\ Distinct(queue)
    /\ \A j \in DOMAIN jobs :
        j \in ToSet(queue) <=> (is_queued(j) /\ ~Taken(j)) \/ Leaving(j)

Inv ==
    /\ TypeInv /\ NoCancelRace /\ Solo
    /\ RecordsAgree /\ OneReplyPerAttempt
    /\ \A t \in Threads : ThenOK(t) /\ SettlingOK(t) /\ CancelOK(t) /\ AddingOK(t)
    /\ NewApart /\ StartOK /\ LaneOK /\ QueueOK
-----------------------------------------------------------------------------
(* Who may begin.                                                          *)

\* A thread that may begin under a bound of one finds the other at rest.
LEMMA FreeAlone ==
    ASSUME NEW t \in Threads, Free(t), limits.overlap = 1
    PROVE  At("socket", "idle") /\ At("maintenance", "idle")
  <1> DEFINE U == {u \in Threads : ~At(u, "idle")}
  <1>1. IsFiniteSet(Threads)
    <2>1. Threads = {"socket"} \cup {"maintenance"}
      BY DEF Threads
    <2> QED BY <2>1, FS_Singleton, FS_Union
  <1>2. IsFiniteSet(U) /\ Cardinality(U) \in Nat
    BY <1>1, FS_Subset, FS_CardinalityType
  <1>3. Cardinality(U) < 1
    BY DEF Free, MaxOverlap
  <1>4. U = {}
    BY <1>2, <1>3, FS_EmptySet
  <1> QED BY <1>4 DEF Threads
-----------------------------------------------------------------------------
(* How a thread moves.                                                     *)

Keeps(t) ==
    /\ thread'[t].job = thread[t].job /\ thread'[t].then = thread[t].then
    /\ thread'[t].new = thread[t].new
Edge(t, p, q) == thread[t].pc = p /\ thread'[t].pc = q /\ Keeps(t)
Ends(t, p) == thread[t].pc = p /\ thread'[t] = Idle
GoesBack(t, p) ==
    /\ thread[t].pc = p /\ thread'[t].pc = thread[t].then
    /\ IF thread[t].then = "idle" THEN thread'[t] = Idle ELSE Keeps(t)
Opens(t, pc, j, then) ==
    thread'[t].pc = pc /\ thread'[t].job = j /\ thread'[t].then = then

StepTurn(t) ==
    \/ /\ Enqueue(t) /\ thread[t].pc = "enqueue" /\ thread'[t].new = Len(jobs) + 1
       /\ Opens(t, "record_attempt", thread[t].job, thread[t].then)
    \/ RecordAttempt(t) /\ Edge(t, "record_attempt", "record_event")
    \/ RecordEvent(t) /\ GoesBack(t, "record_event")
    \/ /\ RetryCheck(t)
       /\ \/ Edge(t, "retry_check", "enqueue")
          \/ thread[t].then = "idle" /\ Ends(t, "retry_check")
          \/ thread[t].then # "idle" /\ Edge(t, "retry_check", "reply")
    \/ /\ Complete(t)
       /\ \/ is_terminal(thread[t].job) /\ Ends(t, "complete")
          \/ ~is_terminal(thread[t].job) /\ Edge(t, "complete", "attempt_terminal")
    \/ /\ AttemptTerminal(t)
       /\ \E pc \in {"event_terminal", "reply"} : Edge(t, "attempt_terminal", pc)
    \/ /\ EventTerminal(t)
       /\ \E pc \in {"retry_check", "reply"} : Edge(t, "event_terminal", pc)
    \/ Reply(t) /\ GoesBack(t, "reply")
    \/ Finish(t) /\ \E pc \in {"finish", "restored"} : Ends(t, pc)
    \/ Unqueue(t) /\ Ends(t, "unqueue")
    \/ CancelMark(t) /\ Edge(t, "cancel_mark", "cancel_decide")
    \/ /\ CancelDecide(t)
       /\ \/ is_terminal(thread[t].job) /\ Ends(t, "cancel_decide")
          \/ ~is_terminal(thread[t].job) /\ Edge(t, "cancel_decide", "attempt_terminal")

BeginTurn(t) ==
    /\ Free(t)
    /\ \/ /\ thread'[t].pc \in {"enqueue", "retry_check"} /\ thread'[t].then = "idle"
       \/ \E j \in DOMAIN jobs : CancelLoad(t, j) /\ Opens(t, "cancel_mark", j, "idle")
       \/ t = "maintenance" /\ StartLoad /\ thread'[t].pc = "preclaim" /\ thread'[t].then = "idle"
       \/ /\ t = "maintenance"
          /\ \E j \in DOMAIN jobs : /\ Opens(t, "complete", j, "finish")
                                    /\ j \in exec \/ is_running(j)
          /\ UNCHANGED <<durable, memory>>

StartTurn(t) ==
    \/ StartAllowed /\ Edge(t, "preclaim", "start_attempt")
    \/ (StartBlocked \/ StartUnstartable) /\ Ends(t, "preclaim")
    \/ /\ StartUnstartable /\ thread[t].pc = "preclaim"
       /\ Opens(t, "complete", thread[t].job, "unqueue")
       /\ is_queued(thread[t].job) /\ HasEvent(thread[t].job)
    \/ StartAttempt /\ Edge(t, "start_attempt", "start_claim")
    \/ StartClaim /\ Edge(t, "start_claim", "start_running")
    \/ StartRunning /\ Edge(t, "start_running", "start_execute")
    \/ /\ StartExecute
       /\ Ends(t, "start_execute") \/ Edge(t, "start_execute", "start_return")
    \/ /\ \E outcome : StartReturn(outcome)
       /\ \/ Ends(t, "start_return")
          \/ /\ thread[t].pc = "start_return"
             /\ Opens(t, "complete", thread[t].job, "finish")
    \/ RestoreResumed /\ Ends(t, "restore")
    \/ /\ \E d \in Decisions : RestoreEnds(d)
       /\ thread[t].pc = "restore" /\ Opens(t, "complete", thread[t].job, "restored")

Turn(t) ==
    /\ \A u \in Threads \ {t} : thread'[u] = thread[u]
    /\ \/ thread'[t] = thread[t]
       \/ StepTurn(t) \/ BeginTurn(t)
       \/ t = "maintenance" /\ StartTurn(t)

\* Goto as an edge, an end, or the way back.
LEMMA GotoTurn ==
    ASSUME TypeInv, NEW t \in Threads, NEW pc \in Labels, Goto(t, pc)
    PROVE  /\ \A u \in Threads \ {t} : thread'[u] = thread[u]
           /\ pc = "idle" => Ends(t, thread[t].pc)
           /\ pc # "idle" => Edge(t, thread[t].pc, pc)
           /\ pc = thread[t].then => GoesBack(t, thread[t].pc)
  <1>1. thread \in [Threads -> Local]
    BY ThreadFacts
  <1> QED BY <1>1, GotoFacts, IdleFields DEF Ends, Edge, GoesBack, Keeps

\* The steps either thread takes.
LEMMA StepTurns ==
    ASSUME TypeInv, NEW t \in Threads, Step(t)
    PROVE  Turn(t) /\ StepTurn(t)
  <1>0. /\ thread[t].then \in Labels
        /\ {"idle", "enqueue", "reply", "record_event", "attempt_terminal",
            "event_terminal", "retry_check", "cancel_decide"} \subseteq Labels
    BY ThreadFacts DEF Labels
  <1> SUFFICES StepTurn(t) /\ \A u \in Threads \ {t} : thread'[u] = thread[u]
    BY DEF Turn
  <1>1. CASE Enqueue(t)
    BY <1>1, EnqueueFacts DEF StepTurn, Enqueue, At, Opens
  <1>2. CASE RecordAttempt(t)
    <2>1. Goto(t, "record_event") /\ thread[t].pc = "record_attempt"
      BY <1>2 DEF RecordAttempt, At
    <2> QED BY <1>0, <1>2, <2>1, GotoTurn DEF StepTurn
  <1>3. CASE RecordEvent(t)
    <2>1. Goto(t, thread[t].then) /\ thread[t].pc = "record_event"
      BY <1>3 DEF RecordEvent, At
    <2> QED BY <1>0, <1>3, <2>1, GotoTurn DEF StepTurn
  <1>4. CASE RetryCheck(t)
    <2>1. /\ thread[t].pc = "retry_check"
          /\ \/ Goto(t, "enqueue")
             \/ thread[t].then = "idle" /\ Goto(t, "idle")
             \/ thread[t].then # "idle" /\ Goto(t, "reply")
      BY <1>4 DEF RetryCheck, At
    <2> QED BY <1>0, <1>4, <2>1, GotoTurn DEF StepTurn
  <1>5. CASE Complete(t)
    <2>1. /\ thread[t].pc = "complete"
          /\ \/ is_terminal(thread[t].job) /\ Goto(t, "idle")
             \/ ~is_terminal(thread[t].job) /\ Goto(t, "attempt_terminal")
      BY <1>5 DEF Complete, At
    <2> QED BY <1>0, <1>5, <2>1, GotoTurn DEF StepTurn
  <1>6. CASE AttemptTerminal(t)
    <2>1. /\ thread[t].pc = "attempt_terminal"
          /\ Goto(t, "reply") \/ Goto(t, "event_terminal")
      BY <1>6 DEF AttemptTerminal, At
    <2> QED BY <1>0, <1>6, <2>1, GotoTurn DEF StepTurn
  <1>7. CASE EventTerminal(t)
    <2>1. /\ thread[t].pc = "event_terminal"
          /\ Goto(t, "reply") \/ Goto(t, "retry_check")
      BY <1>7, EventTerminalFacts
    <2> QED BY <1>0, <1>7, <2>1, GotoTurn DEF StepTurn
  <1>8. CASE Reply(t)
    <2>1. Goto(t, thread[t].then) /\ thread[t].pc = "reply"
      BY <1>8 DEF Reply, At
    <2> QED BY <1>0, <1>8, <2>1, GotoTurn DEF StepTurn
  <1>9. CASE Finish(t)
    <2>1. Goto(t, "idle") /\ thread[t].pc \in {"finish", "restored"}
      BY <1>9 DEF Finish
    <2> QED BY <1>0, <1>9, <2>1, GotoTurn DEF StepTurn
  <1>10. CASE Unqueue(t)
    <2>1. Goto(t, "idle") /\ thread[t].pc = "unqueue"
      BY <1>10 DEF Unqueue, At
    <2> QED BY <1>0, <1>10, <2>1, GotoTurn DEF StepTurn
  <1>11. CASE CancelMark(t)
    <2>1. Goto(t, "cancel_decide") /\ thread[t].pc = "cancel_mark"
      BY <1>11 DEF CancelMark, At
    <2> QED BY <1>0, <1>11, <2>1, GotoTurn DEF StepTurn
  <1>12. CASE CancelDecide(t)
    <2>1. /\ thread[t].pc = "cancel_decide"
          /\ \/ is_terminal(thread[t].job) /\ Goto(t, "idle")
             \/ ~is_terminal(thread[t].job) /\ Goto(t, "attempt_terminal")
      BY <1>12 DEF CancelDecide, At
    <2> QED BY <1>0, <1>12, <2>1, GotoTurn DEF StepTurn
  <1> QED BY <1>1, <1>2, <1>3, <1>4, <1>5, <1>6, <1>7, <1>8, <1>9, <1>10,
             <1>11, <1>12 DEF Step

\* Begin as an opening.
LEMMA BeginTurns ==
    ASSUME TypeInv, NEW t \in Threads, NEW pc \in Labels, NEW j \in Nat,
           NEW d \in Decision, NEW then \in Labels, Begin(t, pc, j, d, then)
    PROVE  /\ \A u \in Threads \ {t} : thread'[u] = thread[u]
           /\ Opens(t, pc, j, then)
  BY ThreadFacts, BeginFacts DEF Opens

\* The steps of the start and of the restart.
LEMMA StartTurns ==
    ASSUME TypeInv, StartStep \/ RestoreStep
    PROVE  Turn("maintenance") /\ StartTurn("maintenance")
  <1>0. /\ "maintenance" \in Threads /\ thread["maintenance"].job \in Nat
        /\ {"idle", "start_attempt", "start_claim", "start_running", "start_execute",
            "start_return", "complete", "finish", "unqueue", "restored"} \subseteq Labels
    BY ThreadFacts DEF Threads, Labels
  <1> DEFINE Others == \A u \in Threads \ {"maintenance"} : thread'[u] = thread[u]
  <1> SUFFICES StartTurn("maintenance") /\ Others
    BY DEF Turn
  <1> HIDE DEF Others
  <1>g. ASSUME NEW pc \in Labels, Goto("maintenance", pc)
        PROVE  /\ Others
               /\ pc = "idle" => Ends("maintenance", thread["maintenance"].pc)
               /\ pc # "idle" => Edge("maintenance", thread["maintenance"].pc, pc)
    BY <1>0, <1>g, GotoTurn DEF Others
  <1>b. ASSUME NEW d \in Decision, NEW then \in Labels,
               Begin("maintenance", "complete", thread["maintenance"].job, d, then)
        PROVE  Others /\ Opens("maintenance", "complete", thread["maintenance"].job, then)
    BY <1>0, <1>b, BeginTurns DEF Others
  <1>1. CASE StartAllowed
    <2>1. Goto("maintenance", "start_attempt") /\ thread["maintenance"].pc = "preclaim"
      BY <1>1 DEF StartAllowed, At
    <2> QED BY <1>0, <1>1, <1>g, <2>1 DEF StartTurn
  <1>2. CASE StartBlocked
    <2>1. Goto("maintenance", "idle") /\ thread["maintenance"].pc = "preclaim"
      BY <1>2 DEF StartBlocked, At
    <2> QED BY <1>0, <1>2, <1>g, <2>1 DEF StartTurn
  <1>3. CASE StartUnstartable
    <2>1. /\ thread["maintenance"].pc = "preclaim"
          /\ \/ Goto("maintenance", "idle")
             \/ /\ Begin("maintenance", "complete", thread["maintenance"].job,
                         NoDecision, "unqueue")
                /\ is_queued(thread["maintenance"].job)
                /\ event_of(thread["maintenance"].job) # 0
      BY <1>3 DEF StartUnstartable, At, is_queued
    <2>2. event_of(thread["maintenance"].job) # 0 => HasEvent(thread["maintenance"].job)
      BY DEF event_of, HasEvent
    <2> QED BY <1>0, <1>3, <1>g, <1>b, <2>1, <2>2, IdleFields DEF StartTurn
  <1>4. CASE StartAttempt
    <2>1. Goto("maintenance", "start_claim") /\ thread["maintenance"].pc = "start_attempt"
      BY <1>4 DEF StartAttempt, At
    <2> QED BY <1>0, <1>4, <1>g, <2>1 DEF StartTurn
  <1>5. CASE StartClaim
    <2>1. Goto("maintenance", "start_running") /\ thread["maintenance"].pc = "start_claim"
      BY <1>5 DEF StartClaim, At
    <2> QED BY <1>0, <1>5, <1>g, <2>1 DEF StartTurn
  <1>6. CASE StartRunning
    <2>1. Goto("maintenance", "start_execute") /\ thread["maintenance"].pc = "start_running"
      BY <1>6 DEF StartRunning, At
    <2> QED BY <1>0, <1>6, <1>g, <2>1 DEF StartTurn
  <1>7. CASE StartExecute
    <2>1. /\ thread["maintenance"].pc = "start_execute"
          /\ Goto("maintenance", "idle") \/ Goto("maintenance", "start_return")
      BY <1>7 DEF StartExecute, At
    <2> QED BY <1>0, <1>7, <1>g, <2>1 DEF StartTurn
  <1>8. ASSUME NEW outcome, StartReturn(outcome)
        PROVE  StartTurn("maintenance") /\ Others
    <2>1. /\ thread["maintenance"].pc = "start_return"
          /\ \/ Goto("maintenance", "idle")
             \/ Begin("maintenance", "complete", thread["maintenance"].job,
                      NoDecision, "finish")
      BY <1>8 DEF StartReturn, At
    <2> QED BY <1>0, <1>8, <1>g, <1>b, <2>1, IdleFields DEF StartTurn
  <1>9. CASE RestoreResumed
    <2>1. Goto("maintenance", "idle") /\ thread["maintenance"].pc = "restore"
      BY <1>9 DEF RestoreResumed, At
    <2> QED BY <1>0, <1>9, <1>g, <2>1 DEF StartTurn
  <1>10. ASSUME NEW d \in Decisions, RestoreEnds(d)
         PROVE  StartTurn("maintenance") /\ Others
    <2>1. /\ thread["maintenance"].pc = "restore"
          /\ Begin("maintenance", "complete", thread["maintenance"].job, d, "restored")
      BY <1>10 DEF RestoreEnds, At
    <2>2. d \in Decision
      BY DecisionType
    <2> QED BY <1>0, <1>10, <1>b, <2>1, <2>2 DEF StartTurn
  <1> QED BY <1>1, <1>2, <1>3, <1>4, <1>5, <1>6, <1>7, <1>8, <1>9, <1>10
          DEF StartStep, RestoreStep

\* In every step but a crash one thread takes a turn, or none does.
LEMMA OneTurns ==
    ASSUME TypeInv, [Next]_vars, ~Crash
    PROVE  \E t \in Threads : Turn(t)
  <1>0. "socket" \in Threads /\ "maintenance" \in Threads
        /\ {"idle", "finish", "enqueue", "retry_check", "complete"} \subseteq Labels
        /\ 0 \in Nat /\ \A j \in DOMAIN jobs : j \in Nat
    BY StoreFacts DEF Threads, Labels
  <1>1. CASE \E t \in Threads : Step(t)
    BY <1>1, StepTurns
  <1>2. CASE thread' = thread
    BY <1>0, <1>2 DEF Turn
  <1>3. CASE Handler
    <2>1. CASE Submit
      <3>1. Begin("socket", "enqueue", 0, NoDecision, "idle") /\ Free("socket")
        BY <2>1 DEF Submit
      <3> QED BY <1>0, <3>1, BeginTurns, IdleFields DEF Turn, BeginTurn, Opens
    <2>2. ASSUME NEW j \in DOMAIN jobs, Retry(j) PROVE Turn("socket")
      <3>1. Begin("socket", "retry_check", j, NoDecision, "idle") /\ Free("socket")
        BY <2>2 DEF Retry
      <3> QED BY <1>0, <3>1, BeginTurns, IdleFields DEF Turn, BeginTurn, Opens
    <2>3. CASE AckTerminalRequest
      BY <1>2, <2>3 DEF AckTerminalRequest
    <2>4. ASSUME NEW j \in DOMAIN jobs, CancelLoad("socket", j) PROVE Turn("socket")
      <3>1. Free("socket")
        BY <2>4 DEF CancelLoad
      <3> QED BY <1>0, <2>4, <3>1, CancelLoadFacts DEF Turn, BeginTurn, Opens
    <2> QED BY <1>0, <1>3, <2>1, <2>2, <2>3, <2>4 DEF Handler
  <1>4. CASE Heartbeat
    <2>1. CASE StartLoad
      <3>1. /\ Free("maintenance") /\ thread'["maintenance"].pc = "preclaim"
            /\ thread'["maintenance"].then = "idle"
            /\ thread'["socket"] = thread["socket"]
        BY <2>1, StartLoadFacts DEF StartLoad
      <3> QED BY <1>0, <2>1, <3>1 DEF Turn, BeginTurn, Threads
    <2>2. CASE Sweep \/ \E j \in exec : PollStale(j)
      BY <1>2, <2>2 DEF Sweep, PollStale
    <2>3. ASSUME NEW j \in DOMAIN jobs, NEW d \in Decision, Free("maintenance"),
                 Begin("maintenance", "complete", j, d, "finish"),
                 j \in exec \/ is_running(j), UNCHANGED <<durable, memory>>
          PROVE  Turn("maintenance")
      <3>1. /\ \A u \in Threads \ {"maintenance"} : thread'[u] = thread[u]
            /\ Opens("maintenance", "complete", j, "finish")
        BY <1>0, <2>3, BeginTurns
      <3> QED BY <2>3, <3>1 DEF Turn, BeginTurn
    <2>4. CASE HeartbeatTimeout
      <3>1. PICK d \in Decision : d = [status |-> "incomplete", retryable |-> FALSE]
        BY DEF Decision, Ended
      <3>2. PICK j \in DOMAIN jobs : j = active
        BY <2>4, StoreFacts DEF HeartbeatTimeout
      <3>3. /\ Free("maintenance") /\ Begin("maintenance", "complete", j, d, "finish")
            /\ is_running(j) /\ UNCHANGED <<durable, memory>>
        BY <2>4, <3>1, <3>2 DEF HeartbeatTimeout
      <3> QED BY <1>0, <2>3, <3>3
    <2>5. CASE \E j \in exec, d \in Decisions : PollDecision(j, d)
      BY <1>0, <2>3, <2>5, DecisionType, StoreFacts DEF PollDecision
    <2>6. CASE CancelDegraded
      <3>1. PICK j \in DOMAIN jobs : j = active
        BY <2>6, StoreFacts DEF CancelDegraded
      <3>2. CancelLoad("maintenance", j) /\ Free("maintenance")
        BY <2>6, <3>1 DEF CancelDegraded, CancelLoad
      <3> QED BY <1>0, <3>2, CancelLoadFacts DEF Turn, BeginTurn, Opens
    <2> QED BY <1>4, <2>1, <2>2, <2>4, <2>5, <2>6 DEF Heartbeat
  <1>5. CASE StartStep \/ RestoreStep
    BY <1>0, <1>5, StartTurns
  <1>6. CASE UNCHANGED vars
    BY <1>2, <1>6 DEF vars
  <1> QED BY <1>1, <1>3, <1>4, <1>5, <1>6 DEF Next

\* The bounds of a behaviour do not change.
LEMMA LimitsKept ==
    ASSUME [Next]_vars
    PROVE  limits' = limits
  BY Zenon DEF Next, vars, bounds, Handler, Heartbeat, StartStep, RestoreStep, Step, Crash,
         Submit, AckTerminalRequest, Retry, CancelLoad, StartLoad, Sweep,
         HeartbeatTimeout, CancelDegraded, PollStale, PollDecision, StartAllowed,
         StartBlocked, StartUnstartable, StartAttempt, StartClaim, StartRunning,
         StartExecute, StartReturn, RestoreResumed, RestoreEnds, Enqueue,
         RecordAttempt, RecordEvent, RetryCheck, Complete, AttemptTerminal,
         EventTerminal, Reply, Finish, Unqueue, CancelMark, CancelDecide

\* A crash leaves nobody inside an operation but the restore.
LEMMA CrashThreads ==
    ASSUME TypeInv, Crash, NEW t \in Threads
    PROVE  /\ thread'[t].then = "idle"
           /\ thread'[t].pc \in {"idle", "restore"}
           /\ thread'["socket"].pc = "idle"
  BY CrashFacts, IdleFields DEF Threads

\* A cancellation stays alone.
LEMMA SoloKept ==
    ASSUME TypeInv, Solo, [Next]_vars
    PROVE  Solo'
  <1>0. /\ limits' = limits /\ thread["socket"].then = "idle"
        /\ Threads = {"socket", "maintenance"} /\ Idle.pc = "idle"
        /\ \A t \in Threads : thread[t].then \in {"idle", "finish", "unqueue", "restored"}
    <2>1. limits' = limits /\ Idle.pc = "idle"
      BY LimitsKept, IdleFields
    <2>2. \A t \in Threads : thread[t].then \in {"idle", "finish", "unqueue", "restored"}
      BY ThreadFacts DEF ThreadOK
    <2> QED BY <2>1, <2>2 DEF TypeInv, Control, Threads
  <1>1. CASE Crash
    <2>1. thread'["socket"].pc = "idle" /\ thread'["maintenance"].pc \in {"idle", "restore"}
      BY <1>0, <1>1, CrashThreads
    <2> QED BY <1>0, <2>1 DEF Solo, At
  <1>2. CASE ~Crash
    <2>1. PICK t \in Threads : Turn(t)
      BY <1>2, OneTurns
    <2>2. limits.cancels = 0 => \A u \in Threads, j \in DOMAIN jobs : ~CancelLoad(u, j)
      <3>1. limits.cancels = 0 => ~(cancels < MaxCancels)
        BY BoundsKept DEF MaxCancels
      <3> QED BY <3>1 DEF CancelLoad
    <2>3. limits.overlap = 1 /\ Free(t) => At("socket", "idle") /\ At("maintenance", "idle")
      BY FreeAlone
    <2>4. thread'[t] = thread[t] \/ Free(t) \/ thread[t].pc # "idle"
      BY <2>1 DEF Turn, StepTurn, BeginTurn, StartTurn, Edge, Ends, GoesBack
    <2>5. limits.overlap = 1 => (At("socket", "idle") \/ At("maintenance", "idle"))'
      BY <1>0, <2>1, <2>3, <2>4 DEF Solo, Turn, At
    <2>6. limits.cancels = 0 =>
            thread'["maintenance"].pc \notin {"cancel_mark", "cancel_decide"}
      BY <1>0, <2>1, <2>2
         DEF Solo, Turn, StepTurn, BeginTurn, StartTurn, Edge, Ends, GoesBack, Opens
    <2>7. limits.cancels = 0 =>
            thread'["socket"].pc \in {"idle", "enqueue", "retry_check"} \cup Recording
      BY <1>0, <2>1, <2>2
         DEF Solo, Turn, StepTurn, BeginTurn, Edge, Ends, GoesBack, Opens, Recording
    <2> QED BY <1>0, <2>5, <2>6, <2>7 DEF Solo
  <1> QED BY <1>1, <1>2
-----------------------------------------------------------------------------
(* Who writes what: every other step leaves the variable alone.            *)

\* The job store.
LEMMA JobsFrame ==
    ASSUME [Next]_vars,
           ~StartRunning,
           \A t \in Threads : ~Enqueue(t) /\ ~Complete(t) /\ ~CancelMark(t) /\ ~CancelDecide(t)
    PROVE  jobs' = jobs
  BY Zenon DEF Next, Handler, Heartbeat, StartStep, RestoreStep, Step, vars,
         durable, memory, bounds, Submit, AckTerminalRequest, Retry,
         CancelLoad, StartLoad, Sweep, HeartbeatTimeout, CancelDegraded,
         PollStale, PollDecision, StartAllowed, StartBlocked,
         StartUnstartable, StartAttempt, StartClaim, StartExecute,
         StartReturn, RestoreResumed, RestoreEnds, Crash, RecordAttempt,
         RecordEvent, RetryCheck, AttemptTerminal, EventTerminal, Reply,
         Finish, Unqueue

\* The attempt store.
LEMMA AttemptsFrame ==
    ASSUME [Next]_vars,
           ~StartAttempt,
           \A t \in Threads : ~Enqueue(t) /\ ~RecordAttempt(t) /\ ~AttemptTerminal(t)
    PROVE  attempts' = attempts
  BY Zenon DEF Next, Handler, Heartbeat, StartStep, RestoreStep, Step, vars,
         durable, memory, bounds, Submit, AckTerminalRequest, Retry,
         CancelLoad, StartLoad, Sweep, HeartbeatTimeout, CancelDegraded,
         PollStale, PollDecision, StartAllowed, StartBlocked,
         StartUnstartable, StartClaim, StartRunning, StartExecute,
         StartReturn, RestoreResumed, RestoreEnds, Crash, RecordEvent,
         RetryCheck, Complete, EventTerminal, Reply, Finish, Unqueue,
         CancelMark, CancelDecide

\* The replies.
LEMMA RepliesFrame ==
    ASSUME [Next]_vars,
           \A t \in Threads : ~Reply(t)
    PROVE  replies' = replies
  BY Zenon DEF Next, Handler, Heartbeat, StartStep, RestoreStep, Step, vars,
         durable, memory, bounds, Submit, AckTerminalRequest, Retry,
         CancelLoad, StartLoad, Sweep, HeartbeatTimeout, CancelDegraded,
         PollStale, PollDecision, StartAllowed, StartBlocked,
         StartUnstartable, StartAttempt, StartClaim, StartRunning,
         StartExecute, StartReturn, RestoreResumed, RestoreEnds, Crash,
         Enqueue, RecordAttempt, RecordEvent, RetryCheck, Complete,
         AttemptTerminal, EventTerminal, Finish, Unqueue, CancelMark,
         CancelDecide

\* The mailbox.
LEMMA BoxFrame ==
    ASSUME [Next]_vars,
           ~StartClaim,
           ~AckTerminalRequest,
           ~Sweep,
           \A t \in Threads : ~RecordEvent(t) /\ ~EventTerminal(t)
    PROVE  box' = box
  BY Zenon DEF Next, Handler, Heartbeat, StartStep, RestoreStep, Step, vars,
         durable, memory, bounds, Submit, Retry, CancelLoad, StartLoad,
         HeartbeatTimeout, CancelDegraded, PollStale, PollDecision,
         StartAllowed, StartBlocked, StartUnstartable, StartAttempt,
         StartRunning, StartExecute, StartReturn, RestoreResumed,
         RestoreEnds, Crash, Enqueue, RecordAttempt, RetryCheck, Complete,
         AttemptTerminal, Reply, Finish, Unqueue, CancelMark, CancelDecide

\* The queue.
LEMMA QueueFrame ==
    ASSUME [Next]_vars,
           ~StartAllowed,
           ~Crash,
           \A t \in Threads : ~Enqueue(t) /\ ~Unqueue(t) /\ ~CancelDecide(t)
    PROVE  queue' = queue
  BY Zenon DEF Next, Handler, Heartbeat, StartStep, RestoreStep, Step, vars,
         durable, memory, bounds, Submit, AckTerminalRequest, Retry,
         CancelLoad, StartLoad, Sweep, HeartbeatTimeout, CancelDegraded,
         PollStale, PollDecision, StartBlocked, StartUnstartable,
         StartAttempt, StartClaim, StartRunning, StartExecute, StartReturn,
         RestoreResumed, RestoreEnds, RecordAttempt, RecordEvent,
         RetryCheck, Complete, AttemptTerminal, EventTerminal, Reply,
         Finish, CancelMark

\* The slot.
LEMMA ActiveFrame ==
    ASSUME [Next]_vars,
           ~StartExecute,
           ~Crash,
           \A t \in Threads : ~Complete(t) /\ ~CancelDecide(t)
    PROVE  active' = active
  BY Zenon DEF Next, Handler, Heartbeat, StartStep, RestoreStep, Step, vars,
         durable, memory, bounds, Submit, AckTerminalRequest, Retry,
         CancelLoad, StartLoad, Sweep, HeartbeatTimeout, CancelDegraded,
         PollStale, PollDecision, StartAllowed, StartBlocked,
         StartUnstartable, StartAttempt, StartClaim, StartRunning,
         StartReturn, RestoreResumed, RestoreEnds, Enqueue, RecordAttempt,
         RecordEvent, RetryCheck, AttemptTerminal, EventTerminal, Reply,
         Finish, Unqueue, CancelMark

\* The executions.
LEMMA ExecFrame ==
    ASSUME [Next]_vars,
           ~(\E x : StartReturn(x)),
           ~(\E x : PollStale(x)),
           ~RestoreResumed,
           ~Crash,
           \A t \in Threads : ~Finish(t) /\ ~Unqueue(t) /\ ~CancelMark(t)
    PROVE  exec' = exec
  BY Zenon DEF Next, Handler, Heartbeat, StartStep, RestoreStep, Step, vars,
         durable, memory, bounds, Submit, AckTerminalRequest, Retry,
         CancelLoad, StartLoad, Sweep, HeartbeatTimeout, CancelDegraded,
         PollDecision, StartAllowed, StartBlocked, StartUnstartable,
         StartAttempt, StartClaim, StartRunning, StartExecute, RestoreEnds,
         Enqueue, RecordAttempt, RecordEvent, RetryCheck, Complete,
         AttemptTerminal, EventTerminal, Reply, CancelDecide
-----------------------------------------------------------------------------
(* The life of a job record.                                               *)

\* What a step may do to the record of a job.
StatusStep(j) ==
    \/ jobs'[j].status = jobs[j].status
    \/ /\ ~is_terminal(j) /\ jobs'[j].status \in Ended
       /\ \E t \in Threads : (Complete(t) \/ CancelDecide(t)) /\ thread[t].job = j
    \/ /\ is_queued(j) /\ jobs'[j].status = "running"
       /\ StartRunning /\ thread["maintenance"].job = j

\* A step adds at most one job, queued and with no attempt; of a job there
\* was the status moves forward only.
LEMMA JobStep ==
    ASSUME Inv, [Next]_vars
    PROVE  /\ \A j \in DOMAIN jobs : j \in DOMAIN jobs' /\ StatusStep(j)
           /\ \A j \in DOMAIN jobs' \ DOMAIN jobs :
                /\ jobs'[j].status = "queued" /\ j = Len(jobs) + 1
                /\ attempts'[j].state = "none"
                /\ \E t \in Threads : Enqueue(t)
  <1>0. TypeInv /\ \A t \in Threads : CancelOK(t)
    BY DEF Inv
  <1>1. ASSUME NEW t \in Threads, Enqueue(t)
        PROVE  /\ \A j \in DOMAIN jobs : j \in DOMAIN jobs' /\ StatusStep(j)
               /\ \A j \in DOMAIN jobs' \ DOMAIN jobs :
                    /\ jobs'[j].status = "queued" /\ j = Len(jobs) + 1
                    /\ attempts'[j].state = "none"
    <2>1. /\ jobs' \in Seq(Job) /\ Len(jobs') = Len(jobs) + 1
          /\ jobs'[Len(jobs) + 1] = QueuedJob /\ attempts'[Len(jobs) + 1] = NoAttempt
          /\ \A j \in DOMAIN jobs : j \in DOMAIN jobs' /\ jobs'[j] = jobs[j]
      BY <1>0, <1>1, EnqueueFacts
    <2>2. Len(jobs) \in Nat /\ DOMAIN jobs = 1 .. Len(jobs)
          /\ DOMAIN jobs' = 1 .. Len(jobs) + 1
      BY <1>0, <2>1, StoreFacts
    <2> QED BY <2>1, <2>2, IdleFields DEF StatusStep
  <1>2. ASSUME NEW t \in Threads, Complete(t) \/ CancelDecide(t)
        PROVE  DOMAIN jobs' = DOMAIN jobs /\ \A j \in DOMAIN jobs : StatusStep(j)
    BY <1>0, <1>2, CompleteFacts, CancelDecideFacts DEF StatusStep
  <1>3. ASSUME NEW t \in Threads, CancelMark(t)
        PROVE  DOMAIN jobs' = DOMAIN jobs /\ \A j \in DOMAIN jobs : StatusStep(j)
    BY <1>0, <1>3, CancelMarkFacts DEF StatusStep, CancelOK
  <1>4. CASE StartRunning
    <2>1. is_queued(thread["maintenance"].job)
      BY <1>4 DEF Inv, StartOK, StartRunning, At, Starting
    <2> QED BY <1>0, <1>4, <2>1, StartRunningFacts DEF StatusStep
  <1>5. CASE jobs' = jobs
    BY <1>5 DEF StatusStep
  <1> QED BY <1>1, <1>2, <1>3, <1>4, <1>5, JobsFrame

\* A job that has ended stays as it ended; no job goes back to the queue;
\* only StartRunning makes a job run.
LEMMA JobOrder ==
    ASSUME Inv, [Next]_vars, NEW j \in DOMAIN jobs
    PROVE  /\ j \in DOMAIN jobs'
           /\ is_terminal(j) => /\ jobs'[j].status = jobs[j].status
                                /\ is_terminal(j)'
           /\ is_queued(j)' => is_queued(j)
           /\ is_running(j)' => \/ is_running(j)
                                \/ StartRunning /\ thread["maintenance"].job = j
  BY JobStep DEF StatusStep, is_terminal, is_queued, is_running, Ended

(* Once a job has ended its record does not change.                        *)
LEMMA InvFinal ==
    ASSUME Inv, [Next]_vars
    PROVE  \A j \in DOMAIN jobs :
                jobs[j].status \in Ended => jobs'[j].status = jobs[j].status
  BY JobOrder DEF is_terminal

\* The states of the attempts.
LEMMA AttemptStep ==
    ASSUME Inv, [Next]_vars, NEW j \in DOMAIN jobs
    PROVE  /\ attempts'[j].state \in Ended => attempts[j].state \in Ended \/ is_terminal(j)
           /\ attempts[j].state # "none" => attempts'[j].state # "none"
           /\ attempts[j].state = "running" =>
                \/ attempts'[j].state = "running" \/ is_terminal(j)
                \/ \E t \in Threads : RecordAttempt(t) /\ thread[t].new = j
           /\ \/ attempts'[j] = attempts[j]
              \/ is_terminal(j)
              \/ StartAttempt /\ thread["maintenance"].job = j
              \/ \E t \in Threads : RecordAttempt(t) /\ thread[t].new = j
  <1>0. TypeInv /\ \A t \in Threads : SettlingOK(t)
    BY DEF Inv
  <1>1. ASSUME NEW t \in Threads, Enqueue(t) PROVE attempts'[j] = attempts[j]
    BY <1>0, <1>1, EnqueueFacts
  <1>2. ASSUME NEW t \in Threads, RecordAttempt(t)
        PROVE  \/ attempts'[j] = attempts[j]
               \/ attempts'[j].state = "pending" /\ thread[t].new = j
    BY <1>0, <1>2, RecordAttemptFacts
  <1>3. ASSUME NEW t \in Threads, AttemptTerminal(t)
        PROVE  \/ attempts'[j] = attempts[j]
               \/ attempts'[j].state \in Ended /\ is_terminal(j)
    <2>1. is_terminal(thread[t].job)
      BY <1>0, <1>3, AttemptTerminalFacts DEF SettlingOK, Ending
    <2> QED BY <1>0, <1>3, <2>1, AttemptTerminalFacts
  <1>4. CASE StartAttempt
    <2>1. /\ append_attempt(thread["maintenance"].job, "running")
          /\ thread["maintenance"].pc = "start_attempt"
      BY <1>4 DEF StartAttempt, At
    <2>2. PICK k \in DOMAIN attempts : k = thread["maintenance"].job
      BY <1>0, <2>1, ThreadFacts DEF Threads, ThreadOK, Recording
    <2>3. append_attempt(k, "running") /\ attempts \in Seq(Attempt)
          /\ DOMAIN attempts = DOMAIN jobs
      BY <1>0, <2>1, <2>2, StoreFacts
    <2>4. /\ attempts'[k].state = "running"
          /\ \A i \in DOMAIN attempts : i # k => attempts'[i] = attempts[i]
      BY <2>3, AppendAttemptFacts
    <2>5. \/ attempts'[j] = attempts[j]
          \/ attempts'[j].state = "running" /\ thread["maintenance"].job = j
      BY <2>2, <2>3, <2>4
    <2> QED BY <1>4, <2>5 DEF Ended
  <1>5. CASE attempts' = attempts
    BY <1>5
  <1>6. "none" \notin Ended /\ "pending" \notin Ended /\ "running" \notin Ended
    BY DEF Ended
  <1> QED BY <1>1, <1>2, <1>3, <1>4, <1>5, <1>6, AttemptsFrame
-----------------------------------------------------------------------------
(* Who is beside whom.                                                     *)

\* Beside a busy heartbeat the socket at most submits or retries, and a
\* cancellation is beside nothing.
LEMMA Beside ==
    ASSUME Inv
    PROVE  /\ thread["maintenance"].pc # "idle" =>
                thread["socket"].pc \in {"idle", "enqueue", "retry_check",
                                         "record_attempt", "record_event"}
           /\ thread["socket"].pc \in {"cancel_mark", "cancel_decide"} =>
                thread["maintenance"].pc = "idle"
           /\ thread["maintenance"].pc \in {"cancel_mark", "cancel_decide"} =>
                thread["socket"].pc = "idle"
           /\ thread["socket"].then = "idle"
           /\ thread["socket"].pc \notin {"complete", "finish", "restored", "unqueue"}
  <1>1. NoCancelRace /\ Solo /\ ThenOK("socket") /\ TypeInv
    BY DEF Inv, Threads
  <1>2. thread["socket"].then = "idle"
    BY <1>1 DEF TypeInv, Control
  <1>3. thread["socket"].pc \notin {"complete", "finish", "restored", "unqueue"}
    BY <1>1, <1>2 DEF ThenOK
  <1> QED BY <1>1, <1>2, <1>3 DEF NoCancelRace, Solo, At, Recording

\* A thread that takes a step is not where it was.
LEMMA StepLeaves ==
    ASSUME TypeInv, NEW t \in Threads, Step(t)
    PROVE  /\ thread'[t].pc # thread[t].pc /\ thread[t].pc # "idle"
           /\ \A u \in Threads \ {t} : thread'[u] = thread[u]
  <1>1. StepTurn(t) /\ \A u \in Threads \ {t} : thread'[u] = thread[u]
    BY StepTurns DEF Turn
  <1>2. thread[t].then \in {"idle", "finish", "unqueue", "restored"} /\ Idle.pc = "idle"
    BY ThreadFacts, IdleFields DEF ThreadOK
  <1> QED BY <1>1, <1>2 DEF StepTurn, Edge, Ends, GoesBack, Opens

\* A step of a start or of a restart moves the maintenance thread only.
LEMMA StartLeaves ==
    ASSUME TypeInv, StartStep \/ RestoreStep
    PROVE  /\ thread'["maintenance"].pc # thread["maintenance"].pc
           /\ thread["maintenance"].pc # "idle"
           /\ \A u \in Threads \ {"maintenance"} : thread'[u] = thread[u]
  <1>1. /\ StartTurn("maintenance")
        /\ \A u \in Threads \ {"maintenance"} : thread'[u] = thread[u]
    BY StartTurns DEF Turn
  <1>2. Idle.pc = "idle"
    BY IdleFields
  <1> QED BY <1>1, <1>2 DEF StartTurn, Edge, Ends, Opens

\* The events of the mailbox stay, with their jobs; RecordEvent adds one.
LEMMA EventsStep ==
    ASSUME TypeInv, [Next]_vars
    PROVE  /\ \A e \in events(box) : e \in events(box') /\ box'.inbox[e].ref = box.inbox[e].ref
           /\ \/ events(box') = events(box)
              \/ \E t \in Threads :
                    /\ RecordEvent(t)
                    /\ events(box') = events(box) \cup {Len(box.inbox) + 1}
                    /\ box'.inbox[Len(box.inbox) + 1].ref = thread[t].new
  <1>1. ASSUME NEW t \in Threads, RecordEvent(t)
        PROVE  /\ events(box') = events(box) \cup {Len(box.inbox) + 1}
               /\ box'.inbox[Len(box.inbox) + 1].ref = thread[t].new
               /\ \A e \in events(box) : box'.inbox[e] = box.inbox[e]
    BY <1>1, RecordEventFacts
  <1>2. SameEvents(box, box') => /\ events(box') = events(box)
                                 /\ \A e \in events(box) : box'.inbox[e].ref = box.inbox[e].ref
    BY DEF SameEvents, events
  <1>3. ASSUME NEW t \in Threads, EventTerminal(t) PROVE SameEvents(box, box')
    BY <1>3, EventTerminalFacts
  <1>4. StartClaim => SameEvents(box, box')
    BY StartClaimBox
  <1>5. AckTerminalRequest => SameEvents(box, box')
    BY AckFacts
  <1>6. Sweep => SameEvents(box, box')
    BY SweepFacts
  <1>7. CASE \E t \in Threads : RecordEvent(t)
    BY <1>1, <1>7
  <1>8. CASE \A t \in Threads : ~RecordEvent(t)
    <2>1. SameEvents(box, box') \/ box' = box
      BY <1>3, <1>4, <1>5, <1>6, <1>8, BoxFrame
    <2> QED BY <1>2, <2>1
  <1> QED BY <1>7, <1>8

\* A job that has an event keeps it; one that gets one is the new job of a
\* thread that records it.
LEMMA HasEventStep ==
    ASSUME TypeInv, [Next]_vars, NEW j
    PROVE  /\ HasEvent(j) => HasEvent(j)'
           /\ HasEvent(j)' => \/ HasEvent(j)
                              \/ \E t \in Threads : RecordEvent(t) /\ thread[t].new = j
  BY EventsStep DEF HasEvent

\* The replies: only Reply adds one, for the job it answers.
LEMMA HasReplyStep ==
    ASSUME TypeInv, [Next]_vars, NEW j, HasReply(j)'
    PROVE  \/ HasReply(j)
           \/ \E t \in Threads : Reply(t) /\ thread[t].job = j
  <1>1. ASSUME NEW t \in Threads, Reply(t)
        PROVE  HasReply(j) \/ thread[t].job = j
    <2>1. /\ replies' \in Seq([job : DOMAIN jobs, status : Ended])
          /\ \/ replies' = replies
             \/ /\ Len(replies') = Len(replies) + 1
                /\ \A i \in DOMAIN replies : replies'[i] = replies[i]
                /\ replies'[Len(replies) + 1].job = thread[t].job
      BY <1>1, ReplyFacts
    <2>2. replies \in Seq([job : DOMAIN jobs, status : Ended])
      BY StoreFacts
    <2>3. PICK i \in DOMAIN replies' : replies'[i].job = j
      BY DEF HasReply
    <2>4. i \in DOMAIN replies \/ i = Len(replies) + 1 \/ replies' = replies
      BY <2>1, <2>2, <2>3
    <2> QED BY <2>1, <2>3, <2>4 DEF HasReply
  <1>2. CASE \A t \in Threads : ~Reply(t)
    <2>1. replies' = replies
      BY <1>2, RepliesFrame
    <2> QED BY <2>1 DEF HasReply
  <1> QED BY <1>1, <1>2

\* The thread that answers a job is alone in ending one.
LEMMA ReplyAlone ==
    ASSUME Inv, NEW t \in Threads, Reply(t), NEW u \in Threads \ {t}
    PROVE  thread[u].pc \notin Ending /\ thread[u].then = "idle"
  <1>1. thread[t].pc = "reply" /\ TypeInv
    BY ReplyFacts DEF Inv
  <1>2. CASE t = "maintenance"
    <2>1. u = "socket"
      BY <1>2 DEF Threads
    <2> QED BY <1>1, <1>2, <2>1, Beside DEF Ending
  <1>3. CASE t = "socket"
    <2>1. u = "maintenance"
      BY <1>3 DEF Threads
    <2>2. thread[u].pc = "idle"
      BY <1>1, <1>3, <2>1, Beside
    <2>3. thread[u].then = "idle"
      BY <2>2 DEF Inv, ThenOK
    <2> QED BY <2>2, <2>3 DEF Ending
  <1> QED BY <1>2, <1>3 DEF Threads
-----------------------------------------------------------------------------
(* Every part of the invariant is kept.                                    *)

\* What a thread has put off is still to be done.
LEMMA ThenKept ==
    ASSUME Inv, [Next]_vars, NEW u \in Threads
    PROVE  ThenOK(u)'
  <1>0. /\ TypeInv /\ ThenOK(u) /\ SettlingOK(u) /\ StartOK
        /\ Idle.then = "idle" /\ Idle.pc = "idle"
        /\ thread[u].then \in {"idle", "finish", "unqueue", "restored"}
    BY IdleFields, ThreadFacts DEF Inv, ThreadOK
  <1>1. CASE Crash
    BY <1>0, <1>1, CrashThreads DEF ThenOK
  <1>2. CASE ~Crash
    <2>1. PICK t \in Threads : Turn(t)
      BY <1>0, <1>2, OneTurns
    <2>2. CASE thread'[u] = thread[u]
      BY <1>0, <2>2 DEF ThenOK
    <2>3. CASE t = u /\ StepTurn(u)
      BY <1>0, <2>3 DEF ThenOK, StepTurn, Edge, Ends, GoesBack, Opens, Keeps
    <2>4. CASE t = u /\ BeginTurn(u)
      BY <1>0, <2>4 DEF ThenOK, BeginTurn, Opens
    <2>5. CASE t = u /\ StartTurn(u)
      BY <1>0, <2>5 DEF ThenOK, StartTurn, Edge, Ends, Opens, Keeps
    <2> QED BY <2>1, <2>2, <2>3, <2>4, <2>5 DEF Turn
  <1> QED BY <1>1, <1>2

\* The job of a thread there is.
LEMMA JobOfThread ==
    ASSUME TypeInv, NEW t \in Threads,
           thread[t].then # "idle" \/ thread[t].pc \notin {"idle", "enqueue"} \cup Recording
    PROVE  thread[t].job \in DOMAIN jobs
  BY ThreadFacts DEF ThreadOK

\* A thread that settles a job finds the record it wrote.
LEMMA SettlingKept ==
    ASSUME Inv, [Next]_vars, NEW u \in Threads
    PROVE  SettlingOK(u)'
  <1>0. /\ TypeInv /\ ThenOK(u) /\ SettlingOK(u) /\ RecordsAgree
        /\ Idle.then = "idle" /\ Idle.pc = "idle"
        /\ thread[u].then \in {"idle", "finish", "unqueue", "restored"}
    BY IdleFields, ThreadFacts DEF Inv, ThreadOK
  <1>1. CASE Crash
    <2>1. thread'[u].then = "idle" /\ thread'[u].pc \notin Ending
      BY <1>0, <1>1, CrashThreads DEF Ending
    <2> QED BY <2>1 DEF SettlingOK
  <1>2. CASE ~Crash
    <2>1. PICK t \in Threads : Turn(t)
      BY <1>0, <1>2, OneTurns
    <2>n. ASSUME NEW j \in DOMAIN jobs, ~HasReply(j), \A v \in Threads : ~Reply(v)
          PROVE  ~HasReply(j)'
      BY <1>0, <2>n, HasReplyStep
    <2>2. CASE thread'[u] = thread[u]
      <3>1. CASE \E v \in Threads : Reply(v)
        <4>1. PICK v \in Threads : Reply(v)
          BY <3>1
        <4>2. v # u
          BY <1>0, <2>2, <4>1, StepLeaves DEF Step
        <4>3. thread[u].pc \notin Ending /\ thread[u].then = "idle"
          BY <4>1, <4>2, ReplyAlone
        <4> QED BY <2>2, <4>3 DEF SettlingOK
      <3>2. CASE \A v \in Threads : ~Reply(v)
        <4>1. CASE thread[u].then # "idle" \/ thread[u].pc \in Ending
          <5>1. PICK j \in DOMAIN jobs : j = thread[u].job /\ j = thread'[u].job
            BY <1>0, <2>2, <4>1, JobOfThread DEF Ending, Recording
          <5>2. is_terminal(j) => is_terminal(j)'
            BY JobOrder
          <5>3. ~HasReply(j) => ~HasReply(j)'
            BY <2>n, <3>2
          <5> QED BY <1>0, <2>2, <5>1, <5>2, <5>3 DEF SettlingOK
        <4>2. CASE ~(thread[u].then # "idle" \/ thread[u].pc \in Ending)
          BY <2>2, <4>2 DEF SettlingOK
        <4> QED BY <4>1, <4>2
      <3> QED BY <3>1, <3>2
    <2>3. CASE t = u /\ StepTurn(u)
      <3>1. CASE thread'[u].then # "idle" \/ thread'[u].pc \in Ending
        <4>1. /\ thread'[u].job = thread[u].job /\ thread'[u].then = thread[u].then
              /\ \/ thread[u].then # "idle"
                 \/ thread[u].pc \in Ending \cup {"complete", "cancel_decide"}
          BY <1>0, <2>3, <3>1
             DEF StepTurn, Edge, Ends, GoesBack, Opens, Keeps, Ending, ThenOK
        <4>2. PICK j \in DOMAIN jobs : j = thread[u].job /\ j = thread'[u].job
          BY <1>0, <4>1, JobOfThread DEF Ending, Recording
        <4>3. is_terminal(j) => is_terminal(j)'
          BY JobOrder
        <4>4. (Complete(u) \/ CancelDecide(u)) /\ ~is_terminal(j) => is_terminal(j)'
          BY <1>0, <4>2, CompleteFacts, CancelDecideFacts DEF is_terminal
        <4>5. ~is_terminal(j) => ~HasReply(j)
          BY <1>0 DEF RecordsAgree, HasReply
        <4>6. Reply(u) => thread'[u].pc \notin Ending \cup {"retry_check"}
          <5>1. Reply(u) => thread'[u].pc = thread[u].then
            BY <1>0, StepTurns, GotoFacts, ReplyFacts, ThreadFacts
          <5> QED BY <1>0, <5>1 DEF Ending
        <4>7. \A v \in Threads : Reply(v) => v = u
          BY <1>0, <2>3, <4>1, StepLeaves, IdleFields, <2>1 DEF Step, Turn
        <4>8. is_terminal(j)'
          BY <1>0, <2>3, <4>1, <4>2, <4>3, <4>4
             DEF SettlingOK, StepTurn, Edge, Ends, GoesBack, Opens, Keeps, Ending, ThenOK
        <4>9. thread'[u].pc \in Ending \cup {"retry_check"} => ~HasReply(j)'
          <5>1. CASE Reply(u)
            BY <4>6, <5>1
          <5>2. CASE ~Reply(u)
            <6>1. thread'[u].pc \in Ending \cup {"retry_check"} =>
                    \/ thread[u].pc \in Ending
                    \/ thread[u].then # "idle" /\ thread[u].pc = "retry_check"
                    \/ (Complete(u) \/ CancelDecide(u)) /\ ~is_terminal(j)
              BY <1>0, <2>3, <3>1, <4>1, <4>2, <5>2
                 DEF StepTurn, Edge, Ends, GoesBack, Opens, Keeps, Ending, ThenOK
            <6>2. thread'[u].pc \in Ending \cup {"retry_check"} => ~HasReply(j)
              <7>1. (\/ thread[u].pc \in Ending
                     \/ (thread[u].then # "idle" /\ thread[u].pc = "retry_check"))
                    => ~HasReply(thread[u].job)
                BY <1>0 DEF SettlingOK
              <7> QED BY <4>2, <4>5, <6>1, <7>1
            <6> QED BY <2>n, <4>7, <5>2, <6>2
          <5> QED BY <5>1, <5>2
        <4> QED BY <4>2, <4>8, <4>9 DEF SettlingOK
      <3>2. CASE ~(thread'[u].then # "idle" \/ thread'[u].pc \in Ending)
        BY <3>2 DEF SettlingOK
      <3> QED BY <3>1, <3>2
    <2>4. CASE t = u /\ BeginTurn(u)
      BY <1>0, <2>4 DEF SettlingOK, BeginTurn, Opens, Ending
    <2>5. CASE t = u /\ u = "maintenance" /\ StartTurn(u)
      <3>1. \/ thread'[u].pc = "complete"
            \/ thread'[u].then = "idle" /\ thread'[u].pc \notin Ending
        <4>1. StartOK
          BY DEF Inv
        <4>2. thread[u].pc \in {"preclaim", "start_execute"} \cup Starting => ~is_terminal(thread[u].job)
          BY <2>5, <4>1 DEF StartOK, is_queued, is_running, is_terminal, Ended
        <4>3. thread[u].pc \in {"preclaim", "start_execute"} \cup Starting => thread[u].then = "idle"
          BY <1>0, <4>2 DEF SettlingOK, Starting
        <4> QED BY <1>0, <2>5, <4>3 DEF StartTurn, Edge, Ends, Opens, Keeps, Ending, Starting
      <3> QED BY <3>1 DEF SettlingOK, Ending
    <2> QED BY <2>1, <2>2, <2>3, <2>4, <2>5 DEF Turn
  <1> QED BY <1>1, <1>2

\* The record a cancellation has loaded stays the latest one until it is
\* written back.
LEMMA CancelKept ==
    ASSUME Inv, [Next]_vars, NEW u \in Threads
    PROVE  CancelOK(u)'
  <1>0. TypeInv /\ CancelOK(u) /\ Idle.pc = "idle"
    BY IdleFields DEF Inv
  <1> SUFFICES ASSUME thread'[u].pc = "cancel_mark"
               PROVE  /\ jobs'[thread'[u].job].status = thread'[u].seen.status
                      /\ jobs'[thread'[u].job].status \notin Ended
    BY DEF CancelOK, is_terminal
  <1>1. ~Crash
    BY <1>0, CrashThreads
  <1>2. PICK t \in Threads : Turn(t)
    BY <1>0, <1>1, OneTurns
  <1>3. CASE thread'[u] = thread[u]
    <2>1. \A v \in Threads \ {u} : thread[v].pc = "idle"
      BY <1>3, Beside DEF Threads
    <2>2. \A v \in Threads : ~Step(v)
      BY <1>0, <1>3, <2>1, StepLeaves
    <2>3. ~StartStep
      <3>1. CASE u = "maintenance"
        BY <1>0, <1>3, <3>1, StartLeaves
      <3>2. CASE u # "maintenance"
        BY <1>0, <2>1, <3>2, StartLeaves DEF Threads
      <3> QED BY <3>1, <3>2
    <2>4. jobs' = jobs
      BY <2>2, <2>3, JobsFrame DEF Step, StartStep
    <2> QED BY <1>0, <1>3, <2>4 DEF CancelOK, is_terminal
  <1>4. CASE thread'[u] # thread[u]
    <2>1. t = u
      BY <1>2, <1>4 DEF Turn
    <2>2. thread[u].then # "cancel_mark"
      BY <1>0, ThreadFacts DEF ThreadOK
    <2>3. PICK j \in DOMAIN jobs : CancelLoad(u, j)
      BY <1>0, <1>2, <1>4, <2>1, <2>2
         DEF Turn, StepTurn, BeginTurn, StartTurn, Edge, Ends, GoesBack, Opens
    <2>4. /\ thread'[u].job = j /\ thread'[u].seen = jobs[j] /\ ~is_terminal(j)
          /\ jobs' = jobs
      BY <1>0, <2>3, CancelLoadFacts DEF durable
    <2> QED BY <2>4 DEF is_terminal
  <1> QED BY <1>3, <1>4

\* Nobody but the thread that adds a job touches it.
LEMMA AddingKept ==
    ASSUME Inv, [Next]_vars, NEW u \in Threads
    PROVE  AddingOK(u)'
  <1>0. /\ TypeInv /\ AddingOK(u) /\ NewApart /\ StartOK /\ Idle.pc = "idle"
        /\ thread[u].then \notin Recording
    BY IdleFields, ThreadFacts DEF Inv, ThreadOK, Recording
  <1> SUFFICES ASSUME thread'[u].pc \in Recording
               PROVE  /\ jobs'[thread'[u].new].status = "queued"
                      /\ \A e \in events(box') : box'.inbox[e].ref # thread'[u].new
                      /\ thread'[u].pc = "record_event" =>
                            attempts'[thread'[u].new].state # "none"
    BY DEF AddingOK, is_queued, HasEvent, Recording
  <1>1. ~Crash
    BY <1>0, CrashThreads DEF Recording
  <1>2. PICK t \in Threads : Turn(t)
    BY <1>0, <1>1, OneTurns
  <1>3. CASE thread'[u] = thread[u]
    <2>1. PICK n \in DOMAIN jobs : n = thread[u].new /\ n = thread'[u].new
      BY <1>0, <1>3, ThreadFacts DEF ThreadOK
    <2>2. /\ is_queued(n) /\ ~HasEvent(n)
          /\ thread[u].pc = "record_event" => attempts[n].state # "none"
      BY <1>0, <1>3, <2>1 DEF AddingOK
    <2>3. ASSUME NEW v \in Threads, Complete(v) \/ CancelDecide(v), thread[v].job = n
          PROVE  FALSE
      <3>1. v # u /\ thread[v].pc # "idle" /\ thread[v].pc \in {"complete", "cancel_decide"}
        BY <1>0, <1>3, <2>3, StepLeaves, CompleteFacts, CancelDecideFacts DEF Step
      <3>2. u = "socket" /\ v = "maintenance" /\ thread[v].pc = "complete"
        BY <1>3, <3>1, Beside DEF Threads, Recording
      <3> QED BY <1>0, <2>2, <2>3, <3>2 DEF StartOK
    <2>4. ~(StartRunning /\ thread["maintenance"].job = n)
      <3>1. SUFFICES ASSUME StartRunning, thread["maintenance"].job = n PROVE FALSE
        OBVIOUS
      <3>2. Serving(box) # 0 /\ box.inbox[Serving(box)].ref = n
        BY <1>0, <3>1 DEF StartOK, StartRunning, At
      <3>3. Serving(box) \in events(box)
        BY <1>0, <3>2, StoreFacts, ServedIsHead, PendingIds
      <3> QED BY <2>2, <3>2, <3>3 DEF HasEvent
    <2>5. is_queued(n)'
      BY <2>2, <2>3, <2>4, JobStep DEF StatusStep, is_queued
    <2>6. ~HasEvent(n)'
      <3>1. ASSUME NEW v \in Threads, RecordEvent(v), thread[v].new = n PROVE FALSE
        <4>1. v # u /\ thread[v].pc = "record_event"
          BY <1>0, <1>3, <3>1, StepLeaves DEF Step, RecordEvent, At
        <4> QED BY <1>0, <1>3, <2>1, <3>1, <4>1 DEF NewApart, Threads, Recording
      <3> QED BY <1>0, <2>2, <3>1, HasEventStep
    <2>7. thread[u].pc = "record_event" => attempts'[n].state # "none"
      BY <2>2, AttemptStep
    <2> QED BY <1>3, <2>1, <2>5, <2>6, <2>7 DEF is_queued, HasEvent
  <1>4. CASE thread'[u] # thread[u]
    <2>1. t = u
      BY <1>2, <1>4 DEF Turn
    <2>2. \/ Enqueue(u) /\ thread'[u].pc = "record_attempt" /\ thread'[u].new = Len(jobs) + 1
          \/ RecordAttempt(u) /\ thread'[u].new = thread[u].new
      BY <1>0, <1>2, <1>4, <2>1
         DEF Turn, StepTurn, BeginTurn, StartTurn, Edge, Ends, GoesBack, Opens, Keeps, Recording
    <2>3. CASE Enqueue(u) /\ thread'[u].pc = "record_attempt" /\ thread'[u].new = Len(jobs) + 1
      <3>1. jobs'[Len(jobs) + 1] = QueuedJob /\ QueuedJob.status = "queued"
        BY <1>0, <2>3, EnqueueFacts, IdleFields
      <3>2. box' = box
        BY <2>3 DEF Enqueue
      <3>3. Len(jobs) \in Nat /\ \A e \in events(box) : box.inbox[e].ref \in 1 .. Len(jobs)
        BY <1>0, StoreFacts DEF RequestsOK
      <3> QED BY <2>3, <3>1, <3>2, <3>3
    <2>4. CASE RecordAttempt(u) /\ thread'[u].new = thread[u].new
      <3>1. /\ attempts'[thread[u].new].state = "pending"
            /\ jobs' = jobs /\ box' = box /\ thread[u].pc = "record_attempt"
        BY <1>0, <2>4, RecordAttemptFacts DEF RecordAttempt, At
      <3> QED BY <1>0, <2>4, <3>1 DEF AddingOK, Recording, is_queued, HasEvent
    <2> QED BY <2>2, <2>3, <2>4
  <1> QED BY <1>3, <1>4

\* A new job is one no other thread is adding.
LEMMA NewApartKept ==
    ASSUME Inv, [Next]_vars
    PROVE  NewApart'
  <1>0. /\ TypeInv /\ NewApart /\ Idle.pc = "idle" /\ "socket" \in Threads /\ "maintenance" \in Threads
        /\ \A t \in Threads : thread[t].then \notin Recording
    BY IdleFields, ThreadFacts DEF Inv, ThreadOK, Recording, Threads
  <1> SUFFICES ASSUME thread'["socket"].pc \in Recording, thread'["maintenance"].pc \in Recording
               PROVE  thread'["socket"].new # thread'["maintenance"].new
    BY DEF NewApart
  <1>1. ~Crash
    BY <1>0, CrashThreads DEF Recording
  <1>2. PICK t \in Threads : Turn(t)
    BY <1>0, <1>1, OneTurns
  <1>3. \/ thread'[t] = thread[t]
        \/ thread'[t].new = Len(jobs) + 1
        \/ thread'[t].new = thread[t].new /\ thread[t].pc \in Recording
    BY <1>0, <1>2
       DEF Turn, StepTurn, BeginTurn, StartTurn, Edge, Ends, GoesBack, Opens, Keeps,
           Recording, Threads
  <1>4. \A u \in Threads : thread[u].pc \in Recording => thread[u].new \in 1 .. Len(jobs)
    BY <1>0, ThreadFacts DEF ThreadOK
  <1>5. Len(jobs) \in Nat
    BY <1>0, StoreFacts
  <1> QED BY <1>0, <1>2, <1>3, <1>4, <1>5 DEF Turn, NewApart, Threads

\* No job is answered twice.
LEMMA RepliesKept ==
    ASSUME Inv, [Next]_vars
    PROVE  OneReplyPerAttempt'
  <1>0. TypeInv /\ OneReplyPerAttempt
    BY DEF Inv
  <1>1. ASSUME NEW t \in Threads, Reply(t)
        PROVE  OneReplyPerAttempt'
    <2>1. /\ thread[t].pc = "reply"
          /\ \/ replies' = replies
             \/ /\ Len(replies') = Len(replies) + 1
                /\ \A i \in DOMAIN replies : replies'[i] = replies[i]
                /\ replies'[Len(replies) + 1].job = thread[t].job
          /\ replies' \in Seq([job : DOMAIN jobs, status : Ended])
      BY <1>0, <1>1, ReplyFacts
    <2>2. ~HasReply(thread[t].job)
      BY <2>1 DEF Inv, SettlingOK, Ending
    <2>3. replies \in Seq([job : DOMAIN jobs, status : Ended])
      BY <1>0, StoreFacts
    <2>4. CASE replies' = replies
      BY <1>0, <2>4 DEF OneReplyPerAttempt
    <2>5. CASE Len(replies') = Len(replies) + 1
      <3>1. /\ DOMAIN replies' = DOMAIN replies \cup {Len(replies) + 1}
            /\ Len(replies) + 1 \notin DOMAIN replies
        BY <2>1, <2>3, <2>5
      <3>2. \A i \in DOMAIN replies : replies'[i].job # thread[t].job
        BY <2>1, <2>2, <2>5 DEF HasReply
      <3> QED BY <1>0, <2>1, <2>5, <3>1, <3>2 DEF OneReplyPerAttempt
    <2> QED BY <2>1, <2>4, <2>5
  <1>2. CASE replies' = replies
    BY <1>0, <1>2 DEF OneReplyPerAttempt
  <1> QED BY <1>1, <1>2, RepliesFrame

\* The records go on agreeing.
LEMMA RecordsKept ==
    ASSUME Inv, [Next]_vars
    PROVE  RecordsAgree'
  <1>0. TypeInv /\ RecordsAgree /\ StartOK /\ "maintenance" \in Threads
    BY DEF Inv, Threads
  <1>1. ASSUME NEW j \in DOMAIN jobs, attempts'[j].state \in Ended
        PROVE  is_terminal(j)'
    BY <1>0, <1>1, AttemptStep, JobOrder DEF RecordsAgree
  <1>2. ASSUME NEW j \in DOMAIN jobs, is_running(j)'
        PROVE  attempts'[j].state = "running"
    <2>1. ~is_terminal(j)
      BY <1>2, JobOrder DEF is_terminal, is_running, Ended
    <2>2. attempts[j].state = "running"
      BY <1>0, <1>2, JobOrder DEF RecordsAgree, StartOK, StartRunning, At
    <2>3. ~\E t \in Threads : RecordAttempt(t) /\ thread[t].new = j
      <3>1. SUFFICES ASSUME NEW t \in Threads, RecordAttempt(t), thread[t].new = j PROVE FALSE
        OBVIOUS
      <3>2. is_queued(j) /\ jobs' = jobs
        BY <3>1 DEF Inv, AddingOK, RecordAttempt, At, Recording
      <3> QED BY <1>2, <3>2 DEF is_queued, is_running
    <2> QED BY <2>1, <2>2, <2>3, AttemptStep
  <1>3. ASSUME NEW j \in DOMAIN jobs' \ DOMAIN jobs
        PROVE  attempts'[j].state = "none" /\ jobs'[j].status = "queued"
    BY JobStep
  <1>4. ASSUME NEW i \in DOMAIN replies'
        PROVE  jobs'[replies'[i].job].status \in Ended
    <2>1. PICK j : j = replies'[i].job
      OBVIOUS
    <2>2. HasReply(j)'
      BY <2>1 DEF HasReply
    <2>3. HasReply(j) => j \in DOMAIN jobs /\ is_terminal(j)
      <3>0. PICK R : R = [job : DOMAIN jobs, status : Ended]
        OBVIOUS
      <3>1. replies \in Seq(R)
        BY <1>0, <3>0, StoreFacts
      <3>2. \A k \in DOMAIN replies : replies[k] \in R
        BY <3>1, ElementOfSeq
      <3>3. \A k \in DOMAIN replies : replies[k].job \in DOMAIN jobs
        BY <3>0, <3>2
      <3> QED BY <1>0, <3>3 DEF RecordsAgree, HasReply
    <2>4. ASSUME NEW t \in Threads, Reply(t), thread[t].job = j
          PROVE  j \in DOMAIN jobs /\ is_terminal(j)
      BY <1>0, <2>4, ReplyFacts DEF Inv, SettlingOK, Ending
    <2>5. j \in DOMAIN jobs /\ is_terminal(j)
      BY <1>0, <2>2, <2>3, <2>4, HasReplyStep
    <2>6. is_terminal(j)'
      BY <2>5, JobOrder
    <2> QED BY <2>1, <2>6 DEF is_terminal
  <1>5. ASSUME NEW j \in exec' PROVE ~is_queued(j)'
    <2>1. exec \subseteq DOMAIN jobs /\ \A k \in exec : ~is_queued(k)
      BY <1>0, StoreFacts DEF RecordsAgree
    <2>2. ASSUME NEW outcome, StartReturn(outcome)
          PROVE  exec' \subseteq exec \cup {thread["maintenance"].job}
                 /\ thread["maintenance"].pc = "start_return"
      BY <2>2 DEF StartReturn, At
    <2>3. RestoreResumed => exec' \subseteq exec \cup {thread["maintenance"].job}
                            /\ thread["maintenance"].pc = "restore"
      BY DEF RestoreResumed, At
    <2>4. ASSUME NEW x, PollStale(x) PROVE exec' \subseteq exec
      BY <2>4 DEF PollStale
    <2>5. ASSUME NEW t \in Threads, Finish(t) \/ Unqueue(t) \/ CancelMark(t)
          PROVE  exec' \subseteq exec
      BY <2>5 DEF Finish, Unqueue, CancelMark
    <2>6. Crash => exec' = {}
      BY DEF Crash
    <2>7. \/ j \in exec
          \/ /\ j = thread["maintenance"].job
             /\ thread["maintenance"].pc \in {"start_return", "restore"}
      BY <2>2, <2>3, <2>4, <2>5, <2>6, ExecFrame
    <2>8. thread["maintenance"].pc \in {"start_return", "restore"} =>
            /\ is_running(thread["maintenance"].job)
            /\ thread["maintenance"].job \in DOMAIN jobs
      BY <1>0, JobOfThread DEF StartOK, Recording
    <2>9. j \in DOMAIN jobs /\ ~is_queued(j)
      BY <2>1, <2>7, <2>8 DEF is_queued, is_running
    <2> QED BY <2>9, JobOrder
  <1>6. \A j \in DOMAIN jobs' : attempts'[j].state \in Ended => is_terminal(j)'
    BY <1>1, <1>3 DEF Ended
  <1>7. \A j \in DOMAIN jobs' : is_running(j)' => attempts'[j].state = "running"
    BY <1>2, <1>3 DEF is_running
  <1>8. \A i \in DOMAIN replies' : is_terminal(replies[i].job)'
    BY <1>4 DEF is_terminal
  <1> QED BY <1>5, <1>6, <1>7, <1>8 DEF RecordsAgree

\* The event of the job at the head stays there while the job has not ended,
\* unless the sweep takes it or the start claims it.
LEMMA HeadKept ==
    ASSUME Inv, [Next]_vars, ~Sweep, ~StartClaim,
           NEW h, h = head_pending_event(box), h # 0,
           NEW j \in DOMAIN jobs, box.inbox[h].ref = j, ~is_terminal(j)
    PROVE  /\ head_pending_event(box') = h /\ Serving(box') = Serving(box)
           /\ box'.inbox[h].ref = j
  <1>0. TypeInv /\ RecordsAgree /\ Consistent(box) /\ box \in Mailbox
        /\ TypeInv' /\ box' \in Mailbox
    <2>1. TypeInv /\ TypeInv'
      BY NextType DEF Inv
    <2>2. Consistent(box) /\ box \in Mailbox
      BY <2>1, StoreFacts
    <2>3. box' \in Mailbox
      BY <2>1 DEF TypeInv, TypeOK
    <2> QED BY <2>1, <2>2, <2>3 DEF Inv
  <1>1. /\ h \in pending_events(box) /\ h \in events(box)
        /\ \A f \in pending_events(box) : h <= f
        /\ pending_events(box) \subseteq events(box) /\ h \in Nat
        /\ events(box) \subseteq Nat
    BY <1>0, HeadIsLeast, PendingIds
  <1>2. box'.inbox[h].ref = j
    BY <1>0, <1>1, EventsStep
  <1>3. ASSUME NEW t \in Threads, RecordEvent(t)
        PROVE  head_pending_event(box') = h /\ Serving(box') = Serving(box)
    <2>1. /\ pending_events(box') = pending_events(box) \cup {Len(box.inbox) + 1}
          /\ Serving(box') = Serving(box)
      BY <1>0, <1>3, RecordEventFacts
    <2>2. h <= Len(box.inbox) /\ Len(box.inbox) \in Nat
      BY <1>0, <1>1 DEF events, Mailbox
    <2>3. h \in pending_events(box') /\ \A f \in pending_events(box') : h <= f
      BY <1>1, <2>1, <2>2
    <2> QED BY <1>0, <2>1, <2>3, LeastIsHead
  <1>4. ASSUME NEW t \in Threads, EventTerminal(t)
        PROVE  head_pending_event(box') = h /\ Serving(box') = Serving(box)
    <2>1. PICK k : k = thread[t].job
      OBVIOUS
    <2>2. /\ pending_events(box') = pending_events(box) \ {event_of(k)}
          /\ Serving(box') = IF Serving(box) = event_of(k) THEN 0 ELSE Serving(box)
          /\ thread[t].pc = "event_terminal"
      BY <1>0, <1>4, <2>1, EventTerminalFacts
    <2>3. is_terminal(k)
      BY <2>1, <2>2 DEF Inv, SettlingOK, Ending
    <2>4. event_of(k) # h
      BY <1>1, <2>3, EventOf
    <2>5. h \in pending_events(box') /\ \A f \in pending_events(box') : h <= f
      BY <1>1, <2>2, <2>4
    <2>6. head_pending_event(box') = h
      BY <1>0, <2>5, LeastIsHead
    <2>7. Serving(box) # 0 => Serving(box) = h
      BY <1>0, ServedIsHead
    <2> QED BY <2>2, <2>4, <2>6, <2>7
  <1>5. ~AckTerminalRequest
    <2>1. AckTerminalRequest => attempts[box.inbox[h].ref].state \in Ended
      BY <1>0, AckFacts
    <2> QED BY <1>0, <2>1 DEF RecordsAgree
  <1>6. CASE box' = box
    BY <1>6
  <1> QED BY <1>2, <1>3, <1>4, <1>5, <1>6, BoxFrame

\* The heartbeat stays right about the job it starts, whatever the socket
\* does meanwhile.
LEMMA StartBeside ==
    ASSUME Inv, [Next]_vars, thread'["maintenance"] = thread["maintenance"]
    PROVE  StartOK'
  <1> DEFINE pc == thread["maintenance"].pc
  <1>0. TypeInv /\ StartOK /\ "maintenance" \in Threads /\ LaneOK /\ RecordsAgree
    BY DEF Inv, Threads
  <1>1. CASE pc \notin Starting \cup {"preclaim", "start_execute", "start_return",
                                      "restore", "complete"}
    BY <1>1 DEF StartOK, Starting
  <1>2. CASE pc \in Starting \cup {"preclaim", "start_execute", "start_return",
                                   "restore", "complete"}
    <2>1. PICK j \in DOMAIN jobs : j = thread["maintenance"].job
      BY <1>0, <1>2, JobOfThread DEF Starting, Recording
    <2>2. thread'["maintenance"].job = j /\ thread'["maintenance"].pc = pc
          /\ thread'["maintenance"].then = thread["maintenance"].then
      BY <2>1
    <2>3. ~StartStep /\ ~RestoreStep /\ ~Step("maintenance")
      BY <1>0, StartLeaves, StepLeaves
    <2>4. \A t \in Threads : ~Complete(t) /\ ~CancelDecide(t)
      <3>1. ~Complete("socket") /\ ~CancelDecide("socket")
        BY <1>2, Beside DEF Starting, Complete, CancelDecide, At
      <3>2. ~Complete("maintenance") /\ ~CancelDecide("maintenance")
        BY <2>3 DEF Step
      <3> QED BY <3>1, <3>2 DEF Threads
    <2>5. jobs'[j].status = jobs[j].status
      BY <2>3, <2>4, JobStep DEF StatusStep, StartStep
    <2>6. HasEvent(j) => HasEvent(j)'
      BY <1>0, HasEventStep
    <2>7. pc \in {"start_claim", "start_running"} => HasEvent(j)
      <3>1. CASE pc = "start_claim"
        <4>1. head_pending_event(box) # 0 /\ box.inbox[head_pending_event(box)].ref = j
          BY <1>0, <2>1, <3>1 DEF StartOK
        <4>2. head_pending_event(box) \in events(box)
          BY <1>0, <4>1, StoreFacts, HeadIsLeast, PendingIds
        <4> QED BY <4>1, <4>2 DEF HasEvent
      <3>2. CASE pc = "start_running"
        <4>1. Serving(box) # 0 /\ box.inbox[Serving(box)].ref = j
          BY <1>0, <2>1, <3>2 DEF StartOK
        <4>2. Serving(box) \in events(box)
          BY <1>0, <4>1, StoreFacts, ServedIsHead, PendingIds
        <4> QED BY <4>1, <4>2 DEF HasEvent
      <3> QED BY <3>1, <3>2
    <2>8. pc \in {"start_claim", "start_running"} => attempts'[j].state = "running"
      <3>1. ASSUME pc \in {"start_claim", "start_running"}
            PROVE  attempts'[j].state = "running"
        <4>1. attempts[j].state = "running" /\ is_queued(j)
          BY <1>0, <2>1, <3>1 DEF StartOK, Starting
        <4>2. ~is_terminal(j)
          BY <4>1 DEF is_queued, is_terminal, Ended
        <4>3. ASSUME NEW t \in Threads, RecordAttempt(t), thread[t].new = j PROVE FALSE
          BY <2>7, <3>1, <4>3 DEF Inv, AddingOK, RecordAttempt, At, Recording
        <4> QED BY <4>1, <4>2, <4>3, AttemptStep
      <3> QED BY <3>1
    <2>9. pc \in {"preclaim", "start_attempt", "start_claim"} =>
            /\ Serving(box') = 0 /\ head_pending_event(box') # 0
            /\ box'.inbox[head_pending_event(box')].ref = j
      <3>1. ASSUME pc \in {"preclaim", "start_attempt", "start_claim"}
            PROVE  /\ Serving(box') = 0 /\ head_pending_event(box') # 0
                   /\ box'.inbox[head_pending_event(box')].ref = j
        <4>1. PICK h : h = head_pending_event(box)
          OBVIOUS
        <4>2. /\ Serving(box) = 0 /\ h # 0 /\ box.inbox[h].ref = j /\ is_queued(j)
          BY <1>0, <2>1, <3>1, <4>1 DEF StartOK, Starting
        <4>3. ~is_terminal(j) /\ ~Sweep /\ ~StartClaim
          BY <2>3, <3>1, <4>2 DEF is_queued, is_terminal, Ended, Sweep, Free, At, StartStep
        <4> QED BY <4>1, <4>2, <4>3, HeadKept
      <3> QED BY <3>1
    <2>10. pc = "start_running" => Serving(box') # 0 /\ box'.inbox[Serving(box')].ref = j
      <3>1. ASSUME pc = "start_running"
            PROVE  Serving(box') # 0 /\ box'.inbox[Serving(box')].ref = j
        <4>1. PICK h : h = head_pending_event(box)
          OBVIOUS
        <4>2. /\ Serving(box) # 0 /\ box.inbox[Serving(box)].ref = j /\ is_queued(j)
          BY <1>0, <2>1, <3>1 DEF StartOK, Starting
        <4>3. Serving(box) = h /\ h # 0
          BY <1>0, <4>1, <4>2, StoreFacts, ServedIsHead
        <4>4. ~is_terminal(j) /\ ~Sweep /\ ~StartClaim
          BY <2>3, <3>1, <4>2 DEF is_queued, is_terminal, Ended, Sweep, Free, At, StartStep
        <4> QED BY <4>1, <4>2, <4>3, <4>4, HeadKept
      <3> QED BY <3>1
    <2>11. /\ is_queued(j) => is_queued(j)'
           /\ is_running(j) => is_running(j)'
           /\ ~is_queued(j) => ~is_queued(j)'
      BY <2>5 DEF is_queued, is_running
    <2>12. pc \in Starting \cup {"preclaim"} => is_queued(j)'
      BY <1>0, <2>1, <2>11 DEF StartOK
    <2>13. pc \in {"start_execute", "start_return", "restore"} => is_running(j)'
      BY <1>0, <2>1, <2>11 DEF StartOK
    <2>14. pc = "complete" => IF thread["maintenance"].then = "unqueue"
                              THEN is_queued(j)' /\ HasEvent(j)' ELSE ~is_queued(j)'
      BY <1>0, <2>1, <2>6, <2>11 DEF StartOK
    <2> HIDE DEF pc
    <2> QED BY <2>2, <2>8, <2>9, <2>10, <2>12, <2>13, <2>14
            DEF StartOK, is_queued, is_running, HasEvent
  <1> QED BY <1>1, <1>2

\* The heartbeat is right about the job it starts or ends after each step of
\* its own.
LEMMA StartKept ==
    ASSUME Inv, [Next]_vars
    PROVE  StartOK'
  <1> DEFINE M == "maintenance"
             P == Starting \cup {"preclaim", "start_execute", "start_return",
                                 "restore", "complete"}
  <1>0. /\ TypeInv /\ StartOK /\ M \in Threads /\ LaneOK /\ RecordsAgree /\ QueueOK
        /\ Idle.pc = "idle" /\ ThenOK(M) /\ SettlingOK(M)
        /\ thread[M].then \in {"idle", "finish", "unqueue", "restored"}
    BY IdleFields, ThreadFacts DEF Inv, Threads, ThreadOK
  <1>1. ASSUME thread'[M].pc \notin P PROVE StartOK'
    BY <1>1 DEF StartOK, Starting
  <1>2. CASE Crash
    <2>1. UNCHANGED jobs /\ thread'[M].pc \in {"idle", "restore"}
      BY <1>0, <1>2, CrashFacts, CrashThreads DEF durable
    <2>2. CASE thread'[M].pc = "restore"
      <3>1. jobs[thread'[M].job].status = "running"
        BY <1>0, <1>2, <2>2, CrashFacts DEF is_running
      <3> QED BY <2>1, <2>2, <3>1 DEF StartOK, Starting, is_running
    <2>3. CASE thread'[M].pc = "idle"
      BY <1>1, <2>3 DEF Starting
    <2> QED BY <2>1, <2>2, <2>3
  <1>3. CASE thread'[M] = thread[M]
    BY <1>3, StartBeside
  <1>4. CASE StepTurn(M)
    <2>1. thread'[M].pc \notin P
      BY <1>0, <1>4 DEF StepTurn, Edge, Ends, GoesBack, Opens, Starting
    <2> QED BY <1>1, <2>1
  <1>5. CASE BeginTurn(M)
    <2>1. CASE thread'[M].pc \in {"enqueue", "retry_check", "cancel_mark"}
      BY <1>1, <2>1 DEF Starting
    <2>2. CASE StartLoad
      <3>1. PICK j \in DOMAIN jobs :
                /\ head_pending_event(box) # 0 /\ box.inbox[head_pending_event(box)].ref = j
                /\ Serving(box) = 0 /\ j \in ToSet(queue)
                /\ thread'[M].pc = "preclaim" /\ thread'[M].job = j
                /\ UNCHANGED <<jobs, box>>
        BY <1>0, <2>2, StartLoadFacts DEF durable
      <3>2. thread[M].pc = "idle"
        BY <1>5 DEF BeginTurn, Free, At
      <3>3. is_queued(j)
        BY <1>0, <3>1, <3>2 DEF QueueOK, Leaving
      <3> QED BY <3>1, <3>3 DEF StartOK, Starting, is_queued
    <2>3. ASSUME NEW j \in DOMAIN jobs, Opens(M, "complete", j, "finish"),
                 j \in exec \/ is_running(j), UNCHANGED <<durable, memory>>
          PROVE  StartOK'
      <3>1. ~is_queued(j) /\ jobs' = jobs
        BY <1>0, <2>3 DEF RecordsAgree, is_queued, is_running, durable
      <3> QED BY <2>3, <3>1 DEF StartOK, Starting, is_queued, Opens
    <2> QED BY <1>5, <2>1, <2>2, <2>3 DEF BeginTurn, Opens
  <1>6. CASE StartTurn(M)
    <2>0. PICK j \in DOMAIN jobs : j = thread[M].job
      BY <1>0, <1>6, JobOfThread DEF StartTurn, Edge, Ends, Recording
    <2>1. CASE thread'[M] = Idle
      BY <1>0, <1>1, <2>1 DEF Starting
    <2>2. CASE StartAllowed /\ Edge(M, "preclaim", "start_attempt")
      <3>1. UNCHANGED <<jobs, box>>
        BY <2>2 DEF StartAllowed, durable
      <3> QED BY <1>0, <2>0, <2>2, <3>1 DEF StartOK, Starting, Edge, Keeps, is_queued
    <2>3. CASE /\ StartUnstartable /\ Opens(M, "complete", j, "unqueue")
               /\ is_queued(j) /\ HasEvent(j)
      <3>1. UNCHANGED <<jobs, box>>
        BY <2>3 DEF StartUnstartable, durable
      <3> QED BY <2>3, <3>1 DEF StartOK, Starting, Opens, is_queued, HasEvent
    <2>4. CASE StartAttempt /\ Edge(M, "start_attempt", "start_claim")
      <3>1. UNCHANGED <<jobs, box>> /\ append_attempt(j, "running")
        BY <2>0, <2>4 DEF StartAttempt
      <3>2. attempts'[j].state = "running"
        BY <1>0, <3>1, StoreFacts, AppendAttemptFacts
      <3> QED BY <1>0, <2>0, <2>4, <3>1, <3>2 DEF StartOK, Starting, Edge, Keeps, is_queued
    <2>5. CASE StartClaim /\ Edge(M, "start_claim", "start_running")
      <3>1. UNCHANGED <<jobs, attempts>>
        BY <2>5 DEF StartClaim
      <3>2. PICK h : h = head_pending_event(box)
        OBVIOUS
      <3>3. /\ is_queued(j) /\ attempts[j].state = "running"
            /\ Serving(box) = 0 /\ h # 0 /\ box.inbox[h].ref = j
        BY <1>0, <2>0, <2>5, <3>2 DEF StartOK, Starting, Edge
      <3>4. h \in events(box)
        BY <1>0, <3>2, <3>3, StoreFacts, HeadIsLeast, PendingIds
      <3>5. event_of(j) = h
        BY <1>0, <3>3, <3>4, EventOf DEF LaneOK
      <3>6. Serving(box') = h
        BY <1>0, <2>0, <2>5, <3>2, <3>3, <3>5, StartClaimBox
      <3>7. box'.inbox[h].ref = j
        BY <1>0, <3>3, <3>4, EventsStep
      <3> QED BY <2>0, <2>5, <3>1, <3>3, <3>6, <3>7 DEF StartOK, Starting, Edge, Keeps, is_queued
    <2>6. CASE StartRunning /\ Edge(M, "start_running", "start_execute")
      <3>1. jobs'[j].status = "running"
        BY <1>0, <2>0, <2>6, StartRunningFacts
      <3> QED BY <2>0, <2>6, <3>1 DEF StartOK, Starting, Edge, Keeps, is_running
    <2>7. CASE StartExecute /\ Edge(M, "start_execute", "start_return")
      <3>1. jobs' = jobs
        BY <2>7 DEF StartExecute, durable
      <3> QED BY <1>0, <2>0, <2>7, <3>1 DEF StartOK, Starting, Edge, Keeps, is_running
    <2>8. ASSUME NEW then \in {"finish", "restored"}, Opens(M, "complete", j, then),
                 thread[M].pc \in {"start_return", "restore"}, jobs' = jobs
          PROVE  StartOK'
      <3>1. jobs[j].status = "running"
        BY <1>0, <2>0, <2>8 DEF StartOK, is_running
      <3> QED BY <2>8, <3>1 DEF StartOK, Starting, Opens, is_queued
    <2>9. CASE (\E outcome : StartReturn(outcome)) /\ Opens(M, "complete", j, "finish")
      <3>1. jobs' = jobs /\ thread[M].pc = "start_return"
        BY <2>9 DEF StartReturn, At, durable
      <3> QED BY <2>8, <2>9, <3>1
    <2>10. CASE (\E d \in Decisions : RestoreEnds(d)) /\ Opens(M, "complete", j, "restored")
      <3>1. jobs' = jobs /\ thread[M].pc = "restore"
        BY <2>10 DEF RestoreEnds, At, durable
      <3> QED BY <2>8, <2>10, <3>1
    <2> HIDE DEF M
    <2> QED BY <1>6, <2>0, <2>1, <2>2, <2>3, <2>4, <2>5, <2>6, <2>7, <2>9, <2>10
            DEF StartTurn, Ends
  <1> QED BY <1>0, <1>2, <1>3, <1>4, <1>5, <1>6, OneTurns DEF Turn

\* The running job keeps its event in delivery and its slot.
LEMMA LaneKept ==
    ASSUME Inv, [Next]_vars
    PROVE  LaneOK'
  <1> DEFINE M == "maintenance"
  <1>0. /\ TypeInv /\ TypeInv' /\ LaneOK /\ StartOK /\ RecordsAgree /\ M \in Threads
        /\ Consistent(box) /\ box \in Mailbox
    <2>1. TypeInv /\ TypeInv'
      BY NextType DEF Inv
    <2> QED BY <2>1, StoreFacts DEF Inv, Threads
  <1>1. \A e, f \in events(box') : box'.inbox[e].ref = box'.inbox[f].ref => e = f
    <2>1. CASE events(box') = events(box)
      BY <1>0, <2>1, EventsStep DEF LaneOK
    <2>2. ASSUME NEW t \in Threads, RecordEvent(t),
                 events(box') = events(box) \cup {Len(box.inbox) + 1},
                 box'.inbox[Len(box.inbox) + 1].ref = thread[t].new
          PROVE  \A e, f \in events(box') : box'.inbox[e].ref = box'.inbox[f].ref => e = f
      <3>1. \A e \in events(box) : box.inbox[e].ref # thread[t].new
        BY <2>2 DEF Inv, AddingOK, RecordEvent, At, Recording, HasEvent
      <3>2. \A e \in events(box) : box'.inbox[e].ref = box.inbox[e].ref
        BY <1>0, EventsStep
      <3> QED BY <1>0, <2>2, <3>1, <3>2 DEF LaneOK
    <2> QED BY <1>0, <2>1, <2>2, EventsStep
  <1>2. \A e \in events(box') : attempts'[box'.inbox[e].ref].state # "none"
    <2>1. ASSUME NEW e \in events(box) PROVE attempts'[box'.inbox[e].ref].state # "none"
      <3>1. PICK j : j = box.inbox[e].ref
        OBVIOUS
      <3>2. j \in DOMAIN jobs /\ box'.inbox[e].ref = j /\ attempts[j].state # "none"
        <4>1. j \in 1 .. Len(jobs) /\ DOMAIN jobs = 1 .. Len(jobs)
          BY <1>0, <2>1, <3>1, StoreFacts DEF RequestsOK
        <4> QED BY <1>0, <2>1, <3>1, <4>1, EventsStep DEF LaneOK
      <3> QED BY <3>2, AttemptStep
    <2>2. ASSUME NEW t \in Threads, RecordEvent(t) PROVE attempts'[thread[t].new].state # "none"
      <3>1. thread[t].new \in DOMAIN jobs
        BY <1>0, <2>2, RecordEventFacts
      <3>2. attempts[thread[t].new].state # "none" /\ attempts' = attempts
        BY <2>2 DEF Inv, AddingOK, RecordEvent, At
      <3> QED BY <3>1, <3>2
    <2> QED BY <1>0, <2>1, <2>2, EventsStep
  <1>3. ASSUME NEW j \in DOMAIN jobs, is_running(j)', is_running(j)
        PROVE  /\ Serving(box') # 0 /\ box'.inbox[Serving(box')].ref = j
               /\ active' = j \/ (thread'[M].pc = "start_execute" /\ thread'[M].job = j)
    <2>1. PICK h : h = head_pending_event(box)
      OBVIOUS
    <2>2. /\ Serving(box) = h /\ h # 0 /\ box.inbox[h].ref = j
          /\ active = j \/ (thread[M].pc = "start_execute" /\ thread[M].job = j)
      <3>1. /\ Serving(box) # 0 /\ box.inbox[Serving(box)].ref = j
            /\ active = j \/ (thread[M].pc = "start_execute" /\ thread[M].job = j)
        BY <1>0, <1>3 DEF LaneOK, At
      <3> QED BY <1>0, <2>1, <3>1, ServedIsHead
    <2>3. ~is_terminal(j)
      BY <1>3 DEF is_terminal, is_running, Ended
    <2>4. ~Sweep
      <3>1. Sweep => thread[M].pc = "idle" /\ ~(active # 0 /\ is_running(active))
        BY DEF Sweep, Free, At
      <3>2. j # 0
        BY <1>0, StoreFacts
      <3> QED BY <1>3, <2>2, <3>1, <3>2
    <2>5. ~StartClaim
      BY <1>0, <2>2 DEF StartClaim, At, StartOK
    <2>6. Serving(box') = h /\ box'.inbox[h].ref = j
      BY <2>1, <2>2, <2>3, <2>4, <2>5, HeadKept
    <2>7. \A k \in DOMAIN jobs : is_running(k) => k = j
      BY <1>0, <2>2 DEF LaneOK
    <2>8. ASSUME NEW t \in Threads, Complete(t) \/ CancelDecide(t)
          PROVE  active = j => active' = j
      <3>1. /\ thread[t].job \in DOMAIN jobs
            /\ \/ active' = active
               \/ /\ active' = IF active = thread[t].job THEN 0 ELSE active
                  /\ jobs'[thread[t].job].status \in Ended
        BY <1>0, <2>8, CompleteFacts, CancelDecideFacts
      <3>2. active = thread[t].job /\ active = j => active' = active
        BY <1>3, <3>1 DEF is_running, Ended
      <3> QED BY <3>1, <3>2
    <2>9. CASE Crash
      <3>1. PICK a : a = active'
        OBVIOUS
      <3>2. CASE a = 0
        BY <1>0, <1>3, <2>9, <3>1, <3>2, CrashFacts, StoreFacts
      <3>3. CASE a # 0
        <4>1. a \in DOMAIN jobs /\ jobs[a].status = "running"
          BY <1>0, <2>9, <3>1, <3>3, CrashFacts DEF is_running
        <4> QED BY <2>2, <2>6, <2>7, <3>1, <4>1 DEF is_running
      <3> QED BY <3>2, <3>3
    <2>10. CASE StartExecute
      <3>1. active' = thread[M].job /\ is_running(thread[M].job) /\ thread[M].job \in DOMAIN jobs
        BY <1>0, <2>10, JobOfThread DEF StartExecute, At, StartOK, Recording
      <3> QED BY <2>2, <2>6, <2>7, <3>1
    <2>11. CASE ~Crash /\ ~StartExecute
      <3>1. active = j => active' = j
        BY <2>8, <2>11, ActiveFrame
      <3>2. ASSUME thread[M].pc = "start_execute" PROVE thread'[M] = thread[M]
        <4>1. PICK t \in Threads : Turn(t)
          BY <1>0, <2>11, OneTurns
        <4> QED BY <1>0, <2>11, <3>2, <4>1
                DEF Turn, StepTurn, BeginTurn, StartTurn, Edge, Ends, GoesBack, Opens,
                    Free, At
      <3> QED BY <2>2, <2>6, <3>1, <3>2
    <2> QED BY <2>9, <2>10, <2>11
  <1>4. ASSUME NEW j \in DOMAIN jobs, StartRunning, thread[M].job = j
        PROVE  /\ Serving(box') # 0 /\ box'.inbox[Serving(box')].ref = j
               /\ thread'[M].pc = "start_execute" /\ thread'[M].job = j
    <2>1. StartTurn(M) /\ thread[M].pc = "start_running"
      BY <1>0, <1>4, StartTurns DEF StartStep, StartRunning, At
    <2>2. thread'[M].pc = "start_execute" /\ thread'[M].job = j
      BY <1>4, <2>1 DEF StartTurn, Edge, Ends, Keeps
    <2>3. Serving(box) # 0 /\ box.inbox[Serving(box)].ref = j /\ box' = box
      BY <1>0, <1>4, <2>1 DEF StartOK, StartRunning
    <2> QED BY <2>2, <2>3
  <1>5. ASSUME NEW j \in DOMAIN jobs', is_running(j)'
        PROVE  /\ Serving(box') # 0 /\ box'.inbox[Serving(box')].ref = j
               /\ active' = j \/ (thread'[M].pc = "start_execute" /\ thread'[M].job = j)
    <2>1. j \in DOMAIN jobs
      BY <1>5, JobStep DEF is_running
    <2> QED BY <1>3, <1>4, <1>5, <2>1, JobOrder
  <1>6. \A j \in DOMAIN jobs' : is_running(j)' =>
            /\ Serving(box') # 0 /\ box'.inbox[Serving(box')].ref = j
            /\ active' = j \/ (thread'[M].pc = "start_execute" /\ thread'[M].job = j)
    BY <1>5
  <1> QED BY <1>1, <1>2, <1>6 DEF LaneOK, At

\* Whether a job is between the queue and its next record changes only where
\* the heartbeat takes it or puts it down.
LEMMA HandsKept ==
    ASSUME Inv, [Next]_vars, ~Crash, ~StartAllowed, ~StartRunning,
           ~Complete("maintenance"), ~Unqueue("maintenance"), NEW j
    PROVE  /\ Taken(j)' <=> Taken(j)
           /\ Leaving(j)' <=> Leaving(j)
  <1> DEFINE M == "maintenance"
  <1>0. /\ TypeInv /\ StartOK /\ M \in Threads /\ Idle.pc = "idle" /\ Idle.then = "idle"
        /\ ThenOK(M) /\ SettlingOK(M)
        /\ thread[M].then \in {"idle", "finish", "unqueue", "restored"}
    BY IdleFields, ThreadFacts DEF Inv, Threads, ThreadOK
  <1>1. PICK t \in Threads : Turn(t)
    BY <1>0, OneTurns
  <1>2. CASE thread'[M] = thread[M]
    BY <1>2 DEF Taken, Leaving
  <1>3. CASE StepTurn(M)
    <2>1. thread[M].pc \notin Starting /\ thread'[M].pc \notin Starting
      BY <1>0, <1>3 DEF StepTurn, Edge, Ends, GoesBack, Opens, Starting
    <2>2. thread[M].then = "unqueue" =>
            /\ thread'[M].then = "unqueue" /\ thread'[M].job = thread[M].job
            /\ thread[M].pc \notin {"complete", "idle"}
            /\ thread'[M].pc \notin {"complete", "idle"}
      BY <1>0, <1>3 DEF StepTurn, Edge, Ends, GoesBack, Opens, Keeps, ThenOK
    <2>3. thread'[M].then = "unqueue" => thread[M].then = "unqueue"
      BY <1>0, <1>3 DEF StepTurn, Edge, Ends, GoesBack, Opens, Keeps
    <2> QED BY <2>1, <2>2, <2>3 DEF Taken, Leaving
  <1>4. CASE BeginTurn(M)
    <2>1. /\ thread[M].pc = "idle" /\ thread'[M].pc \notin Starting
          /\ thread'[M].then # "unqueue"
      BY <1>4 DEF BeginTurn, Free, At, Opens, Starting
    <2> QED BY <2>1 DEF Taken, Leaving, Starting
  <1>5. CASE StartTurn(M)
    <2>1. thread[M].pc \in {"preclaim", "start_execute", "start_return", "restore"} \cup Starting
      BY <1>5 DEF StartTurn, Edge, Ends, Starting
    <2>2. ~is_terminal(thread[M].job)
      BY <1>0, <2>1 DEF StartOK, is_queued, is_running, is_terminal, Ended
    <2>3. thread[M].then = "idle"
      BY <1>0, <2>1, <2>2 DEF SettlingOK, Starting
    <2>4. thread'[M].then = "unqueue" => thread'[M].pc = "complete"
      BY <1>0, <1>5, <2>3 DEF StartTurn, Edge, Ends, Opens, Keeps
    <2>5. /\ thread[M].pc \in Starting <=> thread'[M].pc \in Starting
          /\ thread[M].pc \in Starting => thread'[M].job = thread[M].job
      BY <1>0, <1>5 DEF StartTurn, Edge, Ends, Opens, Keeps, Starting
    <2> QED BY <2>3, <2>4, <2>5 DEF Taken, Leaving
  <1> QED BY <1>0, <1>1, <1>2, <1>3, <1>4, <1>5 DEF Turn

\* The queue and the store go on agreeing.
LEMMA QueueKept ==
    ASSUME Inv, [Next]_vars
    PROVE  QueueOK'
  <1> DEFINE M == "maintenance"
  <1>0. /\ TypeInv /\ QueueOK /\ StartOK /\ M \in Threads /\ "socket" \in Threads
        /\ ThenOK(M) /\ SettlingOK(M) /\ TypeOK
        /\ queue \in Seq(DOMAIN jobs) /\ Distinct(queue)
        /\ Len(jobs) \in Nat /\ DOMAIN jobs = 1 .. Len(jobs)
    <2>1. TypeInv
      BY DEF Inv
    <2> QED BY <2>1, StoreFacts DEF Inv, QueueOK, Threads
  <1>q. \A i \in ToSet(queue) : i \in DOMAIN jobs
    BY <1>0 DEF ToSet
  <1>1. CASE Crash
    <2>1. /\ queue' \in admission_ordered /\ jobs' = jobs
          /\ thread'[M].pc \in {"idle", "restore"} /\ thread'[M].then = "idle"
      BY <1>0, <1>1, CrashFacts, CrashThreads DEF durable
    <2>2. PICK q \in admission_ordered : q = queue'
      BY <2>1
    <2>3. Distinct(q) /\ ToSet(q) = {j \in DOMAIN jobs : jobs[j].status = "queued"}
      BY <1>0, AdmissionSet
    <2> QED BY <2>1, <2>2, <2>3 DEF QueueOK, Taken, Leaving, Starting, is_queued
  <1>2. ASSUME NEW t \in Threads, Enqueue(t) PROVE QueueOK'
    <2>1. PICK n \in Nat : n = Len(jobs) + 1
      BY <1>0
    <2>2. /\ jobs'[n] = QueuedJob /\ QueuedJob.status = "queued" /\ DOMAIN jobs' = 1 .. n
          /\ \A j \in DOMAIN jobs : jobs'[j] = jobs[j]
      BY <1>0, <1>2, <2>1, EnqueueFacts, IdleFields
    <2>3. queue' = Append(queue, n)
      BY <1>2, <2>1 DEF Enqueue
    <2>4. DOMAIN jobs \subseteq 1 .. n /\ n \in 1 .. n /\ n \notin DOMAIN jobs
          /\ 1 .. n = DOMAIN jobs \cup {n}
      BY <1>0, <2>1
    <2>5. queue \in Seq(1 .. n)
      BY <1>0, <2>4, SeqGrows
    <2>6. ToSet(queue') = ToSet(queue) \cup {n} /\ Distinct(queue')
      <3>1. n \notin ToSet(queue)
        BY <1>q, <2>4
      <3>2. PICK T : T = 1 .. n
        OBVIOUS
      <3>3. queue \in Seq(T) /\ n \in T
        BY <2>4, <2>5, <3>2
      <3>4. Distinct(queue)
        BY <1>0
      <3>5. PICK r : r = queue' /\ r = Append(queue, n)
        BY <2>3
      <3>6. ToSet(r) = ToSet(queue) \cup {n} /\ Distinct(r)
        <4>1. PICK q : q = queue
          OBVIOUS
        <4>2. q \in Seq(T) /\ r = Append(q, n) /\ n \in T
          BY <3>3, <3>5, <4>1
        <4>3. Distinct(q) /\ n \notin ToSet(q) => Distinct(r)
          BY <4>2, AppendSet
        <4>4. /\ Len(q) \in Nat /\ DOMAIN q = 1 .. Len(q)
              /\ DOMAIN r = 1 .. Len(q) + 1 /\ r[Len(q) + 1] = n
              /\ \A k \in 1 .. Len(q) : r[k] = q[k]
          BY <4>2
        <4>5. ToSet(r) = ToSet(q) \cup {n}
          BY <4>4 DEF ToSet
        <4> QED BY <3>1, <3>4, <4>1, <4>3, <4>5
      <3> QED BY <3>5, <3>6
    <2>7. ~Crash /\ ~StartAllowed /\ ~StartRunning /\ ~Complete(M) /\ ~Unqueue(M)
      <3>1. jobs' # jobs
        BY <2>2, <2>4
      <3>2. queue' # queue
        BY <1>q, <2>4, <2>6
      <3>3. Len(jobs') # Len(jobs)
        BY <1>0, <1>2, EnqueueFacts
      <3>4. ~StartRunning /\ ~Complete(M)
        BY <1>0, <3>3, StartRunningFacts, CompleteFacts
      <3> QED BY <3>1, <3>4 DEF Crash, StartAllowed, Unqueue, durable
    <2>8. \A j : (Taken(j)' <=> Taken(j)) /\ (Leaving(j)' <=> Leaving(j))
      BY <2>7, HandsKept
    <2>9. ~Taken(n) /\ ~Leaving(n)
      <3>1. thread[M].job # 0 => thread[M].job \in DOMAIN jobs
        BY <1>0, ThreadFacts
      <3>2. n # 0
        BY <1>0, <2>1
      <3> QED BY <2>4, <3>1, <3>2 DEF Taken, Leaving
    <2>10. \A j \in DOMAIN jobs : is_queued(j)' <=> is_queued(j)
      BY <2>2 DEF is_queued
    <2>11. is_queued(n)'
      BY <2>2 DEF is_queued
    <2> QED BY <1>0, <1>q, <2>2, <2>4, <2>6, <2>8, <2>9, <2>10, <2>11 DEF QueueOK
  <1>3. CASE StartAllowed
    <2>1. StartTurn(M) /\ thread[M].pc = "preclaim"
      BY <1>0, <1>3, StartTurns DEF StartStep, StartAllowed, At
    <2>2. thread'[M].pc = "start_attempt" \/ thread'[M].pc = "complete" \/ thread'[M] = Idle
      BY <2>1 DEF StartTurn, Edge, Ends, Opens
    <2>3. Goto(M, "start_attempt") /\ "start_attempt" \in Labels
      BY <1>3 DEF StartAllowed, Labels
    <2>4. Edge(M, "preclaim", "start_attempt")
      BY <1>0, <2>1, <2>3, GotoTurn
    <2>5. PICK k \in DOMAIN jobs : k = thread[M].job
      BY <1>0, <2>1, JobOfThread DEF Recording
    <2>6. jobs' = jobs /\ queue' = RemoveFirst(queue, k)
      BY <1>3, <2>5 DEF StartAllowed, durable, remove_queued
    <2>7. Distinct(queue') /\ ToSet(queue') = ToSet(queue) \ {k}
      BY <1>0, <2>6, RemoveFirstSet
    <2>8. is_queued(k) /\ ~is_terminal(k)
      BY <1>0, <2>1, <2>5 DEF StartOK, is_queued, is_terminal, Ended
    <2>9. thread[M].then = "idle"
      BY <1>0, <2>1, <2>5, <2>8 DEF SettlingOK
    <2>10. \A j \in DOMAIN jobs :
                /\ ~Taken(j) /\ ~Leaving(j) /\ ~Leaving(j)'
                /\ Taken(j)' <=> j = k
                /\ is_queued(j)' <=> is_queued(j)
      BY <2>1, <2>4, <2>5, <2>6, <2>9 DEF Taken, Leaving, Starting, Edge, Keeps, is_queued
    <2> QED BY <1>0, <2>6, <2>7, <2>8, <2>10 DEF QueueOK
  <1>4. CASE StartRunning
    <2>1. Goto(M, "start_execute") /\ thread[M].pc = "start_running"
          /\ "start_execute" \in Labels /\ queue' = queue
      BY <1>4 DEF StartRunning, At, Labels, memory
    <2>2. Edge(M, "start_running", "start_execute")
      BY <1>0, <2>1, GotoTurn
    <2>3. PICK k \in DOMAIN jobs : k = thread[M].job
      BY <1>0, <2>1, JobOfThread DEF Recording
    <2>4. /\ DOMAIN jobs' = DOMAIN jobs /\ jobs'[k].status = "running"
          /\ \A j \in DOMAIN jobs : j # k => jobs'[j] = jobs[j]
      BY <1>0, <1>4, <2>3, StartRunningFacts
    <2>5. is_queued(k) /\ ~is_terminal(k)
      BY <1>0, <2>1, <2>3 DEF StartOK, Starting, is_queued, is_terminal, Ended
    <2>6. thread[M].then = "idle"
      BY <1>0, <2>1, <2>3, <2>5 DEF SettlingOK
    <2>7. \A j \in DOMAIN jobs :
                /\ ~Taken(j)' /\ ~Leaving(j) /\ ~Leaving(j)'
                /\ Taken(j) <=> j = k
                /\ is_queued(j)' <=> is_queued(j) /\ j # k
      BY <2>1, <2>2, <2>3, <2>4, <2>6 DEF Taken, Leaving, Starting, Edge, Keeps, is_queued
    <2> QED BY <1>0, <2>1, <2>4, <2>7 DEF QueueOK
  <1>5. CASE Complete(M)
    <2>1. /\ thread[M].pc = "complete" /\ thread[M].job \in DOMAIN jobs /\ queue' = queue
          /\ \/ /\ is_terminal(thread[M].job) /\ Goto(M, "idle") /\ jobs' = jobs
             \/ /\ ~is_terminal(thread[M].job) /\ Goto(M, "attempt_terminal")
                /\ DOMAIN jobs' = DOMAIN jobs /\ jobs'[thread[M].job].status \in Ended
                /\ \A j \in DOMAIN jobs : j # thread[M].job => jobs'[j] = jobs[j]
      BY <1>0, <1>5, CompleteFacts
    <2>2. "idle" \in Labels /\ "attempt_terminal" \in Labels /\ Idle.pc = "idle"
      BY IdleFields DEF Labels
    <2>3. PICK k \in DOMAIN jobs : k = thread[M].job
      BY <2>1
    <2>4. \A j : ~Taken(j) /\ ~Leaving(j)
      BY <2>1 DEF Taken, Leaving, Starting
    <2>5. CASE is_terminal(k) /\ Goto(M, "idle") /\ jobs' = jobs
      <3>1. thread'[M].pc = "idle"
        BY <1>0, <2>2, <2>5, GotoTurn DEF Ends
      <3>2. \A j : ~Taken(j)' /\ ~Leaving(j)'
        BY <3>1 DEF Taken, Leaving, Starting
      <3> QED BY <1>0, <2>1, <2>4, <2>5, <3>2 DEF QueueOK, is_queued
    <2>6. CASE /\ ~is_terminal(k) /\ Goto(M, "attempt_terminal")
               /\ DOMAIN jobs' = DOMAIN jobs /\ jobs'[k].status \in Ended
               /\ \A j \in DOMAIN jobs : j # k => jobs'[j] = jobs[j]
      <3>1. Edge(M, "complete", "attempt_terminal")
        BY <1>0, <2>1, <2>2, <2>6, GotoTurn
      <3>2. thread[M].then = "unqueue" <=> is_queued(k)
        BY <1>0, <2>1, <2>3 DEF StartOK
      <3>3. \A j : /\ ~Taken(j)'
                   /\ Leaving(j)' <=> j = k /\ is_queued(k)
        BY <2>3, <3>1, <3>2 DEF Taken, Leaving, Starting, Edge, Keeps
      <3>4. \A j \in DOMAIN jobs : is_queued(j)' <=> is_queued(j) /\ j # k
        BY <2>6 DEF is_queued, Ended
      <3> QED BY <1>0, <2>1, <2>4, <2>6, <3>3, <3>4 DEF QueueOK
    <2> QED BY <2>1, <2>3, <2>5, <2>6
  <1>6. CASE Unqueue(M)
    <2>1. Goto(M, "idle") /\ thread[M].pc = "unqueue" /\ jobs' = jobs /\ "idle" \in Labels
          /\ remove_queued(thread[M].job)
      BY <1>6 DEF Unqueue, At, durable, Labels
    <2>2. thread'[M].pc = "idle"
      BY <1>0, <2>1, GotoTurn, IdleFields DEF Ends
    <2>3. PICK k \in DOMAIN jobs : k = thread[M].job
      BY <1>0, <2>1, JobOfThread DEF Recording
    <2>4. queue' = RemoveFirst(queue, k)
      BY <2>1, <2>3 DEF remove_queued
    <2>5. Distinct(queue') /\ ToSet(queue') = ToSet(queue) \ {k}
      BY <1>0, <2>4, RemoveFirstSet
    <2>6. thread[M].then = "unqueue" /\ is_terminal(k)
      BY <1>0, <2>1, <2>3 DEF ThenOK, SettlingOK
    <2>7. \A j : ~Taken(j) /\ ~Taken(j)' /\ ~Leaving(j)' /\ (Leaving(j) <=> j = k)
      BY <2>1, <2>2, <2>3, <2>6 DEF Taken, Leaving, Starting
    <2>8. ~is_queued(k)
      BY <2>6 DEF is_queued, is_terminal, Ended
    <2> QED BY <1>0, <2>1, <2>5, <2>7, <2>8 DEF QueueOK, is_queued
  <1>7. ASSUME NEW t \in Threads, CancelDecide(t), ~is_terminal(thread[t].job),
               ~Crash, ~StartAllowed, ~StartRunning, ~Complete(M), ~Unqueue(M)
        PROVE  QueueOK'
    <2>1. /\ thread[t].pc = "cancel_decide" /\ thread[t].job \in DOMAIN jobs
          /\ DOMAIN jobs' = DOMAIN jobs /\ jobs'[thread[t].job].status \in Ended
          /\ \A j \in DOMAIN jobs : j # thread[t].job => jobs'[j] = jobs[j]
          /\ remove_queued(thread[t].job)
      BY <1>0, <1>7, CancelDecideFacts
    <2>2. PICK k \in DOMAIN jobs : k = thread[t].job
      BY <2>1
    <2>3. queue' = RemoveFirst(queue, k)
      BY <2>1, <2>2 DEF remove_queued
    <2>4. Distinct(queue') /\ ToSet(queue') = ToSet(queue) \ {k}
      BY <1>0, <2>3, RemoveFirstSet
    <2>5. \A j : (Taken(j)' <=> Taken(j)) /\ (Leaving(j)' <=> Leaving(j))
      BY <1>7, HandsKept
    <2>6. thread[M].pc \in {"idle", "cancel_decide"}
      <3>1. CASE t = M
        BY <2>1, <3>1
      <3>2. CASE t = "socket"
        BY <2>1, <3>2, Beside
      <3> QED BY <3>1, <3>2 DEF Threads
    <2>7. thread[M].then = "idle"
      BY <1>0, <2>6 DEF ThenOK
    <2>8. \A j : ~Taken(j) /\ ~Leaving(j)
      BY <2>6, <2>7 DEF Taken, Leaving, Starting
    <2>9. \A j \in DOMAIN jobs : is_queued(j)' <=> is_queued(j) /\ j # k
      BY <2>1, <2>2 DEF is_queued, Ended
    <2> QED BY <1>0, <2>1, <2>4, <2>5, <2>8, <2>9 DEF QueueOK
  <1>8. ASSUME ~Crash, ~StartAllowed, ~StartRunning, ~Complete(M), ~Unqueue(M),
               \A t \in Threads : ~Enqueue(t),
               \A t \in Threads : CancelDecide(t) => is_terminal(thread[t].job)
        PROVE  QueueOK'
    <2>1. \A j : (Taken(j)' <=> Taken(j)) /\ (Leaving(j)' <=> Leaving(j))
      BY <1>8, HandsKept
    <2>2. ASSUME NEW t \in Threads PROVE ~Complete(t) /\ ~Unqueue(t)
      <3>1. ~Complete("socket") /\ ~Unqueue("socket")
        BY Beside DEF Complete, Unqueue, At
      <3> QED BY <1>8, <3>1 DEF Threads
    <2>3. ASSUME NEW t \in Threads, CancelDecide(t) PROVE queue' = queue
      BY <1>0, <1>8, <2>3, CancelDecideFacts
    <2>4. queue' = queue
      BY <1>8, <2>2, <2>3, QueueFrame
    <2>5. \A j \in DOMAIN jobs' : j \in DOMAIN jobs
      BY <1>8, JobStep
    <2>6. \A j \in DOMAIN jobs : j \in DOMAIN jobs' /\ (is_queued(j)' <=> is_queued(j))
      BY <1>8, <2>2, JobStep DEF StatusStep, is_queued, is_terminal
    <2> QED BY <1>0, <2>1, <2>4, <2>5, <2>6 DEF QueueOK
  <1> QED BY <1>1, <1>2, <1>3, <1>4, <1>5, <1>6, <1>7, <1>8
-----------------------------------------------------------------------------
(* The theorems.                                                           *)

\* Nothing has begun.
LEMMA InitInv == Init /\ NoCancelRace => Inv
  <1> SUFFICES ASSUME Init, NoCancelRace PROVE Inv
    OBVIOUS
  <1>1. TypeInv
    BY InitType
  <1>2. \A t \in Threads : thread[t] = Idle
    BY DEF Init
  <1>3. /\ Idle.pc = "idle" /\ Idle.then = "idle"
        /\ "socket" \in Threads /\ "maintenance" \in Threads
    BY IdleFields DEF Threads
  <1>4. /\ jobs = << >> /\ attempts = << >> /\ replies = << >> /\ queue = << >>
        /\ exec = {} /\ box = EmptyMailbox
    BY DEF Init
  <1>5. Solo
    BY <1>2, <1>3 DEF Solo, At
  <1>6. RecordsAgree /\ OneReplyPerAttempt
    BY <1>4 DEF RecordsAgree, OneReplyPerAttempt
  <1>7. \A t \in Threads : ThenOK(t) /\ SettlingOK(t) /\ CancelOK(t) /\ AddingOK(t)
    BY <1>2, <1>3 DEF ThenOK, SettlingOK, CancelOK, AddingOK, Ending, Recording
  <1>8. NewApart /\ StartOK
    BY <1>2, <1>3 DEF NewApart, StartOK, Recording, Starting
  <1>9. LaneOK
    <2>1. events(box) = {}
      BY <1>4 DEF events, EmptyMailbox
    <2> QED BY <1>4, <2>1 DEF LaneOK
  <1>10. QueueOK
    BY <1>4 DEF QueueOK, Distinct
  <1> QED BY <1>1, <1>5, <1>6, <1>7, <1>8, <1>9, <1>10 DEF Inv

\* The invariant is inductive.
LEMMA NextInv ==
    ASSUME Inv, [Next]_vars
    PROVE  Inv'
  <1>1. TypeInv' /\ Solo'
    BY NextType, SoloKept DEF Inv
  <1>2. NoCancelRace'
    <2>1. limits' = limits /\ NoCancelRace
      BY LimitsKept DEF Inv
    <2> QED BY <2>1 DEF NoCancelRace
  <1>3. \A t \in Threads : (ThenOK(t) /\ SettlingOK(t) /\ CancelOK(t) /\ AddingOK(t))'
    BY ThenKept, SettlingKept, CancelKept, AddingKept
  <1>4. RecordsAgree' /\ OneReplyPerAttempt'
    BY RecordsKept, RepliesKept
  <1>5. NewApart' /\ StartOK' /\ LaneOK' /\ QueueOK'
    BY NewApartKept, StartKept, LaneKept, QueueKept
  <1> QED BY <1>1, <1>2, <1>3, <1>4, <1>5 DEF Inv

\* The inductive invariant holds when no cancellation overlaps.
THEOREM InvAlways == Spec /\ NoCancelRace => []Inv
  <1>1. Init /\ NoCancelRace => Inv
    BY InitInv
  <1>2. Inv /\ [Next]_vars => Inv'
    BY NextInv
  <1> QED BY <1>1, <1>2, PTL DEF Spec

(* Whatever ends a job, completion, cancellation, a failed start, a restart *)
(* or the heartbeat, its record is not written over afterwards.             *)
THEOREM FinalStates == Spec /\ NoCancelRace => TerminalIsFinal
  <1>1. Inv /\ [Next]_vars =>
            [\A j \in DOMAIN jobs :
                jobs[j].status \in Ended => jobs'[j].status = jobs[j].status]_vars
    BY InvFinal
  <1> QED BY <1>1, InvAlways, PTL DEF Spec, TerminalIsFinal

(* A job is answered at most once, however often the daemon is restarted    *)
(* and whatever is retried or cancelled.                                    *)
THEOREM AnsweredOnce == Spec /\ NoCancelRace => []OneReplyPerAttempt
  <1>1. Inv => OneReplyPerAttempt
    BY DEF Inv
  <1> QED BY <1>1, InvAlways, PTL

(* One job at a time is RUNNING, and the lane of the agent is its.          *)
THEOREM LaneOwned == Spec /\ NoCancelRace => []RunningOwnsLane
  <1>1. ASSUME Inv PROVE RunningOwnsLane
    <2>0. LaneOK /\ Consistent(box) /\ box \in Mailbox
      <3>1. TypeInv
        BY <1>1 DEF Inv
      <3> QED BY <1>1, <3>1, StoreFacts DEF Inv
    <2>1. SUFFICES ASSUME NEW j \in DOMAIN jobs, is_running(j)
                   PROVE  /\ \A k \in DOMAIN jobs : is_running(k) => k = j
                          /\ box.inbox[event_of(j)].status = "delivering"
                          /\ holds_lease(box) /\ box.lease.event = event_of(j)
      BY DEF RunningOwnsLane
    <2>2. Serving(box) # 0 /\ box.inbox[Serving(box)].ref = j
      BY <2>0, <2>1 DEF LaneOK
    <2>3. /\ Serving(box) \in events(box) /\ holds_lease(box)
          /\ box.lease.event = Serving(box) /\ box.inbox[Serving(box)].status = "delivering"
      BY <2>0, <2>2, ServedIsHead, PendingIds
    <2>4. event_of(j) = Serving(box)
      BY <2>0, <2>2, <2>3, EventOf DEF LaneOK
    <2>5. \A k \in DOMAIN jobs : is_running(k) => k = j
      BY <2>0, <2>2 DEF LaneOK
    <2> QED BY <2>3, <2>4, <2>5
  <1> QED BY <1>1, InvAlways, PTL

(* The queue in memory never loses, repeats or invents a job: submissions,  *)
(* retries, starts, cancellations and restarts keep it to the store's.      *)
THEOREM QueueAgrees == Spec /\ NoCancelRace => []QueueMatchesStore
  <1>1. ASSUME Inv PROVE QueueMatchesStore
    <2>1. QueueOK /\ queue \in Seq(DOMAIN jobs)
      <3>1. TypeInv
        BY <1>1 DEF Inv
      <3> QED BY <1>1, <3>1, StoreFacts DEF Inv
    <2>2. \A j \in ToSet(queue) : j \in DOMAIN jobs
      BY <2>1 DEF ToSet
    <2>3. \A j \in DOMAIN jobs : j # thread["maintenance"].job =>
            (j \in ToSet(queue) <=> jobs[j].status = "queued")
      BY <2>1 DEF QueueOK, Taken, Leaving, is_queued
    <2> QED BY <2>1, <2>2, <2>3 DEF QueueMatchesStore, QueueOK, Distinct
  <1> QED BY <1>1, InvAlways, PTL

-----------------------------------------------------------------------------
(* The third layer: lineages, answers and the order of the queue, for     *)
(* behaviours in which nothing that a user asks of a job overlaps another  *)
(* operation.  (A retry by a user takes no lock: beside the automatic one  *)
(* it would make two attempts of the same number.)                         *)

NoUserRace == limits.overlap = 1 \/ (limits.cancels = 0 /\ limits.retries = 0)

Failed == Ended \ {"completed"}
Index(j) == attempts[j].retry_index

\* Beside the heartbeat the socket only submits.
Alone ==
    limits.overlap # 1 =>
        /\ thread["socket"].pc \in {"idle", "enqueue"} \cup Recording
        /\ thread["socket"].job = 0

\* A submission, and the heartbeat from the terminal record of a job to its
\* reply or its retry, hold the lock.
LockOK ==
    limits.overlap # 1 =>
        /\ thread["socket"].pc # "idle" => lock = "socket"
        /\ thread["maintenance"].pc \in
                Ending \cup Recording \cup {"retry_check", "enqueue", "unqueue"}
            => lock = "maintenance"

\* Cancellations and failed starts are not retried.
PlanOK(t) ==
    /\ thread[t].pc \in Ending \cup {"cancel_mark", "cancel_decide", "complete"}
        /\ thread[t].then \in {"idle", "unqueue"} => ~thread[t].decision.retryable
    /\ thread[t].then = "unqueue" => thread[t].pc \in Ending \cup {"complete", "unqueue"}

\* An attempt belongs to a message there is; a message has an attempt; the
\* attempts of a message have different numbers, with no gap below any, and
\* one with another after it has ended without success.
LineOK ==
    /\ \A j \in DOMAIN jobs : IF attempts[j].state = "none" THEN message_of(j) = 0
                              ELSE message_of(j) \in DOMAIN messages
    /\ \A m \in DOMAIN messages : \E j \in DOMAIN jobs : message_of(j) = m
    /\ \A j, k \in DOMAIN jobs :
        message_of(j) = message_of(k) /\ message_of(j) # 0 /\ Index(j) = Index(k) => j = k
    /\ \A j \in DOMAIN jobs : message_of(j) # 0 =>
        \A i \in Nat : i < Index(j) =>
            \E k \in DOMAIN jobs : message_of(k) = message_of(j) /\ Index(k) = i
    /\ \A j, k \in DOMAIN jobs :
        message_of(j) = message_of(k) /\ message_of(j) # 0 /\ Index(j) < Index(k)
            => attempts[j].state \in Failed

\* A thread that retries has the latest attempt, which has failed; the
\* attempt it adds is not written yet; an attempt ends once.
RetryOK(t) ==
    /\ thread[t].pc \in {"enqueue", "record_attempt"} /\ thread[t].job # 0 =>
        attempts[thread[t].job].state \in Failed /\ is_latest_attempt(thread[t].job)
    /\ thread[t].pc = "attempt_terminal" => attempts[thread[t].job].state \notin Ended
    /\ thread[t].pc = "record_attempt" => attempts[thread[t].new].state = "none"
    /\ thread[t].pc \in {"event_terminal", "retry_check"} =>
        attempts[thread[t].job].state # "none"

\* The numbers of the attempts are within the budget, and so is the number
\* of one that is being added.
BudgetOK ==
    /\ \A j \in DOMAIN jobs : Index(j) < MaxAttempts + retries
    /\ \A t \in Threads :
        thread[t].pc \in {"retry_check", "enqueue", "record_attempt"} /\ thread[t].job # 0
            => Index(thread[t].job) + 1 < MaxAttempts + retries

\* A thread is about to write the state of the message of job j, or its reply.
Unsaid(j) == \E t \in Threads :
    \/ thread[t].pc = "record_event" /\ thread[t].new = j
    \/ thread[t].pc = "event_terminal" /\ thread[t].job = j
Unanswered(j) == \E t \in Threads :
    /\ thread[t].job = j
    /\ \/ thread[t].pc \in {"event_terminal", "reply"}
       \/ /\ thread[t].then # "idle"
          /\ thread[t].pc \in {"retry_check", "enqueue", "record_attempt"}

AnswerOK ==
    crashes = 0 =>
      \A j \in DOMAIN jobs : attempts[j].state # "none" /\ is_latest_attempt(j) =>
        /\ Unsaid(j) \/ (messages[message_of(j)] = "ended" <=> attempts[j].state \in Ended)
        /\ attempts[j].state \in Ended => HasReply(j) \/ Unanswered(j)

\* The job that is being added is the last of the queue.
OrderOK ==
    /\ QueueInMailboxOrder
    /\ \A t \in Threads : thread[t].pc \in Recording =>
        Len(queue) \in DOMAIN queue /\ queue[Len(queue)] = thread[t].new

Inv2 ==
    /\ Inv /\ NoUserRace /\ Alone /\ LockOK
    /\ \A t \in Threads : PlanOK(t) /\ RetryOK(t)
    /\ LineOK /\ BudgetOK /\ AnswerOK /\ OrderOK
-----------------------------------------------------------------------------
(* The kinds of steps.                                                     *)

Calm == {"idle", "preclaim", "restore", "complete", "start_attempt", "start_claim",
         "start_running", "start_execute", "start_return"}

\* A step in which nobody records, settles, retries or cancels: at most the
\* heartbeat moves, towards a start, a restore or a completion.
Quiet ==
    /\ thread'["socket"] = thread["socket"]
    /\ \/ thread'["maintenance"] = thread["maintenance"]
       \/ /\ thread["maintenance"].pc \in Calm /\ thread'["maintenance"].pc \in Calm
          /\ \/ thread'["maintenance"].then \in {"idle", "finish", "restored"}
             \/ /\ thread["maintenance"].pc # "complete"
                /\ thread'["maintenance"].pc # "complete"
                /\ thread'["maintenance"].then = thread["maintenance"].then
             \/ /\ thread'["maintenance"].pc = "complete"
                /\ ~thread'["maintenance"].decision.retryable
    /\ lock' = lock \/ (lock' = "maintenance" /\ CanLock("maintenance"))
    /\ UNCHANGED <<replies, retries, crashes>>

\* Loads and starts are quiet.
LEMMA StartQuiet ==
    ASSUME TypeInv, StartStep \/ RestoreStep
    PROVE  Quiet
  <1> DEFINE M == thread["maintenance"]
  <1>0. /\ "maintenance" \in Threads /\ "socket" \in Threads /\ "socket" # "maintenance"
        /\ Idle.pc = "idle" /\ Idle.then = "idle" /\ thread["maintenance"].then \in Labels
        /\ "idle" \in Labels /\ "complete" \in Labels /\ "finish" \in Labels
        /\ "unqueue" \in Labels /\ "restored" \in Labels /\ NoDecision \in Decision
        /\ ~NoDecision.retryable /\ thread \in [Threads -> Local]
    BY IdleFields, ThreadFacts DEF Threads, Labels, NoDecision
  <1>1. thread'["socket"] = thread["socket"]
    BY <1>0, StartLeaves
  <1>2. UNCHANGED <<replies, retries, crashes>>
    BY Zenon DEF StartStep, RestoreStep, StartAllowed, StartBlocked, StartUnstartable,
        StartAttempt, StartClaim, StartRunning, StartExecute, StartReturn,
        RestoreResumed, RestoreEnds, durable, bounds, memory
  <1>3. lock' = lock \/ (lock' = "maintenance" /\ CanLock("maintenance"))
    BY Zenon DEF StartStep, RestoreStep, StartAllowed, StartBlocked, StartUnstartable,
        StartAttempt, StartClaim, StartRunning, StartExecute, StartReturn,
        RestoreResumed, RestoreEnds, durable, bounds, memory
  <1>4. /\ StartTurn("maintenance")
        /\ StartUnstartable => Goto("maintenance", "idle") \/
             \E j \in Nat : Begin("maintenance", "complete", j, NoDecision, "unqueue")
    <2>1. StartTurn("maintenance")
      BY StartTurns
    <2>2. thread["maintenance"].job \in Nat
      BY ThreadFacts, <1>0
    <2> QED BY <2>1, <2>2, Zenon DEF StartUnstartable
  <1>5. ASSUME NEW j \in Nat, Begin("maintenance", "complete", j, NoDecision, "unqueue")
        PROVE  thread'["maintenance"].decision = NoDecision /\ thread'["maintenance"].pc = "complete"
    BY <1>0, <1>5, IdleFields DEF Begin, Idle, Local
  <1>6. Goto("maintenance", "idle") => thread'["maintenance"] = Idle
    BY <1>0 DEF Goto
  <1>7. \/ StartUnstartable
        \/ /\ thread["maintenance"].pc \in Calm /\ thread'["maintenance"].pc \in Calm
           /\ \/ thread'["maintenance"].then \in {"idle", "finish", "restored"}
              \/ /\ thread["maintenance"].pc # "complete"
                 /\ thread'["maintenance"].pc # "complete"
                 /\ thread'["maintenance"].then = thread["maintenance"].then
    BY <1>4, <1>0 DEF StartTurn, Edge, Ends, Opens, Keeps, Calm
  <1>8. CASE StartUnstartable
    <2>1. thread["maintenance"].pc = "preclaim"
      BY <1>8 DEF StartUnstartable, At
    <2> QED BY <2>1, <1>8, <1>0, <1>1, <1>2, <1>3, <1>4, <1>5, <1>6 DEF Quiet, Calm
  <1> QED BY <1>1, <1>2, <1>3, <1>7, <1>8 DEF Quiet


\* What the heartbeat begins is quiet, but for a cancellation.
LEMMA HeartbeatQuiet ==
    ASSUME TypeInv, Heartbeat
    PROVE  Quiet \/ (active \in DOMAIN jobs /\ CancelLoad("maintenance", active))
  <1>0. /\ "maintenance" \in Threads /\ "socket" \in Threads /\ "socket" # "maintenance"
        /\ "complete" \in Labels /\ "finish" \in Labels /\ exec \subseteq DOMAIN jobs
        /\ active \in {0} \cup DOMAIN jobs /\ DOMAIN jobs \subseteq Nat
        /\ [status |-> "incomplete", retryable |-> FALSE] \in Decision
        /\ thread \in [Threads -> Local]
    <2>1. active \in {0} \cup DOMAIN jobs /\ DOMAIN jobs \subseteq Nat /\ exec \subseteq DOMAIN jobs
      BY StoreFacts
    <2> QED BY <2>1, ThreadFacts DEF Threads, Labels, Decision, Ended
  <1>1. CASE StartLoad
    <2>1. /\ thread["maintenance"].pc = "idle" /\ thread'["socket"] = thread["socket"]
          /\ thread'["maintenance"].pc = "preclaim" /\ thread'["maintenance"].then = "idle"
          /\ UNCHANGED <<durable, memory, bounds>>
      BY <1>1, StartLoadFacts DEF StartLoad, Free, At
    <2> QED BY <2>1 DEF Quiet, Calm, durable, memory, bounds
  <1>2. CASE Sweep
    BY <1>2 DEF Sweep, Quiet, memory, bounds
  <1>3. ASSUME NEW j \in Nat, NEW d \in Decision, Free("maintenance"),
               Begin("maintenance", "complete", j, d, "finish"),
               UNCHANGED <<durable, memory, bounds>>
        PROVE  Quiet
    <2>1. /\ thread'["socket"] = thread["socket"] /\ thread'["maintenance"].pc = "complete"
          /\ thread'["maintenance"].then = "finish"
      BY <1>0, <1>3, BeginFacts
    <2>2. thread["maintenance"].pc = "idle"
      BY <1>3 DEF Free, At
    <2> QED BY <2>1, <2>2, <1>3 DEF Quiet, Calm, durable, memory, bounds
  <1>4. CASE HeartbeatTimeout
    <2>1. active \in Nat
      BY <1>0
    <2> QED BY <1>0, <1>3, <1>4, <2>1 DEF HeartbeatTimeout
  <1>5. CASE CancelDegraded
    BY <1>0, <1>5 DEF CancelDegraded
  <1>6. ASSUME NEW j \in exec, PollStale(j)
        PROVE  Quiet
    BY <1>6 DEF PollStale, Quiet, durable, bounds
  <1>7. ASSUME NEW j \in exec, NEW d \in Decisions, PollDecision(j, d)
        PROVE  Quiet
    <2>1. j \in Nat /\ d \in Decision
      BY <1>0, DecisionType
    <2> QED BY <2>1, <1>3, <1>7 DEF PollDecision
  <1> QED BY <1>1, <1>2, <1>4, <1>5, <1>6, <1>7 DEF Heartbeat

\* The step is that of a thread, the beginning of a user's request, or quiet.
LEMMA Kinds ==
    ASSUME TypeInv, [Next]_vars
    PROVE  \/ Crash
           \/ \E t \in Threads : Step(t)
           \/ Submit
           \/ \E j \in DOMAIN jobs : Retry(j)
           \/ \E t \in Threads, j \in DOMAIN jobs : CancelLoad(t, j)
           \/ Quiet
  <1>1. CASE UNCHANGED vars
    BY <1>1 DEF vars, Quiet, bounds
  <1>2. CASE Handler
    <2>1. CASE AckTerminalRequest
      BY <2>1 DEF AckTerminalRequest, Quiet, memory, bounds
    <2> QED BY <1>2, <2>1 DEF Handler, Threads
  <1>3. CASE Heartbeat
    BY <1>3, HeartbeatQuiet DEF Threads
  <1>4. CASE StartStep \/ RestoreStep
    BY <1>4, StartQuiet
  <1> QED BY <1>1, <1>2, <1>3, <1>4 DEF Next

\* Within its bounds a behaviour with races has no requests of users.
LEMMA NoRequests ==
    ASSUME TypeInv, NoUserRace, limits.overlap # 1
    PROVE  /\ \A j : ~Retry(j)
           /\ \A t, j : ~CancelLoad(t, j)
  <1>1. retries \in 0 .. limits.retries /\ cancels \in 0 .. limits.cancels
    BY BoundsKept DEF MaxRetries, MaxCancels
  <1>2. limits.retries = 0 /\ limits.cancels = 0
    BY DEF NoUserRace
  <1>3. ~(retries < limits.retries) /\ ~(cancels < limits.cancels)
    BY <1>1, <1>2
  <1> QED BY <1>3 DEF Retry, CancelLoad, MaxRetries, MaxCancels

\* The decision stays with the thread until its operation is over.
LEMMA StepDecision ==
    ASSUME TypeInv, NEW t \in Threads, Step(t)
    PROVE  thread'[t] = Idle \/ thread'[t].decision = thread[t].decision
  <1>0. thread \in [Threads -> Local] /\ thread[t].then \in Labels /\ Labels # {}
        /\ "idle" \in Labels /\ thread[t] \in Local
    BY ThreadFacts DEF Labels
  <1>1. ASSUME NEW pc \in Labels, Goto(t, pc)
        PROVE  thread'[t] = Idle \/ thread'[t].decision = thread[t].decision
    BY <1>0, <1>1, GotoFacts
  <1>2. CASE Enqueue(t)
    BY <1>2, EnqueueFacts
  <1>3. \/ Enqueue(t) \/ Goto(t, thread[t].then)
        \/ \E pc \in {"record_event", "enqueue", "idle", "reply", "attempt_terminal",
                      "event_terminal", "retry_check", "cancel_decide"} : Goto(t, pc)
    BY Zenon DEF Step, RecordAttempt, RecordEvent, RetryCheck, Complete, AttemptTerminal,
        EventTerminal, Reply, Finish, Unqueue, CancelMark, CancelDecide
  <1>4. {"record_event", "enqueue", "idle", "reply", "attempt_terminal",
         "event_terminal", "retry_check", "cancel_decide"} \subseteq Labels
    BY DEF Labels
  <1> QED BY <1>0, <1>1, <1>2, <1>3, <1>4


\* One thread at a time works on a job that is there; the other rests, or is
\* the socket and submits.
LEMMA OneActs ==
    ASSUME Inv, Alone, NEW t \in Threads, thread[t].pc # "idle", thread[t].job # 0,
           NEW u \in Threads \ {t}
    PROVE  \/ thread[u].pc = "idle"
           \/ /\ u = "socket" /\ t = "maintenance" /\ thread[u].job = 0
              /\ thread[u].pc \in {"enqueue"} \cup Recording
              /\ limits.overlap # 1
  <1>1. Solo
    BY DEF Inv
  <1> QED BY <1>1 DEF Solo, Alone, Threads, At

\* Beside the heartbeat the socket goes on to submit only.
LEMMA AloneKept ==
    ASSUME Inv2, [Next]_vars
    PROVE  Alone'
  <1>0. /\ TypeInv /\ NoUserRace /\ Alone /\ limits' = limits /\ Inv
        /\ "socket" \in Threads /\ Idle.pc = "idle" /\ Idle.job = 0
        /\ thread \in [Threads -> Local] /\ thread["socket"].then = "idle"
    <2>1. TypeInv /\ NoUserRace /\ Alone /\ Inv
      BY DEF Inv2, Inv
    <2> QED BY <2>1, LimitsKept, IdleFields, ThreadFacts, Beside DEF Threads
  <1>1. SUFFICES ASSUME limits.overlap # 1
                 PROVE  /\ thread'["socket"].pc \in {"idle", "enqueue"} \cup Recording
                        /\ thread'["socket"].job = 0
    BY <1>0, Zenon DEF Alone
  <1>2. CASE Crash
    BY <1>0, <1>2, CrashFacts
  <1>3. CASE Submit
    <2>1. Begin("socket", "enqueue", 0, NoDecision, "idle")
      BY <1>3 DEF Submit
    <2>2. Opens("socket", "enqueue", 0, "idle")
      BY <1>0, <2>1, BeginTurns, IdleFields DEF Labels
    <2> QED BY <2>2 DEF Opens
  <1>4. ASSUME Step("socket")
        PROVE  /\ thread'["socket"].pc \in {"idle", "enqueue"} \cup Recording
               /\ thread'["socket"].job = 0
    <2>1. StepTurn("socket")
      BY <1>0, <1>4, StepTurns
    <2>2. thread["socket"].pc \in {"idle", "enqueue"} \cup Recording /\ thread["socket"].job = 0
      BY <1>0, <1>1 DEF Alone
    <2> QED BY <2>1, <2>2, <1>0 DEF StepTurn, Edge, Ends, GoesBack, Opens, Keeps, Recording
  <1>5. ASSUME Step("maintenance")
        PROVE  thread'["socket"] = thread["socket"]
    BY <1>0, <1>5, StepLeaves DEF Threads
  <1>6. Quiet => thread'["socket"] = thread["socket"]
    BY DEF Quiet
  <1> QED BY <1>0, <1>1, <1>2, <1>3, <1>4, <1>5, <1>6, Kinds, NoRequests DEF Alone, Threads

\* What a step of the heartbeat's thread does to the lock.
LEMMA StepLock ==
    ASSUME Inv2, NEW t \in Threads, Step(t)
    PROVE  \/ lock' = lock
           \/ lock' = t /\ CanLock(t)
           \/ lock' = "none" /\ thread[t].pc \in {"record_event", "reply", "unqueue"}
  <1> QED BY Zenon DEF Step, Enqueue, RecordAttempt, RecordEvent, RetryCheck, Complete,
        AttemptTerminal, EventTerminal, Reply, Finish, Unqueue, CancelMark, CancelDecide,
        memory, At

Holding == Ending \cup Recording \cup {"retry_check", "enqueue", "unqueue"}

\* The lock is held by the thread that records or settles.
LEMMA LockKept ==
    ASSUME Inv2, [Next]_vars
    PROVE  LockOK'
  <1>0. /\ TypeInv /\ NoUserRace /\ Alone /\ LockOK /\ limits' = limits /\ Inv
        /\ "socket" \in Threads /\ "maintenance" \in Threads /\ "socket" # "maintenance"
        /\ Idle.pc = "idle" /\ thread["socket"].then = "idle"
        /\ thread \in [Threads -> Local]
    <2>1. TypeInv /\ NoUserRace /\ Alone /\ Inv /\ LockOK
      BY DEF Inv2, Inv
    <2> QED BY <2>1, LimitsKept, IdleFields, ThreadFacts, Beside DEF Threads
  <1>1. SUFFICES ASSUME limits.overlap # 1
                 PROVE  /\ thread'["socket"].pc # "idle" => lock' = "socket"
                        /\ thread'["maintenance"].pc \in Holding => lock' = "maintenance"
    BY <1>0, Zenon DEF LockOK, Holding
  <1>2. /\ thread["socket"].pc # "idle" => lock = "socket"
        /\ thread["maintenance"].pc \in Holding => lock = "maintenance"
        /\ thread["socket"].pc \in {"idle", "enqueue"} \cup Recording
        /\ thread["socket"].job = 0
    BY <1>0, <1>1 DEF LockOK, Alone, Holding
  <1>3. CASE Crash
    <2>1. thread'["socket"].pc = "idle" /\ thread'["maintenance"].pc \in {"idle", "restore"}
      BY <1>0, <1>3, CrashThreads
    <2> QED BY <2>1 DEF Holding, Ending, Recording
  <1>4. CASE Submit
    <2>1. lock' = "socket" /\ CanLock("socket") /\ Begin("socket", "enqueue", 0, NoDecision, "idle")
      BY <1>4 DEF Submit
    <2>2. thread'["maintenance"] = thread["maintenance"]
      BY <1>0, <2>1, BeginTurns, IdleFields DEF Labels, Threads
    <2> QED BY <2>1, <2>2, <1>2, <1>0 DEF CanLock
  <1>5. CASE Step("socket")
    <2>1. StepTurn("socket") /\ thread'["maintenance"] = thread["maintenance"]
      BY <1>0, <1>5, StepTurns, StepLeaves DEF Threads
    <2>2. thread["socket"].pc \in {"enqueue"} \cup Recording /\ lock = "socket"
      BY <1>0, <1>2, <1>5, StepLeaves
    <2>3. thread["maintenance"].pc \notin Holding
      BY <2>2, <1>2
    <2>4. CASE RecordEvent("socket")
      <3>1. thread'["socket"] = Idle
        BY <2>4, <1>0, RecordEventFacts, GotoFacts DEF Labels
      <3> QED BY <3>1, <2>1, <2>3, <1>0
    <2>5. CASE Enqueue("socket") \/ RecordAttempt("socket")
      BY <2>5, <2>1, <2>2, <2>3 DEF Enqueue, RecordAttempt, memory
    <2> QED BY <2>1, <2>2, <2>4, <2>5 DEF StepTurn, Edge, Ends, GoesBack, Recording
  <1>6. CASE Step("maintenance")
    <2>1. StepTurn("maintenance") /\ thread'["socket"] = thread["socket"]
      BY <1>0, <1>6, StepTurns, StepLeaves DEF Threads
    <2>2. PlanOK("maintenance") /\ ThenOK("maintenance")
      BY <1>0 DEF Inv2, Inv
    <2>3. \/ lock' = lock
          \/ lock' = "maintenance" /\ CanLock("maintenance")
          \/ lock' = "none" /\ thread["maintenance"].pc \in {"record_event", "reply", "unqueue"}
      BY <1>0, <1>6, StepLock
    <2>4. thread'["socket"].pc # "idle" => lock' = "socket"
      BY <2>1, <2>3, <1>2, <1>0 DEF CanLock, Holding, Recording, Ending
    <2>5. thread["maintenance"].pc \in {"record_event", "reply", "unqueue", "finish", "restored"} =>
            \/ thread'["maintenance"].pc \notin Holding
            \/ thread["maintenance"].pc = "reply" /\ thread["maintenance"].then = "unqueue"
      <3>1. thread["maintenance"].then \in {"idle", "finish", "unqueue", "restored"}
        BY <1>0, ThreadFacts DEF ThreadOK
      <3> QED BY <3>1, <2>1, <2>2, <1>0 DEF StepTurn, Edge, Ends, GoesBack, Opens, Holding, Ending, Recording, PlanOK
    <2>6. Reply("maintenance") /\ thread["maintenance"].then = "unqueue" => lock' = lock
      BY DEF Reply
    <2>7. thread["maintenance"].pc = "reply" => Reply("maintenance")
      BY <2>1 DEF StepTurn, Edge, Ends, GoesBack
    <2>8. CASE thread["maintenance"].pc \in {"complete", "cancel_decide"}
      <3>1. Complete("maintenance") \/ CancelDecide("maintenance")
        BY <2>1, <2>8 DEF StepTurn, Edge, Ends, GoesBack
      <3>2. \/ thread'["maintenance"] = Idle
            \/ lock' = "maintenance"
        BY <3>1, <1>0, GotoFacts DEF Complete, CancelDecide, Labels
      <3> QED BY <3>2, <2>4, <1>0 DEF Holding, Ending, Recording
    <2>9. CASE thread["maintenance"].pc = "cancel_mark"
      BY <2>9, <2>1, <2>4 DEF StepTurn, Edge, Ends, GoesBack, Holding, Ending, Recording
    <2>10. thread["maintenance"].pc \in Holding \cup {"finish", "restored", "complete", "cancel_decide", "cancel_mark"}
      BY <2>1 DEF StepTurn, Edge, Ends, GoesBack, Holding, Ending, Recording
    <2> QED BY <2>1, <2>3, <2>4, <2>5, <2>6, <2>7, <2>8, <2>9, <2>10, <1>2, <1>0
  <1>7. CASE Quiet
    BY <1>7, <1>2, <1>0 DEF Quiet, CanLock, Calm, Holding, Ending, Recording
  <1> QED BY <1>0, <1>1, <1>3, <1>4, <1>5, <1>6, <1>7, Kinds, NoRequests DEF Threads


\* A cancellation or a failed start stays one that is not retried.
LEMMA PlanKept ==
    ASSUME Inv2, [Next]_vars, NEW u \in Threads
    PROVE  PlanOK(u)'
  <1>0. /\ TypeInv /\ Inv /\ PlanOK(u) /\ ThenOK(u) /\ ThenOK(u)'
        /\ Idle.pc = "idle" /\ Idle.then = "idle"
        /\ thread \in [Threads -> Local] /\ thread[u].then \in {"idle", "finish", "unqueue", "restored"}
    <2>1. TypeInv /\ Inv /\ PlanOK(u) /\ ThenOK(u)
      BY DEF Inv2, Inv
    <2> QED BY <2>1, IdleFields, ThreadFacts, ThenKept DEF ThreadOK
  <1>1. SUFFICES
          /\ thread'[u].pc \in Ending \cup {"cancel_mark", "cancel_decide", "complete"}
             /\ thread'[u].then \in {"idle", "unqueue"} => ~thread'[u].decision.retryable
          /\ thread'[u].then = "unqueue" => thread'[u].pc \in Ending \cup {"complete", "unqueue"}
    BY Zenon DEF PlanOK
  <1>2. CASE thread'[u] = thread[u]
    BY <1>2, <1>0 DEF PlanOK
  <1>3. CASE Crash
    <2>1. thread'[u].then = "idle" /\ thread'[u].pc \in {"idle", "restore"}
      BY <1>0, <1>3, CrashThreads
    <2> QED BY <2>1 DEF Ending
  <1>4. CASE Submit \/ \E j \in DOMAIN jobs : Retry(j)
    <2>1. PICK pc \in {"enqueue", "retry_check"}, j \in Nat :
                Begin("socket", pc, j, NoDecision, "idle")
      <3>1. DOMAIN jobs \subseteq Nat
        BY <1>0, StoreFacts
      <3> QED BY <3>1, <1>4 DEF Submit, Retry
    <2>4. /\ "socket" \in Threads /\ pc \in Labels /\ "idle" \in Labels /\ NoDecision \in Decision
      BY IdleFields DEF Threads, Labels
    <2>2. u = "socket" => thread'[u].pc \in {"enqueue", "retry_check"} /\ thread'[u].then = "idle"
      BY <2>1, <2>4, <1>0, BeginFacts
    <2>3. u # "socket" => thread'[u] = thread[u]
      BY <2>1, <2>4, <1>0, BeginFacts
    <2> QED BY <1>2, <2>2, <2>3 DEF Ending
  <1>5. ASSUME NEW t \in Threads, NEW j \in DOMAIN jobs, CancelLoad(t, j)
        PROVE  \/ thread'[u] = thread[u]
               \/ thread'[u].then = "idle" /\ ~thread'[u].decision.retryable
    <2>1. t # u => thread'[u] = thread[u]
      BY <1>0, <1>5, CancelLoadFacts
    <2>2. t = u => thread'[u] = [Idle EXCEPT !.pc = "cancel_mark", !.job = j, !.seen = jobs[j],
                         !.decision = [status |-> "cancelled", retryable |-> FALSE]]
      BY <1>0, <1>5 DEF CancelLoad
    <2>3. \A s : LET r == [Idle EXCEPT !.pc = "cancel_mark", !.job = j, !.seen = s,
                              !.decision = [status |-> "cancelled", retryable |-> FALSE]]
                IN r.then = "idle" /\ ~r.decision.retryable
      BY ONLY DEF Idle
    <2> QED BY <2>1, <2>2, <2>3, Zenon
  <1>6. CASE Quiet
    BY <1>0, <1>2, <1>6 DEF Quiet, Calm, Ending, Threads, ThenOK, PlanOK
  <1>7. CASE Step(u)
    <2>1. StepTurn(u) /\ (thread'[u] = Idle \/ thread'[u].decision = thread[u].decision)
      BY <1>0, <1>7, StepTurns, StepDecision
    <2>2. EventTerminal(u) /\ ~thread[u].decision.retryable => thread'[u].pc = "reply"
      BY <1>0, GotoFacts DEF EventTerminal, retry_planned, Labels
    <2> QED BY <2>1, <2>2, <1>0 DEF StepTurn, Edge, Ends, GoesBack, Opens, Keeps, PlanOK, ThenOK,
                Ending, Recording
  <1>8. ASSUME NEW t \in Threads, Step(t)
        PROVE  Step(u) \/ thread'[u] = thread[u]
    BY <1>0, <1>8, StepLeaves
  <1> QED BY <1>0, <1>2, <1>3, <1>4, <1>5, <1>6, <1>7, <1>8, Kinds
-----------------------------------------------------------------------------
(* What a step may do to the attempts and to the messages there are.       *)

\* The attempt of job n is written, for message m and with number i.
Writes(n, m, i) ==
    /\ attempts' \in Seq(Attempt) /\ Len(attempts') = Len(attempts)
    /\ attempts'[n].message = m /\ attempts'[n].retry_index = i
    /\ attempts'[n].state = "pending"
    /\ \A k \in DOMAIN jobs : k # n => attempts'[k] = attempts[k]

\* The attempt of job j gets another state.
Moves(j) ==
    /\ attempts' \in Seq(Attempt) /\ Len(attempts') = Len(attempts)
    /\ attempts'[j].state # "none"
    /\ attempts'[j].message = attempts[j].message
    /\ attempts'[j].retry_index = attempts[j].retry_index
    /\ \A k \in DOMAIN jobs : k # j => attempts'[k] = attempts[k]

\* The messages, which only RecordAttempt adds to.
LEMMA MessagesFrame ==
    ASSUME [Next]_vars, ~StartClaim,
           \A t \in Threads : ~RecordAttempt(t) /\ ~RecordEvent(t) /\ ~EventTerminal(t) /\ ~Reply(t)
    PROVE  messages' = messages
  <1> QED BY Zenon DEF Next, Handler, Heartbeat, StartStep, RestoreStep, Step, vars, durable,
        Submit, Retry, RetryCheck, Enqueue, StartLoad, StartAllowed, StartBlocked,
        StartUnstartable, StartAttempt, StartRunning, StartExecute, StartReturn,
        PollDecision, PollStale, HeartbeatTimeout, Complete, AttemptTerminal, Finish,
        Unqueue, CancelLoad, CancelMark, CancelDecide, CancelDegraded, AckTerminalRequest,
        Crash, RestoreResumed, RestoreEnds, Sweep

\* No message is lost, and only a submission adds one.
LEMMA MessagesLength ==
    ASSUME TypeInv, [Next]_vars, \A t \in Threads : ~RecordAttempt(t)
    PROVE  Len(messages') = Len(messages) /\ DOMAIN messages' = DOMAIN messages
  <1>0. messages \in Seq(MessageStates) /\ messages' \in Seq(MessageStates)
    BY NextType, StoreFacts DEF TypeInv, TypeOK
  <1>1. ASSUME NEW m, NEW st \in MessageStates, set_message_state(m, st)
        PROVE  Len(messages') = Len(messages)
    BY <1>0, <1>1, SetMessageFacts
  <1>2. ASSUME NEW t \in Threads, RecordEvent(t) \/ EventTerminal(t) \/ Reply(t)
        PROVE  Len(messages') = Len(messages)
    BY <1>1, <1>2, MessageStateType DEF RecordEvent, EventTerminal, Reply, MessageStates
  <1>3. StartClaim => Len(messages') = Len(messages)
    BY <1>1 DEF StartClaim, MessageStates
  <1>4. Len(messages') = Len(messages)
    BY <1>2, <1>3, MessagesFrame
  <1> QED BY <1>0, <1>4


\* The fields of an attempt have their types.
LEMMA AttemptFields ==
    ASSUME TypeInv
    PROVE  \A j \in DOMAIN jobs :
             /\ attempts[j] \in Attempt /\ Index(j) \in Nat /\ message_of(j) \in Nat
             /\ attempts[j].state \in {"none", "pending", "running"} \cup Ended
  <1>1. attempts \in Seq(Attempt) /\ DOMAIN attempts = DOMAIN jobs
    BY StoreFacts
  <1>2. \A j \in DOMAIN jobs : attempts[j] \in Attempt
    BY <1>1
  <1> QED BY <1>2 DEF Attempt, Index, message_of

\* The first attempt of a message has the number 0, and the one after the
\* latest the next number.
LEMMA NextIndex ==
    ASSUME TypeInv, NEW m
    PROVE  /\ (\A j \in DOMAIN jobs : message_of(j) # m) => next_retry_index(m) = 0
           /\ \A j \in DOMAIN jobs : message_of(j) = m /\ is_latest_attempt(j)
                => next_retry_index(m) = Index(j) + 1
  <1>1. (\A j \in DOMAIN jobs : message_of(j) # m) => next_retry_index(m) = 0
    BY DEF next_retry_index, lineage
  <1>2. ASSUME NEW j \in DOMAIN jobs, message_of(j) = m, is_latest_attempt(j)
        PROVE  next_retry_index(m) = Index(j) + 1
    <2> DEFINE I == {attempts[k].retry_index : k \in lineage(m)}
               Top(i) == i \in I /\ \A k \in lineage(m) : attempts[k].retry_index <= i
               c == CHOOSE i \in I : \A k \in lineage(m) : attempts[k].retry_index <= i
    <2>1. j \in lineage(m)
      BY <1>2 DEF lineage
    <2>2. I \subseteq Nat
      BY AttemptFields DEF lineage, Index
    <2>3. Top(Index(j))
      BY <2>1, <1>2 DEF Index, is_latest_attempt
    <2>4. Top(c)
      BY <2>3
    <2>5. c <= Index(j) /\ Index(j) <= c
      BY <2>3, <2>4, <2>1 DEF Index
    <2>6. c = Index(j)
      <3>1. c \in Nat /\ Index(j) \in Nat
        BY <2>2, <2>3, <2>4
      <3> HIDE DEF c
      <3> QED BY <3>1, <2>5
    <2>7. next_retry_index(m) = 1 + c
      BY <2>1 DEF next_retry_index
    <2>8. Index(j) \in Nat
      BY AttemptFields
    <2> HIDE DEF c
    <2> QED BY <2>6, <2>7, <2>8
  <1> QED BY <1>1, <1>2

\* RecordAttempt numbers the attempt it writes.
LEMMA RecordAttemptWrites ==
    ASSUME Inv2, NEW t \in Threads, RecordAttempt(t)
    PROVE  /\ thread[t].new \in DOMAIN jobs /\ jobs' = jobs
           /\ \/ /\ thread[t].job = 0 /\ Writes(thread[t].new, Len(messages) + 1, 0)
                 /\ messages' = Append(messages, "queued")
                 /\ Len(messages') = Len(messages) + 1
                 /\ DOMAIN messages' = DOMAIN messages \cup {Len(messages) + 1}
                 /\ \A m \in DOMAIN messages : messages'[m] = messages[m]
              \/ /\ thread[t].job \in DOMAIN jobs /\ messages' = messages
                 /\ Writes(thread[t].new, message_of(thread[t].job), Index(thread[t].job) + 1)
  <1> DEFINE n == thread[t].new
             s == thread[t].job
  <1>0. /\ TypeInv /\ LineOK /\ RetryOK(t) /\ n \in DOMAIN jobs /\ jobs' = jobs
        /\ attempts \in Seq(Attempt) /\ DOMAIN attempts = DOMAIN jobs
        /\ messages \in Seq(MessageStates) /\ thread[t].pc = "record_attempt"
        /\ s \in {0} \cup DOMAIN jobs
    <2>1. TypeInv /\ LineOK /\ RetryOK(t)
      BY DEF Inv2, Inv
    <2>2. s \in {0} \cup DOMAIN jobs
      BY <2>1, ThreadFacts
    <2> QED BY <2>1, <2>2, StoreFacts, RecordAttemptFacts DEF RecordAttempt, At
  <1>1. ASSUME NEW m, attempts' = [attempts EXCEPT ![n] =
                [message |-> m, state |-> "pending", retry_index |-> next_retry_index(m)]]
        PROVE  Writes(n, m, next_retry_index(m))
    <2>1. attempts' \in Seq(Attempt) /\ Len(attempts') = Len(attempts)
      BY <1>0, RecordAttemptFacts
    <2>2. attempts'[n] = [message |-> m, state |-> "pending", retry_index |-> next_retry_index(m)]
      BY <1>0, <1>1
    <2>3. \A k \in DOMAIN jobs : k # n => attempts'[k] = attempts[k]
      BY <1>0, <1>1
    <2> QED BY <2>1, <2>2, <2>3 DEF Writes
  <1>2. CASE s = 0
    <2>1. /\ messages' = Append(messages, "queued")
          /\ attempts' = [attempts EXCEPT ![n] =
                [message |-> Len(messages) + 1, state |-> "pending",
                 retry_index |-> next_retry_index(Len(messages) + 1)]]
      BY <1>2 DEF RecordAttempt
    <2>2. Len(messages) + 1 \notin DOMAIN messages /\ Len(messages) + 1 # 0
      BY <1>0
    <2>3. \A j \in DOMAIN jobs : message_of(j) # Len(messages) + 1
      BY <1>0, <2>2 DEF LineOK
    <2>4. Writes(n, Len(messages) + 1, 0)
      <3>1. PICK m : m = Len(messages) + 1
        OBVIOUS
      <3>2. next_retry_index(m) = 0
        BY <3>1, <2>3, <1>0, NextIndex
      <3> HIDE DEF n
      <3>3. Writes(n, m, next_retry_index(m))
        BY <3>1, <2>1, <1>1
      <3> QED BY <3>1, <3>2, <3>3
    <2>5. \A m \in DOMAIN messages : messages'[m] = messages[m]
      BY <1>0, <2>1
    <2>6. Len(messages') = Len(messages) + 1
          /\ DOMAIN messages' = DOMAIN messages \cup {Len(messages) + 1}
      BY <1>0, <2>1
    <2> QED BY <1>0, <1>2, <2>1, <2>4, <2>5, <2>6
  <1>3. CASE s \in DOMAIN jobs
    <2>0. s # 0
      BY <1>0, <1>3, StoreFacts
    <2>1. /\ messages' = messages
          /\ attempts' = [attempts EXCEPT ![n] =
                [message |-> message_of(s), state |-> "pending",
                 retry_index |-> next_retry_index(message_of(s))]]
      BY <2>0 DEF RecordAttempt
    <2>2. next_retry_index(message_of(s)) = Index(s) + 1
      BY <1>0, <1>3, <2>0, NextIndex DEF RetryOK
    <2>3. Writes(n, message_of(s), next_retry_index(message_of(s)))
      BY <2>1, <1>1
    <2>4. Writes(n, message_of(s), Index(s) + 1)
      BY <2>2, <2>3
    <2> QED BY <1>0, <1>3, <2>1, <2>4
  <1> QED BY <1>0, <1>2, <1>3

\* What the end or the start of a job does to its attempt.
LEMMA AttemptEnds ==
    ASSUME Inv2, NEW t \in Threads, AttemptTerminal(t)
    PROVE  \/ attempts' = attempts /\ thread'[t].pc = "reply"
              /\ attempts[thread[t].job].state = "none"
           \/ /\ Moves(thread[t].job) /\ attempts[thread[t].job].state \notin Ended \cup {"none"}
              /\ attempts'[thread[t].job].state \in Ended
              /\ thread'[t].pc = "event_terminal" /\ thread'[t].job = thread[t].job
  <1> DEFINE j == thread[t].job
  <1>0. /\ TypeInv /\ RetryOK(t) /\ j \in DOMAIN jobs /\ thread[t].pc = "attempt_terminal"
        /\ attempts \in Seq(Attempt) /\ DOMAIN attempts = DOMAIN jobs
        /\ thread \in [Threads -> Local] /\ thread[t].decision.status \in Ended
    <2>1. TypeInv /\ RetryOK(t)
      BY DEF Inv2, Inv
    <2> QED BY <2>1, StoreFacts, ThreadFacts, AttemptTerminalFacts
  <1>1. CASE attempts[j].state = "none"
    <2>1. Goto(t, "reply") /\ attempts' = attempts
      BY <1>1 DEF AttemptTerminal
    <2>2. thread'[t].pc = "reply"
      BY <2>1, <1>0, GotoFacts DEF Labels
    <2> QED BY <1>1, <2>1, <2>2
  <1>2. CASE attempts[j].state # "none"
    <2>1. append_attempt(j, thread[t].decision.status) /\ Goto(t, "event_terminal")
      BY <1>2 DEF AttemptTerminal
    <2>2. thread'[t].pc = "event_terminal" /\ thread'[t].job = j
      BY <2>1, <1>0, GotoFacts DEF Labels
    <2>3. PICK st \in Ended : st = thread[t].decision.status /\ append_attempt(j, st)
      BY <1>0, <2>1
    <2>4. /\ attempts' \in Seq(Attempt) /\ Len(attempts') = Len(attempts)
          /\ attempts'[j].state = st
          /\ \A k \in DOMAIN attempts :
                 /\ attempts'[k].message = attempts[k].message
                 /\ attempts'[k].retry_index = attempts[k].retry_index
                 /\ k # j => attempts'[k] = attempts[k]
      <3>1. attempts \in Seq(Attempt) /\ j \in DOMAIN attempts /\ st \in {"running"} \cup Ended
        BY <1>0
      <3> HIDE DEF j
      <3> QED BY <3>1, <2>3, AppendAttemptFacts
    <2>5. attempts[j].state \notin Ended
      BY <1>0 DEF RetryOK
    <2>6. st # "none"
      BY DEF Ended
    <2>7. Moves(j)
      BY <1>0, <2>4, <2>6 DEF Moves
    <2> QED BY <1>0, <1>2, <2>2, <2>4, <2>5, <2>7
  <1> QED BY <1>1, <1>2

\* The attempt of a job that starts was open.
LEMMA AttemptStarts ==
    ASSUME Inv2, StartAttempt
    PROVE  LET j == thread["maintenance"].job
           IN /\ j \in DOMAIN jobs /\ Moves(j)
              /\ attempts[j].state \notin Ended \cup {"none"}
              /\ attempts'[j].state = "running"
  <1> DEFINE j == thread["maintenance"].job
  <1>0. /\ TypeInv /\ Inv /\ thread["maintenance"].pc = "start_attempt"
        /\ "maintenance" \in Threads
        /\ attempts \in Seq(Attempt) /\ DOMAIN attempts = DOMAIN jobs
    <2>1. TypeInv /\ Inv
      BY DEF Inv2, Inv
    <2> QED BY <2>1, StoreFacts DEF StartAttempt, At, Threads
  <1>1. j \in DOMAIN jobs
    BY <1>0, JobOfThread DEF Recording
  <1>2. StartOK /\ LaneOK /\ RecordsAgree /\ box \in Mailbox
    BY <1>0, StoreFacts DEF Inv
  <1>3. is_queued(j) /\ head_pending_event(box) # 0 /\ box.inbox[head_pending_event(box)].ref = j
    BY <1>0, <1>2 DEF StartOK, Starting
  <1>4. attempts[j].state \notin Ended
    BY <1>1, <1>2, <1>3 DEF RecordsAgree, is_queued, is_terminal, Ended
  <1>5. head_pending_event(box) \in events(box)
    BY <1>2, <1>3, HeadIsLeast, PendingIds
  <1>6. attempts[j].state # "none"
    BY <1>2, <1>3, <1>5 DEF LaneOK
  <1>7. append_attempt(j, "running")
    BY DEF StartAttempt
  <1>8. /\ attempts' \in Seq(Attempt) /\ Len(attempts') = Len(attempts)
        /\ attempts'[j].state = "running"
        /\ \A k \in DOMAIN attempts :
                 /\ attempts'[k].message = attempts[k].message
                 /\ attempts'[k].retry_index = attempts[k].retry_index
                 /\ k # j => attempts'[k] = attempts[k]
    BY <1>7, <1>0, <1>1, AppendAttemptFacts
  <1>9. Moves(j)
    BY <1>0, <1>1, <1>8 DEF Moves
  <1> QED BY <1>1, <1>4, <1>6, <1>8, <1>9


\* Every step leaves the attempts alone, adds a place for one, writes the
\* first or the next of a message, or moves one that is open.
Same ==
    /\ attempts' = attempts
    /\ DOMAIN jobs' = DOMAIN jobs /\ DOMAIN messages' = DOMAIN messages
Adds(t) ==
    /\ Enqueue(t) /\ DOMAIN messages' = DOMAIN messages /\ messages' = messages
    /\ DOMAIN jobs' = DOMAIN jobs \cup {Len(jobs) + 1} /\ Len(jobs) + 1 \notin DOMAIN jobs
    /\ \A k \in DOMAIN jobs : attempts'[k] = attempts[k]
    /\ attempts'[Len(jobs) + 1] = NoAttempt
First(t) ==
    /\ RecordAttempt(t) /\ DOMAIN jobs' = DOMAIN jobs
    /\ thread[t].job = 0 /\ thread[t].new \in DOMAIN jobs
    /\ attempts[thread[t].new].state = "none" /\ thread[t].pc = "record_attempt"
    /\ Writes(thread[t].new, Len(messages) + 1, 0)
    /\ DOMAIN messages' = DOMAIN messages \cup {Len(messages) + 1}
    /\ \A m \in DOMAIN messages : messages'[m] = messages[m]
Another(t) ==
    /\ RecordAttempt(t) /\ DOMAIN jobs' = DOMAIN jobs
    /\ thread[t].job \in DOMAIN jobs /\ thread[t].new \in DOMAIN jobs
    /\ attempts[thread[t].new].state = "none" /\ thread[t].pc = "record_attempt"
    /\ attempts[thread[t].job].state \in Failed /\ is_latest_attempt(thread[t].job)
    /\ Writes(thread[t].new, message_of(thread[t].job), Index(thread[t].job) + 1)
    /\ messages' = messages
Changes(j) ==
    /\ Moves(j) /\ attempts[j].state \notin Ended \cup {"none"}
    /\ DOMAIN jobs' = DOMAIN jobs /\ messages' = messages
    /\ \/ StartAttempt /\ thread["maintenance"].job = j /\ attempts'[j].state = "running"
       \/ /\ attempts'[j].state \in Ended
          /\ \E t \in Threads :
                /\ AttemptTerminal(t) /\ thread[t].job = j
                /\ thread'[t].pc = "event_terminal" /\ thread'[t].job = j

\* A step leaves the attempts alone, adds one or changes the state of one.
LEMMA AttemptCases ==
    ASSUME Inv2, [Next]_vars
    PROVE  \/ Same
           \/ \E t \in Threads : Adds(t) \/ First(t) \/ Another(t)
           \/ \E j \in DOMAIN jobs : Changes(j)
  <1>0. TypeInv /\ Inv
    BY DEF Inv2, Inv
  <1>1. ASSUME NEW t \in Threads, Enqueue(t)
        PROVE  Adds(t)
    <2>1. /\ jobs \in Seq(Job) /\ Len(jobs) \in Nat /\ messages' = messages
      BY <1>0, <1>1, StoreFacts DEF Enqueue
    <2>2. PICK n \in Nat : n = Len(jobs)
      BY <2>1
    <2>3. DOMAIN jobs = 1 .. n /\ DOMAIN jobs' = 1 .. n + 1
      BY <2>1, <2>2, <1>0, <1>1, EnqueueFacts
    <2>4. DOMAIN jobs' = DOMAIN jobs \cup {n + 1} /\ n + 1 \notin DOMAIN jobs
      BY <2>3
    <2>5. /\ \A k \in DOMAIN jobs : attempts'[k] = attempts[k]
          /\ attempts'[Len(jobs) + 1] = NoAttempt
      BY <1>0, <1>1, EnqueueFacts
    <2> QED BY <1>1, <2>1, <2>2, <2>4, <2>5 DEF Adds
  <1>2. ASSUME NEW t \in Threads, RecordAttempt(t)
        PROVE  First(t) \/ Another(t)
    <2>1. /\ RetryOK(t) /\ thread[t].pc = "record_attempt"
      BY <1>2 DEF Inv2, RecordAttempt, At
    <2>2. attempts[thread[t].new].state = "none"
      BY <2>1 DEF RetryOK
    <2>3. 0 \notin DOMAIN jobs
      BY <1>0, StoreFacts
    <2>4. thread[t].job \in DOMAIN jobs =>
            attempts[thread[t].job].state \in Failed /\ is_latest_attempt(thread[t].job)
      BY <2>1, <2>3 DEF RetryOK
    <2> QED BY <1>2, <2>1, <2>2, <2>4, RecordAttemptWrites, Zenon DEF First, Another
  <1>3. ASSUME \A t \in Threads : ~RecordAttempt(t) /\ ~Enqueue(t)
        PROVE  DOMAIN jobs' = DOMAIN jobs /\ DOMAIN messages' = DOMAIN messages
    <2>1. DOMAIN messages' = DOMAIN messages
      BY <1>0, <1>3, MessagesLength
    <2>2. \A j \in DOMAIN jobs' \ DOMAIN jobs : FALSE
      BY <1>0, <1>3, JobStep
    <2>3. \A j \in DOMAIN jobs : j \in DOMAIN jobs'
      BY <1>0, JobStep
    <2> QED BY <2>1, <2>2, <2>3
  <1>4. CASE StartAttempt
    <2>1. /\ DOMAIN jobs' = DOMAIN jobs /\ messages' = messages
      BY <1>4 DEF StartAttempt
    <2> QED BY <2>1, <1>4, AttemptStarts DEF Changes
  <1>5. ASSUME NEW t \in Threads, AttemptTerminal(t)
        PROVE  Same \/ \E j \in DOMAIN jobs : Changes(j)
    <2>1. /\ DOMAIN jobs' = DOMAIN jobs /\ messages' = messages /\ thread[t].job \in DOMAIN jobs
      BY <1>0, <1>5, AttemptTerminalFacts DEF AttemptTerminal
    <2> QED BY <2>1, <1>5, AttemptEnds DEF Changes, Same
  <1>6. CASE ~StartAttempt /\ \A t \in Threads : ~Enqueue(t) /\ ~RecordAttempt(t) /\ ~AttemptTerminal(t)
    BY <1>3, <1>6, AttemptsFrame DEF Same
  <1> QED BY <1>1, <1>2, <1>4, <1>5, <1>6

-----------------------------------------------------------------------------
(* Every part of the third layer is kept.                                  *)

\* The lineages, with a place for one more attempt.
LEMMA LineAdds ==
    ASSUME TypeInv, LineOK, NEW t \in Threads, Adds(t)
    PROVE  LineOK'
  <1> DEFINE n == Len(jobs) + 1
  <1>1. /\ DOMAIN jobs' = DOMAIN jobs \cup {n} /\ DOMAIN messages' = DOMAIN messages
        /\ \A k \in DOMAIN jobs : attempts'[k] = attempts[k]
        /\ attempts'[n].message = 0 /\ attempts'[n].state = "none"
    BY DEF Adds, NoAttempt
  <1>2. 0 \notin DOMAIN messages
    BY StoreFacts
  <1> HIDE DEF n
  <1> QED BY <1>1, <1>2 DEF LineOK, message_of, Index

\* The first attempt of a new message is a lineage by itself.
LEMMA LineFirst ==
    ASSUME TypeInv, LineOK, NEW t \in Threads, First(t)
    PROVE  LineOK'
  <1>1. PICK n \in DOMAIN jobs : n = thread[t].new
    BY DEF First
  <1>2. PICK m : m = Len(messages) + 1
    OBVIOUS
  <1>3. /\ DOMAIN jobs' = DOMAIN jobs /\ DOMAIN messages' = DOMAIN messages \cup {m}
        /\ \A k \in DOMAIN jobs : k # n => attempts'[k] = attempts[k]
        /\ attempts'[n].message = m /\ attempts'[n].state = "pending"
        /\ attempts'[n].retry_index = 0 /\ attempts[n].state = "none"
    BY <1>1, <1>2 DEF First, Writes
  <1>4. 0 \notin DOMAIN messages /\ m \notin DOMAIN messages /\ m # 0
    BY <1>2, StoreFacts
  <1>5. \A k \in DOMAIN jobs : message_of(k) # m
    BY <1>4 DEF LineOK
  <1>6. message_of(n) = 0
    BY <1>3 DEF LineOK
  <1> QED BY <1>3, <1>4, <1>5, <1>6 DEF LineOK, message_of, Index

\* The next attempt of a message goes after its latest, which has failed.
LEMMA LineAnother ==
    ASSUME TypeInv, LineOK, NEW t \in Threads, Another(t)
    PROVE  LineOK'
  <1>1. PICK n \in DOMAIN jobs : n = thread[t].new
    BY DEF Another
  <1>2. PICK s \in DOMAIN jobs : s = thread[t].job
    BY DEF Another
  <1>3. /\ DOMAIN jobs' = DOMAIN jobs /\ DOMAIN messages' = DOMAIN messages
        /\ \A k \in DOMAIN jobs : k # n => attempts'[k] = attempts[k]
        /\ attempts'[n].message = message_of(s) /\ attempts'[n].state = "pending"
        /\ attempts'[n].retry_index = Index(s) + 1 /\ attempts[n].state = "none"
        /\ attempts[s].state \in Failed /\ is_latest_attempt(s)
    BY <1>1, <1>2 DEF Another, Writes
  <1>4. 0 \notin DOMAIN messages
    BY StoreFacts
  <1>5. message_of(n) = 0 /\ message_of(s) \in DOMAIN messages /\ n # s
    BY <1>3 DEF LineOK, Failed, Ended
  <1>6. \A k \in DOMAIN jobs : message_of(k) = message_of(s) =>
            /\ Index(k) \in Nat /\ Index(s) \in Nat /\ Index(k) <= Index(s)
            /\ k # s => attempts[k].state \in Failed
    <2>1. \A k \in DOMAIN jobs : message_of(k) = message_of(s) => Index(k) <= Index(s)
      BY <1>3 DEF is_latest_attempt, lineage, Index
    <2>2. \A k \in DOMAIN jobs : Index(k) \in Nat
      BY AttemptFields
    <2>3. \A k \in DOMAIN jobs : message_of(k) = message_of(s) /\ k # s =>
             attempts[k].state \in Failed
      BY <2>1, <2>2, <1>4, <1>5 DEF LineOK
    <2> QED BY <2>1, <2>2, <2>3
  <1>7. \A k \in DOMAIN jobs : message_of(k)' = IF k = n THEN message_of(s) ELSE message_of(k)
    BY <1>3 DEF message_of
  <1>8. \A k \in DOMAIN jobs : Index(k)' = IF k = n THEN Index(s) + 1 ELSE Index(k)
    BY <1>3 DEF Index
  <1>9. \A k \in DOMAIN jobs : k # n => attempts'[k].state = attempts[k].state
    BY <1>3
  <1>10. (\A j \in DOMAIN jobs : IF attempts[j].state = "none" THEN message_of(j) = 0
                              ELSE message_of(j) \in DOMAIN messages)'
    BY <1>3, <1>5, <1>7, <1>9 DEF LineOK
  <1>11. (\A m \in DOMAIN messages : \E j \in DOMAIN jobs : message_of(j) = m)'
    BY <1>3, <1>4, <1>5, <1>7 DEF LineOK
  <1>12. (\A j, k \in DOMAIN jobs :
        message_of(j) = message_of(k) /\ message_of(j) # 0 /\ Index(j) = Index(k) => j = k)'
    BY <1>3, <1>4, <1>5, <1>6, <1>7, <1>8 DEF LineOK
  <1>13. (\A j \in DOMAIN jobs : message_of(j) # 0 =>
        \A i \in Nat : i < Index(j) =>
            \E k \in DOMAIN jobs : message_of(k) = message_of(j) /\ Index(k) = i)'
    <2>1. SUFFICES ASSUME NEW j \in DOMAIN jobs, message_of(j)' # 0, NEW i \in Nat, i < Index(j)'
                   PROVE  \E k \in DOMAIN jobs : message_of(k)' = message_of(j)' /\ Index(k)' = i
      BY <1>3
    <2>2. ASSUME NEW l \in DOMAIN jobs, message_of(l) # 0, i < Index(l)
          PROVE  \E k \in DOMAIN jobs : k # n /\ message_of(k) = message_of(l) /\ Index(k) = i
      BY <2>2, <1>5 DEF LineOK
    <2>3. CASE j # n
      BY <2>1, <2>2, <2>3, <1>7, <1>8
    <2>4. CASE j = n
      <3>1. message_of(s) # 0 /\ Index(s) \in Nat
        BY <1>4, <1>5, <1>6
      <3>2. i < Index(s) \/ i = Index(s)
        BY <2>1, <2>4, <3>1, <1>8
      <3> QED BY <2>2, <2>4, <3>1, <3>2, <1>5, <1>7, <1>8
    <2> QED BY <2>3, <2>4
  <1>14. (\A j, k \in DOMAIN jobs :
        message_of(j) = message_of(k) /\ message_of(j) # 0 /\ Index(j) < Index(k)
            => attempts[j].state \in Failed)'
    <2>1. SUFFICES ASSUME NEW j \in DOMAIN jobs, NEW k \in DOMAIN jobs,
                          message_of(j)' = message_of(k)', message_of(j)' # 0, Index(j)' < Index(k)'
                   PROVE  attempts'[j].state \in Failed
      BY <1>3
    <2>2. CASE j = n
      <3>1. k # n /\ message_of(k) = message_of(s) /\ Index(s) + 1 < Index(k)
        BY <2>1, <2>2, <1>6, <1>7, <1>8
      <3> QED BY <3>1, <1>6
    <2>3. CASE j # n /\ k = n
      BY <2>1, <2>3, <1>3, <1>6, <1>7, <1>9
    <2>4. CASE j # n /\ k # n
      BY <2>1, <2>4, <1>7, <1>8, <1>9 DEF LineOK
    <2> QED BY <2>2, <2>3, <2>4
  <1> QED BY <1>10, <1>11, <1>12, <1>13, <1>14, Zenon DEF LineOK

\* An attempt that is open is the latest, so its state says nothing of a
\* later one.
LEMMA LineChanges ==
    ASSUME TypeInv, LineOK, NEW j \in DOMAIN jobs, Changes(j)
    PROVE  LineOK'
  <1>1. /\ DOMAIN jobs' = DOMAIN jobs /\ DOMAIN messages' = DOMAIN messages
        /\ \A k \in DOMAIN jobs : message_of(k)' = message_of(k) /\ Index(k)' = Index(k)
        /\ \A k \in DOMAIN jobs : k # j => attempts'[k].state = attempts[k].state
        /\ attempts[j].state \notin Failed \cup {"none"} /\ attempts'[j].state # "none"
    BY DEF Changes, Moves, message_of, Index, Failed
  <1>2. (\A l \in DOMAIN jobs : IF attempts[l].state = "none" THEN message_of(l) = 0
                              ELSE message_of(l) \in DOMAIN messages)'
    BY <1>1 DEF LineOK
  <1>3. (\A m \in DOMAIN messages : \E l \in DOMAIN jobs : message_of(l) = m)'
    BY <1>1 DEF LineOK
  <1>4. (\A l, k \in DOMAIN jobs :
        message_of(l) = message_of(k) /\ message_of(l) # 0 /\ Index(l) = Index(k) => l = k)'
    BY <1>1 DEF LineOK
  <1>5. (\A l \in DOMAIN jobs : message_of(l) # 0 =>
        \A i \in Nat : i < Index(l) =>
            \E k \in DOMAIN jobs : message_of(k) = message_of(l) /\ Index(k) = i)'
    <2>1. SUFFICES ASSUME NEW l \in DOMAIN jobs, message_of(l)' # 0, NEW i \in Nat, i < Index(l)'
                   PROVE  \E k \in DOMAIN jobs : message_of(k)' = message_of(l)' /\ Index(k)' = i
      BY <1>1
    <2>2. message_of(l) # 0 /\ i < Index(l)
      BY <2>1, <1>1
    <2>3. PICK k \in DOMAIN jobs : message_of(k) = message_of(l) /\ Index(k) = i
      BY <2>2 DEF LineOK
    <2> QED BY <2>3, <1>1
  <1>6. (\A l, k \in DOMAIN jobs :
        message_of(l) = message_of(k) /\ message_of(l) # 0 /\ Index(l) < Index(k)
            => attempts[l].state \in Failed)'
    BY <1>1 DEF LineOK
  <1> QED BY <1>2, <1>3, <1>4, <1>5, <1>6, Zenon DEF LineOK

\* Every lineage stays a line.
LEMMA LineKept ==
    ASSUME Inv2, [Next]_vars
    PROVE  LineOK'
  <1>0. TypeInv /\ LineOK
    BY DEF Inv2, Inv
  <1>1. CASE Same
    BY <1>0, <1>1 DEF Same, LineOK, message_of, Index
  <1> QED BY <1>0, <1>1, AttemptCases, LineAdds, LineFirst, LineAnother, LineChanges


\* The latest attempt of its message, by the store.
LEMMA Latest ==
    ASSUME NEW j
    PROVE  is_latest_attempt(j) <=>
             \A k \in DOMAIN jobs : message_of(k) = message_of(j) => Index(k) <= Index(j)
  <1> QED BY DEF is_latest_attempt, lineage, Index

\* An attempt that is written keeps its message and its number; it stays the
\* latest until the next one is written.
LEMMA LatestStep ==
    ASSUME Inv2, [Next]_vars, NEW j \in DOMAIN jobs, attempts[j].state # "none"
    PROVE  /\ j \in DOMAIN jobs' /\ message_of(j)' = message_of(j) /\ Index(j)' = Index(j)
           /\ message_of(j) \in DOMAIN messages
           /\ attempts'[j] = attempts[j] \/ Changes(j)
           /\ is_latest_attempt(j)' => is_latest_attempt(j)
           /\ is_latest_attempt(j) =>
                \/ is_latest_attempt(j)'
                \/ \E t \in Threads : Another(t) /\ message_of(thread[t].job) = message_of(j)
           /\ \A t \in Threads : Another(t) /\ message_of(thread[t].job) = message_of(j) =>
                ~is_latest_attempt(j)'
  <1>0. TypeInv /\ LineOK /\ message_of(j) \in DOMAIN messages /\ message_of(j) # 0
    <2>1. TypeInv /\ LineOK
      BY DEF Inv2, Inv
    <2>2. message_of(j) \in DOMAIN messages
      BY <2>1 DEF LineOK
    <2>3. 0 \notin DOMAIN messages
      BY <2>1, StoreFacts
    <2> QED BY <2>1, <2>2, <2>3
  <1>1. is_latest_attempt(j)' <=>
             \A k \in DOMAIN jobs' : message_of(k)' = message_of(j)' => Index(k)' <= Index(j)'
    BY DEF is_latest_attempt, lineage, Index
  <1>2. \A k \in DOMAIN jobs : Index(k) \in Nat
    BY <1>0, AttemptFields
  <1>3. CASE Same
    <2>1. \A t \in Threads : ~Another(t)
      <3>1. ASSUME NEW t \in Threads, Another(t) PROVE FALSE
        BY <1>3, <3>1 DEF Same, Another, Writes
      <3> QED BY <3>1
    <2> QED BY <1>0, <1>1, <1>3, <2>1, Latest DEF Same, message_of, Index
  <1>4. ASSUME NEW t \in Threads, Adds(t)
        PROVE  /\ j \in DOMAIN jobs' /\ attempts'[j] = attempts[j]
               /\ is_latest_attempt(j)' <=> is_latest_attempt(j)
               /\ \A u \in Threads : ~Another(u)
    <2>1. /\ DOMAIN jobs' = DOMAIN jobs \cup {Len(jobs) + 1}
          /\ \A k \in DOMAIN jobs : attempts'[k] = attempts[k]
          /\ attempts'[Len(jobs) + 1].message = 0
      BY <1>4 DEF Adds, NoAttempt
    <2>2. is_latest_attempt(j)' <=> is_latest_attempt(j)
      BY <1>0, <1>1, <2>1, Latest DEF message_of, Index
    <2>3. \A u \in Threads : ~Another(u)
      BY <1>4 DEF Adds, Another
    <2> QED BY <2>1, <2>2, <2>3
  <1>5. ASSUME NEW t \in Threads, First(t)
        PROVE  /\ j \in DOMAIN jobs' /\ attempts'[j] = attempts[j]
               /\ is_latest_attempt(j)' <=> is_latest_attempt(j)
               /\ \A u \in Threads : ~Another(u)
    <2>1. PICK n \in DOMAIN jobs : n = thread[t].new
      BY <1>5 DEF First
    <2>2. /\ DOMAIN jobs' = DOMAIN jobs /\ attempts[n].state = "none"
          /\ \A k \in DOMAIN jobs : k # n => attempts'[k] = attempts[k]
          /\ attempts'[n].message \notin DOMAIN messages
      <3>1. Len(messages) + 1 \notin DOMAIN messages
        BY <1>0, StoreFacts
      <3> QED BY <1>5, <2>1, <3>1 DEF First, Writes
    <2>3. message_of(n) = 0 /\ n # j
      BY <2>1, <2>2, <1>0 DEF LineOK
    <2>4. is_latest_attempt(j)' <=> is_latest_attempt(j)
      BY <1>0, <1>1, <2>1, <2>2, <2>3, Latest DEF message_of, Index
    <2>5. \A u \in Threads : ~Another(u)
      <3>1. ASSUME NEW u \in Threads, Another(u) PROVE FALSE
        <4>1. messages' = messages /\ DOMAIN messages' = DOMAIN messages \cup {Len(messages) + 1}
          BY <1>5, <3>1 DEF First, Another
        <4>2. Len(messages) + 1 \notin DOMAIN messages
          BY <1>0, StoreFacts
        <4> QED BY <4>1, <4>2
      <3> QED BY <3>1
    <2> QED BY <2>2, <2>3, <2>4, <2>5
  <1>6. ASSUME NEW t \in Threads, Another(t)
        PROVE  /\ j \in DOMAIN jobs' /\ attempts'[j] = attempts[j]
               /\ is_latest_attempt(j)' => is_latest_attempt(j)
               /\ message_of(thread[t].job) # message_of(j) =>
                    (is_latest_attempt(j) => is_latest_attempt(j)')
               /\ message_of(thread[t].job) = message_of(j) => ~is_latest_attempt(j)'
    <2>1. PICK n \in DOMAIN jobs : n = thread[t].new
      BY <1>6 DEF Another
    <2>2. PICK s \in DOMAIN jobs : s = thread[t].job
      BY <1>6 DEF Another
    <2>3. /\ DOMAIN jobs' = DOMAIN jobs /\ attempts[n].state = "none"
          /\ \A k \in DOMAIN jobs : k # n => attempts'[k] = attempts[k]
          /\ attempts'[n].message = message_of(s) /\ attempts'[n].retry_index = Index(s) + 1
          /\ is_latest_attempt(s)
      BY <1>6, <2>1, <2>2 DEF Another, Writes
    <2>4. message_of(n) = 0 /\ n # j
      BY <2>1, <2>3, <1>0 DEF LineOK
    <2>5. is_latest_attempt(j)' => is_latest_attempt(j)
      BY <1>0, <1>1, <2>3, <2>4, Latest DEF message_of, Index
    <2>6. message_of(s) # message_of(j) => (is_latest_attempt(j) => is_latest_attempt(j)')
      BY <1>0, <1>1, <2>3, <2>4, Latest DEF message_of, Index
    <2>7. message_of(s) = message_of(j) => ~is_latest_attempt(j)'
      <3>1. SUFFICES ASSUME message_of(s) = message_of(j), is_latest_attempt(j)' PROVE FALSE
        OBVIOUS
      <3>2. Index(n)' <= Index(j)' /\ Index(j)' = Index(j) /\ Index(n)' = Index(s) + 1
        BY <1>1, <2>3, <2>4, <3>1 DEF message_of, Index
      <3>3. Index(j) <= Index(s)
        BY <2>3, <3>1, Latest
      <3> QED BY <3>2, <3>3, <1>2
    <2> QED BY <2>2, <2>3, <2>4, <2>5, <2>6, <2>7
  <1>7. ASSUME NEW l \in DOMAIN jobs, Changes(l)
        PROVE  /\ j \in DOMAIN jobs' /\ message_of(j)' = message_of(j) /\ Index(j)' = Index(j)
               /\ attempts'[j] = attempts[j] \/ l = j
               /\ is_latest_attempt(j)' <=> is_latest_attempt(j)
               /\ \A u \in Threads : ~Another(u)
    <2>1. /\ DOMAIN jobs' = DOMAIN jobs /\ attempts[l].state # "none"
          /\ \A k \in DOMAIN jobs : message_of(k)' = message_of(k) /\ Index(k)' = Index(k)
          /\ \A k \in DOMAIN jobs : k # l => attempts'[k] = attempts[k]
      BY <1>7 DEF Changes, Moves, message_of, Index
    <2>2. is_latest_attempt(j)' <=> is_latest_attempt(j)
      BY <1>1, <2>1, Latest
    <2>3. ASSUME NEW u \in Threads, Another(u)
          PROVE  FALSE
      <3>1. PICK n \in DOMAIN jobs : n = thread[u].new
        BY <2>3 DEF Another
      <3>2. attempts'[n].state = "pending" /\ attempts[n].state = "none"
        BY <2>3, <3>1 DEF Another, Writes
      <3>3. n # l
        BY <2>1, <3>2
      <3> QED BY <2>1, <3>1, <3>2, <3>3
    <2> QED BY <2>1, <2>2, <2>3
  <1>8. attempts'[j] = attempts[j] => message_of(j)' = message_of(j) /\ Index(j)' = Index(j)
    BY DEF message_of, Index
  <1> QED BY <1>0, <1>3, <1>4, <1>5, <1>6, <1>7, <1>8, AttemptCases

\* An attempt ends only where its job is settled, and is written only by the
\* thread that adds it.
LEMMA StateStep ==
    ASSUME Inv2, [Next]_vars, NEW j \in DOMAIN jobs
    PROVE  /\ attempts'[j].state \in Ended => attempts[j].state \in Ended \/ Changes(j)
           /\ attempts[j].state = "none" =>
                \/ attempts'[j].state = "none"
                \/ \E t \in Threads : (First(t) \/ Another(t)) /\ thread[t].new = j
  <1>1. CASE Same
    BY <1>1 DEF Same
  <1>2. ASSUME NEW t \in Threads, Adds(t)
        PROVE  attempts'[j] = attempts[j]
    BY <1>2 DEF Adds
  <1>3. ASSUME NEW t \in Threads, First(t) \/ Another(t)
        PROVE  attempts'[j] = attempts[j] \/ (thread[t].new = j /\ attempts'[j].state \notin Ended)
    BY <1>3 DEF First, Another, Writes, Ended
  <1>4. ASSUME NEW k \in DOMAIN jobs, Changes(k), k # j
        PROVE  attempts'[j] = attempts[j]
    BY <1>4 DEF Changes, Moves
  <1>5. Changes(j) => attempts[j].state # "none"
    BY DEF Changes
  <1> QED BY <1>1, <1>2, <1>3, <1>4, <1>5, AttemptCases

\* A retry stays right about the attempt it retries, and an attempt that is
\* about to end is open.
LEMMA RetryKept ==
    ASSUME Inv2, [Next]_vars, NEW u \in Threads
    PROVE  RetryOK(u)'
  <1> DEFINE j == thread[u].job
  <1>0. /\ TypeInv /\ Inv /\ Alone /\ RetryOK(u) /\ LineOK /\ RecordsAgree /\ NewApart
        /\ Idle.pc = "idle" /\ thread \in [Threads -> Local]
        /\ j \in {0} \cup DOMAIN jobs /\ 0 \notin DOMAIN jobs
        /\ thread[u].pc \in {"attempt_terminal", "event_terminal", "retry_check"} => j \in DOMAIN jobs
        /\ thread[u].pc \in Recording => thread[u].new \in DOMAIN jobs
    <2>1. TypeInv /\ Inv /\ Alone /\ RetryOK(u) /\ LineOK /\ RecordsAgree /\ NewApart
      BY DEF Inv2, Inv
    <2>2. 0 \notin DOMAIN jobs /\ j \in {0} \cup DOMAIN jobs
      BY <2>1, StoreFacts, ThreadFacts
    <2>3. thread[u].pc \in {"attempt_terminal", "event_terminal", "retry_check"} => j \in DOMAIN jobs
      BY <2>1, JobOfThread DEF Recording
    <2>4. thread[u].pc \in Recording => thread[u].new \in DOMAIN jobs
      BY <2>1, ThreadFacts DEF ThreadOK
    <2> QED BY <2>1, <2>2, <2>3, <2>4, IdleFields, ThreadFacts
  <1>1. SUFFICES
          /\ thread'[u].pc \in {"enqueue", "record_attempt"} /\ thread'[u].job # 0 =>
              attempts'[thread'[u].job].state \in Failed /\ is_latest_attempt(thread[u].job)'
          /\ thread'[u].pc = "attempt_terminal" => attempts'[thread'[u].job].state \notin Ended
          /\ thread'[u].pc = "record_attempt" => attempts'[thread'[u].new].state = "none"
          /\ thread'[u].pc \in {"event_terminal", "retry_check"} =>
              attempts'[thread'[u].job].state # "none"
    BY DEF RetryOK
  <1>2. ASSUME thread[u].pc \in {"enqueue", "record_attempt"}, j # 0,
               \A t \in Threads \ {u} : ~Another(t), ~Another(u)
        PROVE  attempts'[j].state \in Failed /\ (\A i : i = j => is_latest_attempt(i)')
    <2>1. j \in DOMAIN jobs /\ attempts[j].state \in Failed /\ is_latest_attempt(j)
      BY <1>0, <1>2 DEF RetryOK
    <2>2. attempts[j].state # "none" /\ ~Changes(j)
      BY <2>1 DEF Failed, Ended, Changes
    <2>3. PICK i \in DOMAIN jobs : i = j
      BY <2>1
    <2>4. attempts'[i] = attempts[i] /\ is_latest_attempt(i)'
      BY <2>1, <2>2, <2>3, <1>2, LatestStep
    <2> QED BY <2>1, <2>3, <2>4
  <1>3. CASE thread'[u] = thread[u]
    <2>1. thread[u].pc \notin {"idle"} /\ j # 0 => \A t \in Threads : ~Another(t)
      <3>1. SUFFICES ASSUME thread[u].pc # "idle", j # 0, NEW t \in Threads, Another(t) PROVE FALSE
        OBVIOUS
      <3>2. t # u
        BY <1>0, <1>3, <3>1, StepLeaves DEF Another, Step
      <3>3. thread[t].pc = "record_attempt" /\ thread[t].job # 0
        BY <3>1, <1>0 DEF Another
      <3> QED BY <3>1, <3>2, <3>3, <1>0, OneActs
    <2>2. thread[u].pc = "attempt_terminal" => attempts'[j].state \notin Ended
      <3>1. SUFFICES ASSUME thread[u].pc = "attempt_terminal", attempts'[j].state \in Ended PROVE FALSE
        OBVIOUS
      <3>2. j \in DOMAIN jobs /\ attempts[j].state \notin Ended
        BY <1>0, <3>1 DEF RetryOK
      <3>3. Changes(j)
        BY <3>1, <3>2, StateStep
      <3>4. PICK t \in Threads : AttemptTerminal(t) /\ thread[t].job = j
        <4>1. ~StartAttempt
          <5>1. thread["maintenance"].pc = "start_attempt" /\ thread["maintenance"].job \in DOMAIN jobs
                => u = "maintenance"
            BY <1>0, <3>1, <3>2, OneActs DEF Threads
          <5>2. StartAttempt => thread["maintenance"].pc = "start_attempt" /\ thread["maintenance"].job \in DOMAIN jobs
            BY AttemptStarts DEF StartAttempt, At
          <5> QED BY <5>1, <5>2, <3>1
        <4> QED BY <3>3, <4>1 DEF Changes
      <3>5. t # u
        BY <1>0, <1>3, <3>4, StepLeaves DEF Step
      <3>6. thread[t].pc = "attempt_terminal" /\ thread[t].job # 0
        BY <3>2, <3>4, <1>0 DEF AttemptTerminal, At
      <3> QED BY <3>1, <3>2, <3>5, <3>6, <1>0, OneActs DEF Recording
    <2>3. thread[u].pc = "record_attempt" => attempts'[thread[u].new].state = "none"
      <3>1. SUFFICES ASSUME thread[u].pc = "record_attempt" PROVE attempts'[thread[u].new].state = "none"
        OBVIOUS
      <3>2. thread[u].new \in DOMAIN jobs /\ attempts[thread[u].new].state = "none"
        BY <1>0, <3>1 DEF RetryOK, Recording
      <3>3. ASSUME NEW t \in Threads, First(t) \/ Another(t), thread[t].new = thread[u].new
            PROVE  FALSE
        <4>1. t # u
          BY <1>0, <1>3, <3>3, StepLeaves DEF First, Another, Step
        <4>2. thread[t].pc = "record_attempt"
          BY <3>3 DEF First, Another
        <4> QED BY <4>1, <4>2, <3>1, <3>3, <1>0 DEF NewApart, Recording, Threads
      <3> QED BY <3>2, <3>3, StateStep
    <2>4. thread[u].pc \in {"event_terminal", "retry_check"} => attempts'[j].state # "none"
      BY <1>0, AttemptStep DEF RetryOK
    <2> QED BY <1>2, <1>3, <2>1, <2>2, <2>3, <2>4
  <1>4. CASE Crash
    <2>1. thread'[u].pc \in {"idle", "restore"}
      BY <1>0, <1>4, CrashThreads
    <2> QED BY <2>1
  <1>5. CASE Submit \/ \E i \in DOMAIN jobs : Retry(i)
    <2>1. PICK pc \in {"enqueue", "retry_check"}, i \in Nat :
                /\ Begin("socket", pc, i, NoDecision, "idle") /\ (pc = "enqueue" => i = 0)
                /\ (pc = "retry_check" => attempts[i].state # "none") /\ attempts' = attempts
      <3>1. DOMAIN jobs \subseteq Nat
        BY <1>0, StoreFacts
      <3> QED BY <3>1, <1>5 DEF Submit, Retry, durable
    <2>2. /\ "socket" \in Threads /\ pc \in Labels /\ "idle" \in Labels /\ NoDecision \in Decision
      BY IdleFields DEF Threads, Labels
    <2>3. u = "socket" => thread'[u].pc = pc /\ thread'[u].job = i
      BY <2>1, <2>2, <1>0, BeginFacts
    <2>4. u # "socket" => thread'[u] = thread[u]
      BY <2>1, <2>2, <1>0, BeginFacts
    <2> QED BY <1>3, <2>1, <2>3, <2>4
  <1>6. ASSUME NEW t \in Threads, NEW i \in DOMAIN jobs, CancelLoad(t, i)
        PROVE  thread'[u] = thread[u] \/ thread'[u].pc = "cancel_mark"
    BY <1>0, <1>6, CancelLoadFacts
  <1>7. Quiet => thread'[u] = thread[u] \/ thread'[u].pc \in Calm
    BY DEF Quiet, Threads
  <1>8. CASE Step(u)
    <2>1. StepTurn(u)
      BY <1>0, <1>8, StepTurns
    <2>2. CASE Enqueue(u)
      <3>1. /\ thread'[u].pc = "record_attempt" /\ thread'[u].job = j
            /\ thread'[u].new = Len(jobs) + 1 /\ attempts'[Len(jobs) + 1].state = "none"
        BY <1>0, <2>2, EnqueueFacts DEF NoAttempt
      <3>2. \A t \in Threads : ~Another(t)
        BY <2>2 DEF Enqueue, Another, RecordAttempt, Writes
      <3>3. thread[u].pc = "enqueue"
        BY <2>2 DEF Enqueue, At
      <3> QED BY <1>2, <3>1, <3>2, <3>3
    <2>3. CASE RetryCheck(u)
      <3>1. /\ attempts' = attempts /\ jobs' = jobs
            /\ \/ attempts[j].state \in Failed /\ is_latest_attempt(j)
               \/ Goto(u, "idle") \/ Goto(u, "reply")
        BY <2>3 DEF RetryCheck, durable, Failed
      <3>2. thread'[u].pc \in {"enqueue", "idle", "reply"}
        BY <2>3, <2>1 DEF StepTurn, Edge, Ends, GoesBack, Opens, RetryCheck, Enqueue, At, Idle
      <3>3. Goto(u, "idle") => thread'[u].pc = "idle"
        BY <1>0, GotoFacts DEF Labels
      <3>4. Goto(u, "reply") => thread'[u].pc = "reply"
        BY <1>0, GotoFacts DEF Labels
      <3>5. thread'[u].pc = "enqueue" => thread'[u].job = j
        BY <2>3, <2>1, <1>0 DEF StepTurn, Edge, Ends, GoesBack, Opens, Keeps, RetryCheck, At
      <3>6. is_latest_attempt(j) => \A i : i = j => is_latest_attempt(i)'
        BY <3>1 DEF is_latest_attempt, lineage, message_of
      <3> QED BY <3>1, <3>2, <3>3, <3>4, <3>5, <3>6
    <2>4. CASE Complete(u) \/ CancelDecide(u)
      <3>1. \/ thread'[u].pc = "idle"
            \/ /\ ~is_terminal(j) /\ attempts' = attempts
               /\ thread'[u].pc = "attempt_terminal" /\ thread'[u].job = j
        BY <2>4, <2>1, <1>0 DEF StepTurn, Edge, Ends, GoesBack, Opens, Keeps, Complete, CancelDecide, At
      <3>2. j \in DOMAIN jobs
        BY <2>4, <1>0, CompleteFacts, CancelDecideFacts
      <3> QED BY <3>1, <3>2, <1>0 DEF RecordsAgree
    <2>6. CASE AttemptTerminal(u)
      <3>1. \/ thread'[u].pc = "reply"
            \/ Moves(j) /\ thread'[u].pc = "event_terminal" /\ thread'[u].job = j
        BY <2>6, AttemptEnds
      <3> QED BY <3>1 DEF Moves
    <2>7. CASE EventTerminal(u)
      <3>1. attempts' = attempts /\ thread[u].pc = "event_terminal"
        BY <2>7 DEF EventTerminal, At
      <3>2. thread'[u].pc \in {"retry_check", "reply"} /\ thread'[u].job = j
        BY <2>7, <2>1, <3>1 DEF StepTurn, Edge, Ends, GoesBack, Keeps
      <3> QED BY <3>1, <3>2, <1>0 DEF RetryOK
    <2>5. Enqueue(u) \/ RetryCheck(u) \/ Complete(u) \/ CancelDecide(u)
          \/ AttemptTerminal(u) \/ EventTerminal(u)
          \/ thread'[u].pc \in {"record_event", "idle", "reply", "cancel_decide",
                                "finish", "restored", "unqueue"}
      <3>1. thread[u].then \in {"idle", "finish", "unqueue", "restored"}
        BY <1>0, ThreadFacts DEF ThreadOK
      <3> QED BY <2>1, <3>1, <1>0 DEF StepTurn, Edge, Ends, GoesBack, Opens
    <2> QED BY <2>2, <2>3, <2>4, <2>5, <2>6, <2>7
  <1>9. ASSUME NEW t \in Threads, Step(t)
        PROVE  Step(u) \/ thread'[u] = thread[u]
    BY <1>0, <1>9, StepLeaves
  <1> QED BY <1>0, <1>3, <1>4, <1>5, <1>6, <1>7, <1>8, <1>9, Kinds DEF Calm


\* Only users add to the budget, and nothing takes from it.
LEMMA RetriesStep ==
    ASSUME TypeInv, [Next]_vars
    PROVE  /\ retries \in Nat /\ retries' \in Nat /\ retries <= retries'
           /\ \A j : Retry(j) => retries' = retries + 1
  <1>1. retries' = retries \/ retries' = retries + 1
    BY Zenon DEF Next, Handler, Heartbeat, StartStep, RestoreStep, Step, vars, bounds,
        Submit, Retry, RetryCheck, Enqueue, RecordAttempt, RecordEvent, StartLoad, StartAllowed,
        StartBlocked, StartUnstartable, StartAttempt, StartClaim, StartRunning, StartExecute,
        StartReturn, PollDecision, PollStale, HeartbeatTimeout, Complete, AttemptTerminal,
        EventTerminal, Reply, Finish, Unqueue, CancelLoad, CancelMark, CancelDecide,
        CancelDegraded, AckTerminalRequest, Crash, RestoreResumed, RestoreEnds, Sweep
  <1>2. retries \in Nat
    BY BoundsKept
  <1>3. \A j : Retry(j) => retries' = retries + 1
    BY DEF Retry
  <1> QED BY <1>1, <1>2, <1>3

\* The numbers of the attempts stay within the budget.
LEMMA BudgetKept ==
    ASSUME Inv2, [Next]_vars
    PROVE  BudgetOK'
  <1>0. /\ TypeInv /\ Inv /\ BudgetOK /\ LineOK /\ MaxAttempts \in Nat \ {0}
        /\ retries \in Nat /\ retries' \in Nat /\ retries <= retries'
        /\ \A k \in DOMAIN jobs : Index(k) \in Nat
        /\ Idle.pc = "idle" /\ thread \in [Threads -> Local] /\ 0 \notin DOMAIN jobs
        /\ 0 < MaxAttempts + retries'
    <2>1. TypeInv /\ Inv /\ BudgetOK /\ LineOK
      BY DEF Inv2, Inv
    <2>2. thread \in [Threads -> Local]
      BY <2>1 DEF TypeInv, TypeOK
    <2>3. 0 \notin DOMAIN jobs
      BY <2>1, StoreFacts
    <2>4. MaxAttempts \in Nat \ {0}
      BY DispatcherAssumption
    <2>5. retries \in Nat /\ retries' \in Nat /\ retries <= retries'
      BY <2>1, RetriesStep
    <2>6. 0 < MaxAttempts + retries'
      <3>1. \A a, r \in Nat : a # 0 => 0 < a + r
        OBVIOUS
      <3> QED BY <2>4, <2>5, <3>1
    <2> QED BY <2>1, <2>2, <2>3, <2>4, <2>5, <2>6, AttemptFields, IdleFields
  <1>1. \A k \in DOMAIN jobs : Index(k) < MaxAttempts + retries
    BY <1>0 DEF BudgetOK
  <1>2. \A k \in DOMAIN jobs' : Index(k)' < MaxAttempts + retries'
    <2>1. \A k \in DOMAIN jobs : Index(k) < MaxAttempts + retries'
      BY <1>0, <1>1
    <2>2. CASE Same
      BY <2>1, <2>2 DEF Same, Index
    <2>3. ASSUME NEW t \in Threads, Adds(t)
          PROVE  \A k \in DOMAIN jobs' : Index(k)' < MaxAttempts + retries'
      <3>1. /\ DOMAIN jobs' = DOMAIN jobs \cup {Len(jobs) + 1}
            /\ \A k \in DOMAIN jobs : attempts'[k] = attempts[k]
            /\ attempts'[Len(jobs) + 1].retry_index = 0
        BY <2>3 DEF Adds, NoAttempt
      <3>2. 0 < MaxAttempts + retries'
        BY <1>0
      <3> QED BY <2>1, <3>1, <3>2 DEF Index
    <2>4. ASSUME NEW t \in Threads, First(t)
          PROVE  \A k \in DOMAIN jobs' : Index(k)' < MaxAttempts + retries'
      <3>1. 0 < MaxAttempts + retries'
        BY <1>0
      <3> QED BY <2>1, <2>4, <3>1 DEF First, Writes, Index
    <2>5. ASSUME NEW t \in Threads, Another(t)
          PROVE  \A k \in DOMAIN jobs' : Index(k)' < MaxAttempts + retries'
      <3>1. Index(thread[t].job) + 1 < MaxAttempts + retries /\ thread[t].job \in DOMAIN jobs
        BY <2>5, <1>0 DEF Another, BudgetOK
      <3>2. Index(thread[t].job) + 1 < MaxAttempts + retries'
        BY <1>0, <3>1
      <3> QED BY <2>1, <2>5, <3>2 DEF Another, Writes, Index
    <2>6. ASSUME NEW j \in DOMAIN jobs, Changes(j)
          PROVE  \A k \in DOMAIN jobs' : Index(k)' < MaxAttempts + retries'
      BY <2>1, <2>6 DEF Changes, Moves, Index
    <2> QED BY <2>2, <2>3, <2>4, <2>5, <2>6, AttemptCases
  <1>3. ASSUME NEW u \in Threads, thread'[u].pc \in {"retry_check", "enqueue", "record_attempt"},
               thread'[u].job # 0
        PROVE  Index(thread[u].job)' + 1 < MaxAttempts + retries'
    <2> DEFINE j == thread[u].job
    <2>0. thread[u].pc \in {"retry_check", "enqueue", "record_attempt"} /\ j # 0 =>
            j \in DOMAIN jobs /\ Index(j) + 1 < MaxAttempts + retries
      BY <1>0, ThreadFacts DEF BudgetOK
    <2>1. ASSUME NEW i \in DOMAIN jobs, Index(i) + 1 < MaxAttempts + retries', attempts[i].state # "none"
          PROVE  Index(i)' + 1 < MaxAttempts + retries'
      BY <2>1, LatestStep
    <2>2. ASSUME NEW i \in DOMAIN jobs, thread'[u].job = i, attempts[i].state # "none",
                 Index(i) + 1 < MaxAttempts + retries'
          PROVE  Index(thread[u].job)' + 1 < MaxAttempts + retries'
      BY <2>1, <2>2 DEF Index
    <2>3. CASE thread[u].pc \in {"retry_check", "enqueue", "record_attempt"} /\ thread'[u].job = j
      <3>1. PICK i \in DOMAIN jobs : i = j /\ Index(i) + 1 < MaxAttempts + retries
        BY <1>3, <2>0, <2>3
      <3>2. Index(i) + 1 < MaxAttempts + retries'
        BY <3>1, <1>0
      <3>3. attempts[i].state # "none"
        <4>1. RetryOK(u)
          BY DEF Inv2
        <4> QED BY <4>1, <1>3, <2>3, <3>1 DEF RetryOK, Failed, Ended
      <3> QED BY <2>2, <2>3, <3>1, <3>2, <3>3
    <2>4. CASE \E i \in DOMAIN jobs : Retry(i)
      <3>1. PICK i \in DOMAIN jobs : Retry(i)
        BY <2>4
      <3>2. Begin("socket", "retry_check", i, NoDecision, "idle") /\ attempts[i].state # "none"
        BY <3>1 DEF Retry
      <3>3. /\ "socket" \in Threads /\ "retry_check" \in Labels /\ "idle" \in Labels
            /\ NoDecision \in Decision /\ i \in Nat
        BY <1>0, StoreFacts, IdleFields DEF Threads, Labels
      <3>4. u = "socket" => thread'[u].job = i
        BY <3>2, <3>3, <1>0, BeginFacts
      <3>5. u # "socket" => thread'[u] = thread[u]
        BY <3>2, <3>3, <1>0, BeginFacts
      <3>6. Index(i) + 1 < MaxAttempts + retries'
        <4>1. retries' = retries + 1
          BY <3>1, <1>0, RetriesStep
        <4> QED BY <4>1, <1>0, <1>1
      <3> QED BY <1>3, <2>2, <2>3, <3>2, <3>4, <3>5, <3>6
    <2>5. CASE EventTerminal(u)
      <3>1. retry_planned(j, thread[u].decision) \/ Goto(u, "reply")
        BY <2>5 DEF EventTerminal
      <3>2. Goto(u, "reply") => thread'[u].pc = "reply"
        BY <1>0, GotoFacts DEF Labels
      <3>3. j \in DOMAIN jobs /\ thread'[u].job = j /\ thread[u].pc = "event_terminal"
        <4>1. j \in DOMAIN jobs /\ thread[u].pc = "event_terminal"
          BY <1>0, <2>5, EventTerminalFacts
        <4>2. StepTurn(u)
          BY <1>0, <2>5, StepTurns DEF Step
        <4> QED BY <4>1, <4>2 DEF StepTurn, Edge, Ends, GoesBack, Keeps
      <3>4. attempts[j].state # "none"
        <4>1. RetryOK(u)
          BY DEF Inv2
        <4> QED BY <4>1, <3>3 DEF RetryOK
      <3>5. Index(j) + 1 < MaxAttempts
        BY <1>3, <3>1, <3>2 DEF retry_planned, Index
      <3>6. Index(j) + 1 < MaxAttempts + retries'
        BY <1>0, <3>3, <3>5
      <3> QED BY <2>2, <3>3, <3>4, <3>6
    <2>6. CASE Step(u) /\ ~EventTerminal(u)
      <3>1. StepTurn(u)
        BY <1>0, <2>6, StepTurns
      <3>2. thread[u].then \in {"idle", "finish", "unqueue", "restored"}
        BY <1>0, ThreadFacts DEF ThreadOK
      <3>3. thread[u].pc \in {"retry_check", "enqueue", "record_attempt"} /\ thread'[u].job = j
        BY <1>0, <1>3, <2>6, <3>1, <3>2 DEF StepTurn, Edge, Ends, GoesBack, Opens, Keeps
      <3> QED BY <2>3, <3>3
    <2>7. CASE thread'[u] = thread[u]
      BY <1>3, <2>3, <2>7
    <2>8. CASE Crash
      BY <1>0, <1>3, <2>8, CrashThreads
    <2>9. CASE Submit
      <3>1. Begin("socket", "enqueue", 0, NoDecision, "idle")
        BY <2>9 DEF Submit
      <3>2. /\ "socket" \in Threads /\ "enqueue" \in Labels /\ "idle" \in Labels
            /\ NoDecision \in Decision /\ 0 \in Nat
        BY IdleFields DEF Threads, Labels
      <3>3. u = "socket" => thread'[u].job = 0
        BY <3>1, <3>2, <1>0, BeginFacts
      <3>4. u # "socket" => thread'[u] = thread[u]
        BY <3>1, <3>2, <1>0, BeginFacts
      <3> QED BY <1>3, <2>7, <3>3, <3>4
    <2>10. ASSUME NEW t \in Threads, NEW i \in DOMAIN jobs, CancelLoad(t, i)
          PROVE  thread'[u] = thread[u] \/ thread'[u].pc = "cancel_mark"
      BY <1>0, <2>10, CancelLoadFacts
    <2>11. Quiet => thread'[u] = thread[u] \/ thread'[u].pc \in Calm
      BY DEF Quiet, Threads
    <2>12. ASSUME NEW t \in Threads, Step(t)
          PROVE  Step(u) \/ thread'[u] = thread[u]
      BY <1>0, <2>12, StepLeaves
    <2> QED BY <1>0, <1>3, <2>4, <2>5, <2>6, <2>7, <2>8, <2>9, <2>10, <2>11, <2>12, Kinds DEF Calm
  <1> QED BY <1>2, <1>3 DEF BudgetOK


\* A crash is counted.
LEMMA CrashesStep ==
    ASSUME TypeInv, [Next]_vars, crashes' = 0
    PROVE  crashes = 0 /\ ~Crash
  <1>1. Crash => crashes' = crashes + 1
    BY DEF Crash
  <1>2. ~Crash => crashes' = crashes
    BY Zenon DEF Next, Handler, Heartbeat, StartStep, RestoreStep, Step, vars, bounds,
        Submit, Retry, RetryCheck, Enqueue, RecordAttempt, RecordEvent, StartLoad, StartAllowed,
        StartBlocked, StartUnstartable, StartAttempt, StartClaim, StartRunning, StartExecute,
        StartReturn, PollDecision, PollStale, HeartbeatTimeout, Complete, AttemptTerminal,
        EventTerminal, Reply, Finish, Unqueue, CancelLoad, CancelMark, CancelDecide,
        CancelDegraded, AckTerminalRequest, RestoreResumed, RestoreEnds, Sweep
  <1>3. crashes \in Nat
    BY BoundsKept
  <1> QED BY <1>1, <1>2, <1>3

\* An open attempt is the latest of its message, and the only latest one.
LEMMA OpenIsLatest ==
    ASSUME TypeInv, LineOK, NEW j \in DOMAIN jobs, NEW k \in DOMAIN jobs,
           attempts[k].state \notin Ended \cup {"none"}, attempts[j].state # "none",
           is_latest_attempt(j), message_of(j) = message_of(k)
    PROVE  j = k
  <1>1. Index(k) <= Index(j) /\ Index(k) \in Nat /\ Index(j) \in Nat
    BY Latest, AttemptFields
  <1>2. message_of(j) # 0
    BY StoreFacts DEF LineOK
  <1>3. ~(Index(k) < Index(j))
    BY <1>2 DEF LineOK, Failed
  <1>4. Index(k) = Index(j)
    BY <1>1, <1>3
  <1> QED BY <1>2, <1>4 DEF LineOK

\* refresh_message_state says ended exactly when the latest attempt has.
LEMMA RefreshSays ==
    ASSUME TypeInv, LineOK, NEW j \in DOMAIN jobs, attempts[j].state # "none",
           is_latest_attempt(j), NEW rs
    PROVE  next_message_state(message_of(j), rs) = "ended" <=> attempts[j].state \in Ended
  <1>1. message_of(j) # 0
    BY StoreFacts DEF LineOK
  <1>2. \A k \in DOMAIN jobs : message_of(k) = message_of(j) /\ k # j =>
            attempts[k].state \in Failed
    <2>1. SUFFICES ASSUME NEW k \in DOMAIN jobs, message_of(k) = message_of(j), k # j
                   PROVE  attempts[k].state \in Failed
      OBVIOUS
    <2>2. Index(k) <= Index(j) /\ Index(k) \in Nat /\ Index(j) \in Nat
      BY <2>1, Latest, AttemptFields
    <2>3. Index(k) # Index(j)
      BY <1>1, <2>1 DEF LineOK
    <2>4. Index(k) < Index(j)
      BY <2>2, <2>3
    <2> QED BY <1>1, <2>1, <2>4 DEF LineOK
  <1>3. (\A k \in lineage(message_of(j)) : attempts[k].state \in Ended) <=> attempts[j].state \in Ended
    BY <1>2 DEF lineage, Failed
  <1> QED BY <1>3 DEF next_message_state

\* Which message states a step writes: of the message of a job that is
\* recorded or claimed, which is open, or what refresh_message_state says.
Opened(k) ==
    /\ k \in DOMAIN jobs /\ attempts[k].state \notin Ended \cup {"none"}
    /\ messages'[message_of(k)] # "ended"
    /\ \A m \in DOMAIN messages : m # message_of(k) => messages'[m] = messages[m]
Refreshed(m) ==
    /\ m \in DOMAIN messages => \E rs : messages'[m] = next_message_state(m, rs)
    /\ \A i \in DOMAIN messages : i # m => messages'[i] = messages[i]

\* Where a step that writes the messages leaves each of them.
LEMMA MessagesStep ==
    ASSUME Inv2, [Next]_vars, \A t \in Threads : ~RecordAttempt(t)
    PROVE  /\ messages' = messages \/ (\E k : Opened(k)) \/ (\E m : Refreshed(m))
           /\ \A t \in Threads : RecordEvent(t) => Opened(thread[t].new)
           /\ \A t \in Threads : EventTerminal(t) => Refreshed(message_of(thread[t].job))
  <1>0. /\ TypeInv /\ Inv /\ LineOK /\ RecordsAgree /\ messages \in Seq(MessageStates)
        /\ box \in Mailbox
    <2>1. TypeInv /\ Inv /\ LineOK /\ RecordsAgree
      BY DEF Inv2, Inv
    <2> QED BY <2>1, StoreFacts
  <1>1. ASSUME NEW m, NEW st, set_message_state(m, st)
        PROVE  /\ m \in DOMAIN messages => messages'[m] = st
               /\ \A i \in DOMAIN messages : i # m => messages'[i] = messages[i]
    BY <1>0, <1>1 DEF set_message_state
  <1>2. ASSUME StartClaim
        PROVE  \E k : Opened(k)
    <2>1. PICK k \in DOMAIN jobs : k = thread["maintenance"].job
      <3>1. "maintenance" \in Threads /\ thread["maintenance"].pc = "start_claim"
        BY <1>2 DEF StartClaim, At, Threads
      <3> QED BY <1>0, <3>1, JobOfThread DEF Recording
    <2>2. set_message_state(message_of(k), "running")
      BY <1>2, <2>1 DEF StartClaim
    <2>3. attempts[k].state = "running"
      BY <1>0, <1>2, <2>1 DEF StartClaim, At, Inv, StartOK
    <2>4. message_of(k) \in DOMAIN messages
      BY <1>0, <2>3 DEF LineOK
    <2> QED BY <1>1, <1>2, <2>1, <2>2, <2>3, <2>4 DEF Opened, Ended
  <1>3. ASSUME NEW t \in Threads, RecordEvent(t)
        PROVE  Opened(thread[t].new)
    <2>1. PICK k \in DOMAIN jobs : k = thread[t].new
      BY <1>0, <1>3, RecordEventFacts
    <2>2. set_message_state(message_of(k), "queued") /\ thread[t].pc = "record_event"
      BY <1>3, <2>1 DEF RecordEvent, At
    <2>3. is_queued(k) /\ attempts[k].state # "none"
      BY <1>0, <2>1, <2>2 DEF Inv, AddingOK, Recording
    <2>4. attempts[k].state \notin Ended
      BY <1>0, <2>3 DEF RecordsAgree, is_queued, is_terminal, Ended
    <2>5. message_of(k) \in DOMAIN messages
      BY <1>0, <2>3 DEF LineOK
    <2> QED BY <1>1, <2>1, <2>2, <2>3, <2>4, <2>5 DEF Opened
  <1>4. ASSUME NEW t \in Threads, EventTerminal(t)
        PROVE  Refreshed(message_of(thread[t].job))
    <2>1. set_message_state(message_of(thread[t].job),
                            next_message_state(message_of(thread[t].job), replies))
      BY <1>4 DEF EventTerminal
    <2> QED BY <2>1, <1>1 DEF Refreshed
  <1>5. ASSUME NEW t \in Threads, Reply(t)
        PROVE  \/ Refreshed(message_of(thread[t].job))
               \/ messages' = messages
    <2>1. \/ messages' = messages
          \/ \E rs : set_message_state(message_of(thread[t].job),
                            next_message_state(message_of(thread[t].job), rs))
      BY <1>5, Zenon DEF Reply
    <2> QED BY <2>1, <1>1 DEF Refreshed
  <1> QED BY <1>2, <1>3, <1>4, <1>5, MessagesFrame


\* A thread that is about to write the state of the message of an attempt
\* does so, or stays.
LEMMA UnsaidStep ==
    ASSUME Inv2, [Next]_vars, ~Crash, NEW j, Unsaid(j)
    PROVE  \/ Unsaid(j)'
           \/ \E t \in Threads : RecordEvent(t) /\ thread[t].new = j
           \/ \E t \in Threads : EventTerminal(t) /\ thread[t].job = j
  <1>0. TypeInv
    BY DEF Inv2, Inv
  <1>1. PICK u \in Threads :
            \/ thread[u].pc = "record_event" /\ thread[u].new = j
            \/ thread[u].pc = "event_terminal" /\ thread[u].job = j
    BY DEF Unsaid
  <1>2. CASE thread'[u] = thread[u]
    BY <1>1, <1>2 DEF Unsaid
  <1>3. CASE Step(u)
    <2>1. StepTurn(u)
      BY <1>0, <1>3, StepTurns
    <2>2. RecordEvent(u) \/ EventTerminal(u)
      BY <1>1, <2>1 DEF StepTurn, Edge, Ends, GoesBack
    <2>3. thread[u].pc = "record_event" => RecordEvent(u)
      BY <2>2 DEF EventTerminal, At
    <2>4. thread[u].pc = "event_terminal" => EventTerminal(u)
      BY <2>2 DEF RecordEvent, At
    <2> QED BY <1>1, <2>3, <2>4
  <1>4. PICK t \in Threads : Turn(t)
    BY <1>0, OneTurns
  <1>5. t # u => thread'[u] = thread[u]
    BY <1>4 DEF Turn
  <1>6. CASE t = u
    <2>1. ~Free(u)
      BY <1>1 DEF Free, At
    <2>2. u = "maintenance" /\ StartTurn(u) => FALSE
      BY <1>1 DEF StartTurn, Edge, Ends
    <2>3. StepTurn(u) => Step(u)
      BY DEF StepTurn, Step
    <2> QED BY <1>2, <1>3, <1>4, <1>6, <2>1, <2>2, <2>3 DEF Turn, BeginTurn
  <1> QED BY <1>2, <1>5, <1>6

\* An attempt that is about to be answered or retried is, or still is.
LEMMA UnansweredStep ==
    ASSUME Inv2, [Next]_vars, ~Crash, NEW j \in DOMAIN jobs, attempts[j].state # "none", Unanswered(j)
    PROVE  \/ Unanswered(j)' \/ HasReply(j)'
           \/ \E t \in Threads : Another(t) /\ thread[t].job = j
  <1>0. TypeInv /\ 0 \notin DOMAIN jobs /\ message_of(j) # 0
        /\ replies \in Seq([job : DOMAIN jobs, status : Ended])
    <2>1. TypeInv /\ LineOK
      BY DEF Inv2, Inv
    <2> QED BY <2>1, StoreFacts DEF LineOK
  <1>1. PICK u \in Threads :
            /\ thread[u].job = j
            /\ \/ thread[u].pc \in {"event_terminal", "reply"}
               \/ /\ thread[u].then # "idle"
                  /\ thread[u].pc \in {"retry_check", "enqueue", "record_attempt"}
    BY DEF Unanswered
  <1>2. CASE thread'[u] = thread[u]
    BY <1>1, <1>2 DEF Unanswered
  <1>3. CASE Step(u)
    <2>1. StepTurn(u) /\ PlanOK(u) /\ RetryOK(u)
      BY <1>0, <1>3, StepTurns DEF Inv2
    <2>2. CASE thread[u].pc = "event_terminal"
      <3>1. EventTerminal(u) /\ thread'[u].pc \in {"retry_check", "reply"} /\ Keeps(u)
        BY <2>1, <2>2 DEF StepTurn, Edge, Ends, GoesBack
      <3>2. thread[u].then = "idle" => thread'[u].pc = "reply"
        <4>1. thread[u].then = "idle" => ~thread[u].decision.retryable
          BY <2>1, <2>2 DEF PlanOK, Ending
        <4>2. thread[u].then = "idle" => Goto(u, "reply")
          BY <3>1, <4>1 DEF EventTerminal, retry_planned
        <4>3. Goto(u, "reply") => thread'[u].pc = "reply"
          BY <1>0, GotoFacts, ThreadFacts DEF Labels
        <4> QED BY <4>2, <4>3
      <3> QED BY <1>1, <3>1, <3>2 DEF Unanswered, Keeps
    <2>3. CASE thread[u].pc = "reply"
      <3>1. Reply(u)
        BY <2>1, <2>3 DEF StepTurn, Edge, Ends, GoesBack
      <3>2. replies' = Append(replies, [job |-> j, status |-> thread[u].decision.status])
        BY <1>0, <1>1, <3>1 DEF Reply
      <3>3. PICK r : r = [job |-> j, status |-> thread[u].decision.status]
        OBVIOUS
      <3>4. Len(replies) + 1 \in DOMAIN replies' /\ replies'[Len(replies) + 1] = r
        BY <1>0, <3>2, <3>3
      <3>5. r.job = j
        BY <3>3
      <3> QED BY <3>4, <3>5 DEF HasReply
    <2>4. CASE thread[u].pc = "retry_check"
      <3>1. thread'[u].pc \in {"enqueue", "reply"} /\ Keeps(u)
        BY <1>1, <2>1, <2>4 DEF StepTurn, Edge, Ends, GoesBack
      <3> QED BY <1>1, <2>4, <3>1 DEF Unanswered, Keeps
    <2>5. CASE thread[u].pc = "enqueue"
      <3>1. Opens(u, "record_attempt", thread[u].job, thread[u].then)
        BY <2>1, <2>5 DEF StepTurn, Edge, Ends, GoesBack
      <3> QED BY <1>1, <2>5, <3>1 DEF Unanswered, Opens
    <2>6. CASE thread[u].pc = "record_attempt"
      <3>1. RecordAttempt(u)
        BY <2>1, <2>6 DEF StepTurn, Edge, Ends, GoesBack
      <3>2. thread[u].job \in DOMAIN jobs /\ thread[u].job # 0
        BY <1>0, <1>1
      <3> QED BY <1>1, <2>1, <2>6, <3>1, <3>2, RecordAttemptWrites DEF Another, RetryOK
    <2> QED BY <1>1, <2>2, <2>3, <2>4, <2>5, <2>6
  <1>4. PICK t \in Threads : Turn(t)
    BY <1>0, OneTurns
  <1>5. t # u => thread'[u] = thread[u]
    BY <1>4 DEF Turn
  <1>6. CASE t = u
    <2>1. ~Free(u)
      BY <1>1 DEF Free, At
    <2>2. u = "maintenance" /\ StartTurn(u) => FALSE
      BY <1>1 DEF StartTurn, Edge, Ends
    <2>3. StepTurn(u) => Step(u)
      BY DEF StepTurn, Step
    <2> QED BY <1>2, <1>3, <1>4, <1>6, <2>1, <2>2, <2>3 DEF Turn, BeginTurn
  <1> QED BY <1>2, <1>5, <1>6

\* An answer is not lost.
LEMMA ReplyStays ==
    ASSUME TypeInv, [Next]_vars, NEW j, HasReply(j)
    PROVE  HasReply(j)'
  <1>0. replies \in Seq([job : DOMAIN jobs, status : Ended])
    BY StoreFacts
  <1>1. ASSUME NEW t \in Threads, Reply(t)
        PROVE  HasReply(j)'
    <2>1. \/ replies' = replies
          \/ /\ Len(replies') = Len(replies) + 1
             /\ \A i \in DOMAIN replies : replies'[i] = replies[i]
             /\ replies' \in Seq([job : DOMAIN jobs, status : Ended])
      BY <1>1, ReplyFacts
    <2>2. \A i \in DOMAIN replies : i \in DOMAIN replies' /\ replies'[i] = replies[i]
      BY <1>0, <2>1
    <2> QED BY <2>2 DEF HasReply
  <1>2. replies' = replies => HasReply(j)'
    BY DEF HasReply
  <1> QED BY <1>1, <1>2, RepliesFrame


\* The states of the messages and the replies go on agreeing with the latest
\* attempts, but for what a thread is about to write.
LEMMA AnswerKept ==
    ASSUME Inv2, [Next]_vars
    PROVE  AnswerOK'
  <1>0. TypeInv /\ Inv /\ LineOK /\ AnswerOK
    BY DEF Inv2, Inv
  <1>1. SUFFICES ASSUME crashes' = 0, NEW j \in DOMAIN jobs', attempts'[j].state # "none",
                        is_latest_attempt(j)'
                 PROVE  /\ \/ Unsaid(j)'
                           \/ messages'[message_of(j)'] = "ended" <=> attempts'[j].state \in Ended
                        /\ attempts'[j].state \in Ended => HasReply(j)' \/ Unanswered(j)'
    BY DEF AnswerOK
  <1>2. crashes = 0 /\ ~Crash
    BY <1>0, <1>1, CrashesStep
  <1>3. j \in DOMAIN jobs
    BY <1>0, <1>1, JobStep
  <1>4. CASE attempts[j].state = "none"
    <2>1. PICK t \in Threads : (First(t) \/ Another(t)) /\ thread[t].new = j
      BY <1>1, <1>3, <1>4, StateStep
    <2>2. attempts'[j].state \notin Ended /\ RecordAttempt(t)
      BY <2>1 DEF First, Another, Writes, Ended
    <2>3. thread'[t].pc = "record_event" /\ thread'[t].new = j
      <3>1. thread \in [Threads -> Local] /\ Goto(t, "record_event")
        BY <1>0, <2>2, ThreadFacts DEF RecordAttempt
      <3> QED BY <2>1, <3>1, GotoFacts DEF Labels
    <2> QED BY <2>2, <2>3 DEF Unsaid
  <1>5. CASE attempts[j].state # "none"
    <2>1. /\ message_of(j)' = message_of(j) /\ message_of(j) \in DOMAIN messages
          /\ is_latest_attempt(j)
          /\ attempts'[j] = attempts[j] \/ Changes(j)
          /\ \A t \in Threads : Another(t) => message_of(thread[t].job) # message_of(j)
      BY <1>1, <1>3, <1>5, LatestStep
    <2>2. /\ Unsaid(j) \/ (messages[message_of(j)] = "ended" <=> attempts[j].state \in Ended)
          /\ attempts[j].state \in Ended => HasReply(j) \/ Unanswered(j)
      BY <1>0, <1>2, <1>3, <1>5, <2>1 DEF AnswerOK
    <2>3. attempts'[j].state \in Ended => HasReply(j)' \/ Unanswered(j)'
      <3>1. CASE attempts[j].state \in Ended
        <4>1. HasReply(j) => HasReply(j)'
          BY <1>0, ReplyStays
        <4>2. Unanswered(j) => Unanswered(j)' \/ HasReply(j)'
          BY <1>2, <1>3, <1>5, <2>1, UnansweredStep
        <4> QED BY <2>2, <3>1, <4>1, <4>2
      <3>2. CASE Changes(j) /\ attempts'[j].state \in Ended
        <4>1. PICK t \in Threads : thread'[t].pc = "event_terminal" /\ thread'[t].job = j
          BY <3>2 DEF Changes, Ended
        <4> QED BY <4>1 DEF Unanswered
      <3> QED BY <2>1, <3>1, <3>2
    <2>4. CASE Changes(j) /\ attempts'[j].state \in Ended
      <3>1. PICK t \in Threads : thread'[t].pc = "event_terminal" /\ thread'[t].job = j
        BY <2>4 DEF Changes, Ended
      <3> QED BY <3>1, <2>3 DEF Unsaid
    <2>5. CASE ~(Changes(j) /\ attempts'[j].state \in Ended)
      <3>1. attempts'[j].state \in Ended <=> attempts[j].state \in Ended
        BY <2>1, <2>5 DEF Changes
      <3>2. CASE \E t \in Threads : RecordAttempt(t)
        <4>1. PICK t \in Threads : RecordAttempt(t)
          BY <3>2
        <4>2. messages'[message_of(j)] = messages[message_of(j)]
          BY <2>1, <4>1, RecordAttemptWrites
        <4>3. attempts' # attempts
          <5>1. attempts[thread[t].new].state = "none"
            BY <4>1 DEF Inv2, RetryOK, RecordAttempt, At
          <5>2. attempts'[thread[t].new].state = "pending"
            BY <1>0, <4>1, RecordAttemptFacts
          <5> QED BY <5>1, <5>2
        <4>4. \A u \in Threads : ~RecordEvent(u) /\ ~EventTerminal(u)
          BY <4>3 DEF RecordEvent, EventTerminal
        <4>5. Unsaid(j) => Unsaid(j)'
          BY <1>2, <4>4, UnsaidStep
        <4> QED BY <2>1, <2>2, <2>3, <3>1, <4>2, <4>5
      <3>3. CASE \A t \in Threads : ~RecordAttempt(t)
        <4>1. Opened(j) => messages'[message_of(j)] # "ended" /\ attempts[j].state \notin Ended
          BY DEF Opened
        <4>2. Refreshed(message_of(j)) =>
                (messages'[message_of(j)] = "ended" <=> attempts[j].state \in Ended)
          BY <1>0, <1>3, <1>5, <2>1, RefreshSays DEF Refreshed
        <4>3. CASE Unsaid(j)
          <5>1. Unsaid(j)' \/ Opened(j) \/ Refreshed(message_of(j))
            BY <1>2, <3>3, <4>3, UnsaidStep, MessagesStep
          <5> QED BY <2>1, <2>3, <3>1, <4>1, <4>2, <5>1
        <4>4. ASSUME NEW k, Opened(k)
              PROVE  messages'[message_of(j)] = messages[message_of(j)] \/ k = j
          <5>1. message_of(k) # message_of(j) => messages'[message_of(j)] = messages[message_of(j)]
            BY <2>1, <4>4 DEF Opened
          <5>2. message_of(k) = message_of(j) => k = j
            BY <1>0, <1>3, <1>5, <2>1, <4>4, OpenIsLatest DEF Opened
          <5> QED BY <5>1, <5>2
        <4>5. ASSUME NEW m, Refreshed(m)
              PROVE  messages'[message_of(j)] = messages[message_of(j)] \/ m = message_of(j)
          BY <2>1, <4>5 DEF Refreshed
        <4>6. \/ messages'[message_of(j)] = messages[message_of(j)]
              \/ Opened(j) \/ Refreshed(message_of(j))
          BY <3>3, <4>4, <4>5, MessagesStep
        <4> QED BY <2>1, <2>2, <2>3, <3>1, <4>1, <4>2, <4>3, <4>6
      <3> QED BY <3>2, <3>3
    <2> QED BY <2>4, <2>5
  <1> QED BY <1>4, <1>5

-----------------------------------------------------------------------------
(* The order of the queue.                                                 *)

\* The events: those there were keep their places and their jobs, and none
\* becomes pending again.
LEMMA PendingStep ==
    ASSUME TypeInv, [Next]_vars
    PROVE  \A e \in events(box) : e \in pending_events(box') => e \in pending_events(box)
  <1>0. Consistent(box) /\ box \in Mailbox
    BY StoreFacts
  <1>1. CASE StartClaim
    BY <1>1, StartClaimBox
  <1>2. CASE AckTerminalRequest
    BY <1>2, AckFacts
  <1>3. CASE Sweep
    BY <1>3, SweepFacts
  <1>4. ASSUME NEW t \in Threads, EventTerminal(t)
        PROVE  pending_events(box') \subseteq pending_events(box)
    BY <1>4, EventTerminalFacts
  <1>5. ASSUME NEW t \in Threads, RecordEvent(t)
        PROVE  \A e \in events(box) : e \in pending_events(box') => e \in pending_events(box)
    BY <1>5, RecordEventFacts
  <1> QED BY <1>1, <1>2, <1>3, <1>4, <1>5, BoxFrame

\* A job with a pending event had it before, or has just got it, behind all
\* the others.
LEMMA EventStep ==
    ASSUME Inv, [Next]_vars, NEW j, event_of(j)' \in pending_events(box')
    PROVE  \/ event_of(j) \in pending_events(box) /\ event_of(j)' = event_of(j)
           \/ /\ event_of(j)' = Len(box.inbox) + 1
              /\ \E t \in Threads : RecordEvent(t) /\ thread[t].new = j
  <1>0. /\ TypeInv /\ LaneOK /\ LaneOK' /\ box \in Mailbox /\ box' \in Mailbox
        /\ 0 \notin events(box') /\ pending_events(box') \subseteq events(box')
    <2>1. TypeInv /\ LaneOK
      BY DEF Inv
    <2>2. TypeInv'
      BY <2>1, NextType
    <2>3. LaneOK'
      BY LaneKept
    <2>4. box \in Mailbox /\ box' \in Mailbox
      BY <2>1, <2>2 DEF TypeInv, TypeOK
    <2> QED BY <2>1, <2>3, <2>4, PendingIds
  <1>1. event_of(j)' = IF \E e \in events(box') : box'.inbox[e].ref = j
                       THEN CHOOSE e \in events(box') : box'.inbox[e].ref = j ELSE 0
    BY DEF event_of
  <1>2. PICK f \in events(box') : f = event_of(j)' /\ box'.inbox[f].ref = j
    BY <1>0, <1>1
  <1>3. CASE f \in events(box)
    <2>1. box.inbox[f].ref = j
      BY <1>0, <1>2, <1>3, EventsStep
    <2>2. event_of(j) \in events(box) /\ box.inbox[event_of(j)].ref = j
      BY <1>3, <2>1, EventOf
    <2>3. event_of(j) = f
      BY <1>0, <1>3, <2>1, <2>2 DEF LaneOK
    <2> QED BY <1>0, <1>2, <1>3, <2>3, PendingStep
  <1>4. CASE f \notin events(box)
    <2>1. PICK t \in Threads :
                    /\ RecordEvent(t)
                    /\ events(box') = events(box) \cup {Len(box.inbox) + 1}
                    /\ box'.inbox[Len(box.inbox) + 1].ref = thread[t].new
      BY <1>0, <1>2, <1>4, EventsStep
    <2>2. f = Len(box.inbox) + 1
      BY <1>2, <1>4, <2>1
    <2> QED BY <1>2, <2>1, <2>2
  <1> QED BY <1>3, <1>4

\* The order of a queue q, by the events of the mailbox.
InOrder(q) ==
    \A i, k \in DOMAIN q :
        /\ i < k
        /\ event_of(q[i]) \in pending_events(box) /\ event_of(q[k]) \in pending_events(box)
        => event_of(q[i]) < event_of(q[k])

\* A job is taken off: the others keep their order, and the last its place.
LEMMA RemoveOrder ==
    ASSUME NEW T, NEW q \in Seq(T), NEW x, NEW r, r = RemoveFirst(q, x), InOrder(q), Distinct(q)
    PROVE  /\ InOrder(r)
           /\ Len(q) \in DOMAIN q /\ q[Len(q)] # x =>
                Len(r) \in DOMAIN r /\ r[Len(r)] = q[Len(q)]
  <1>1. CASE x \notin ToSet(q)
    BY <1>1, RemoveFirstAt
  <1>2. CASE x \in ToSet(q)
    <2>1. PICK p \in DOMAIN q :
                    /\ q[p] = x /\ r \in Seq(T) /\ Len(r) = Len(q) - 1
                    /\ \A k \in 1 .. Len(r) :
                        r[k] = IF k < p THEN q[k] ELSE q[k + 1]
      BY <1>2, RemoveFirstAt
    <2>2. PICK n \in Nat : n = Len(q)
      OBVIOUS
    <2>3. DOMAIN q = 1 .. n /\ DOMAIN r = 1 .. n - 1 /\ p \in 1 .. n /\ Len(r) = n - 1
      BY <2>1, <2>2
    <2> DEFINE at(k) == IF k < p THEN k ELSE k + 1
    <2>4. \A k \in 1 .. n - 1 : at(k) \in 1 .. n /\ r[k] = q[at(k)]
      BY <2>1, <2>2, <2>3
    <2>5. \A i, k \in 1 .. n - 1 : i < k => at(i) < at(k)
      BY <2>3
    <2>6. InOrder(r)
      <3> HIDE DEF at
      <3> QED BY <2>3, <2>4, <2>5 DEF InOrder
    <2>7. n \in DOMAIN q /\ q[n] # x => n - 1 \in DOMAIN r /\ r[n - 1] = q[n]
      <3>1. SUFFICES ASSUME n \in DOMAIN q, q[n] # x PROVE n - 1 \in DOMAIN r /\ r[n - 1] = q[n]
        OBVIOUS
      <3>2. p # n
        BY <2>1, <3>1
      <3>3. n - 1 \in 1 .. n - 1 /\ ~(n - 1 < p) /\ (n - 1) + 1 = n
        BY <2>3, <3>2
      <3> QED BY <2>1, <2>2, <2>3, <3>3
    <2> QED BY <2>2, <2>3, <2>6, <2>7
  <1> QED BY <1>1, <1>2

\* Two threads do not add jobs at once.
LEMMA OneAdds ==
    ASSUME Inv2, NEW t \in Threads, thread[t].pc \in Recording \cup {"enqueue"},
           NEW u \in Threads \ {t}
    PROVE  thread[u].pc \notin Recording \cup {"enqueue"}
  <1>1. Solo /\ LockOK
    BY DEF Inv2, Inv
  <1>2. CASE limits.overlap = 1
    BY <1>1, <1>2 DEF Solo, Threads, At, Recording
  <1>3. CASE limits.overlap # 1
    BY <1>1, <1>3 DEF LockOK, Threads, Recording
  <1> QED BY <1>2, <1>3


\* The order of a queue survives what a step does to the mailbox, if the job
\* that gets its event is the last.
LEMMA OrderStep ==
    ASSUME Inv, [Next]_vars, NEW n \in Nat, NEW r, DOMAIN r = 1 .. n, InOrder(r),
           \A t \in Threads : RecordEvent(t) =>
                \A i \in DOMAIN r : r[i] = thread[t].new => i = n
    PROVE  InOrder(r)'
  <1>0. pending_events(box) \subseteq 1 .. Len(box.inbox) /\ Len(box.inbox) \in Nat
    <2>1. box \in Mailbox
      BY DEF Inv, TypeInv, TypeOK
    <2> QED BY <2>1 DEF pending_events, events, Mailbox
  <1>1. SUFFICES ASSUME NEW i \in 1 .. n, NEW k \in 1 .. n, i < k,
                        event_of(r[i])' \in pending_events(box'),
                        event_of(r[k])' \in pending_events(box')
                 PROVE  event_of(r[i])' < event_of(r[k])'
    BY DEF InOrder
  <1>2. event_of(r[i]) \in pending_events(box) /\ event_of(r[i])' = event_of(r[i])
    <2>1. ASSUME NEW t \in Threads, RecordEvent(t), thread[t].new = r[i]
          PROVE  FALSE
      BY <1>1, <2>1
    <2> QED BY <1>1, <2>1, EventStep
  <1>3. \/ event_of(r[k]) \in pending_events(box) /\ event_of(r[k])' = event_of(r[k])
        \/ event_of(r[k])' = Len(box.inbox) + 1
    BY <1>1, EventStep
  <1>4. event_of(r[k]) \in pending_events(box) => event_of(r[i]) < event_of(r[k])
    BY <1>1, <1>2 DEF InOrder
  <1> QED BY <1>0, <1>2, <1>3, <1>4

\* Where a thread comes to record, it has just put its job on the queue.
LEMMA RecordingStep ==
    ASSUME TypeInv, [Next]_vars, NEW u \in Threads, thread'[u].pc \in Recording
    PROVE  \/ thread[u].pc \in Recording /\ thread'[u].new = thread[u].new
           \/ Enqueue(u)
  <1>0. thread \in [Threads -> Local] /\ thread[u].then \in {"idle", "finish", "unqueue", "restored"}
        /\ Idle.pc = "idle"
    BY ThreadFacts, IdleFields DEF ThreadOK
  <1>1. ~Crash
    BY CrashThreads DEF Recording
  <1>2. PICK t \in Threads : Turn(t)
    BY <1>1, OneTurns
  <1>3. CASE t # u
    BY <1>2, <1>3 DEF Turn
  <1>4. CASE t = u
    <2>1. StepTurn(u) => \/ thread[u].pc \in Recording /\ thread'[u].new = thread[u].new
                         \/ Enqueue(u)
      BY <1>0 DEF StepTurn, Edge, Ends, GoesBack, Opens, Keeps, Recording
    <2>2. u = "maintenance" /\ StartTurn(u) => thread'[u].pc \notin Recording
      BY <1>0 DEF StartTurn, Edge, Ends, Opens, Recording
    <2>3. BeginTurn(u) => thread'[u].pc \notin Recording
      BY DEF BeginTurn, Opens, Recording
    <2> QED BY <1>2, <1>4, <2>1, <2>2, <2>3 DEF Turn
  <1> QED BY <1>3, <1>4

\* A job that leaves the queue is not the one being added.
LEMMA RemovalOrder ==
    ASSUME Inv2, [Next]_vars, NEW x, remove_queued(x), box' = box,
           \A t \in Threads : ~Enqueue(t) /\ ~RecordEvent(t),
           \A u \in Threads : thread[u].pc \in Recording /\ thread'[u].pc \in Recording
                => thread[u].new # x
    PROVE  OrderOK'
  <1>0. TypeInv /\ Inv /\ OrderOK /\ QueueOK /\ queue \in Seq(DOMAIN jobs)
    <2>1. TypeInv /\ Inv /\ OrderOK /\ QueueOK
      BY DEF Inv2, Inv
    <2> QED BY <2>1, StoreFacts
  <1>1. InOrder(queue) /\ Distinct(queue)
    BY <1>0 DEF OrderOK, QueueInMailboxOrder, InOrder, is_pending, QueueOK
  <1>2. PICK r : r = queue'
    OBVIOUS
  <1>3. r = RemoveFirst(queue, x)
    BY <1>2 DEF remove_queued
  <1>4. /\ InOrder(r)
        /\ Len(queue) \in DOMAIN queue /\ queue[Len(queue)] # x =>
                Len(r) \in DOMAIN r /\ r[Len(r)] = queue[Len(queue)]
    BY <1>0, <1>1, <1>3, RemoveOrder
  <1>5. InOrder(r)'
    BY <1>4 DEF InOrder, event_of
  <1>6. QueueInMailboxOrder'
    BY <1>2, <1>5 DEF QueueInMailboxOrder, InOrder, is_pending
  <1>7. ASSUME NEW u \in Threads, thread'[u].pc \in Recording
        PROVE  Len(queue') \in DOMAIN queue' /\ queue'[Len(queue')] = thread'[u].new
    <2>1. thread[u].pc \in Recording /\ thread'[u].new = thread[u].new
      BY <1>0, <1>7, RecordingStep
    <2>2. Len(queue) \in DOMAIN queue /\ queue[Len(queue)] = thread[u].new
      BY <1>0, <2>1 DEF OrderOK
    <2> QED BY <1>2, <1>4, <1>7, <2>1, <2>2
  <1> QED BY <1>6, <1>7 DEF OrderOK

\* After a restart the queue is in the order of the mailbox.
LEMMA AdmissionOrder ==
    ASSUME TypeInv, NEW q \in admission_ordered
    PROVE  InOrder(q)
  <1>1. \A i, k \in DOMAIN q : i < k => admission_position(q[i]) < admission_position(q[k])
    BY DEF admission_ordered
  <1>2. 0 \notin pending_events(box)
    BY PendingIds, StoreFacts
  <1>3. \A j : event_of(j) \in pending_events(box) => admission_position(j) = event_of(j)
    BY <1>2 DEF admission_position, is_pending
  <1> QED BY <1>1, <1>3 DEF InOrder

\* The queue stays in the order of the mailbox, and the job that is being
\* added its last.
LEMMA OrderKept ==
    ASSUME Inv2, [Next]_vars
    PROVE  OrderOK'
  <1>0. /\ TypeInv /\ Inv /\ OrderOK /\ QueueOK /\ StartOK /\ queue \in Seq(DOMAIN jobs)
        /\ box \in Mailbox /\ RequestsOK(box, Len(jobs)) /\ Len(jobs) \in Nat
        /\ DOMAIN jobs = 1 .. Len(jobs)
        /\ "maintenance" \in Threads /\ thread \in [Threads -> Local] /\ Idle.pc = "idle"
    <2>1. TypeInv /\ Inv /\ OrderOK /\ QueueOK /\ StartOK
      BY DEF Inv2, Inv
    <2>2. thread \in [Threads -> Local]
      BY <2>1 DEF TypeInv, TypeOK
    <2> QED BY <2>1, <2>2, StoreFacts, IdleFields DEF Threads
  <1>1. InOrder(queue) /\ Distinct(queue)
    BY <1>0 DEF OrderOK, QueueInMailboxOrder, InOrder, is_pending, QueueOK
  <1>2. \A u \in Threads : AddingOK(u) /\ ThenOK(u) /\ SettlingOK(u)
    BY <1>0 DEF Inv
  <1>3. CASE Crash
    <2>1. box' = box /\ queue' \in admission_ordered
      BY <1>0, <1>3, CrashFacts DEF durable
    <2>2. PICK r : r = queue'
      OBVIOUS
    <2>3. InOrder(r)
      BY <1>0, <2>1, <2>2, AdmissionOrder
    <2>4. InOrder(r)'
      BY <2>1, <2>3 DEF InOrder, event_of
    <2>5. QueueInMailboxOrder'
      BY <2>2, <2>4 DEF QueueInMailboxOrder, InOrder, is_pending
    <2>6. \A u \in Threads : thread'[u].pc \notin Recording
      BY <1>0, <1>3, CrashThreads DEF Recording
    <2> QED BY <2>5, <2>6 DEF OrderOK
  <1>4. ASSUME NEW t \in Threads, Enqueue(t)
        PROVE  OrderOK'
    <2>1. PICK n \in Nat : n = Len(jobs) + 1
      BY <1>0
    <2>2. PICK r : r = queue'
      OBVIOUS
    <2>3. r = Append(queue, n)
      BY <1>4, <2>1, <2>2 DEF Enqueue
    <2>11. box' = box
      BY <1>4 DEF Enqueue
    <2>4. PICK l \in Nat : l = Len(queue)
      BY <1>0
    <2>5. /\ DOMAIN queue = 1 .. l /\ DOMAIN r = 1 .. l + 1 /\ Len(r) = l + 1
          /\ r[l + 1] = n /\ \A i \in 1 .. l : r[i] = queue[i]
      BY <1>0, <2>3, <2>4
    <2>6. event_of(n) \notin pending_events(box)
      <3>1. ~HasEvent(n)
        BY <1>0, <2>1 DEF HasEvent, RequestsOK
      <3>2. event_of(n) = 0
        BY <3>1, EventOf DEF HasEvent
      <3> QED BY <3>2, <1>0, PendingIds
    <2>7. InOrder(r)
      <3>1. SUFFICES ASSUME NEW i \in 1 .. l + 1, NEW k \in 1 .. l + 1, i < k,
                            event_of(r[i]) \in pending_events(box),
                            event_of(r[k]) \in pending_events(box)
                     PROVE  event_of(r[i]) < event_of(r[k])
        BY <2>5 DEF InOrder
      <3>2. k # l + 1
        BY <2>5, <2>6, <3>1
      <3>3. i \in 1 .. l /\ k \in 1 .. l
        BY <3>1, <3>2
      <3> QED BY <1>1, <2>5, <3>1, <3>3 DEF InOrder
    <2>8. InOrder(r)'
      BY <2>11, <2>7 DEF InOrder, event_of
    <2>9. QueueInMailboxOrder'
      BY <2>2, <2>8 DEF QueueInMailboxOrder, InOrder, is_pending
    <2>10. ASSUME NEW u \in Threads, thread'[u].pc \in Recording
           PROVE  Len(queue') \in DOMAIN queue' /\ queue'[Len(queue')] = thread'[u].new
      <3>1. thread[t].pc = "enqueue"
        BY <1>4 DEF Enqueue, At
      <3>2. u = t
        <4>1. u # t => thread'[u] = thread[u]
          BY <1>0, <1>4, EnqueueFacts
        <4> QED BY <3>1, <4>1, <2>10, OneAdds
      <3>3. thread'[u].new = n
        BY <3>2, <1>0, <1>4, <2>1, EnqueueFacts
      <3> QED BY <2>2, <2>5, <3>3
    <2> QED BY <2>9, <2>10 DEF OrderOK
  <1>5. CASE StartAllowed
    <2>1. /\ remove_queued(thread["maintenance"].job) /\ box' = box
          /\ thread["maintenance"].pc = "preclaim"
      BY <1>5 DEF StartAllowed, At, durable
    <2>2. HasEvent(thread["maintenance"].job)
      <3>1. head_pending_event(box) # 0 /\ box.inbox[head_pending_event(box)].ref = thread["maintenance"].job
        BY <1>0, <2>1 DEF StartOK
      <3>2. head_pending_event(box) \in events(box)
        BY <1>0, <3>1, HeadIsLeast, PendingIds
      <3> QED BY <3>1, <3>2 DEF HasEvent
    <2>3. \A u \in Threads : thread[u].pc \in Recording => thread[u].new # thread["maintenance"].job
      BY <1>2, <2>2 DEF AddingOK
    <2>4. \A t \in Threads : ~Enqueue(t) /\ ~RecordEvent(t)
      <3>1. jobs' = jobs /\ box' = box
        BY <1>5 DEF StartAllowed, durable
      <3>2. ASSUME NEW t \in Threads, Enqueue(t) PROVE FALSE
        <4>1. Len(jobs') = Len(jobs) + 1
          BY <3>2, <1>0, EnqueueFacts
        <4> QED BY <3>1, <4>1, <1>0
      <3>3. ASSUME NEW t \in Threads, RecordEvent(t) PROVE FALSE
        <4>1. Len(box.inbox) \in Nat
          BY <1>0 DEF Mailbox
        <4> QED BY <3>1, <3>3, <4>1, <1>0, RecordEventFacts
      <3> QED BY <3>2, <3>3
    <2> QED BY <2>1, <2>3, <2>4, RemovalOrder
  <1>6. ASSUME NEW t \in Threads, Unqueue(t) \/ CancelDecide(t)
        PROVE  OrderOK' \/ queue' = queue
    <2>1. /\ remove_queued(thread[t].job) \/ queue' = queue
          /\ box' = box
      BY <1>6 DEF Unqueue, CancelDecide, durable
    <2>2. ASSUME NEW u \in Threads, thread[u].pc \in Recording, thread'[u].pc \in Recording
          PROVE  thread[u].new # thread[t].job
      <3>1. u # t
        BY <1>6, <2>2 DEF Unqueue, CancelDecide, At, Recording
      <3>2. CASE Unqueue(t)
        <4>1. thread[t].pc = "unqueue" /\ thread[t].then = "unqueue"
          BY <1>2, <3>2 DEF Unqueue, At, ThenOK
        <4>2. is_terminal(thread[t].job)
          BY <1>2, <4>1 DEF SettlingOK
        <4>3. is_queued(thread[u].new)
          BY <1>2, <2>2 DEF AddingOK
        <4> QED BY <4>2, <4>3 DEF is_terminal, is_queued, Ended
      <3>3. CASE CancelDecide(t)
        <4>1. thread[t].pc = "cancel_decide"
          BY <3>3 DEF CancelDecide, At
        <4> QED BY <1>0, <2>2, <3>1, <4>1, Beside DEF Threads, Recording
      <3> QED BY <1>6, <3>2, <3>3
    <2>3. \A u \in Threads : ~Enqueue(u) /\ ~RecordEvent(u)
      <3>1. ASSUME NEW u \in Threads, Enqueue(u) \/ RecordEvent(u) PROVE FALSE
        <4>1. u # t
          BY <1>6, <3>1 DEF Unqueue, CancelDecide, Enqueue, RecordEvent, At
        <4>2. thread'[t].pc # thread[t].pc
          BY <1>0, <1>6, StepLeaves DEF Step
        <4>3. thread'[t] = thread[t]
          BY <1>0, <3>1, <4>1, StepLeaves DEF Step
        <4> QED BY <4>2, <4>3
      <3> QED BY <3>1
    <2> QED BY <2>1, <2>2, <2>3, RemovalOrder
  <1>7. CASE queue' = queue /\ ~Crash /\ \A t \in Threads : ~Enqueue(t)
    <2>1. PICK r : r = queue
      OBVIOUS
    <2>2. PICK n \in Nat : n = Len(queue)
      BY <1>0
    <2>3. DOMAIN r = 1 .. n
      BY <1>0, <2>1, <2>2
    <2>4. ASSUME NEW t \in Threads, RecordEvent(t), NEW i \in DOMAIN r, r[i] = thread[t].new
          PROVE  i = n
      <3>1. thread[t].pc \in Recording
        BY <2>4 DEF RecordEvent, At, Recording
      <3>2. Len(queue) \in DOMAIN queue /\ queue[Len(queue)] = thread[t].new
        BY <1>0, <3>1 DEF OrderOK
      <3> QED BY <1>1, <2>1, <2>2, <2>4, <3>2 DEF Distinct
    <2>5. InOrder(r)'
      BY <1>0, <1>1, <2>1, <2>3, <2>4, OrderStep
    <2>6. QueueInMailboxOrder'
      BY <1>7, <2>1, <2>5 DEF QueueInMailboxOrder, InOrder, is_pending
    <2>7. \A u \in Threads : thread'[u].pc \in Recording =>
                thread[u].pc \in Recording /\ thread'[u].new = thread[u].new
      BY <1>0, <1>7, RecordingStep
    <2> QED BY <1>0, <1>7, <2>6, <2>7 DEF OrderOK
  <1> QED BY <1>3, <1>4, <1>5, <1>6, <1>7, QueueFrame

-----------------------------------------------------------------------------
(* The theorems of the third layer.                                        *)

\* No operation of a user overlaps, so no cancellation does.
LEMMA NoUserNoCancel == NoUserRace => NoCancelRace
  <1> QED BY DEF NoUserRace, NoCancelRace

\* Nothing has begun.
LEMMA InitInv2 == Init /\ NoUserRace => Inv2
  <1> SUFFICES ASSUME Init, NoUserRace PROVE Inv2
    OBVIOUS
  <1>1. Inv
    BY InitInv, NoUserNoCancel
  <1>2. \A t \in Threads : thread[t] = Idle
    BY DEF Init
  <1>3. /\ Idle.pc = "idle" /\ Idle.then = "idle" /\ Idle.job = 0
        /\ "socket" \in Threads /\ "maintenance" \in Threads
    BY IdleFields DEF Threads
  <1>4. jobs = << >> /\ messages = << >> /\ queue = << >>
    BY DEF Init
  <1>5. Alone /\ LockOK
    BY <1>2, <1>3 DEF Alone, LockOK, Ending, Recording
  <1>6. \A t \in Threads : PlanOK(t) /\ RetryOK(t)
    BY <1>2, <1>3 DEF PlanOK, RetryOK, Ending
  <1>7. LineOK
    BY <1>4 DEF LineOK
  <1>8. BudgetOK
    BY <1>2, <1>3, <1>4 DEF BudgetOK
  <1>9. AnswerOK
    BY <1>4 DEF AnswerOK
  <1>10. OrderOK
    BY <1>2, <1>3, <1>4 DEF OrderOK, QueueInMailboxOrder, Recording
  <1> QED BY <1>1, <1>5, <1>6, <1>7, <1>8, <1>9, <1>10 DEF Inv2

\* The third layer is inductive.
LEMMA NextInv2 ==
    ASSUME Inv2, [Next]_vars
    PROVE  Inv2'
  <1>1. Inv'
    BY NextInv DEF Inv2
  <1>2. NoUserRace'
    <2>1. limits' = limits /\ NoUserRace
      BY LimitsKept DEF Inv2
    <2> QED BY <2>1 DEF NoUserRace
  <1>3. \A t \in Threads : (PlanOK(t) /\ RetryOK(t))'
    BY PlanKept, RetryKept
  <1>4. Alone' /\ LockOK' /\ LineOK' /\ BudgetOK' /\ AnswerOK' /\ OrderOK'
    BY AloneKept, LockKept, LineKept, BudgetKept, AnswerKept, OrderKept
  <1> QED BY <1>1, <1>2, <1>3, <1>4 DEF Inv2

\* The third layer holds when nothing that a user asks of a job overlaps.
THEOREM Inv2Always == Spec /\ NoUserRace => []Inv2
  <1>1. Init /\ NoUserRace => Inv2
    BY InitInv2
  <1>2. Inv2 /\ [Next]_vars => Inv2'
    BY NextInv2
  <1> QED BY <1>1, <1>2, PTL DEF Spec

(* Jobs are started in the order in which their requests entered the        *)
(* mailbox: submissions, retries, starts, cancellations and restarts keep   *)
(* the queue in memory in that order.                                       *)
THEOREM QueueOrder == Spec /\ NoUserRace => []QueueInMailboxOrder
  <1>1. Inv2 => QueueInMailboxOrder
    BY DEF Inv2, OrderOK
  <1> QED BY <1>1, Inv2Always, PTL

\* The lineage of a message has as many attempts as its latest has number,
\* and one.
LEMMA LineageSize ==
    ASSUME TypeInv, LineOK, NEW m \in DOMAIN messages
    PROVE  \E j \in lineage(m) :
             /\ Cardinality(lineage(m)) = Index(j) + 1 /\ Index(j) \in Nat
             /\ {attempts[k].retry_index : k \in lineage(m)} = 0 .. Index(j)
  <1>0. m # 0 /\ DOMAIN jobs = 1 .. Len(jobs) /\ Len(jobs) \in Nat
        /\ \A k \in DOMAIN jobs : Index(k) \in Nat
    BY StoreFacts, AttemptFields
  <1> DEFINE L == lineage(m)
             I == {attempts[k].retry_index : k \in L}
  <1>1. L \subseteq DOMAIN jobs /\ L # {} /\ \A k \in L : message_of(k) = m /\ Index(k) \in I
    BY <1>0 DEF LineOK, lineage, Index
  <1>2. IsFiniteSet(L)
    <2>1. IsFiniteSet(1 .. Len(jobs))
      BY <1>0, FS_Interval
    <2> QED BY <1>0, <1>1, <2>1, FS_Subset
  <1>3. I \subseteq Nat /\ I # {} /\ IsFiniteSet(I)
    <2>1. I \subseteq Nat /\ I # {}
      BY <1>0, <1>1 DEF Index
    <2> DEFINE f == [k \in L |-> Index(k)]
    <2>2. f \in Surjection(L, I)
      BY DEF Surjection, Index
    <2>3. IsFiniteSet(I)
      BY <1>2, <2>2, FS_Surjection
    <2> QED BY <2>1, <2>3
  <1>4. PICK top \in I : \A i \in I : i <= top
    BY <1>3, GreatestNat
  <1>5. PICK j \in L : Index(j) = top
    BY <1>4 DEF Index
  <1>6. I = 0 .. Index(j)
    <2>1. \A i \in Nat : i < Index(j) => i \in I
      BY <1>0, <1>1, <1>5 DEF LineOK, lineage, Index
    <2>2. \A i \in I : i \in Nat /\ i <= Index(j)
      BY <1>3, <1>4, <1>5
    <2>3. Index(j) \in I /\ Index(j) \in Nat
      BY <1>0, <1>1, <1>5
    <2> HIDE DEF I
    <2>4. PICK n \in Nat : n = Index(j)
      BY <2>3
    <2>5. \A i \in 0 .. n : i \in Nat /\ (i < n \/ i = n)
      OBVIOUS
    <2>6. \A i \in 0 .. n : i \in I
      BY ONLY <2>1, <2>3, <2>4, <2>5
    <2>7. \A i \in I : i \in 0 .. n
      BY ONLY <2>2, <2>4, n \in Nat
    <2>8. I = 0 .. n
      BY <2>6, <2>7, Zenon
    <2> QED BY <2>4, <2>8
  <1>7. Cardinality(L) = Cardinality(I)
    <2> DEFINE f == [k \in L |-> Index(k)]
    <2>1. f \in Bijection(L, I)
      <3>1. \A k, l \in L : f[k] = f[l] => k = l
        BY <1>0, <1>1 DEF LineOK
      <3>2. f \in Surjection(L, I)
        BY DEF Surjection, Index
      <3>3. f \in [L -> I]
        BY <1>1
      <3> HIDE DEF f, L, I
      <3>4. f \in Injection(L, I)
        BY <3>1, <3>3 DEF Injection, IsInjective
      <3>5. f \in Bijection(L, I)
        BY <3>2, <3>4 DEF Bijection
      <3> QED BY <3>5
    <2>2. ExistsBijection(L, I)
      BY <2>1 DEF ExistsBijection
    <2> QED BY <1>2, <2>2, FS_Bijection
  <1>8. Cardinality(0 .. Index(j)) = Index(j) + 1
    <2>1. Index(j) \in Nat
      BY <1>0, <1>1, <1>5
    <2> QED BY <2>1, FS_Interval
  <1>9. Index(j) \in Nat
    BY <1>0, <1>1, <1>5
  <1> QED BY <1>5, <1>6, <1>7, <1>8, <1>9

(* The attempts of a message are a line, however retries by hand, automatic *)
(* retries, cancellations and crashes follow each other.                    *)
THEOREM LineageTheorem == Spec /\ NoUserRace => []LineageIsALine
  <1>1. ASSUME Inv2 PROVE LineageIsALine
    <2>0. TypeInv /\ LineOK
      BY <1>1 DEF Inv2, Inv
    <2>1. SUFFICES ASSUME NEW m \in DOMAIN messages
                   PROVE  /\ {attempts[j].retry_index : j \in lineage(m)} = 0 .. Cardinality(lineage(m)) - 1
                          /\ \A j, k \in lineage(m) :
                                attempts[j].retry_index < attempts[k].retry_index =>
                                    attempts[j].state \in Ended \ {"completed"}
      BY DEF LineageIsALine
    <2>2. PICK j \in lineage(m) :
             /\ Cardinality(lineage(m)) = Index(j) + 1 /\ Index(j) \in Nat
             /\ {attempts[k].retry_index : k \in lineage(m)} = 0 .. Index(j)
      BY <2>0, LineageSize
    <2>3. Cardinality(lineage(m)) - 1 = Index(j)
      BY <2>2
    <2>4. m # 0
      BY <2>0, StoreFacts
    <2>5. \A i, k \in lineage(m) : attempts[i].retry_index < attempts[k].retry_index =>
                                    attempts[i].state \in Ended \ {"completed"}
      BY <2>0, <2>4 DEF LineOK, lineage, Index, Failed
    <2> QED BY <2>2, <2>3, <2>5
  <1> QED BY <1>1, Inv2Always, PTL

(* Automatic retries make at most max_attempts attempts of a message; each  *)
(* further one was asked for by a user.                                     *)
THEOREM BudgetTheorem == Spec /\ NoUserRace => []RetryBudget
  <1>1. ASSUME Inv2 PROVE RetryBudget
    <2>0. TypeInv /\ LineOK /\ BudgetOK
      BY <1>1 DEF Inv2, Inv
    <2>1. SUFFICES ASSUME NEW m \in DOMAIN messages
                   PROVE  Cardinality(lineage(m)) <= MaxAttempts + retries
      BY DEF RetryBudget
    <2>2. PICK j \in lineage(m) : Cardinality(lineage(m)) = Index(j) + 1 /\ Index(j) \in Nat
      BY <2>0, LineageSize
    <2>3. Index(j) < MaxAttempts + retries
      BY <2>0, <2>2 DEF BudgetOK, lineage
    <2>4. MaxAttempts \in Nat /\ retries \in Nat
      BY <2>0, BoundsKept, DispatcherAssumption
    <2> QED BY <2>2, <2>3, <2>4
  <1> QED BY <1>1, Inv2Always, PTL

(* Between operations a message is shown as ended exactly when its latest   *)
(* attempt has ended, and then that attempt has been answered.              *)
THEOREM AnswersTheorem == Spec /\ NoUserRace => []SettledIsAnswered
  <1>1. ASSUME Inv2 PROVE SettledIsAnswered
    <2>0. TypeInv /\ LineOK /\ AnswerOK
      BY <1>1 DEF Inv2, Inv
    <2>1. SUFFICES ASSUME AllIdle, crashes = 0, NEW m \in DOMAIN messages, NEW j \in lineage(m),
                          is_latest_attempt(j)
                   PROVE  /\ messages[m] = "ended" <=> attempts[j].state \in Ended
                          /\ messages[m] = "ended" => \E i \in DOMAIN replies : replies[i].job = j
      BY DEF SettledIsAnswered
    <2>2. j \in DOMAIN jobs /\ message_of(j) = m /\ m # 0
      BY <2>0, StoreFacts DEF lineage
    <2>3. attempts[j].state # "none"
      BY <2>0, <2>2 DEF LineOK
    <2>4. ~Unsaid(j) /\ ~Unanswered(j)
      BY <2>1 DEF Unsaid, Unanswered, AllIdle, At
    <2> QED BY <2>0, <2>1, <2>2, <2>3, <2>4 DEF AnswerOK, HasReply
  <1> QED BY <1>1, Inv2Always, PTL
=============================================================================
