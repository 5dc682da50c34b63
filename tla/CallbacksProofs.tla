--------------------------- MODULE CallbacksProofs ---------------------------
(***************************************************************************)
(* Result chains: for any agents, any number of requests, edges, retries,  *)
(* cancellations and crashes, an edge is continued once, with a recorded   *)
(* result of its child, and never after it has failed; no reply of a chain *)
(* child leaves the chain; and the caller of a message has one answer, if  *)
(* no job of the message was cancelled.                                    *)
(*                                                                         *)
(* The invariant has two halves.  Durable is what the stores say between   *)
(* any two writes, so what a restart finds.  WorkOK is what the handler    *)
(* that holds the lock has made sure of at its next step: above all that   *)
(* no continuation is in the store when it is about to write one.          *)
(*                                                                         *)
(* The one answer needs a second layer, AnswerInv: who may still answer a  *)
(* message.  It comes after the theorems of the first.                     *)
(***************************************************************************)
EXTENDS Callbacks, OperatorLemmas

\* A continuation of edge e, or a retry of one, is in the job store.
HasContinuation(e) == \E j \in DOMAIN jobs : jobs[j].chain_edge = e

Types ==
    /\ jobs \in Seq(Job) /\ edges \in Seq(Edge) /\ replies \in Seq(Reply)
    /\ messages \in Nat

JobsOK ==
    \A j \in DOMAIN jobs :
        /\ jobs[j].chain_edge <= Len(edges)
        /\ jobs[j].message <= messages
        /\ jobs[j].event \/ jobs[j].status \in {"queued", "cancelled"}

\* Reply r is a result of the child of edge e.
ResultOf(r, e) ==
    r \in DOMAIN replies /\ replies[r].message = edges[e].child_message

EdgesOK ==
    \A e \in DOMAIN edges :
        /\ edges[e].parent_job \in DOMAIN jobs /\ edges[e].child_job \in DOMAIN jobs
        /\ edges[e].child_message \in 1 .. messages /\ edges[e].parent_message <= messages
        /\ jobs[edges[e].child_job].message = edges[e].child_message
        /\ edges[e].child_reply # 0 => ResultOf(edges[e].child_reply, e)
        /\ HasContinuation(e) => edges[e].child_reply # 0
        /\ edges[e].continuation_job # 0 =>
            /\ edges[e].continuation_job \in DOMAIN jobs
            /\ \/ jobs[edges[e].continuation_job].event
               \/ jobs[edges[e].continuation_job].status = "cancelled"

RepliesOK ==
    /\ \A r \in DOMAIN replies : replies[r].message <= messages
    /\ ChildReplyStaysInside

OneEach ==
    \A j, k \in DOMAIN jobs :
        jobs[j].chain_edge # 0 /\ jobs[j].chain_edge = jobs[k].chain_edge
            /\ ~jobs[j].retried /\ ~jobs[k].retried => j = k

Durable == Types /\ JobsOK /\ EdgesOK /\ RepliesOK /\ OneEach

\* The handler records a new job, and goes on to label then.
Recording(then) == (At("attempt") \/ At("event") \/ At(then)) /\ work.then = then

\* The handler is at the end of work.job.
Ending == At("result") \/ At("retry") \/ At("cancel_edge") \/ At("reply") \/ At("done")

WorkOK ==
    /\ work \in Work
    /\ work.then \in {"idle", "register", "cont_edge"} /\ work.after \in {"idle", "done"}
    /\ work.message <= messages
    /\ Ending \/ work.after = "done" \/ work.then = "register" =>
        work.job \in DOMAIN jobs
    /\ At("attempt") \/ At("event") \/ At("register") \/ At("cont_edge")
            => work.new \in DOMAIN jobs
    /\ At("register") => work.then = "register"
    /\ At("cont_edge") => work.then = "cont_edge"
    /\ Recording("register") =>
        /\ work.message # 0
        /\ jobs[work.new].message = IF At("attempt") THEN 0 ELSE work.message
        /\ \A r \in DOMAIN replies : replies[r].message # work.message
    /\ At("continue") \/ At("cont_job") \/ At("notice") \/ Recording("cont_edge") =>
        /\ work.edge \in DOMAIN edges
        /\ work.reply # 0 => ResultOf(work.reply, work.edge)
    /\ At("continue") => work.reply # 0 \/ HasContinuation(work.edge)
    /\ At("cont_job") => /\ ~HasContinuation(work.edge)
                         /\ edges[work.edge].state = "child_completed"
                         /\ edges[work.edge].child_reply # 0
    /\ Recording("cont_edge") => jobs[work.new].chain_edge = work.edge
    /\ At("cont_edge") => jobs[work.new].event \/ jobs[work.new].status = "cancelled"
    /\ At("prior") => work.edge \in DOMAIN edges

Inv == Durable /\ WorkOK
-----------------------------------------------------------------------------
(* The fields of the records in the stores.                                *)
LEMMA Fields ==
    ASSUME Types
    PROVE  /\ \A j \in DOMAIN jobs :
                /\ j \in Nat \ {0} /\ jobs[j] \in Job /\ jobs[j].message \in Nat
                /\ jobs[j].retry_index \in Nat /\ jobs[j].chain_edge \in Nat
                /\ jobs[j].agent \in Agents /\ jobs[j].from_actor \in Agents \cup {User}
                /\ jobs[j].event \in BOOLEAN /\ jobs[j].retried \in BOOLEAN
           /\ \A e \in DOMAIN edges :
                /\ e \in Nat \ {0} /\ edges[e] \in Edge
                /\ edges[e].original_caller \in Agents \cup {User}
                /\ edges[e].parent_message \in Nat /\ edges[e].child_reply \in Nat
                /\ edges[e].continuation_job \in Nat
           /\ \A r \in DOMAIN replies :
                /\ r \in Nat \ {0} /\ replies[r] \in Reply /\ replies[r].message \in Nat
  <1>1. ASSUME NEW r \in Job
        PROVE  /\ r.message \in Nat /\ r.retry_index \in Nat /\ r.chain_edge \in Nat
               /\ r.agent \in Agents /\ r.from_actor \in Agents \cup {User}
               /\ r.event \in BOOLEAN /\ r.retried \in BOOLEAN
    BY <1>1 DEF Job
  <1>2. ASSUME NEW r \in Edge
        PROVE  /\ r.original_caller \in Agents \cup {User}
               /\ r.parent_message \in Nat /\ r.child_reply \in Nat
               /\ r.continuation_job \in Nat
    BY <1>2 DEF Edge
  <1>3. ASSUME NEW r \in Reply
        PROVE  r.message \in Nat
    BY <1>3 DEF Reply
  <1>4. /\ \A j \in DOMAIN jobs : j \in Nat \ {0} /\ jobs[j] \in Job
        /\ \A e \in DOMAIN edges : e \in Nat \ {0} /\ edges[e] \in Edge
        /\ \A r \in DOMAIN replies : r \in Nat \ {0} /\ replies[r] \in Reply
    BY DEF Types
  <1> QED BY <1>1, <1>2, <1>3, <1>4
-----------------------------------------------------------------------------
(* What the searches in the stores return.                                 *)

(* First returns an element of the set, and 0 only if it is empty.         *)
LEMMA FirstOf ==
    ASSUME NEW S \in SUBSET (Nat \ {0})
    PROVE  (First(S) = 0 <=> S = {}) /\ (S # {} => First(S) \in S)
  BY MinNat DEF First

(* _existing_continuation_job returns a continuation of the edge, and      *)
(* nothing only if there is none.                                          *)
LEMMA ExistingContinuation ==
    ASSUME Types, NEW e
    PROVE  /\ existing_continuation(e) # 0 <=> HasContinuation(e)
           /\ existing_continuation(e) # 0 =>
                /\ existing_continuation(e) \in DOMAIN jobs
                /\ jobs[existing_continuation(e)].chain_edge = e
  <1> DEFINE J == {j \in DOMAIN jobs : jobs[j].chain_edge = e}
  <1>1. J \in SUBSET Nat /\ IsFiniteSet(J) /\ \A j \in J : j # 0
    BY IndicesFinite DEF Types
  <1>2. J # {} => Max(J) \in J
    BY <1>1, MaxNat
  <1>3. existing_continuation(e) = IF J = {} THEN 0 ELSE Max(J)
    BY DEF existing_continuation
  <1> HIDE DEF J
  <1>4. (existing_continuation(e) # 0 <=> J # {})
        /\ (J # {} => existing_continuation(e) \in J)
    BY <1>1, <1>2, <1>3
  <1> QED BY <1>4 DEF J, HasContinuation

(* _latest_child_reply returns a result of the child.                      *)
LEMMA LatestChildReply ==
    ASSUME Durable, NEW e \in DOMAIN edges, latest_child_reply(e) # 0
    PROVE  ResultOf(latest_child_reply(e), e)
  <1> DEFINE R == {r \in DOMAIN replies :
                    replies[r].message = edges[e].child_message /\ ~replies[r].notice}
  <1>1. R \in SUBSET Nat /\ IsFiniteSet(R)
    BY IndicesFinite DEF Durable, Types
  <1>2. R # {} => Max(R) \in R
    BY <1>1, MaxNat
  <1>3. latest_child_reply(e) = IF edges[e].child_reply # 0 THEN edges[e].child_reply
                                ELSE IF R = {} THEN 0 ELSE Max(R)
    BY DEF latest_child_reply
  <1>4. CASE edges[e].child_reply # 0
    BY <1>3, <1>4 DEF Durable, EdgesOK
  <1>5. CASE edges[e].child_reply = 0
    <2>1. latest_child_reply(e) \in R
      BY <1>2, <1>3, <1>5
    <2> QED BY <2>1 DEF ResultOf
  <1> QED BY <1>4, <1>5

(* The edge into a job: its child is the job or has the job's message; and *)
(* if there is none, no edge waits for the job's message.                  *)
LEMMA ChildEdge ==
    ASSUME Durable, NEW j \in DOMAIN jobs
    PROVE  LET e == callback_child_edge(j)
           IN /\ e # 0 => /\ e \in DOMAIN edges
                          /\ jobs[j].message = edges[e].child_message
              /\ e = 0 => \A f \in DOMAIN edges : jobs[j].message # edges[f].child_message
  <1> DEFINE m == jobs[j].message
             S == {e \in DOMAIN edges : edges[e].child_job = j}
             T == {e \in DOMAIN edges : m # 0 /\ edges[e].child_message = m}
  <1>1. S \in SUBSET (Nat \ {0}) /\ T \in SUBSET (Nat \ {0})
    BY DEF Durable, Types
  <1>2. /\ (First(S) = 0 <=> S = {}) /\ (S # {} => First(S) \in S)
        /\ (First(T) = 0 <=> T = {}) /\ (T # {} => First(T) \in T)
    BY <1>1, FirstOf
  <1>3. callback_child_edge(j) = IF First(S) # 0 THEN First(S) ELSE First(T)
    BY DEF callback_child_edge, callback_edge_for_child_message
  <1>4. \A e \in S : edges[e].child_message = m
    BY DEF Durable, EdgesOK
  <1>5. \A e \in DOMAIN edges : edges[e].child_message # 0
    BY DEF Durable, EdgesOK
  <1> QED BY <1>2, <1>3, <1>4, <1>5

(* delegated_parent_edge returns an edge.                                  *)
LEMMA EdgeOut ==
    ASSUME Types, NEW j
    PROVE  delegated_parent_edge(j) # 0 => delegated_parent_edge(j) \in DOMAIN edges
  <1> DEFINE S == {e \in DOMAIN edges : edges[e].parent_job = j}
  <1>1. S \in SUBSET (Nat \ {0})
    BY DEF Types
  <1> QED BY <1>1, FirstOf DEF delegated_parent_edge

(* active_job returns a job.                                               *)
LEMMA ActiveJob ==
    ASSUME Types, NEW a, active_job(a) # 0
    PROVE  active_job(a) \in DOMAIN jobs
  <1> DEFINE S == {j \in DOMAIN jobs : jobs[j].agent = a /\ jobs[j].status = "running"}
  <1>1. S \in SUBSET (Nat \ {0})
    BY DEF Types
  <1> QED BY <1>1, FirstOf DEF active_job

(* next_retry_index returns a number.                                      *)
LEMMA RetryIndex ==
    ASSUME Types, NEW m
    PROVE  next_retry_index(m) \in Nat
  <1> DEFINE J == {j \in DOMAIN jobs : jobs[j].message = m}
             R == {jobs[j].retry_index : j \in J}
             f == [j \in J |-> jobs[j].retry_index]
  <1>1. IsFiniteSet(J)
    BY IndicesFinite DEF Types
  <1>2. IsFiniteSet(R)
    <2>1. f \in Surjection(J, R)
      BY DEF Surjection
    <2> QED BY <1>1, <2>1, FS_Surjection
  <1>3. R \in SUBSET Nat
    BY Fields
  <1>4. R # {} => Max(R) \in Nat
    BY <1>2, <1>3, MaxNat
  <1>5. next_retry_index(m) = IF R = {} THEN 0 ELSE Max(R) + 1
    BY DEF next_retry_index
  <1> HIDE DEF R
  <1> QED BY <1>4, <1>5
-----------------------------------------------------------------------------
(* What one write does to the stores.                                      *)

(* A new job: it continues nothing, retries a continuation, or is the      *)
(* first continuation of an edge whose child has a result.                 *)
LEMMA JobAppended ==
    ASSUME Durable, NEW a \in Agents, NEW from \in Agents \cup {User},
           NEW c \in Nat, NEW retried \in BOOLEAN,
           \/ c = 0
           \/ c <= Len(edges) /\ HasContinuation(c) /\ retried
           \/ c \in DOMAIN edges /\ ~HasContinuation(c) /\ edges[c].child_reply # 0,
           jobs' = Append(jobs, NewJob(a, from, c, retried)),
           messages' \in Nat, messages' >= messages, UNCHANGED <<edges, replies>>
    PROVE  Durable'
  <1> PICK r \in Job : r = NewJob(a, from, c, retried)
    BY DEF NewJob, Job
  <1>0. /\ r.chain_edge = c /\ r.retried = retried /\ r.message = 0
        /\ r.status = "queued" /\ ~r.event
    BY DEF NewJob
  <1>n. PICK n \in Nat \ {0} : n = Len(jobs) + 1
    BY DEF Durable, Types
  <1>1. /\ jobs' \in Seq(Job) /\ DOMAIN jobs' = DOMAIN jobs \cup {n}
        /\ n \notin DOMAIN jobs /\ jobs'[n] = r
        /\ \A j \in DOMAIN jobs : jobs'[j] = jobs[j]
    BY <1>n DEF Durable, Types
  <1>2. Types'
    BY <1>1 DEF Durable, Types
  <1>3. JobsOK'
    <2>1. c <= Len(edges)
      BY DEF Durable, Types
    <2>2. \A j \in DOMAIN jobs : jobs[j].message \in Nat
      BY Fields DEF Durable
    <2>3. \A j \in DOMAIN jobs : jobs[j].message <= messages'
      BY <2>2 DEF Durable, Types, JobsOK
    <2> QED BY <1>0, <1>1, <2>1, <2>3 DEF Durable, JobsOK, Types
  <1>4. \A e \in DOMAIN edges : HasContinuation(e)' => HasContinuation(e) \/ e = c
    BY <1>0, <1>1 DEF HasContinuation
  <1>5. EdgesOK'
    <2>1. \A e \in DOMAIN edges : HasContinuation(e)' => edges[e].child_reply # 0
      BY <1>4 DEF Durable, EdgesOK, Types
    <2>2. \A e \in DOMAIN edges : /\ edges[e].child_message \in 1 .. messages'
                                  /\ edges[e].parent_message <= messages'
      BY Fields, SMTT(20) DEF Durable, EdgesOK, Types
    <2> QED BY <1>1, <2>1, <2>2 DEF Durable, EdgesOK, ResultOf
  <1>6. RepliesOK'
    <2>1. \A k \in DOMAIN replies : replies[k].message \in Nat
      BY Fields DEF Durable
    <2>2. \A k \in DOMAIN replies : replies[k].message <= messages'
      BY <2>1 DEF Durable, Types, RepliesOK
    <2> QED BY <2>2 DEF Durable, RepliesOK, ChildReplyStaysInside
  <1>7. OneEach'
    <2>1. ASSUME NEW j \in DOMAIN jobs, c # 0, jobs[j].chain_edge = c
          PROVE  retried
      BY <2>1 DEF HasContinuation
    <2> QED BY <1>0, <1>1, <2>1 DEF Durable, OneEach
  <1> QED BY <1>2, <1>3, <1>5, <1>6, <1>7 DEF Durable

(* A job gets its attempt, its event or a new status.                      *)
LEMMA JobRewritten ==
    ASSUME Durable, NEW j \in DOMAIN jobs, NEW r \in Job,
           r.chain_edge = jobs[j].chain_edge, r.retried = jobs[j].retried,
           r.message = jobs[j].message \/ jobs[j].message = 0,
           r.message <= messages,
           r.event \/ r.status \in {"queued", "cancelled"},
           jobs[j].event => r.event,
           jobs[j].status = "cancelled" => r.status = "cancelled",
           jobs' = [jobs EXCEPT ![j] = r], UNCHANGED <<edges, replies, messages>>
    PROVE  /\ Durable'
           /\ \A e : HasContinuation(e)' <=> HasContinuation(e)
  <1>1. /\ jobs' \in Seq(Job) /\ DOMAIN jobs' = DOMAIN jobs /\ jobs'[j] = r
        /\ \A k \in DOMAIN jobs : k # j => jobs'[k] = jobs[k]
    BY DEF Durable, Types
  <1>2. \A k \in DOMAIN jobs : /\ jobs'[k].chain_edge = jobs[k].chain_edge
                               /\ jobs'[k].retried = jobs[k].retried
                               /\ jobs[k].message # 0 => jobs'[k].message = jobs[k].message
                               /\ jobs[k].event => jobs'[k].event
                               /\ jobs[k].status = "cancelled" => jobs'[k].status = "cancelled"
    BY <1>1
  <1>3. \A e : HasContinuation(e)' <=> HasContinuation(e)
    BY <1>1, <1>2 DEF HasContinuation
  <1>4. Types'
    BY <1>1 DEF Durable, Types
  <1>5. JobsOK'
    BY <1>1 DEF Durable, JobsOK
  <1>6. EdgesOK'
    BY <1>1, <1>2, <1>3 DEF Durable, EdgesOK, ResultOf
  <1>7. RepliesOK'
    BY DEF Durable, RepliesOK, ChildReplyStaysInside
  <1>8. OneEach'
    BY <1>1, <1>2 DEF Durable, OneEach
  <1> QED BY <1>3, <1>4, <1>5, <1>6, <1>7, <1>8 DEF Durable

(* An edge changes its state, or names a reply or its continuation.        *)
LEMMA EdgeRewritten ==
    ASSUME Durable, NEW e \in DOMAIN edges, NEW r \in Edge,
           r.parent_job = edges[e].parent_job, r.child_job = edges[e].child_job,
           r.child_message = edges[e].child_message,
           r.parent_message = edges[e].parent_message,
           r.child_reply # 0 => ResultOf(r.child_reply, e),
           edges[e].child_reply # 0 => r.child_reply # 0,
           r.continuation_job # 0 =>
               /\ r.continuation_job \in DOMAIN jobs
               /\ \/ jobs[r.continuation_job].event
                  \/ jobs[r.continuation_job].status = "cancelled",
           edges' = [edges EXCEPT ![e] = r], UNCHANGED <<jobs, replies, messages>>
    PROVE  Durable'
  <1>1. /\ edges' \in Seq(Edge) /\ DOMAIN edges' = DOMAIN edges /\ edges'[e] = r
        /\ \A f \in DOMAIN edges : f # e => edges'[f] = edges[f]
        /\ Len(edges') = Len(edges)
    BY DEF Durable, Types
  <1>2. \A f \in DOMAIN edges : edges'[f].child_message = edges[f].child_message
    BY <1>1
  <1>3. \A f : HasContinuation(f)' <=> HasContinuation(f)
    BY DEF HasContinuation
  <1>4. Types' /\ JobsOK' /\ OneEach'
    BY <1>1 DEF Durable, Types, JobsOK, OneEach
  <1>5. EdgesOK'
    BY <1>1, <1>3 DEF Durable, EdgesOK, ResultOf
  <1>6. RepliesOK'
    BY <1>1, <1>2 DEF Durable, RepliesOK, ChildReplyStaysInside
  <1> QED BY <1>4, <1>5, <1>6 DEF Durable

(* A reply: if it is delivered and no notice, no edge waits for it.        *)
LEMMA ReplyAppended ==
    ASSUME Durable, NEW r \in Reply, r.message <= messages,
           r.delivered /\ ~r.notice =>
               \A e \in DOMAIN edges : edges[e].child_message # r.message,
           replies' = Append(replies, r), UNCHANGED <<jobs, edges, messages>>
    PROVE  Durable'
  <1>n. PICK n \in Nat \ {0} : n = Len(replies) + 1
    BY DEF Durable, Types
  <1>1. /\ replies' \in Seq(Reply) /\ DOMAIN replies' = DOMAIN replies \cup {n}
        /\ n \notin DOMAIN replies /\ replies'[n] = r
        /\ \A k \in DOMAIN replies : replies'[k] = replies[k]
    BY <1>n DEF Durable, Types
  <1>2. \A f : HasContinuation(f)' <=> HasContinuation(f)
    BY DEF HasContinuation
  <1>3. Types' /\ JobsOK' /\ OneEach'
    BY <1>1 DEF Durable, Types, JobsOK, OneEach
  <1>4. EdgesOK'
    BY <1>1, <1>2 DEF Durable, EdgesOK, ResultOf
  <1>5. RepliesOK'
    BY <1>1 DEF Durable, RepliesOK, ChildReplyStaysInside
  <1> QED BY <1>3, <1>4, <1>5 DEF Durable

(* A new edge: its child has the message, and no reply to it is delivered. *)
LEMMA EdgeAppended ==
    ASSUME Durable, NEW r \in Edge, r.parent_job \in DOMAIN jobs,
           r.child_job \in DOMAIN jobs, r.child_message \in 1 .. messages,
           r.parent_message <= messages, jobs[r.child_job].message = r.child_message,
           r.child_reply = 0, r.continuation_job = 0,
           \A k \in DOMAIN replies : replies[k].message # r.child_message,
           edges' = Append(edges, r), UNCHANGED <<jobs, replies, messages>>
    PROVE  Durable'
  <1>n. PICK n \in Nat \ {0} : n = Len(edges) + 1
    BY DEF Durable, Types
  <1>1. /\ edges' \in Seq(Edge) /\ DOMAIN edges' = DOMAIN edges \cup {n}
        /\ n \notin DOMAIN edges /\ edges'[n] = r /\ Len(edges') = n
        /\ \A e \in DOMAIN edges : edges'[e] = edges[e]
    BY <1>n DEF Durable, Types
  <1>2. Types' /\ OneEach'
    BY <1>1 DEF Durable, Types, OneEach
  <1>3. \A j \in DOMAIN jobs : jobs[j].chain_edge < n
    BY <1>n, Fields DEF Durable, JobsOK, Types
  <1>4. JobsOK'
    BY <1>1, <1>3, Fields DEF Durable, JobsOK
  <1>5. ~HasContinuation(n)' /\ \A e \in DOMAIN edges : HasContinuation(e)' <=> HasContinuation(e)
    BY <1>3, Fields DEF HasContinuation, Durable
  <1>6. EdgesOK'
    BY <1>1, <1>5 DEF Durable, EdgesOK, ResultOf
  <1>7. RepliesOK'
    BY <1>1 DEF Durable, RepliesOK, ChildReplyStaysInside
  <1> QED BY <1>2, <1>4, <1>6, <1>7 DEF Durable

(* What holds of the stores holds until one of them is written.            *)
LEMMA Unwritten ==
    ASSUME Durable, UNCHANGED durable
    PROVE  Durable'
  BY DEF durable, Durable, Types, JobsOK, EdgesOK, RepliesOK, OneEach,
         HasContinuation, ResultOf, ChildReplyStaysInside
-----------------------------------------------------------------------------
(* The handler: nobody holds the lock, or it goes on.                      *)

(* The fields of an idle handler.                                          *)
LEMMA IdleWork ==
    /\ Idle \in Work /\ Idle.pc = "idle" /\ Idle.then = "idle" /\ Idle.after = "idle"
    /\ Idle.job = 0 /\ Idle.message = 0 /\ Idle.reply = 0
  BY DEF Idle, Work, Labels

(* An idle handler has nothing to make sure of.                            *)
LEMMA IdleOK ==
    ASSUME Types', work' = Idle
    PROVE  WorkOK'
  <1>1. Idle \in Work
    BY IdleWork
  <1>2. messages' \in Nat
    BY DEF Types
  <1> QED BY <1>1, <1>2 DEF WorkOK, At, Recording, Ending, Idle

(* The end of the handler's part: the lock is released, or the end of the  *)
(* job is noted.                                                           *)
LEMMA AfterOK ==
    ASSUME Inv, Durable', messages' = messages, Goto(work.after),
           DOMAIN jobs \subseteq DOMAIN jobs'
    PROVE  WorkOK'
  <1>1. CASE work.after = "idle"
    BY <1>1, IdleOK DEF Goto, Durable
  <1>2. CASE work.after = "done"
    <2>1. /\ work' \in Work /\ work'.pc = "done" /\ work'.then = work.then
          /\ work'.after = "done" /\ work'.job = work.job /\ work'.message = work.message
      BY <1>2 DEF Goto, Inv, WorkOK, Work, Labels
    <2>2. work.job \in DOMAIN jobs
      BY <1>2 DEF Inv, WorkOK
    <2> QED BY <2>1, <2>2 DEF Inv, WorkOK, At, Recording, Ending
  <1> QED BY <1>1, <1>2 DEF Inv, WorkOK

(* An ordinary submission.                                                 *)
LEMMA SubmitOK ==
    ASSUME Inv, NEW a \in Entry, Submit(a)
    PROVE  Inv'
  <1>0. Types
    BY DEF Inv, Durable
  <1>n. PICK n \in Nat, m \in Nat : n = Len(jobs) + 1 /\ m = messages + 1
    BY <1>0 DEF Types
  <1>1. /\ jobs' = Append(jobs, NewJob(a, User, 0, FALSE)) /\ messages' = m
        /\ UNCHANGED <<edges, replies>> /\ a \in Agents
    BY <1>n, CallbacksAssumption DEF Submit
  <1>2. Durable'
    <2>1. messages' \in Nat /\ messages' >= messages
      BY <1>0, <1>1, <1>n DEF Types
    <2> QED BY <1>1, <2>1, JobAppended DEF Inv
  <1>3. n \in DOMAIN jobs'
    BY <1>0, <1>1, <1>n DEF Types
  <1>4. work' = [Idle EXCEPT !.pc = "attempt", !.new = n, !.message = m]
    BY <1>n DEF Submit
  <1>5. /\ work'.pc = "attempt" /\ work'.new = n /\ work'.then = "idle"
        /\ work'.after = "idle" /\ work'.message = m /\ work' \in Work
    BY <1>4, IdleWork DEF Work, Labels
  <1>6. WorkOK'
    BY <1>1, <1>3, <1>5 DEF WorkOK, At, Recording, Ending
  <1> QED BY <1>2, <1>6 DEF Inv

(* ask --chain: the message is new, so nothing has replied to it.          *)
LEMMA SubmitChainOK ==
    ASSUME Inv, NEW a \in Agents, NEW b \in Agents, SubmitChain(a, b)
    PROVE  Inv'
  <1>0. Types
    BY DEF Inv, Durable
  <1>n. PICK n \in Nat, m \in Nat : n = Len(jobs) + 1 /\ m = messages + 1
    BY <1>0 DEF Types
  <1>p. PICK p \in DOMAIN jobs : p = active_job(a)
    BY <1>0, ActiveJob DEF SubmitChain, validate_callback_request
  <1>1. /\ jobs' = Append(jobs, NewJob(b, a, 0, FALSE)) /\ messages' = m
        /\ UNCHANGED <<edges, replies>>
    BY <1>n DEF SubmitChain
  <1>2. Durable'
    <2>1. messages' \in Nat /\ messages' >= messages
      BY <1>0, <1>1, <1>n DEF Types
    <2> QED BY <1>1, <2>1, JobAppended DEF Inv
  <1>3. /\ n \in DOMAIN jobs' /\ jobs'[n].message = 0
        /\ DOMAIN jobs \subseteq DOMAIN jobs' /\ p \in Nat
    BY <1>0, <1>1, <1>n DEF Types, NewJob
  <1>4. work' = [Idle EXCEPT !.pc = "attempt", !.job = p, !.new = n, !.message = m,
                             !.then = "register"]
    BY <1>n, <1>p DEF SubmitChain
  <1>5. /\ work'.pc = "attempt" /\ work'.new = n /\ work'.then = "register"
        /\ work'.after = "idle" /\ work'.message = m /\ work' \in Work
        /\ work'.job = p
    BY <1>3, <1>4, IdleWork DEF Work, Labels
  <1>6. m # 0 /\ \A r \in DOMAIN replies : replies[r].message # m
    BY <1>0, <1>n, Fields DEF Inv, Durable, RepliesOK, Types
  <1>7. WorkOK'
    <2>1. work'.message <= messages' /\ work'.job \in DOMAIN jobs'
      BY <1>1, <1>3, <1>5
    <2>2. \A r \in DOMAIN replies' : replies'[r].message # work'.message
      BY <1>1, <1>5, <1>6
    <2> QED BY <1>3, <1>5, <1>6, <2>1, <2>2 DEF WorkOK, At, Recording, Ending
  <1> QED BY <1>2, <1>7 DEF Inv

(* A job whose event is written is a job.                                  *)
LEMMA EventRecord ==
    ASSUME NEW j \in Job, NEW r, r = [j EXCEPT !.event = TRUE]
    PROVE  /\ r \in Job /\ r.chain_edge = j.chain_edge /\ r.retried = j.retried
           /\ r.event /\ r.status = j.status /\ r.message = j.message
  BY DEF Job

(* The attempt of the new job, kept if it is there already.                *)
LEMMA RecordAttemptOK ==
    ASSUME Inv, RecordAttempt
    PROVE  Inv'
  <1> DEFINE n == work.new
             m == jobs[n].message
             r == IF m # 0 THEN jobs[n]
                  ELSE [jobs[n] EXCEPT !.message = work.message,
                                       !.retry_index = next_retry_index(work.message)]
  <1>0. Types /\ n \in DOMAIN jobs /\ work \in Work /\ work.message \in Nat
        /\ work.message <= messages
    BY DEF Inv, Durable, RecordAttempt, WorkOK, Work
  <1>1. /\ r \in Job /\ r.chain_edge = jobs[n].chain_edge /\ r.retried = jobs[n].retried
        /\ r.event = jobs[n].event /\ r.status = jobs[n].status
        /\ r.message = IF m # 0 THEN m ELSE work.message
    <2>1. PICK j \in Job, i \in Nat : j = jobs[n] /\ i = next_retry_index(work.message)
      BY <1>0, Fields, RetryIndex, Zenon
    <2>2. CASE m # 0
      BY <2>1, <2>2, Zenon
    <2>3. CASE m = 0
      <3>0. PICK w \in Nat : w = work.message
        BY <1>0
      <3>1. PICK x : x = r
        OBVIOUS
      <3>2. x = [j EXCEPT !.message = w, !.retry_index = i]
        BY <2>1, <2>3, <3>0, <3>1, Zenon
      <3>3. /\ x \in Job /\ x.chain_edge = j.chain_edge /\ x.retried = j.retried
            /\ x.event = j.event /\ x.status = j.status /\ x.message = w
        BY ONLY <3>0, <3>2, j \in Job, i \in Nat DEF Job
      <3> QED BY <2>1, <2>3, <3>0, <3>1, <3>3, Zenon
    <2> QED BY <2>2, <2>3, Zenon
  <1>2. jobs' = [jobs EXCEPT ![n] = r] /\ UNCHANGED <<edges, replies, messages>>
    <2>1. CASE m # 0
      BY <1>0, <2>1 DEF RecordAttempt, Types
    <2>2. CASE m = 0
      <3>1. jobs' = [jobs EXCEPT ![n].message = work.message,
                                 ![n].retry_index = next_retry_index(work.message)]
        BY <2>2 DEF RecordAttempt
      <3> QED BY <1>0, <2>2, <3>1 DEF RecordAttempt, Types
    <2> QED BY <2>1, <2>2
  <1> HIDE DEF r
  <1>3. m <= messages /\ (jobs[n].event \/ jobs[n].status \in {"queued", "cancelled"})
    BY <1>0 DEF Inv, Durable, JobsOK
  <1>4. Durable' /\ \A e : HasContinuation(e)' <=> HasContinuation(e)
    BY <1>0, <1>1, <1>2, <1>3, JobRewritten DEF Inv
  <1>5. DOMAIN jobs' = DOMAIN jobs /\ jobs'[n] = r
    BY <1>0, <1>2 DEF Types
  <1>6. work' = [work EXCEPT !.pc = "event"] /\ At("attempt")
    BY DEF RecordAttempt, Goto
  <1>7. /\ work' \in Work /\ work'.pc = "event" /\ work'.new = n /\ work'.edge = work.edge
        /\ work'.then = work.then /\ work'.after = work.after /\ work'.reply = work.reply
        /\ work'.message = work.message /\ work'.job = work.job
    BY <1>0, <1>6 DEF Work, Labels
  <1>8. WorkOK'
    BY <1>0, <1>1, <1>2, <1>4, <1>5, <1>6, <1>7
    DEF Inv, WorkOK, At, Recording, Ending, ResultOf
  <1> QED BY <1>4, <1>8 DEF Inv

(* The event of the new job: from now on it can be linked.                 *)
LEMMA RecordEventOK ==
    ASSUME Inv, RecordEvent
    PROVE  Inv'
  <1> DEFINE n == work.new
             r == [jobs[n] EXCEPT !.event = TRUE]
  <1>0. Types /\ n \in DOMAIN jobs /\ work \in Work /\ At("event")
    BY DEF Inv, Durable, RecordEvent, WorkOK, At
  <1>1. /\ r \in Job /\ r.chain_edge = jobs[n].chain_edge /\ r.retried = jobs[n].retried
        /\ r.event /\ r.status = jobs[n].status /\ r.message = jobs[n].message
    <2>1. PICK j \in Job : j = jobs[n]
      BY <1>0, Fields, Zenon
    <2> QED BY <2>1, EventRecord, Zenon
  <1>2. jobs' = [jobs EXCEPT ![n] = r] /\ UNCHANGED <<edges, replies, messages>>
    BY <1>0 DEF RecordEvent, Types
  <1> HIDE DEF r
  <1>3. r.message <= messages
    BY <1>0, <1>1 DEF Inv, Durable, JobsOK
  <1>4. Durable' /\ \A e : HasContinuation(e)' <=> HasContinuation(e)
    BY <1>0, <1>1, <1>2, <1>3, JobRewritten DEF Inv
  <1>5. DOMAIN jobs' = DOMAIN jobs /\ jobs'[n] = r
    BY <1>0, <1>2 DEF Types
  <1>6. WorkOK'
    <2>1. CASE work.then = "idle"
      BY <1>4, <2>1, IdleOK DEF RecordEvent, Goto, Durable
    <2>2. CASE work.then # "idle"
      <3>1. work' = [work EXCEPT !.pc = work.then] /\ work.then \in {"register", "cont_edge"}
        BY <2>2 DEF RecordEvent, Goto, Inv, WorkOK
      <3>2. /\ work' \in Work /\ work'.pc = work.then /\ work'.new = n
            /\ work'.then = work.then /\ work'.after = work.after /\ work'.reply = work.reply
            /\ work'.message = work.message /\ work'.job = work.job /\ work'.edge = work.edge
        BY <1>0, <3>1 DEF Work, Labels
      <3> QED BY <1>0, <1>1, <1>2, <1>4, <1>5, <3>1, <3>2
              DEF Inv, WorkOK, At, Recording, Ending, ResultOf
    <2> QED BY <2>1, <2>2
  <1> QED BY <1>4, <1>6 DEF Inv

(* The edge of a chain, after the child was recorded.                      *)
LEMMA RegisterEdgeOK ==
    ASSUME Inv, RegisterEdge
    PROVE  Inv'
  <1> DEFINE p == jobs[work.job]
             r == [parent_job |-> work.job, parent_message |-> p.message,
                   child_job |-> work.new, child_message |-> work.message,
                   original_caller |-> p.from_actor, state |-> "pending",
                   child_reply |-> 0, continuation_job |-> 0]
  <1>0. /\ Types /\ work.new \in DOMAIN jobs /\ work.job \in DOMAIN jobs
        /\ work.message # 0 /\ work.message \in Nat /\ work.message <= messages
        /\ jobs[work.new].message = work.message /\ messages \in Nat
        /\ \A k \in DOMAIN replies : replies[k].message # work.message
    BY DEF Inv, Durable, RegisterEdge, WorkOK, At, Recording, Work, Types
  <1>1. r \in Edge
    BY <1>0, Fields DEF Edge, EdgeStates
  <1>2. edges' = Append(edges, r) /\ UNCHANGED <<jobs, replies, messages>> /\ work' = Idle
    BY DEF RegisterEdge, Goto
  <1>3. /\ r.parent_job = work.job /\ r.child_job = work.new /\ r.child_reply = 0
        /\ r.child_message = work.message /\ r.continuation_job = 0
        /\ r.parent_message <= messages
    BY <1>0 DEF Inv, Durable, JobsOK
  <1> HIDE DEF r
  <1>4. Durable'
    BY <1>0, <1>1, <1>2, <1>3, EdgeAppended DEF Inv
  <1> QED BY <1>2, <1>4, IdleOK DEF Inv, Durable

(* A job starts beside the handler: it is not the one being recorded.      *)
LEMMA StatusOK ==
    ASSUME Inv, NEW j \in DOMAIN jobs, NEW status \in {"running"} \cup Ended,
           jobs[j].status \in {"queued", "running"},
           jobs[j].event \/ status = "cancelled",
           jobs' = [jobs EXCEPT ![j].status = status],
           UNCHANGED <<edges, replies, messages>>
    PROVE  /\ Durable' /\ DOMAIN jobs' = DOMAIN jobs
           /\ \A e : HasContinuation(e)' <=> HasContinuation(e)
           /\ \A k \in DOMAIN jobs :
                /\ jobs'[k].message = jobs[k].message
                /\ jobs'[k].chain_edge = jobs[k].chain_edge
                /\ jobs[k].event \/ jobs[k].status = "cancelled" =>
                        jobs'[k].event \/ jobs'[k].status = "cancelled"
  <1> DEFINE r == [jobs[j] EXCEPT !.status = status]
  <1>0. Types
    BY DEF Inv, Durable
  <1>1. /\ r \in Job /\ r.chain_edge = jobs[j].chain_edge /\ r.retried = jobs[j].retried
        /\ r.event = jobs[j].event /\ r.status = status /\ r.message = jobs[j].message
    BY <1>0, Fields DEF Job
  <1>2. jobs' = [jobs EXCEPT ![j] = r]
    BY <1>0 DEF Types
  <1> HIDE DEF r
  <1>3. /\ r.message <= messages /\ (jobs[j].event => r.event)
        /\ r.event \/ r.status \in {"queued", "cancelled"}
    BY <1>0, <1>1 DEF Inv, Durable, JobsOK
  <1>4. Durable' /\ \A e : HasContinuation(e)' <=> HasContinuation(e)
    BY <1>1, <1>2, <1>3, JobRewritten DEF Inv
  <1>5. /\ DOMAIN jobs' = DOMAIN jobs /\ jobs'[j] = r
        /\ \A k \in DOMAIN jobs : k # j => jobs'[k] = jobs[k]
    BY <1>0, <1>2 DEF Types
  <1> QED BY <1>1, <1>4, <1>5

(* A job starts beside the handler and disturbs nothing it relies on.      *)
LEMMA StartOK ==
    ASSUME Inv, NEW j \in DOMAIN jobs, Start(j)
    PROVE  Inv'
  <1>1. /\ Durable' /\ DOMAIN jobs' = DOMAIN jobs
        /\ \A e : HasContinuation(e)' <=> HasContinuation(e)
        /\ \A k \in DOMAIN jobs :
             /\ jobs'[k].message = jobs[k].message
             /\ jobs'[k].chain_edge = jobs[k].chain_edge
             /\ jobs[k].event \/ jobs[k].status = "cancelled" =>
                     jobs'[k].event \/ jobs'[k].status = "cancelled"
    BY StatusOK DEF Start, owns_mailbox_head
  <1>2. UNCHANGED <<edges, replies, work, messages>>
    BY DEF Start
  <1>3. WorkOK'
    BY <1>1, <1>2 DEF Inv, WorkOK, At, Recording, Ending, ResultOf
  <1> QED BY <1>1, <1>3 DEF Inv

(* The end of a job: the handler takes the lock at label pc.               *)
LEMMA EndOK ==
    ASSUME Inv, NEW j \in DOMAIN jobs, NEW status \in Ended,
           jobs[j].status \in {"queued", "running"},
           jobs[j].event \/ status = "cancelled",
           jobs' = [jobs EXCEPT ![j].status = status],
           UNCHANGED <<edges, replies, messages>>,
           work' \in Work, work'.pc \in {"result", "cancel_edge"}, work'.job = j,
           work'.then = "idle", work'.after = "done", work'.message = 0
    PROVE  Inv'
  <1>1. Durable' /\ DOMAIN jobs' = DOMAIN jobs
    BY StatusOK
  <1>2. messages \in Nat
    BY DEF Inv, Durable, Types
  <1>3. WorkOK'
    BY <1>1, <1>2 DEF WorkOK, At, Recording, Ending
  <1> QED BY <1>1, <1>3 DEF Inv

(* complete_job, retryable or not, and cancel.                             *)
LEMMA EndsOK ==
    ASSUME Inv, NEW j \in DOMAIN jobs,
           \/ Complete(j) \/ CompleteRetryable(j)
           \/ \E notice \in BOOLEAN : Cancel(j, notice)
    PROVE  Inv'
  <1>0. /\ Types /\ j \in Nat
        /\ jobs[j].event \/ jobs[j].status \in {"queued", "cancelled"}
    BY Fields DEF Inv, Durable, JobsOK
  <1>1. ASSUME NEW status \in {"completed", "failed"}, NEW retryable \in BOOLEAN,
               jobs[j].status = "running" \/ owns_mailbox_head(j),
               EndJob(j, status, retryable)
        PROVE  Inv'
    <2>1. /\ jobs[j].status \in {"queued", "running"} /\ jobs[j].event
          /\ status \in Ended
      BY <1>0, <1>1 DEF owns_mailbox_head, Ended
    <2>2. work' = [Idle EXCEPT !.pc = "result", !.job = j, !.retryable = retryable,
                               !.after = "done"]
      BY <1>1 DEF EndJob
    <2>3. /\ work' \in Work /\ work'.pc = "result" /\ work'.job = j /\ work'.message = 0
          /\ work'.then = "idle" /\ work'.after = "done"
      BY <1>0, <2>2, IdleWork DEF Work, Labels
    <2>4. jobs' = [jobs EXCEPT ![j].status = status] /\ UNCHANGED <<edges, replies, messages>>
      BY <1>1 DEF EndJob
    <2> QED BY <2>1, <2>3, <2>4, EndOK
  <1>2. ASSUME NEW notice \in BOOLEAN, Cancel(j, notice)
        PROVE  Inv'
    <2>1. jobs[j].status \in {"queued", "running"} /\ "cancelled" \in Ended
      BY <1>2, Zenon DEF Cancel, job_is_outstanding, Ended
    <2>2. work' = [Idle EXCEPT !.pc = "cancel_edge", !.job = j, !.notice = notice,
                               !.after = "done"]
      BY <1>2, Zenon DEF Cancel
    <2>3. /\ work' \in Work /\ work'.pc = "cancel_edge" /\ work'.job = j
          /\ work'.message = 0 /\ work'.then = "idle" /\ work'.after = "done"
      BY <1>0, <2>2, IdleWork DEF Work, Labels
    <2>4. jobs' = [jobs EXCEPT ![j].status = "cancelled"] /\ UNCHANGED <<edges, replies, messages>>
      BY <1>2, Zenon DEF Cancel
    <2> QED BY <2>1, <2>3, <2>4, EndOK
  <1> QED BY <1>1, <1>2 DEF Complete, CompleteRetryable

(* The decision writes nothing.                                            *)
LEMMA ResultOK ==
    ASSUME Inv, Result
    PROVE  Inv'
  <1>1. Durable'
    BY Unwritten DEF Result, Inv
  <1>2. \E pc \in {"idle", "retry", "reply"} : Goto(pc)
    BY DEF Result
  <1>3. PICK pc \in {"idle", "retry", "reply"} : Goto(pc)
    BY <1>2
  <1>4. WorkOK'
    <2>1. CASE pc = "idle"
      BY <1>1, <1>3, <2>1, IdleOK DEF Goto, Durable
    <2>2. CASE pc # "idle"
      <3>1. /\ work' \in Work /\ work'.pc = pc /\ work'.then = work.then
            /\ work'.after = work.after /\ work'.job = work.job /\ work'.message = work.message
        BY <1>3, <2>2 DEF Goto, Inv, WorkOK, Work, Labels
      <3>2. At("result") /\ UNCHANGED <<jobs, edges, replies, messages>>
        BY DEF Result, durable
      <3> QED BY <2>2, <3>1, <3>2 DEF Inv, WorkOK, At, Recording, Ending
    <2> QED BY <2>1, <2>2
  <1> QED BY <1>1, <1>4 DEF Inv

(* A retry continues the edge that the retried job continued.              *)
LEMMA RetryJobOK ==
    ASSUME Inv, RetryJob
    PROVE  Inv'
  <1> DEFINE j == jobs[work.job]
  <1>0. /\ Types /\ work \in Work /\ work.job \in DOMAIN jobs /\ messages \in Nat
        /\ work.after \in {"idle", "done"}
    BY DEF Inv, Durable, RetryJob, WorkOK, Ending, At, Types
  <1>n. PICK n \in Nat : n = Len(jobs) + 1
    BY <1>0 DEF Types
  <1>m. PICK m \in Nat : m = j.message
    BY <1>0, Fields
  <1>1. /\ jobs' = Append(jobs, NewJob(j.agent, j.from_actor, j.chain_edge, TRUE))
        /\ UNCHANGED <<edges, replies, messages>>
    BY DEF RetryJob
  <1>2. /\ j.agent \in Agents /\ j.from_actor \in Agents \cup {User}
        /\ j.chain_edge \in Nat /\ j.chain_edge <= Len(edges)
        /\ HasContinuation(j.chain_edge) /\ m <= messages
    BY <1>0, <1>m, Fields DEF Inv, Durable, JobsOK, HasContinuation
  <1>3. Durable'
    <2>1. messages' \in Nat /\ messages' >= messages
      BY <1>0, <1>1
    <2> QED BY <1>1, <1>2, <2>1, JobAppended DEF Inv
  <1>4. n \in DOMAIN jobs' /\ DOMAIN jobs \subseteq DOMAIN jobs'
    BY <1>0, <1>1, <1>n DEF Types
  <1>5. work' = [work EXCEPT !.pc = "attempt", !.new = n, !.message = m, !.then = "idle"]
    BY <1>n, <1>m DEF RetryJob
  <1>6. /\ work'.pc = "attempt" /\ work'.new = n /\ work'.then = "idle"
        /\ work'.after = work.after /\ work'.message = m /\ work' \in Work
        /\ work'.job = work.job
    BY <1>0, <1>5 DEF Work, Labels
  <1>7. WorkOK'
    BY <1>0, <1>1, <1>2, <1>4, <1>6 DEF WorkOK, At, Recording, Ending
  <1> QED BY <1>3, <1>7 DEF Inv

(* An edge gets another state.                                             *)
LEMMA StateOK ==
    ASSUME Durable, NEW e \in DOMAIN edges, NEW st \in EdgeStates,
           edges' = [edges EXCEPT ![e].state = st], UNCHANGED <<jobs, replies, messages>>
    PROVE  /\ Durable' /\ DOMAIN edges' = DOMAIN edges
           /\ edges'[e].child_message = edges[e].child_message
  <1> DEFINE r == [edges[e] EXCEPT !.state = st]
  <1>0. Types
    BY DEF Durable
  <1>1. /\ r \in Edge /\ r.parent_job = edges[e].parent_job /\ r.child_job = edges[e].child_job
        /\ r.child_message = edges[e].child_message /\ r.child_reply = edges[e].child_reply
        /\ r.continuation_job = edges[e].continuation_job
        /\ r.parent_message = edges[e].parent_message
    BY <1>0, Fields DEF Edge
  <1>2. edges' = [edges EXCEPT ![e] = r] /\ DOMAIN edges' = DOMAIN edges
    BY <1>0 DEF Types
  <1>e. edges'[e] = r
    BY <1>0, <1>2 DEF Types
  <1> HIDE DEF r
  <1>3. /\ r.child_reply # 0 => ResultOf(r.child_reply, e)
        /\ r.continuation_job # 0 =>
               /\ r.continuation_job \in DOMAIN jobs
               /\ \/ jobs[r.continuation_job].event
                  \/ jobs[r.continuation_job].status = "cancelled"
    BY <1>1 DEF Durable, EdgesOK
  <1>4. Durable'
    BY <1>1, <1>2, <1>3, EdgeRewritten
  <1> QED BY <1>1, <1>2, <1>4, <1>e

(* terminalize_cancelled_parent_edge.                                      *)
LEMMA CancelEdgeOK ==
    ASSUME Inv, CancelEdge
    PROVE  Inv'
  <1> DEFINE e == delegated_parent_edge(work.job)
  <1>0. Types /\ Durable /\ work \in Work
    BY DEF Inv, Durable, WorkOK
  <1>1. UNCHANGED <<jobs, replies, messages>> /\ "failed" \in EdgeStates
    BY DEF CancelEdge, EdgeStates, TERMINAL_CALLBACK_STATES, Closed
  <1>2. Durable'
    <2>1. CASE e # 0 /\ terminalizes(e)
      BY <1>0, <1>1, <2>1, EdgeOut, StateOK DEF CancelEdge
    <2>2. CASE ~(e # 0 /\ terminalizes(e))
      BY <1>0, <1>1, <2>2, Unwritten DEF CancelEdge, durable
    <2> QED BY <2>1, <2>2
  <1>3. work' = [work EXCEPT !.pc = "reply"] /\ At("cancel_edge")
    BY DEF CancelEdge, Goto
  <1>4. /\ work' \in Work /\ work'.pc = "reply" /\ work'.then = work.then
        /\ work'.after = work.after /\ work'.job = work.job /\ work'.message = work.message
    BY <1>0, <1>3 DEF Work, Labels
  <1>5. WorkOK'
    BY <1>1, <1>3, <1>4 DEF Inv, WorkOK, At, Recording, Ending
  <1> QED BY <1>2, <1>5 DEF Inv

(* record_reply: a delivered reply has no edge into its message.           *)
LEMMA RecordReplyOK ==
    ASSUME Inv, RecordReply
    PROVE  Inv'
  <1>j. PICK j : j = work.job
    OBVIOUS
  <1>e. PICK e : e = callback_child_edge(j)
    OBVIOUS
  <1> DEFINE r == [job |-> j, message |-> jobs[j].message, notice |-> work.notice,
                   delivered |-> e = 0]
  <1>0. /\ Types /\ Durable /\ work \in Work /\ j \in DOMAIN jobs /\ At("reply")
        /\ work.message \in Nat /\ j \in Nat /\ work.notice \in BOOLEAN
    BY <1>j DEF Inv, Durable, RecordReply, WorkOK, Ending, Work
  <1>1. UNCHANGED <<jobs, edges, messages>>
    BY DEF RecordReply
  <1>2. /\ e # 0 => e \in DOMAIN edges /\ jobs[j].message = edges[e].child_message
                    /\ jobs[j].message # 0
        /\ e = 0 => \A f \in DOMAIN edges : jobs[j].message # edges[f].child_message
        /\ e \in Nat
    <2>1. \A f \in DOMAIN edges : edges[f].child_message # 0 /\ f \in Nat
      BY <1>0, Fields DEF Durable, EdgesOK
    <2> QED BY <1>0, <1>e, <2>1, ChildEdge
  <1>3. r \in Reply /\ r.message = jobs[j].message /\ (r.delivered <=> e = 0)
    BY <1>0, Fields DEF Reply
  <1>4. CASE jobs[j].message # 0
    <2>n. PICK n \in Nat \ {0} : n = Len(replies) + 1
      BY <1>0 DEF Types
    <2>1. replies' = Append(replies, r)
      BY <1>4, <1>j, <1>e DEF RecordReply
    <2>2. work' = [work EXCEPT !.pc = IF e = 0 THEN "done" ELSE "continue",
                               !.edge = e, !.reply = n]
      BY <1>4, <1>j, <1>e, <2>n DEF RecordReply
    <2>3. /\ work' \in Work /\ work'.pc = (IF e = 0 THEN "done" ELSE "continue")
          /\ work'.edge = e /\ work'.reply = n /\ work'.then = work.then
          /\ work'.after = work.after /\ work'.job = j /\ work'.message = work.message
      BY <1>0, <1>2, <1>j, <2>2 DEF Work, Labels
    <2>4. r.message <= messages
      BY <1>0, <1>3 DEF Durable, JobsOK
    <2> HIDE DEF r
    <2>5. Durable'
      BY <1>0, <1>1, <1>2, <1>3, <2>1, <2>4, ReplyAppended
    <2>6. n \in DOMAIN replies' /\ replies'[n] = r
      BY <1>0, <1>3, <2>1, <2>n DEF Types
    <2>7. e # 0 => ResultOf(n, e)'
      BY <1>1, <1>2, <1>3, <2>6 DEF ResultOf
    <2>8. WorkOK'
      BY <1>0, <1>1, <1>2, <1>j, <2>3, <2>7 DEF Inv, WorkOK, At, Recording, Ending
    <2> QED BY <2>5, <2>8 DEF Inv
  <1>5. CASE jobs[j].message = 0
    <2>1. Durable'
      BY <1>0, <1>1, <1>5, <1>j, Unwritten DEF RecordReply, durable
    <2>2. e = 0
      BY <1>2, <1>5
    <2>3. work' = [work EXCEPT !.pc = "done", !.edge = 0, !.reply = 0]
      BY <1>5, <1>j, <1>e, <2>2 DEF RecordReply
    <2>4. /\ work' \in Work /\ work'.pc = "done" /\ work'.then = work.then
          /\ work'.after = work.after /\ work'.job = j /\ work'.message = work.message
      BY <1>0, <1>j, <2>3 DEF Work, Labels
    <2>5. WorkOK'
      BY <1>0, <1>1, <1>j, <2>4 DEF Inv, WorkOK, At, Recording, Ending
    <2> QED BY <2>1, <2>5 DEF Inv
  <1> QED BY <1>4, <1>5

(* mark_callback_done, for the edge of the continuation ...                *)
LEMMA MarkDoneOK ==
    ASSUME Inv, MarkDone
    PROVE  Inv'
  <1>e. PICK e : e = jobs[work.job].chain_edge
    OBVIOUS
  <1> DEFINE open == e # 0 /\ edges[e].state \notin Closed
  <1>0. /\ Types /\ Durable /\ work \in Work /\ work.job \in DOMAIN jobs /\ At("done")
    BY DEF Inv, Durable, MarkDone, WorkOK, Ending
  <1>1. UNCHANGED <<jobs, replies, messages>> /\ "done" \in EdgeStates
    BY DEF MarkDone, EdgeStates, TERMINAL_CALLBACK_STATES, Closed
  <1>2. e \in Nat /\ (e # 0 => e \in DOMAIN edges)
    BY <1>0, <1>e, Fields DEF Durable, JobsOK, Types
  <1>3. CASE open
    <2>1. edges' = [edges EXCEPT ![e].state = "done"]
          /\ work' = [work EXCEPT !.pc = "prior", !.edge = e]
      BY <1>3, <1>e DEF MarkDone
    <2>2. Durable' /\ DOMAIN edges' = DOMAIN edges
      BY <1>0, <1>1, <1>2, <1>3, <2>1, StateOK
    <2>3. /\ work' \in Work /\ work'.pc = "prior" /\ work'.edge = e /\ work'.then = work.then
          /\ work'.after = work.after /\ work'.job = work.job /\ work'.message = work.message
      BY <1>0, <1>2, <2>1 DEF Work, Labels
    <2>4. WorkOK'
      BY <1>0, <1>1, <1>2, <1>3, <2>2, <2>3 DEF Inv, WorkOK, At, Recording, Ending
    <2> QED BY <2>2, <2>4 DEF Inv
  <1>4. CASE ~open
    <2>1. edges' = edges /\ work' = Idle
      BY <1>4, <1>e DEF MarkDone
    <2>2. Durable'
      BY <1>0, <1>1, <2>1, Unwritten DEF durable
    <2> QED BY <2>1, <2>2, IdleOK DEF Inv, Durable
  <1> QED BY <1>3, <1>4

(* ... and for the earlier edges of its message.                           *)
LEMMA MarkPriorOK ==
    ASSUME Inv, MarkPrior
    PROVE  Inv'
  <1> DEFINE E == {e \in DOMAIN edges \ {work.edge} :
                    /\ edges[e].parent_message = edges[work.edge].parent_message
                    /\ edges[e].state = "continuation_submitted"}
  <1>0. Types /\ Durable /\ At("prior")
    BY DEF Inv, Durable, MarkPrior
  <1>1. UNCHANGED <<jobs, replies, messages>> /\ "done" \in EdgeStates
    BY DEF MarkPrior, EdgeStates, TERMINAL_CALLBACK_STATES, Closed
  <1>2. CASE E = {}
    <2>1. edges' = edges /\ work' = Idle
      BY <1>2 DEF MarkPrior, Goto
    <2>2. Durable'
      BY <1>0, <1>1, <2>1, Unwritten DEF durable
    <2> QED BY <2>1, <2>2, IdleOK DEF Inv, Durable
  <1>3. CASE E # {}
    <2>1. edges' = [edges EXCEPT ![Min(E)].state = "done"] /\ work' = work
      BY <1>3 DEF MarkPrior
    <2>2. Min(E) \in DOMAIN edges
      <3>1. E \in SUBSET Nat
        BY <1>0 DEF Types
      <3> QED BY <1>3, <3>1, MinNat
    <2>3. Durable' /\ DOMAIN edges' = DOMAIN edges
      BY <1>0, <1>1, <2>1, <2>2, StateOK
    <2>4. WorkOK'
      BY <1>0, <1>1, <2>1, <2>3 DEF Inv, WorkOK, At, Recording, Ending
    <2> QED BY <2>3, <2>4 DEF Inv
  <1> QED BY <1>2, <1>3

(* A continuation is prepared only if the store has none.                  *)
LEMMA ContinueOK ==
    ASSUME Inv, Continue
    PROVE  Inv'
  <1>e. PICK e : e = work.edge
    OBVIOUS
  <1>c. PICK c : c = existing_continuation(e)
    OBVIOUS
  <1>0. /\ Types /\ Durable /\ work \in Work /\ e \in DOMAIN edges /\ At("continue")
        /\ work.reply # 0 => ResultOf(work.reply, e)
        /\ work.reply # 0 \/ HasContinuation(e)
        /\ work.reply \in Nat
    BY <1>e DEF Inv, Durable, Continue, WorkOK, Work
  <1>1. UNCHANGED <<jobs, replies, messages>> /\ "child_completed" \in EdgeStates
    BY DEF Continue, EdgeStates
  <1>2. /\ c # 0 <=> HasContinuation(e)
        /\ c # 0 => c \in DOMAIN jobs /\ jobs[c].chain_edge = e
    BY <1>0, <1>c, ExistingContinuation
  <1>3. CASE edges[e].state \in TERMINAL_CALLBACK_STATES
    <2>1. Goto(work.after) /\ edges' = edges
      BY <1>3, <1>e DEF Continue
    <2>2. Durable'
      BY <1>0, <1>1, <2>1, Unwritten DEF durable
    <2> QED BY <1>1, <2>1, <2>2, AfterOK DEF Inv
  <1>4. CASE edges[e].state \notin TERMINAL_CALLBACK_STATES /\ c = 0
    <2> DEFINE r == [edges[e] EXCEPT !.state = "child_completed", !.child_reply = work.reply]
    <2>0. work.reply \in Nat
      BY <1>0 DEF Work
    <2>1. /\ r \in Edge /\ r.parent_job = edges[e].parent_job
          /\ r.child_job = edges[e].child_job /\ r.child_message = edges[e].child_message
          /\ r.child_reply = work.reply /\ r.continuation_job = edges[e].continuation_job
          /\ r.parent_message = edges[e].parent_message /\ r.state = "child_completed"
      BY <1>0, <1>1, <2>0, Fields DEF Edge
    <2>2. edges' = [edges EXCEPT ![e] = r] /\ Goto("cont_job")
      <3>1. edges' = [edges EXCEPT ![e].state = "child_completed", ![e].child_reply = work.reply]
        BY <1>4, <1>c, <1>e DEF Continue
      <3> QED BY <1>0, <1>4, <1>c, <1>e, <3>1 DEF Continue, Types
    <2>3. DOMAIN edges' = DOMAIN edges /\ edges'[e] = r
      BY <1>0, <2>2 DEF Types
    <2> HIDE DEF r
    <2>4. work.reply # 0
      BY <1>0, <1>2, <1>4
    <2>5. /\ r.continuation_job # 0 =>
               /\ r.continuation_job \in DOMAIN jobs
               /\ \/ jobs[r.continuation_job].event
                  \/ jobs[r.continuation_job].status = "cancelled"
      BY <1>0, <2>1 DEF Durable, EdgesOK
    <2>6. Durable'
      BY <1>0, <1>1, <2>1, <2>2, <2>4, <2>5, EdgeRewritten
    <2>7. /\ work' \in Work /\ work'.pc = "cont_job" /\ work'.edge = e
          /\ work'.reply = work.reply /\ work'.then = work.then
          /\ work'.after = work.after /\ work'.job = work.job /\ work'.message = work.message
      BY <1>0, <1>e, <2>2 DEF Goto, Work, Labels
    <2>8. ~HasContinuation(e)'
      BY <1>1, <1>2, <1>4 DEF HasContinuation
    <2>9. ResultOf(work.reply, e)'
      BY <1>0, <1>1, <2>1, <2>3, <2>4, <2>7 DEF ResultOf
    <2>10. WorkOK'
      BY <1>0, <1>1, <2>1, <2>3, <2>4, <2>7, <2>8, <2>9
      DEF Inv, WorkOK, At, Recording, Ending
    <2> QED BY <2>6, <2>10 DEF Inv
  <1>5. CASE edges[e].state \notin TERMINAL_CALLBACK_STATES /\ c # 0
    <2>m. PICK m \in Nat : m = edges[e].parent_message
      BY <1>0, Fields
    <2>1. /\ work' = [work EXCEPT !.pc = IF attempt_missing(c) THEN "attempt" ELSE "cont_edge",
                                  !.new = c, !.message = m, !.then = "cont_edge"]
          /\ edges' = edges
      BY <1>5, <1>c, <1>e, <2>m DEF Continue
    <2>2. c \in Nat /\ c \in DOMAIN jobs /\ jobs[c].chain_edge = e
      BY <1>0, <1>2, <1>5, Fields
    <2>3. /\ work' \in Work /\ work'.pc = (IF attempt_missing(c) THEN "attempt" ELSE "cont_edge")
          /\ work'.new = c /\ work'.message = m /\ work'.then = "cont_edge"
          /\ work'.edge = e /\ work'.reply = work.reply
          /\ work'.after = work.after /\ work'.job = work.job
      BY <1>0, <1>e, <2>1, <2>2 DEF Work, Labels
    <2>4. Durable'
      BY <1>0, <1>1, <2>1, Unwritten DEF durable
    <2>5. ~attempt_missing(c) => jobs[c].event \/ jobs[c].status = "cancelled"
      BY <1>0, <1>5, <2>2 DEF attempt_missing, Durable, JobsOK
    <2>6. m <= messages
      BY <1>0, <2>m DEF Durable, EdgesOK
    <2>7. work.reply # 0 => ResultOf(work.reply, e)'
      BY <1>0, <1>1, <2>1, <2>3 DEF ResultOf
    <2>8. WorkOK'
      BY <1>0, <1>1, <2>1, <2>2, <2>3, <2>5, <2>6, <2>7
      DEF Inv, WorkOK, At, Recording, Ending
    <2> QED BY <2>4, <2>8 DEF Inv
  <1> QED BY <1>3, <1>4, <1>5

(* _submit_continuation_job: the first continuation of its edge.           *)
LEMMA ContinuationJobOK ==
    ASSUME Inv, ContinuationJob
    PROVE  Inv'
  <1>e. PICK e : e = work.edge
    OBVIOUS
  <1> DEFINE a == jobs[edges[e].parent_job].agent
  <1>0. /\ Types /\ Durable /\ work \in Work /\ e \in DOMAIN edges /\ At("cont_job")
        /\ ~HasContinuation(e) /\ edges[e].child_reply # 0 /\ messages \in Nat
        /\ work.reply # 0 => ResultOf(work.reply, e)
    BY <1>e DEF Inv, Durable, ContinuationJob, WorkOK, Types
  <1>n. PICK n \in Nat : n = Len(jobs) + 1
    BY <1>0 DEF Types
  <1>m. PICK m \in Nat : m = edges[e].parent_message
    BY <1>0, Fields
  <1>1. /\ jobs' = Append(jobs, NewJob(a, edges[e].original_caller, e, FALSE))
        /\ UNCHANGED <<edges, replies, messages>>
    BY <1>e DEF ContinuationJob
  <1>2. /\ a \in Agents /\ edges[e].original_caller \in Agents \cup {User} /\ e \in Nat
        /\ m <= messages
    BY <1>0, <1>m, Fields DEF Durable, EdgesOK
  <1>3. Durable'
    <2>1. messages' \in Nat /\ messages' >= messages
      BY <1>0, <1>1
    <2> HIDE DEF a
    <2> QED BY <1>0, <1>1, <1>2, <2>1, JobAppended
  <1>4. /\ n \in DOMAIN jobs' /\ DOMAIN jobs \subseteq DOMAIN jobs'
        /\ jobs'[n].chain_edge = e
    BY <1>0, <1>1, <1>n DEF Types, NewJob
  <1>5. work' = [work EXCEPT !.pc = "attempt", !.new = n, !.message = m,
                             !.then = "cont_edge"]
    BY <1>n, <1>m, <1>e DEF ContinuationJob
  <1>6. /\ work'.pc = "attempt" /\ work'.new = n /\ work'.then = "cont_edge"
        /\ work'.after = work.after /\ work'.message = m /\ work' \in Work
        /\ work'.job = work.job /\ work'.edge = e /\ work'.reply = work.reply
    BY <1>0, <1>5, <1>e DEF Work, Labels
  <1>7. work.reply # 0 => ResultOf(work.reply, e)'
    BY <1>0, <1>1, <1>6 DEF ResultOf
  <1>8. WorkOK'
    BY <1>0, <1>1, <1>2, <1>4, <1>6, <1>7 DEF Inv, WorkOK, At, Recording, Ending
  <1> QED BY <1>3, <1>8 DEF Inv

(* fail_callback_edge.                                                     *)
LEMMA ContinuationFailsOK ==
    ASSUME Inv, ContinuationFails
    PROVE  Inv'
  <1>0. /\ Types /\ Durable /\ work \in Work /\ work.edge \in DOMAIN edges
        /\ At("cont_job") /\ (work.reply # 0 => ResultOf(work.reply, work.edge))
    BY DEF Inv, Durable, ContinuationFails, WorkOK
  <1>1. UNCHANGED <<jobs, replies, messages>> /\ "failed" \in EdgeStates
    BY DEF ContinuationFails, EdgeStates, TERMINAL_CALLBACK_STATES, Closed
  <1>2. edges' = [edges EXCEPT ![work.edge].state = "failed"]
    BY DEF ContinuationFails
  <1>3. /\ Durable' /\ DOMAIN edges' = DOMAIN edges
        /\ edges'[work.edge].child_message = edges[work.edge].child_message
    BY <1>0, <1>1, <1>2, StateOK
  <1>4. /\ work' \in Work /\ work'.pc = "notice" /\ work'.edge = work.edge
        /\ work'.reply = work.reply /\ work'.then = work.then
        /\ work'.after = work.after /\ work'.job = work.job /\ work'.message = work.message
    BY <1>0 DEF ContinuationFails, Goto, Work, Labels
  <1>6. work'.reply # 0 => ResultOf(work.reply, work.edge)'
    BY <1>0, <1>1, <1>3, <1>4 DEF ResultOf
  <1>7. WorkOK'
    BY <1>0, <1>1, <1>3, <1>4, <1>6 DEF Inv, WorkOK, At, Recording, Ending
  <1> QED BY <1>3, <1>7 DEF Inv

(* The notice to the original caller.                                      *)
LEMMA FailureNoticeOK ==
    ASSUME Inv, FailureNotice
    PROVE  Inv'
  <1> DEFINE p == edges[work.edge].parent_job
             r == [job |-> p, message |-> jobs[p].message, notice |-> TRUE,
                   delivered |-> TRUE]
  <1>0. Types /\ Durable /\ work.edge \in DOMAIN edges
    BY DEF Inv, Durable, FailureNotice, WorkOK
  <1>1. p \in DOMAIN jobs /\ p \in Nat /\ jobs[p].message <= messages /\ jobs[p].message \in Nat
    BY <1>0, Fields DEF Durable, EdgesOK, JobsOK
  <1>2. r \in Reply /\ r.notice /\ r.message = jobs[p].message
    BY <1>1 DEF Reply
  <1>3. /\ replies' = Append(replies, r) /\ UNCHANGED <<jobs, edges, messages>>
        /\ Goto(work.after)
    BY DEF FailureNotice
  <1> HIDE DEF r
  <1>4. Durable'
    BY <1>0, <1>1, <1>2, <1>3, ReplyAppended
  <1> QED BY <1>3, <1>4, AfterOK DEF Inv

(* The continuation that is linked has its event, or was cancelled.        *)
LEMMA LinkContinuationOK ==
    ASSUME Inv, LinkContinuation
    PROVE  Inv'
  <1> DEFINE e == work.edge
             st == IF work.after = "done" /\ jobs[work.new].status \in Ended
                   THEN "done" ELSE "continuation_submitted"
             rep == IF work.reply # 0 THEN work.reply ELSE edges[e].child_reply
             r == [edges[e] EXCEPT !.state = st, !.continuation_job = work.new,
                                   !.child_reply = rep]
  <1>0. /\ Types /\ Durable /\ e \in DOMAIN edges /\ work.new \in DOMAIN jobs
        /\ work.new \in Nat /\ work.reply \in Nat
        /\ work.reply # 0 => ResultOf(work.reply, e)
        /\ jobs[work.new].event \/ jobs[work.new].status = "cancelled"
    BY DEF Inv, Durable, LinkContinuation, WorkOK, Recording, Work
  <1>1. st \in EdgeStates /\ rep \in Nat /\ (rep # 0 => ResultOf(rep, e))
    BY <1>0, Fields DEF EdgeStates, TERMINAL_CALLBACK_STATES, Closed, Durable, EdgesOK
  <1>2. edges' = [edges EXCEPT ![e] = r] /\ UNCHANGED <<jobs, replies, messages>>
        /\ Goto(work.after)
    BY <1>0 DEF LinkContinuation, Types
  <1> HIDE DEF st, rep
  <1>3. /\ r \in Edge /\ r.parent_job = edges[e].parent_job
        /\ r.child_job = edges[e].child_job /\ r.child_message = edges[e].child_message
        /\ r.child_reply = rep /\ r.continuation_job = work.new
        /\ r.parent_message = edges[e].parent_message
    <2>1. PICK g \in Edge : g = edges[e]
      BY <1>0, Fields, Zenon
    <2> QED BY <1>0, <1>1, <2>1 DEF Edge
  <1>4. edges[e].child_reply # 0 => rep # 0
    BY DEF rep
  <1> HIDE DEF r
  <1>5. Durable'
    BY <1>0, <1>1, <1>2, <1>3, <1>4, EdgeRewritten
  <1> QED BY <1>2, <1>5, AfterOK DEF Inv

(* A repair starts with a result of the child, or a continuation.          *)
LEMMA RepairOK ==
    ASSUME Inv, NEW e \in DOMAIN edges, Repair(e)
    PROVE  Inv'
  <1>0. Types /\ Durable /\ messages \in Nat
    BY DEF Inv, Durable, Types
  <1>1. Durable' /\ UNCHANGED <<jobs, edges, replies, messages>>
    BY <1>0, Unwritten DEF Repair, durable
  <1>r. PICK r : r = latest_child_reply(e)
    OBVIOUS
  <1>2. /\ r # 0 => ResultOf(r, e)
        /\ r # 0 \/ HasContinuation(e)
    BY <1>0, <1>r, LatestChildReply, ExistingContinuation DEF Repair, repair_candidate
  <1>3. r \in Nat /\ e \in Nat
    BY <1>0, <1>2, Fields DEF ResultOf
  <1>4. work' = [Idle EXCEPT !.pc = "continue", !.edge = e, !.reply = r]
    BY <1>r DEF Repair
  <1>5. /\ work'.pc = "continue" /\ work'.then = "idle" /\ work'.after = "idle"
        /\ work'.message = 0 /\ work' \in Work /\ work'.edge = e /\ work'.reply = r
    BY <1>3, <1>4, IdleWork DEF Work, Labels
  <1>6. (r # 0 => ResultOf(r, e)') /\ (HasContinuation(e)' <=> HasContinuation(e))
    BY <1>1, <1>2 DEF ResultOf, HasContinuation
  <1>7. WorkOK'
    BY <1>0, <1>1, <1>2, <1>5, <1>6 DEF WorkOK, At, Recording, Ending
  <1> QED BY <1>1, <1>7 DEF Inv

(* A crash loses the handler and nothing else.                             *)
LEMMA CrashOK ==
    ASSUME Inv, Crash
    PROVE  Inv'
  <1>1. Durable'
    BY Unwritten DEF Crash, Inv
  <1> QED BY <1>1, IdleOK DEF Crash, Inv, Durable
-----------------------------------------------------------------------------
(* The invariant and what follows from it.                                 *)

(* At first the stores are empty.                                          *)
LEMMA InitOK ==
    ASSUME Init
    PROVE  Inv
  <1>1. Types
    BY DEF Init, Types
  <1>2. jobs = << >> /\ edges = << >> /\ replies = << >> /\ work = Idle /\ messages = 0
    BY DEF Init
  <1>3. Durable
    BY <1>1, <1>2 DEF Durable, JobsOK, EdgesOK, RepliesOK, OneEach, ChildReplyStaysInside
  <1>4. WorkOK
    BY <1>2, IdleWork DEF WorkOK, At, Recording, Ending, Idle
  <1> QED BY <1>3, <1>4 DEF Inv

(* No step breaks the invariant: one case for each step of the handler and *)
(* each operation.                                                         *)
LEMMA NextOK ==
    ASSUME Inv, [Next]_vars
    PROVE  Inv'
  <1>1. CASE Step
    BY <1>1, RecordAttemptOK, RecordEventOK, RegisterEdgeOK, ResultOK, RetryJobOK,
       CancelEdgeOK, RecordReplyOK, MarkDoneOK, MarkPriorOK, ContinueOK,
       ContinuationJobOK, ContinuationFailsOK, FailureNoticeOK, LinkContinuationOK
    DEF Step
  <1>2. CASE UNCHANGED vars
    <2>1. UNCHANGED <<jobs, edges, replies, messages, work>>
      BY <1>2 DEF vars
    <2>2. Durable'
      BY <2>1, Unwritten DEF Inv, durable
    <2>3. WorkOK'
      BY <2>1 DEF Inv, WorkOK, At, Recording, Ending, ResultOf, HasContinuation
    <2> QED BY <2>2, <2>3 DEF Inv
  <1> QED BY <1>1, <1>2, SubmitOK, SubmitChainOK, StartOK, EndsOK, RepairOK, CrashOK
          DEF Next

(* Between any two writes the stores are consistent, and the handler's     *)
(* next write is one that keeps them so.                                   *)
THEOREM ChainInvariant == Spec => []Inv
  BY InitOK, NextOK, PTL DEF Spec

(* An edge gets one continuation (and its retries), however often a crash  *)
(* comes between the continuation's writes and repair_callback_edges comes *)
(* round.                                                                  *)
THEOREM OneContinuationHolds == Spec => []OneContinuation
  <1>1. ASSUME Inv
        PROVE  OneContinuation
    <2> SUFFICES ASSUME NEW e \in DOMAIN edges
                 PROVE  Cardinality({j \in DOMAIN jobs : /\ jobs[j].chain_edge = e
                                                         /\ ~jobs[j].retried}) <= 1
      BY DEF OneContinuation
    <2>1. e # 0
      BY <1>1, Fields DEF Inv, Durable
    <2> DEFINE S == {j \in DOMAIN jobs : jobs[j].chain_edge = e /\ ~jobs[j].retried}
    <2>2. \A j, k \in S : j = k
      BY <1>1, <2>1 DEF Inv, Durable, OneEach
    <2> HIDE DEF S
    <2>3. Cardinality(S) <= 1
      BY <2>2, AtMostOne
    <2> QED BY <2>3 DEF S
  <1> QED BY <1>1, ChainInvariant, PTL

(* No reply of a chain child, retried or not, is delivered to the mailbox  *)
(* of the child's caller.                                                  *)
THEOREM ChildReplyStaysInsideHolds == Spec => []ChildReplyStaysInside
  <1>1. ASSUME Inv
        PROVE  ChildReplyStaysInside
    BY <1>1 DEF Inv, Durable, RepliesOK
  <1> QED BY <1>1, ChainInvariant, PTL

(* A continuation carries a recorded result of the child; one that is      *)
(* linked is in the mailbox, or was cancelled.                             *)
THEOREM ContinuationHasResultHolds == Spec => []ContinuationHasResult
  <1>1. ASSUME Inv
        PROVE  ContinuationHasResult
    <2>1. Types
      BY <1>1 DEF Inv, Durable
    <2>2. \A e \in DOMAIN edges : existing_continuation(e) # 0 => HasContinuation(e)
      BY <2>1, ExistingContinuation
    <2> QED BY <1>1, <2>2 DEF Inv, Durable, EdgesOK, ResultOf, ContinuationHasResult
  <1> QED BY <1>1, ChainInvariant, PTL
-----------------------------------------------------------------------------
(* A failed edge stays failed.                                             *)

(* A write to the job store continues edge e only as the continuation that *)
(* _submit_continuation_job writes, or a retry of one that was there.      *)
LEMMA NewContinuation ==
    ASSUME Inv, [Next]_vars, NEW e \in DOMAIN edges,
           ~HasContinuation(e), HasContinuation(e)'
    PROVE  At("cont_job") /\ work.edge = e
  <1>0. Types /\ e # 0
    BY Fields DEF Inv, Durable
  <1>1. ASSUME NEW a, NEW from, NEW c, NEW retried, c # e,
               jobs' = Append(jobs, NewJob(a, from, c, retried))
        PROVE  FALSE
    <2>n. PICK n \in Nat : n = Len(jobs) + 1
      BY <1>0 DEF Types
    <2>1. /\ DOMAIN jobs' = DOMAIN jobs \cup {n}
          /\ \A j \in DOMAIN jobs : jobs'[j] = jobs[j]
          /\ jobs'[n] = NewJob(a, from, c, retried)
      BY <1>0, <1>1, <2>n DEF Types
    <2>2. jobs'[n].chain_edge = c
      BY <2>1 DEF NewJob
    <2> QED BY <1>1, <2>1, <2>2 DEF HasContinuation
  <1>2. ASSUME DOMAIN jobs' = DOMAIN jobs,
               \A j \in DOMAIN jobs : jobs'[j].chain_edge = jobs[j].chain_edge
        PROVE  FALSE
    BY <1>2 DEF HasContinuation
  <1>3. ASSUME NEW j \in DOMAIN jobs, NEW s, jobs' = [jobs EXCEPT ![j].status = s]
        PROVE  FALSE
    <2>1. jobs[j] \in Job
      BY <1>0, Fields
    <2>2. jobs'[j].chain_edge = jobs[j].chain_edge
      BY <1>0, <1>3, <2>1 DEF Types, Job
    <2>3. /\ DOMAIN jobs' = DOMAIN jobs
          /\ \A k \in DOMAIN jobs : k # j => jobs'[k] = jobs[k]
      BY <1>0, <1>3 DEF Types
    <2> QED BY <1>2, <2>2, <2>3
  <1>4. CASE jobs' = jobs
    BY <1>2, <1>4
  <1>5. CASE (\E a \in Entry : Submit(a)) \/ (\E a, b \in Agents : SubmitChain(a, b))
    <2>1. \E a, from : jobs' = Append(jobs, NewJob(a, from, 0, FALSE))
      BY <1>5, Zenon DEF Submit, SubmitChain
    <2> QED BY <1>0, <1>1, <2>1
  <1>6. CASE RecordAttempt
    <2>1. work.new \in DOMAIN jobs
      BY <1>6 DEF RecordAttempt, Inv, WorkOK
    <2>i. PICK i : i = next_retry_index(work.message)
      OBVIOUS
    <2>2. CASE jobs[work.new].message = 0
      <3>1. jobs' = [jobs EXCEPT ![work.new].message = work.message,
                                 ![work.new].retry_index = i]
        BY <1>6, <2>i, <2>2 DEF RecordAttempt
      <3>2. jobs[work.new] \in Job
        BY <1>0, <2>1, Fields
      <3>3. jobs'[work.new].chain_edge = jobs[work.new].chain_edge
        BY <1>0, <2>1, <3>1, <3>2 DEF Types, Job
      <3>4. /\ DOMAIN jobs' = DOMAIN jobs
            /\ \A k \in DOMAIN jobs : k # work.new => jobs'[k] = jobs[k]
        BY <1>0, <3>1 DEF Types
      <3> QED BY <1>2, <3>3, <3>4
    <2> QED BY <1>4, <1>6, <2>2 DEF RecordAttempt
  <1>7. CASE RecordEvent
    <2>1. work.new \in DOMAIN jobs /\ jobs' = [jobs EXCEPT ![work.new].event = TRUE]
      BY <1>7 DEF RecordEvent, Inv, WorkOK
    <2>2. jobs[work.new] \in Job
      BY <1>0, <2>1, Fields
    <2>3. jobs'[work.new].chain_edge = jobs[work.new].chain_edge
      BY <1>0, <2>1, <2>2 DEF Types, Job
    <2>4. /\ DOMAIN jobs' = DOMAIN jobs
          /\ \A k \in DOMAIN jobs : k # work.new => jobs'[k] = jobs[k]
      BY <1>0, <2>1 DEF Types
    <2> QED BY <1>2, <2>3, <2>4
  <1>8. CASE \E j \in DOMAIN jobs : Start(j)
    BY <1>3, <1>8 DEF Start
  <1>9. CASE \E j \in DOMAIN jobs : \/ Complete(j) \/ CompleteRetryable(j)
                                     \/ \E notice \in BOOLEAN : Cancel(j, notice)
    BY <1>3, <1>9, Zenon DEF Complete, CompleteRetryable, EndJob, Cancel
  <1>10. CASE RetryJob
    <2>1. work.job \in DOMAIN jobs
      BY <1>10 DEF RetryJob, Inv, WorkOK, Ending
    <2>2. jobs[work.job].chain_edge # e
      BY <2>1 DEF HasContinuation
    <2> QED BY <1>1, <1>10, <2>2 DEF RetryJob
  <1>11. CASE ContinuationJob
    BY <1>1, <1>11, Zenon DEF ContinuationJob
  <1>12. CASE \/ RegisterEdge \/ Result \/ CancelEdge \/ RecordReply \/ MarkDone
              \/ MarkPrior \/ Continue \/ ContinuationFails \/ FailureNotice
              \/ LinkContinuation \/ (\E f \in DOMAIN edges : Repair(f)) \/ Crash
              \/ UNCHANGED vars
    BY <1>4, <1>12, Zenon DEF RegisterEdge, Result, CancelEdge, RecordReply, MarkDone, MarkPrior,
       Continue, ContinuationFails, FailureNotice, LinkContinuation, Repair, Crash,
       durable, vars
  <1> QED BY <1>5, <1>6, <1>7, <1>8, <1>9, <1>10, <1>11, <1>12 DEF Next, Step

(* A failed edge without a continuation keeps its state: the writes that   *)
(* would change it find it closed, or have a continuation of it in hand.   *)
LEMMA FailedStays ==
    ASSUME Inv, [Next]_vars, NEW e \in DOMAIN edges,
           edges[e].state = "failed", ~HasContinuation(e)
    PROVE  edges'[e].state = "failed"
  <1>0. Types
    BY DEF Inv, Durable
  <1>1. ASSUME NEW f, NEW st, edges' = [edges EXCEPT ![f].state = st],
               f # e \/ st = "failed"
        PROVE  edges'[e].state = "failed"
    <2>1. CASE f # e
      BY <1>0, <1>1, <2>1 DEF Types
    <2>2. CASE f = e
      <3>1. edges[e] \in Edge
        BY <1>0, Fields
      <3> QED BY <1>0, <1>1, <2>2, <3>1 DEF Types, Edge
    <2> QED BY <2>1, <2>2
  <1>2. CASE edges' = edges
    BY <1>2
  <1>3. CASE RegisterEdge
    <2>1. PICK r : edges' = Append(edges, r)
      BY <1>3 DEF RegisterEdge
    <2> QED BY <1>0, <2>1 DEF Types
  <1>4. CASE CancelEdge
    BY <1>1, <1>2, <1>4 DEF CancelEdge
  <1>5. CASE MarkDone
    BY <1>1, <1>2, <1>5 DEF MarkDone, Closed
  <1>6. CASE MarkPrior
    <2> DEFINE E == {f \in DOMAIN edges \ {work.edge} :
                      /\ edges[f].parent_message = edges[work.edge].parent_message
                      /\ edges[f].state = "continuation_submitted"}
    <2>1. E # {} => Min(E) \in E
      <3>1. E \in SUBSET Nat
        BY <1>0 DEF Types
      <3> QED BY <3>1, MinNat
    <2>2. E # {} => Min(E) # e
      BY <2>1
    <2>3. edges' = edges \/ (E # {} /\ edges' = [edges EXCEPT ![Min(E)].state = "done"])
      BY <1>6 DEF MarkPrior
    <2> HIDE DEF E
    <2> QED BY <1>1, <1>2, <2>2, <2>3
  <1>7. CASE Continue
    <2>1. CASE work.edge = e
      BY <1>7, <2>1 DEF Continue, TERMINAL_CALLBACK_STATES, Closed
    <2>2. CASE work.edge # e
      BY <1>0, <1>7, <2>2 DEF Continue, Types
    <2> QED BY <2>1, <2>2
  <1>8. CASE ContinuationFails
    BY <1>1, <1>8 DEF ContinuationFails
  <1>9. CASE LinkContinuation
    <2>1. work.edge # e
      BY <1>9 DEF LinkContinuation, Inv, WorkOK, Recording, HasContinuation
    <2> QED BY <1>0, <1>9, <2>1 DEF LinkContinuation, Types
  <1>10. CASE \/ (\E a \in Entry : Submit(a)) \/ (\E a, b \in Agents : SubmitChain(a, b))
              \/ RecordAttempt \/ RecordEvent \/ Result \/ RetryJob \/ RecordReply
              \/ ContinuationJob \/ FailureNotice \/ (\E f \in DOMAIN edges : Repair(f))
              \/ Crash \/ UNCHANGED vars
    BY <1>2, <1>10, Zenon DEF Submit, SubmitChain, RecordAttempt, RecordEvent, Result, RetryJob,
       RecordReply, ContinuationJob, FailureNotice, Repair, Crash, durable, vars
  <1>11. CASE \E j \in DOMAIN jobs : \/ Start(j) \/ Complete(j) \/ CompleteRetryable(j)
                                      \/ \E notice \in BOOLEAN : Cancel(j, notice)
    BY <1>2, <1>11, Zenon DEF Start, Complete, CompleteRetryable, EndJob, Cancel
  <1> QED BY <1>3, <1>4, <1>5, <1>6, <1>7, <1>8, <1>9, <1>10, <1>11 DEF Next, Step

(* An edge that has failed, because its parent was cancelled or the target *)
(* is gone, is not continued afterwards, whenever the child ends and       *)
(* whatever a repair finds.                                                *)
THEOREM FailedIsNotContinuedHolds == Spec => FailedIsNotContinued
  <1> DEFINE A == \A e \in DOMAIN edges :
                    edges[e].state = "failed" /\ existing_continuation(e) = 0
                        => existing_continuation(e)' = 0 /\ edges'[e].state = "failed"
  <1>1. ASSUME Inv, [Next]_vars
        PROVE  A
    <2> SUFFICES ASSUME NEW e \in DOMAIN edges, edges[e].state = "failed",
                        existing_continuation(e) = 0
                 PROVE  existing_continuation(e)' = 0 /\ edges'[e].state = "failed"
      OBVIOUS
    <2>1. Types
      BY <1>1 DEF Inv, Durable
    <2>2. ~HasContinuation(e)
      BY <2>1, ExistingContinuation
    <2>3. At("cont_job") => work.edge # e
      BY <1>1 DEF Inv, WorkOK
    <2>4. ~HasContinuation(e)'
      BY <1>1, <2>2, <2>3, NewContinuation
    <2>5. edges'[e].state = "failed"
      BY <1>1, <2>2, FailedStays
    <2>6. existing_continuation(e)' = 0
      BY <2>4 DEF existing_continuation, HasContinuation
    <2> QED BY <2>5, <2>6
  <1>2. Spec => [][A]_vars
    BY <1>1, ChainInvariant, PTL DEF Spec
  <1> QED BY <1>2 DEF FailedIsNotContinued
-----------------------------------------------------------------------------
(* One answer to a message.                                                *)
(*                                                                         *)
(* The right to answer a message is a claim that is handed on: a recorded  *)
(* job has it, then the edge it delegates to, the continuation, a retry,   *)
(* and in the end the reply.  OneClaim says that there is never a second   *)
(* claim on a message of which no job was cancelled.  Every step drops     *)
(* claims or replaces the claim it takes by one other; what it has to know *)
(* of the jobs on a message is Lines, and of the handler, HandlerOK.       *)

Parent(e) == edges[e].parent_job

\* A continuation of edge e, or a retry of one, has its attempt.
Recorded(e) == \E j \in DOMAIN jobs : jobs[j].chain_edge = e /\ jobs[j].message # 0

\* Job j has an edge that is not closed.
Delegates(j) == \E e \in DOMAIN edges : Parent(e) = j /\ edges[e].state \notin Closed

Cancelled(m) == \E j \in DOMAIN jobs : jobs[j].message = m /\ jobs[j].status = "cancelled"

IsAnswer(r, m) == r \in DOMAIN replies /\ replies[r].message = m /\ ~replies[r].notice

\* A job delegates once, while it runs.
ParentsOK ==
    \A e \in DOMAIN edges :
        /\ jobs[Parent(e)].message = edges[e].parent_message
        /\ jobs[Parent(e)].event /\ jobs[Parent(e)].status # "queued"
        /\ \A f \in DOMAIN edges : Parent(f) = Parent(e) => f = e

\* Job j continues its edge: it waits in the mailbox of the parent until the
\* parent has ended, and only a recorded continuation is retried.
FollowsParent(j) ==
    LET e == jobs[j].chain_edge
    IN /\ jobs[j].agent = jobs[Parent(e)].agent /\ Parent(e) < j
       /\ jobs[j].message \in {0, edges[e].parent_message}
       /\ job_is_outstanding(Parent(e)) =>
            jobs[j].status \in {"queued", "cancelled"} /\ ~jobs[j].retried
       /\ jobs[j].retried =>
            \A k \in DOMAIN jobs :
                jobs[k].chain_edge = e /\ ~jobs[k].retried => jobs[k].message # 0

JobLines ==
    \A j \in DOMAIN jobs :
        /\ jobs[j].event => jobs[j].message # 0
        /\ jobs[j].chain_edge # 0 => FollowsParent(j)

Lines == ParentsOK /\ JobLines

\* The handler has recorded the reply of work.job, if there is one.
Replied ==
    \/ At("continue") \/ At("cont_job") \/ At("notice") \/ At("done") \/ At("prior")
    \/ Recording("cont_edge")

HandlerOK ==
    /\ At("attempt") \/ At("event") =>
        ~jobs[work.new].event /\ jobs[work.new].status = "queued"
    /\ At("event") => jobs[work.new].message # 0
    /\ At("attempt") =>
        /\ work.message # 0
        /\ jobs[work.new].chain_edge # 0 =>
            /\ work.message = edges[jobs[work.new].chain_edge].parent_message
            /\ ~jobs[work.new].retried => work.then = "cont_edge"
    /\ Recording("cont_edge") => edges[work.edge].state \notin TERMINAL_CALLBACK_STATES
    /\ Recording("register") =>
        jobs[work.job].status = "running" /\ \A e \in DOMAIN edges : Parent(e) # work.job
    /\ At("result") \/ At("retry") => jobs[work.job].status \in {"completed", "failed"}
    /\ At("result") => ~work.notice
    /\ At("retry") => ~Delegates(work.job)
    /\ At("cancel_edge") => jobs[work.job].status = "cancelled"
    /\ At("reply") => \/ jobs[work.job].status = "cancelled"
                      \/ ~Delegates(work.job) /\ ~work.notice
    /\ Ending \/ At("prior") => work.after = "done"
    /\ work.after = "done" => jobs[work.job].status \in Ended
    /\ Replied /\ work.after = "done" =>
        \/ jobs[work.job].status = "cancelled"
        \/ \E r \in DOMAIN replies : IsAnswer(r, jobs[work.job].message)
    /\ At("prior") => /\ jobs[work.job].chain_edge = work.edge
                      /\ edges[work.edge].state = "done"

\* The claims on message m: of a job that has not given its reply and has not
\* delegated; ...
MayAnswer(j, m) ==
    /\ j \in DOMAIN jobs /\ jobs[j].message = m /\ ~Delegates(j)
    /\ \/ job_is_outstanding(j)
       \/ work.job = j /\ work.pc \in {"result", "retry", "cancel_edge", "reply"}

\* ... of an edge that is open and has no continuation with an attempt (or is
\* being closed because that continuation was cancelled); ...
MayContinue(e, m) ==
    /\ e \in DOMAIN edges /\ edges[e].parent_message = m /\ ~Recorded(e)
    /\ \/ edges[e].state \notin Closed
       \/ At("prior") /\ work.edge = e /\ ~job_is_outstanding(Parent(e))

\* ... of a request, or a retry, that has no attempt yet; and of the answer.
MayBeRecorded(j, m) ==
    /\ j \in DOMAIN jobs /\ jobs[j].message = 0
    /\ \/ /\ At("attempt") /\ work.new = j /\ work.message = m
          /\ jobs[j].chain_edge = 0 \/ jobs[j].retried
       \/ /\ jobs[j].chain_edge # 0 /\ jobs[j].retried
          /\ edges[jobs[j].chain_edge].parent_message = m
          /\ job_is_outstanding(j) \/ (work.job = j /\ work.after = "done")

Claim(kind, x, m) ==
    \/ kind = "job" /\ MayAnswer(x, m)
    \/ kind = "edge" /\ MayContinue(x, m)
    \/ kind = "new" /\ MayBeRecorded(x, m)
    \/ kind = "reply" /\ IsAnswer(x, m)

OneClaim(m) ==
    \A kind, other, x, y :
        Claim(kind, x, m) /\ Claim(other, y, m) => kind = other /\ x = y

Claims == \A m \in 1 .. messages : Cancelled(m) \/ OneClaim(m)

AnswerInv == Inv /\ Lines /\ HandlerOK /\ Claims
-----------------------------------------------------------------------------
(* What a write does to the fields of the records.                         *)

(* All fields of an idle handler.                                          *)
LEMMA IdleFields ==
    /\ Idle.pc = "idle" /\ Idle.job = 0 /\ Idle.edge = 0 /\ Idle.new = 0 /\ Idle.message = 0
    /\ Idle.reply = 0 /\ Idle.retryable = FALSE /\ Idle.notice = FALSE
    /\ Idle.then = "idle" /\ Idle.after = "idle"
  BY DEF Idle

(* The handler goes on at another label.                                   *)
LEMMA GotoFields ==
    ASSUME work \in Work, NEW pc \in Labels, pc # "idle", Goto(pc)
    PROVE  /\ work'.pc = pc /\ work'.job = work.job /\ work'.edge = work.edge
           /\ work'.new = work.new /\ work'.message = work.message
           /\ work'.reply = work.reply /\ work'.retryable = work.retryable
           /\ work'.notice = work.notice /\ work'.then = work.then
           /\ work'.after = work.after
  BY DEF Goto, Work

\* A step that adds job n, for agent a, continuing edge c.
JobAt(n, a, c, retried) ==
    /\ n = Len(jobs) + 1 /\ n \notin DOMAIN jobs /\ DOMAIN jobs' = DOMAIN jobs \cup {n}
    /\ \A j \in DOMAIN jobs : jobs'[j] = jobs[j] /\ j < n
    /\ jobs'[n].agent = a /\ jobs'[n].status = "queued" /\ jobs'[n].message = 0
    /\ ~jobs'[n].event /\ jobs'[n].chain_edge = c /\ jobs'[n].retried = retried

(* A new job.                                                              *)
LEMMA JobAdded ==
    ASSUME Types, NEW a, NEW from, NEW c, NEW retried,
           jobs' = Append(jobs, NewJob(a, from, c, retried))
    PROVE  \E n \in Nat \ {0} : JobAt(n, a, c, retried)
  <1>n. PICK n \in Nat \ {0} : n = Len(jobs) + 1
    BY DEF Types
  <1>1. /\ n \notin DOMAIN jobs /\ DOMAIN jobs' = DOMAIN jobs \cup {n}
        /\ \A j \in DOMAIN jobs : jobs'[j] = jobs[j] /\ j < n
        /\ jobs'[n] = NewJob(a, from, c, retried)
    BY <1>n DEF Types
  <1>2. /\ jobs'[n].agent = a /\ jobs'[n].status = "queued" /\ jobs'[n].message = 0
        /\ ~jobs'[n].event /\ jobs'[n].chain_edge = c /\ jobs'[n].retried = retried
    BY <1>1 DEF NewJob
  <1> QED BY <1>n, <1>1, <1>2 DEF JobAt

\* The fields of a job that only its submission writes.
JobKept(j) ==
    /\ jobs'[j].agent = jobs[j].agent /\ jobs'[j].chain_edge = jobs[j].chain_edge
    /\ jobs'[j].retried = jobs[j].retried

(* A job gets another status.                                              *)
LEMMA StatusFields ==
    ASSUME Types, NEW j \in DOMAIN jobs, NEW status,
           jobs' = [jobs EXCEPT ![j].status = status]
    PROVE  /\ DOMAIN jobs' = DOMAIN jobs
           /\ \A k \in DOMAIN jobs : k # j => jobs'[k] = jobs[k]
           /\ JobKept(j) /\ jobs'[j].message = jobs[j].message
           /\ jobs'[j].event = jobs[j].event /\ jobs'[j].status = status
  <1>1. jobs[j] \in Job
    BY Fields
  <1>2. /\ DOMAIN jobs' = DOMAIN jobs /\ jobs'[j] = [jobs[j] EXCEPT !.status = status]
        /\ \A k \in DOMAIN jobs : k # j => jobs'[k] = jobs[k]
    BY DEF Types
  <1> QED BY <1>1, <1>2 DEF Job, JobKept

(* A job gets its event.                                                   *)
LEMMA EventFields ==
    ASSUME Types, NEW j \in DOMAIN jobs, jobs' = [jobs EXCEPT ![j].event = TRUE]
    PROVE  /\ DOMAIN jobs' = DOMAIN jobs
           /\ \A k \in DOMAIN jobs : k # j => jobs'[k] = jobs[k]
           /\ JobKept(j) /\ jobs'[j].message = jobs[j].message
           /\ jobs'[j].event = TRUE /\ jobs'[j].status = jobs[j].status
  <1>1. jobs[j] \in Job
    BY Fields
  <1>2. /\ DOMAIN jobs' = DOMAIN jobs /\ jobs'[j] = [jobs[j] EXCEPT !.event = TRUE]
        /\ \A k \in DOMAIN jobs : k # j => jobs'[k] = jobs[k]
    BY DEF Types
  <1> QED BY <1>1, <1>2 DEF Job, JobKept

\* The fields of the edges that only their registration writes.
EdgesKept ==
    /\ DOMAIN edges' = DOMAIN edges
    /\ \A e \in DOMAIN edges : /\ edges'[e].parent_job = edges[e].parent_job
                               /\ edges'[e].parent_message = edges[e].parent_message

\* A step that gives edge e the state st.
StateAt(e, st) ==
    /\ e \in DOMAIN edges /\ EdgesKept /\ edges'[e].state = st
    /\ \A f \in DOMAIN edges : f # e => edges'[f] = edges[f]

(* An edge gets another state.                                             *)
LEMMA StateFields ==
    ASSUME Types, NEW e \in DOMAIN edges, NEW st, edges' = [edges EXCEPT ![e].state = st]
    PROVE  StateAt(e, st)
  <1>1. edges[e] \in Edge
    BY Fields
  <1>2. /\ DOMAIN edges' = DOMAIN edges /\ edges'[e] = [edges[e] EXCEPT !.state = st]
        /\ \A f \in DOMAIN edges : f # e => edges'[f] = edges[f]
    BY DEF Types
  <1> QED BY <1>1, <1>2 DEF Edge, EdgesKept, StateAt

(* The edge out of a job, and whether the job waits for it.                *)
LEMMA EdgeOutOf ==
    ASSUME Types, ParentsOK, NEW j
    PROVE  /\ delegated_parent_edge(j) # 0 =>
                /\ delegated_parent_edge(j) \in DOMAIN edges
                /\ Parent(delegated_parent_edge(j)) = j
           /\ delegated_parent_edge(j) = 0 => \A e \in DOMAIN edges : Parent(e) # j
           /\ delegated(j) <=> Delegates(j)
  <1> DEFINE S == {e \in DOMAIN edges : edges[e].parent_job = j}
             d == delegated_parent_edge(j)
  <1>1. S \in SUBSET (Nat \ {0})
    BY DEF Types
  <1>2. (d = 0 <=> S = {}) /\ (S # {} => d \in S)
    BY <1>1, FirstOf DEF delegated_parent_edge
  <1>3. /\ d # 0 => d \in DOMAIN edges /\ Parent(d) = j
        /\ d = 0 => \A e \in DOMAIN edges : Parent(e) # j
    BY <1>2 DEF Parent
  <1>4. \A e \in DOMAIN edges : Parent(e) = j => e = d
    BY <1>3 DEF ParentsOK
  <1> HIDE DEF S, d
  <1>5. (d # 0 /\ edges[d].state \notin Closed) <=> Delegates(j)
    BY <1>3, <1>4 DEF Delegates
  <1>6. delegated(j) <=> (d # 0 /\ edges[d].state \notin Closed)
    BY DEF delegated, d
  <1> QED BY <1>3, <1>5, <1>6 DEF d

(* active_job returns a running job of the agent.                          *)
LEMMA ActiveJobRuns ==
    ASSUME Types, NEW a, active_job(a) # 0
    PROVE  active_job(a) \in DOMAIN jobs /\ jobs[active_job(a)].status = "running"
  <1> DEFINE S == {j \in DOMAIN jobs : jobs[j].agent = a /\ jobs[j].status = "running"}
  <1>1. S \in SUBSET (Nat \ {0})
    BY DEF Types
  <1>2. active_job(a) \in S
    BY <1>1, FirstOf DEF active_job
  <1> QED BY <1>2
-----------------------------------------------------------------------------
(* Lines: the jobs of a message follow one another.                        *)

(* An edge leads to a job in the store, from a message that is not 0.      *)
LEMMA EdgeParent ==
    ASSUME Durable, Lines, NEW e \in DOMAIN edges
    PROVE  /\ Parent(e) \in DOMAIN jobs /\ jobs[Parent(e)].message = edges[e].parent_message
           /\ edges[e].parent_message \in 1 .. messages /\ jobs[Parent(e)].event
           /\ jobs[Parent(e)].status # "queued" /\ e \in Nat \ {0}
  <1>1. /\ Parent(e) \in DOMAIN jobs /\ edges[e].parent_message <= messages
        /\ edges[e].parent_message \in Nat /\ messages \in Nat /\ e \in Nat \ {0}
    BY Fields DEF Durable, EdgesOK, Types, Parent
  <1>2. /\ jobs[Parent(e)].message = edges[e].parent_message /\ jobs[Parent(e)].event
        /\ jobs[Parent(e)].status # "queued"
    BY DEF Lines, ParentsOK
  <1>3. jobs[Parent(e)].message # 0
    BY <1>1, <1>2 DEF Lines, JobLines
  <1> QED BY <1>1, <1>2, <1>3

(* The edge a job continues is in the store.                               *)
LEMMA ChainEdge ==
    ASSUME Durable, NEW j \in DOMAIN jobs, jobs[j].chain_edge # 0
    PROVE  jobs[j].chain_edge \in DOMAIN edges
  BY Fields DEF Durable, JobsOK, Types

(* A job whose status is no cancellation and that has left the queue is    *)
(* recorded.                                                               *)
LEMMA StartedRecorded ==
    ASSUME Durable, Lines, NEW j \in DOMAIN jobs,
           jobs[j].status \notin {"queued", "cancelled"}
    PROVE  jobs[j].event /\ jobs[j].message # 0
  BY DEF Durable, JobsOK, Lines, JobLines

(* Edges change their states only, and jobs not at all.                    *)
LEMMA LinesKept ==
    ASSUME Durable, Lines, jobs' = jobs, EdgesKept
    PROVE  Lines'
  <1>1. ParentsOK'
    BY DEF Lines, ParentsOK, EdgesKept, Parent
  <1>2. \A j \in DOMAIN jobs : jobs[j].chain_edge # 0 => jobs[j].chain_edge \in DOMAIN edges
    BY ChainEdge
  <1>3. JobLines'
    BY <1>2 DEF Lines, JobLines, FollowsParent, EdgesKept, Parent, job_is_outstanding
  <1> QED BY <1>1, <1>3 DEF Lines

(* A new job continues nothing; or it is the first continuation of its     *)
(* edge; or it retries a continuation that has ended.                      *)
LEMMA LinesAppend ==
    ASSUME Durable, Lines, NEW a, NEW from, NEW c, NEW retried \in BOOLEAN,
           jobs' = Append(jobs, NewJob(a, from, c, retried)), edges' = edges,
           c # 0 => /\ c \in DOMAIN edges /\ a = jobs[Parent(c)].agent
                    /\ retried => /\ ~job_is_outstanding(Parent(c))
                                  /\ \A k \in DOMAIN jobs :
                                        jobs[k].chain_edge = c /\ ~jobs[k].retried
                                            => jobs[k].message # 0
                    /\ ~retried => ~HasContinuation(c)
    PROVE  Lines'
  <1>0. Types
    BY DEF Durable
  <1>a. PICK n \in Nat \ {0} : JobAt(n, a, c, retried)
    BY <1>0, JobAdded
  <1>n. /\ n \notin DOMAIN jobs /\ DOMAIN jobs' = DOMAIN jobs \cup {n}
        /\ \A j \in DOMAIN jobs : jobs'[j] = jobs[j] /\ j < n
        /\ jobs'[n].agent = a /\ jobs'[n].status = "queued" /\ jobs'[n].message = 0
        /\ ~jobs'[n].event /\ jobs'[n].chain_edge = c /\ jobs'[n].retried = retried
    BY <1>a DEF JobAt
  <1>1. \A e \in DOMAIN edges : Parent(e) \in DOMAIN jobs /\ Parent(e)' = Parent(e)
    BY DEF Durable, EdgesOK, Parent
  <1>2. ParentsOK'
    BY <1>n, <1>1 DEF Lines, ParentsOK
  <1>3. ASSUME NEW j \in DOMAIN jobs, jobs[j].chain_edge # 0
        PROVE  FollowsParent(j)'
    <2> DEFINE e == jobs[j].chain_edge
    <2>1. e \in DOMAIN edges /\ jobs'[j] = jobs[j] /\ FollowsParent(j)
      BY <1>3, <1>n, ChainEdge DEF Lines, JobLines
    <2>2. jobs'[Parent(e)] = jobs[Parent(e)] /\ Parent(e)' = Parent(e)
      BY <1>1, <1>n, <2>1
    <2>3. ASSUME jobs[j].retried, NEW k \in DOMAIN jobs', jobs'[k].chain_edge = e,
                 ~jobs'[k].retried
          PROVE  jobs'[k].message # 0
      <3>1. CASE k \in DOMAIN jobs
        BY <1>n, <2>1, <2>3, <3>1 DEF FollowsParent
      <3>2. CASE k = n
        BY <1>3, <1>n, <2>3, <3>2 DEF HasContinuation
      <3> QED BY <1>n, <3>1, <3>2
    <2> QED BY <2>1, <2>2, <2>3 DEF FollowsParent, job_is_outstanding
  <1>4. ASSUME c # 0
        PROVE  FollowsParent(n)'
    <2>1. Parent(c)' = Parent(c) /\ Parent(c) \in DOMAIN jobs /\ Parent(c) < n
          /\ jobs'[Parent(c)] = jobs[Parent(c)]
      BY <1>1, <1>4, <1>n
    <2>2. ASSUME retried, NEW k \in DOMAIN jobs', jobs'[k].chain_edge = c, ~jobs'[k].retried
          PROVE  jobs'[k].message # 0
      BY <1>4, <1>n, <2>2
    <2> QED BY <1>4, <1>n, <2>1, <2>2 DEF FollowsParent, job_is_outstanding
  <1>5. JobLines'
    <2> SUFFICES ASSUME NEW j \in DOMAIN jobs'
                 PROVE  /\ jobs'[j].event => jobs'[j].message # 0
                        /\ jobs'[j].chain_edge # 0 => FollowsParent(j)'
      BY DEF JobLines
    <2>1. CASE j \in DOMAIN jobs
      BY <1>3, <1>n, <2>1 DEF Lines, JobLines
    <2>2. CASE j = n
      BY <1>4, <1>n, <2>2
    <2> QED BY <1>n, <2>1, <2>2
  <1> QED BY <1>2, <1>5 DEF Lines

(* A job gets its attempt, its event or a new status; a job whose status   *)
(* is no cancellation has left the queue after its parent has ended.       *)
LEMMA LinesRewritten ==
    ASSUME Durable, Lines, NEW j \in DOMAIN jobs,
           DOMAIN jobs' = DOMAIN jobs, \A k \in DOMAIN jobs : k # j => jobs'[k] = jobs[k],
           JobKept(j), edges' = edges,
           jobs[j].message # 0 => jobs'[j].message = jobs[j].message,
           jobs'[j].event => jobs'[j].message # 0,
           jobs[j].event => jobs'[j].event,
           jobs[j].chain_edge # 0 =>
               jobs'[j].message \in {0, edges[jobs[j].chain_edge].parent_message},
           jobs[j].status # "queued" => jobs'[j].status # "queued",
           (job_is_outstanding(j))' => job_is_outstanding(j),
           \/ jobs'[j].status \in {"queued", "cancelled"}
           \/ jobs[j].chain_edge # 0 => ~job_is_outstanding(Parent(jobs[j].chain_edge))
    PROVE  Lines'
  <1>1. \A e \in DOMAIN edges : Parent(e) \in DOMAIN jobs /\ Parent(e)' = Parent(e)
                                /\ jobs[Parent(e)].message # 0
    <2>1. \A e \in DOMAIN edges : edges[e].parent_message # 0
      BY EdgeParent DEF Durable, Types
    <2> QED BY <2>1, EdgeParent DEF Parent
  <1>2. ParentsOK'
    BY <1>1 DEF Lines, ParentsOK
  <1>3. \A k \in DOMAIN jobs :
            /\ jobs'[k].agent = jobs[k].agent /\ jobs'[k].chain_edge = jobs[k].chain_edge
            /\ jobs'[k].retried = jobs[k].retried
            /\ jobs[k].message # 0 => jobs'[k].message = jobs[k].message
            /\ jobs'[k].status \in {"queued", "running"} => jobs[k].status \in {"queued", "running"}
    BY DEF JobKept, job_is_outstanding
  <1>4. ASSUME NEW k \in DOMAIN jobs, jobs[k].chain_edge # 0
        PROVE  FollowsParent(k)'
    <2>e. PICK e : e = jobs[k].chain_edge
      OBVIOUS
    <2>1. e \in DOMAIN edges /\ FollowsParent(k) /\ e # 0
      BY <1>4, <2>e, ChainEdge DEF Lines, JobLines
    <2>2. Parent(e)' = Parent(e) /\ Parent(e) \in DOMAIN jobs
      BY <1>1, <2>1
    <2>3. jobs'[k].agent = jobs'[Parent(e)].agent /\ Parent(e) < k
      BY <1>3, <2>e, <2>1, <2>2 DEF FollowsParent
    <2>4. jobs'[k].message \in {0, edges[e].parent_message}
      BY <2>e, <2>1 DEF FollowsParent
    <2>5. (job_is_outstanding(Parent(e)))' => job_is_outstanding(Parent(e))
      BY <1>3, <2>2 DEF job_is_outstanding
    <2>6. job_is_outstanding(Parent(e)) =>
            jobs'[k].status \in {"queued", "cancelled"} /\ ~jobs'[k].retried
      BY <1>3, <2>e, <2>1 DEF FollowsParent
    <2>7. jobs'[k].retried => \A i \in DOMAIN jobs :
                jobs'[i].chain_edge = e /\ ~jobs'[i].retried => jobs'[i].message # 0
      BY <1>3, <2>e, <2>1 DEF FollowsParent
    <2> QED BY <1>3, <2>e, <2>2, <2>3, <2>4, <2>5, <2>6, <2>7 DEF FollowsParent
  <1>5. JobLines'
    BY <1>3, <1>4 DEF Lines, JobLines
  <1> QED BY <1>2, <1>5 DEF Lines
-----------------------------------------------------------------------------
(* Lines and HandlerOK, step by step.                                      *)

Steady == Inv /\ Lines /\ HandlerOK

(* What Steady says of the stores and the handler's record.                *)
LEMMA SteadyTypes ==
    ASSUME Steady
    PROVE  /\ Durable /\ Types /\ Lines /\ ParentsOK /\ WorkOK /\ HandlerOK /\ work \in Work
           /\ messages \in Nat
  BY DEF Steady, Inv, Durable, Types, Lines, WorkOK

(* Nothing is asked of an idle handler.                                    *)
LEMMA IdleSteady ==
    ASSUME work' = Idle
    PROVE  HandlerOK'
  BY IdleFields DEF HandlerOK, At, Recording, Ending, Replied

(* The handler has done its part and notes the end of the job, if it came  *)
(* from there.                                                             *)
LEMMA AfterSteady ==
    ASSUME Steady, Goto(work.after), Replied, jobs' = jobs,
           DOMAIN replies \subseteq DOMAIN replies',
           \A r \in DOMAIN replies : replies'[r] = replies[r]
    PROVE  HandlerOK'
  <1>1. CASE work.after = "idle"
    BY <1>1, IdleSteady DEF Goto
  <1>2. CASE work.after = "done"
    <2>1. /\ work'.pc = "done" /\ work'.job = work.job /\ work'.after = "done"
      BY <1>2, SteadyTypes, GotoFields DEF Labels
    <2>2. /\ jobs[work.job].status \in Ended
          /\ \/ jobs[work.job].status = "cancelled"
             \/ \E r \in DOMAIN replies : IsAnswer(r, jobs[work.job].message)
      BY <1>2 DEF Steady, HandlerOK
    <2>3. /\ jobs'[work'.job].status \in Ended
          /\ \/ jobs'[work'.job].status = "cancelled"
             \/ \E r \in DOMAIN replies' : IsAnswer(r, jobs[work.job].message)'
      BY <2>1, <2>2 DEF IsAnswer
    <2> QED BY <2>1, <2>3 DEF HandlerOK, At, Recording, Ending, Replied
  <1> QED BY <1>1, <1>2 DEF Steady, Inv, WorkOK

(* Submissions.                                                            *)
LEMMA SubmitSteady ==
    ASSUME Steady, NEW a \in Entry, Submit(a)
    PROVE  Lines' /\ HandlerOK'
  <1>1. jobs' = Append(jobs, NewJob(a, User, 0, FALSE)) /\ edges' = edges
    BY DEF Submit
  <1>2. Lines'
    BY <1>1, SteadyTypes, LinesAppend
  <1>a. PICK n \in Nat \ {0} : JobAt(n, a, 0, FALSE)
    BY <1>1, SteadyTypes, JobAdded, Zenon
  <1>n. /\ n = Len(jobs) + 1 /\ jobs'[n].status = "queued" /\ ~jobs'[n].event
        /\ jobs'[n].chain_edge = 0
    BY <1>a DEF JobAt
  <1>m. PICK m \in Nat \ {0} : m = messages + 1
    BY SteadyTypes
  <1>3. work' = [Idle EXCEPT !.pc = "attempt", !.new = n, !.message = m]
    BY <1>n, <1>m DEF Submit
  <1>4. /\ work'.pc = "attempt" /\ work'.new = n /\ work'.message # 0
        /\ work'.then = "idle" /\ work'.after = "idle"
    BY <1>3, IdleWork DEF Work
  <1>5. HandlerOK'
    BY <1>n, <1>3, <1>4 DEF HandlerOK, At, Recording, Ending, Replied
  <1> QED BY <1>2, <1>5

(* A chain request is made by a running job that has no edge yet.          *)
LEMMA SubmitChainSteady ==
    ASSUME Steady, NEW a \in Agents, NEW b \in Agents, SubmitChain(a, b)
    PROVE  Lines' /\ HandlerOK'
  <1>1. jobs' = Append(jobs, NewJob(b, a, 0, FALSE)) /\ edges' = edges
    BY DEF SubmitChain
  <1>2. Lines'
    BY <1>1, SteadyTypes, LinesAppend
  <1>p. PICK p \in DOMAIN jobs : /\ p = active_job(a) /\ jobs[p].status = "running"
                                 /\ \A e \in DOMAIN edges : Parent(e) # p
    BY SteadyTypes, ActiveJobRuns, EdgeOutOf DEF SubmitChain, validate_callback_request
  <1>a. PICK n \in Nat \ {0} : JobAt(n, b, 0, FALSE)
    BY <1>1, SteadyTypes, JobAdded, Zenon
  <1>n. /\ n = Len(jobs) + 1 /\ jobs'[n].status = "queued" /\ ~jobs'[n].event
        /\ jobs'[n].chain_edge = 0 /\ \A j \in DOMAIN jobs : jobs'[j] = jobs[j]
    BY <1>a DEF JobAt
  <1>m. PICK m \in Nat \ {0} : m = messages + 1
    BY SteadyTypes
  <1>3. work' = [Idle EXCEPT !.pc = "attempt", !.job = p, !.new = n, !.message = m,
                             !.then = "register"]
    BY <1>n, <1>m, <1>p DEF SubmitChain
  <1>4. /\ work'.pc = "attempt" /\ work'.new = n /\ work'.message # 0
        /\ work'.then = "register" /\ work'.after = "idle" /\ work'.job = p
    BY <1>3, IdleWork DEF Work
  <1>5. jobs'[p].status = "running" /\ \A e \in DOMAIN edges' : Parent(e)' # p
    BY <1>1, <1>n, <1>p DEF Parent
  <1>6. HandlerOK'
    BY <1>n, <1>3, <1>4, <1>5 DEF HandlerOK, At, Recording, Ending, Replied
  <1> QED BY <1>2, <1>6

(* The attempt and the event.                                              *)

\* The step writes the attempt of the job being recorded, or finds it.
AttemptWritten ==
    LET n == work.new
    IN /\ n \in DOMAIN jobs /\ DOMAIN jobs' = DOMAIN jobs
       /\ \A k \in DOMAIN jobs : k # n => jobs'[k] = jobs[k]
       /\ JobKept(n) /\ jobs'[n].event = jobs[n].event /\ jobs'[n].status = jobs[n].status
       /\ jobs[n].message # 0 => jobs' = jobs
       /\ jobs[n].message = 0 =>
            /\ jobs'[n].message = work.message
            /\ jobs'[n].retry_index = next_retry_index(work.message)
       /\ UNCHANGED <<edges, replies, messages>>

(* record_submission and record_retry_attempt write the attempt once.      *)
LEMMA AttemptEffect ==
    ASSUME Steady, RecordAttempt
    PROVE  AttemptWritten
  <1>n. PICK n : n = work.new
    OBVIOUS
  <1>0. Types /\ n \in DOMAIN jobs
    BY <1>n, SteadyTypes DEF RecordAttempt, WorkOK
  <1>1. CASE jobs[n].message # 0
    <2>1. jobs' = jobs /\ UNCHANGED <<edges, replies, messages>>
      BY <1>1, <1>n DEF RecordAttempt
    <2> QED BY <1>0, <1>1, <1>n, <2>1 DEF AttemptWritten, JobKept
  <1>2. CASE jobs[n].message = 0
    <2>i. PICK i, m : i = next_retry_index(work.message) /\ m = work.message
      OBVIOUS
    <2>1. /\ jobs' = [jobs EXCEPT ![n].message = m, ![n].retry_index = i]
          /\ UNCHANGED <<edges, replies, messages>>
      BY <1>2, <1>n, <2>i DEF RecordAttempt
    <2>2. /\ DOMAIN jobs' = DOMAIN jobs
          /\ \A k \in DOMAIN jobs : k # n => jobs'[k] = jobs[k]
          /\ JobKept(n) /\ jobs'[n].message = m
          /\ jobs'[n].event = jobs[n].event /\ jobs'[n].status = jobs[n].status
          /\ jobs'[n].retry_index = i
      <3>1. jobs[n] \in Job
        BY <1>0, Fields
      <3>2. /\ DOMAIN jobs' = DOMAIN jobs
            /\ jobs'[n] = [jobs[n] EXCEPT !.message = m, !.retry_index = i]
            /\ \A k \in DOMAIN jobs : k # n => jobs'[k] = jobs[k]
        BY <1>0, <2>1 DEF Types
      <3> QED BY <3>1, <3>2 DEF Job, JobKept
    <2> QED BY <1>0, <1>2, <1>n, <2>i, <2>1, <2>2 DEF AttemptWritten
  <1> QED BY <1>1, <1>2

(* The handler's fields after the attempt was written.                     *)
LEMMA AttemptWork ==
    ASSUME Steady, RecordAttempt
    PROVE  /\ At("attempt") /\ work'.pc = "event" /\ work'.job = work.job
           /\ work'.edge = work.edge /\ work'.new = work.new /\ work'.message = work.message
           /\ work'.notice = work.notice /\ work'.then = work.then
           /\ work'.after = work.after
  BY SteadyTypes, GotoFields DEF RecordAttempt, Labels

(* The attempt puts the job on the message the handler names.              *)
LEMMA RecordAttemptSteady ==
    ASSUME Steady, RecordAttempt
    PROVE  Lines' /\ HandlerOK'
  <1>n. PICK n : n = work.new
    OBVIOUS
  <1>1. /\ n \in DOMAIN jobs /\ DOMAIN jobs' = DOMAIN jobs
        /\ \A k \in DOMAIN jobs : k # n => jobs'[k] = jobs[k]
        /\ JobKept(n) /\ jobs'[n].event = jobs[n].event /\ jobs'[n].status = jobs[n].status
        /\ jobs'[n].message = IF jobs[n].message # 0 THEN jobs[n].message ELSE work.message
        /\ UNCHANGED <<edges, replies, messages>>
    BY <1>n, AttemptEffect DEF AttemptWritten
  <1>2. /\ At("attempt") /\ work.message # 0
        /\ jobs[n].chain_edge # 0 =>
             work.message = edges[jobs[n].chain_edge].parent_message
        /\ ~jobs[n].event /\ jobs[n].status = "queued"
    BY <1>n, AttemptWork DEF Steady, HandlerOK
  <1>3. Lines'
    <2>1. jobs[n].chain_edge # 0 =>
            jobs'[n].message \in {0, edges[jobs[n].chain_edge].parent_message}
      BY <1>1, <1>2, SteadyTypes DEF Lines, JobLines, FollowsParent
    <2>2. jobs'[n].event => jobs'[n].message # 0
      BY <1>1, <1>2
    <2>3. (job_is_outstanding(n))' => job_is_outstanding(n)
      BY <1>1 DEF job_is_outstanding
    <2> QED BY <1>1, <1>2, <2>1, <2>2, <2>3, SteadyTypes, LinesRewritten
  <1>4. HandlerOK'
    <2>1. \A k \in DOMAIN jobs : jobs'[k].status = jobs[k].status
      BY <1>1
    <2>2. work.job = n => work.after # "done"
      BY <1>2 DEF Steady, HandlerOK, Ended
    <2>3. work.after = "done" \/ work.then = "register" => work.job \in DOMAIN jobs
      BY SteadyTypes DEF WorkOK
    <2>4. work.after = "done" => jobs'[work.job] = jobs[work.job]
      BY <1>1, <2>2, <2>3
    <2>5. \A r, m : IsAnswer(r, m)' <=> IsAnswer(r, m)
      BY <1>1 DEF IsAnswer
    <2>6. \A e \in DOMAIN edges : Parent(e)' = Parent(e)
      BY <1>1 DEF Parent
    <2> QED BY <1>n, <1>1, <1>2, <2>1, <2>3, <2>4, <2>5, <2>6, AttemptWork
            DEF Steady, HandlerOK, At, Recording, Ending, Replied
  <1> QED BY <1>3, <1>4

(* The event, and where the handler goes on.                               *)
LEMMA EventEffect ==
    ASSUME Steady, RecordEvent
    PROVE  /\ At("event") /\ work.new \in DOMAIN jobs /\ DOMAIN jobs' = DOMAIN jobs
           /\ \A k \in DOMAIN jobs : k # work.new => jobs'[k] = jobs[k]
           /\ JobKept(work.new) /\ jobs'[work.new].message = jobs[work.new].message
           /\ jobs'[work.new].event /\ jobs'[work.new].status = jobs[work.new].status
           /\ UNCHANGED <<edges, replies, messages>>
           /\ work.then = "idle" => work' = Idle
           /\ work.then # "idle" =>
                /\ work'.pc = work.then /\ work.then \in {"register", "cont_edge"}
                /\ work'.job = work.job /\ work'.edge = work.edge /\ work'.new = work.new
                /\ work'.message = work.message /\ work'.then = work.then
                /\ work'.after = work.after
  <1>n. PICK n : n = work.new
    OBVIOUS
  <1>1. /\ Types /\ n \in DOMAIN jobs /\ At("event") /\ Goto(work.then)
        /\ jobs' = [jobs EXCEPT ![n].event = TRUE] /\ UNCHANGED <<edges, replies, messages>>
        /\ work \in Work /\ work.then \in {"idle", "register", "cont_edge"}
    BY <1>n, SteadyTypes DEF RecordEvent, WorkOK
  <1>2. /\ DOMAIN jobs' = DOMAIN jobs
        /\ \A k \in DOMAIN jobs : k # n => jobs'[k] = jobs[k]
        /\ JobKept(n) /\ jobs'[n].message = jobs[n].message
        /\ jobs'[n].event = TRUE /\ jobs'[n].status = jobs[n].status
    BY <1>1, EventFields, Zenon
  <1>3. work.then = "idle" => work' = Idle
    BY <1>1 DEF Goto
  <1>4. work.then # "idle" =>
                /\ work'.pc = work.then /\ work.then \in {"register", "cont_edge"}
                /\ work'.job = work.job /\ work'.edge = work.edge /\ work'.new = work.new
                /\ work'.message = work.message /\ work'.then = work.then
                /\ work'.after = work.after
    BY <1>1, GotoFields DEF Labels
  <1> QED BY <1>n, <1>1, <1>2, <1>3, <1>4

(* The event comes after the attempt.                                      *)
LEMMA RecordEventSteady ==
    ASSUME Steady, RecordEvent
    PROVE  Lines' /\ HandlerOK'
  <1>n. PICK n : n = work.new
    OBVIOUS
  <1>1. /\ n \in DOMAIN jobs /\ DOMAIN jobs' = DOMAIN jobs /\ edges' = edges
        /\ \A k \in DOMAIN jobs : k # n => jobs'[k] = jobs[k]
        /\ JobKept(n) /\ jobs'[n].message = jobs[n].message /\ jobs'[n].event
        /\ jobs'[n].status = jobs[n].status /\ replies' = replies
    BY <1>n, EventEffect
  <1>2. jobs[n].message # 0 /\ jobs[n].status = "queued" /\ At("event")
    BY <1>n, EventEffect DEF Steady, HandlerOK
  <1>3. Lines'
    <2>1. jobs[n].chain_edge # 0 =>
            jobs'[n].message \in {0, edges[jobs[n].chain_edge].parent_message}
      BY <1>1, SteadyTypes DEF Lines, JobLines, FollowsParent
    <2>2. (job_is_outstanding(n))' => job_is_outstanding(n)
      BY <1>1 DEF job_is_outstanding
    <2> QED BY <1>1, <1>2, <2>1, <2>2, SteadyTypes, LinesRewritten
  <1>4. HandlerOK'
    <2>1. CASE work.then = "idle"
      BY <2>1, EventEffect, IdleSteady
    <2>2. CASE work.then # "idle"
      <3>1. \A k \in DOMAIN jobs : /\ jobs'[k].status = jobs[k].status
                                   /\ jobs'[k].message = jobs[k].message
        BY <1>1
      <3>2. work.after = "done" \/ work.then = "register" => work.job \in DOMAIN jobs
        BY SteadyTypes DEF WorkOK
      <3>3. \A r, m : IsAnswer(r, m)' <=> IsAnswer(r, m)
        BY <1>1 DEF IsAnswer
      <3>4. \A e \in DOMAIN edges : Parent(e)' = Parent(e)
        BY <1>1 DEF Parent
      <3> QED BY <1>1, <1>2, <2>2, <3>1, <3>2, <3>3, <3>4, EventEffect
              DEF Steady, HandlerOK, At, Recording, Ending, Replied
    <2> QED BY <2>1, <2>2
  <1> QED BY <1>3, <1>4

(* The edge of a running job that has none.                                *)
LEMMA RegisterEffect ==
    ASSUME Steady, RegisterEdge
    PROVE  /\ work.job \in DOMAIN jobs /\ jobs[work.job].status = "running"
           /\ \A e \in DOMAIN edges : Parent(e) # work.job
           /\ UNCHANGED <<jobs, replies, messages>> /\ work' = Idle /\ At("register")
           /\ \E n \in Nat \ {0} :
                /\ n = Len(edges) + 1 /\ n \notin DOMAIN edges
                /\ DOMAIN edges' = DOMAIN edges \cup {n}
                /\ \A e \in DOMAIN edges : edges'[e] = edges[e]
                /\ edges'[n].parent_job = work.job
                /\ edges'[n].parent_message = jobs[work.job].message
                /\ edges'[n].state = "pending"
  <1>1. /\ Recording("register") /\ At("register") /\ Types
        /\ work.job \in DOMAIN jobs
    BY SteadyTypes DEF RegisterEdge, WorkOK, Recording
  <1>2. jobs[work.job].status = "running" /\ \A e \in DOMAIN edges : Parent(e) # work.job
    BY <1>1 DEF Steady, HandlerOK
  <1>3. PICK r : /\ edges' = Append(edges, r) /\ r.parent_job = work.job
                 /\ r.parent_message = jobs[work.job].message /\ r.state = "pending"
    BY DEF RegisterEdge
  <1>n. PICK n \in Nat \ {0} : n = Len(edges) + 1
    BY <1>1 DEF Types
  <1>4. /\ n \notin DOMAIN edges /\ DOMAIN edges' = DOMAIN edges \cup {n}
        /\ \A e \in DOMAIN edges : edges'[e] = edges[e]
        /\ edges'[n] = r
    BY <1>1, <1>3, <1>n DEF Types
  <1>5. UNCHANGED <<jobs, replies, messages>> /\ work' = Idle
    BY DEF RegisterEdge, Goto
  <1> QED BY <1>1, <1>2, <1>3, <1>4, <1>5, <1>n

(* The parent is still running, so it has one edge now.                    *)
LEMMA RegisterEdgeSteady ==
    ASSUME Steady, RegisterEdge
    PROVE  Lines' /\ HandlerOK'
  <1>p. PICK p \in DOMAIN jobs : /\ p = work.job /\ jobs[p].status = "running"
                                 /\ \A e \in DOMAIN edges : Parent(e) # p
    BY RegisterEffect
  <1>n. PICK n \in Nat \ {0} :
                /\ n = Len(edges) + 1 /\ n \notin DOMAIN edges
                /\ DOMAIN edges' = DOMAIN edges \cup {n}
                /\ \A e \in DOMAIN edges : edges'[e] = edges[e]
                /\ edges'[n].parent_job = p /\ edges'[n].parent_message = jobs[p].message
    BY <1>p, RegisterEffect
  <1>1. jobs' = jobs /\ work' = Idle
    BY RegisterEffect
  <1>2. jobs[p].event
    BY <1>p, SteadyTypes, StartedRecorded
  <1>3. ParentsOK'
    BY <1>p, <1>n, <1>1, <1>2, SteadyTypes DEF ParentsOK, Parent
  <1>4. \A j \in DOMAIN jobs : jobs[j].chain_edge # 0 => jobs[j].chain_edge \in DOMAIN edges
    BY SteadyTypes, ChainEdge
  <1>5. JobLines'
    BY <1>n, <1>1, <1>4, SteadyTypes
    DEF Lines, JobLines, FollowsParent, Parent, job_is_outstanding
  <1> QED BY <1>1, <1>3, <1>5, IdleSteady DEF Lines

(* A job starts, or ends, after the parent of the edge it continues.       *)
LEMMA HeadFollows ==
    ASSUME Steady, NEW j \in DOMAIN jobs, jobs[j].status = "running" \/ owns_mailbox_head(j),
           jobs[j].chain_edge # 0
    PROVE  ~job_is_outstanding(Parent(jobs[j].chain_edge))
  <1>e. PICK e \in DOMAIN edges : e = jobs[j].chain_edge
    BY SteadyTypes, ChainEdge
  <1>1. FollowsParent(j)
    BY SteadyTypes DEF Lines, JobLines
  <1>2. CASE jobs[j].status = "running"
    BY <1>1, <1>2 DEF FollowsParent
  <1>3. CASE owns_mailbox_head(j)
    <2>p. PICK p \in DOMAIN jobs : p = Parent(e) /\ jobs[p].event /\ p \in Nat /\ j \in Nat
      BY SteadyTypes, EdgeParent, Fields
    <2>1. p < j /\ jobs[p].agent = jobs[j].agent
      BY <1>e, <1>1, <2>p DEF FollowsParent
    <2>2. p \in 1 .. j - 1
      BY <2>p, <2>1, SteadyTypes, Fields
    <2>3. jobs[p].status \in Ended
      BY <1>3, <2>p, <2>1, <2>2 DEF owns_mailbox_head
    <2> QED BY <1>e, <2>p, <2>3 DEF job_is_outstanding, Ended
  <1> QED BY <1>2, <1>3

(* The status of a job changes.                                            *)
LEMMA LinesStatus ==
    ASSUME Steady, NEW j \in DOMAIN jobs, NEW status \in {"running"} \cup Ended,
           jobs[j].status \in {"queued", "running"},
           jobs' = [jobs EXCEPT ![j].status = status], edges' = edges,
           \/ status = "cancelled"
           \/ jobs[j].status = "running" \/ owns_mailbox_head(j)
    PROVE  /\ Lines' /\ DOMAIN jobs' = DOMAIN jobs
           /\ \A k \in DOMAIN jobs : k # j => jobs'[k] = jobs[k]
           /\ JobKept(j) /\ jobs'[j].message = jobs[j].message
           /\ jobs'[j].event = jobs[j].event /\ jobs'[j].status = status
  <1>1. /\ DOMAIN jobs' = DOMAIN jobs
        /\ \A k \in DOMAIN jobs : k # j => jobs'[k] = jobs[k]
        /\ JobKept(j) /\ jobs'[j].message = jobs[j].message
        /\ jobs'[j].event = jobs[j].event /\ jobs'[j].status = status
    BY SteadyTypes, StatusFields
  <1>2. jobs[j].chain_edge # 0 =>
            jobs'[j].message \in {0, edges[jobs[j].chain_edge].parent_message}
    BY <1>1, SteadyTypes DEF Lines, JobLines, FollowsParent
  <1>3. jobs'[j].event => jobs'[j].message # 0
    BY <1>1, SteadyTypes DEF Lines, JobLines
  <1>4. job_is_outstanding(j) /\ status # "queued"
    BY DEF job_is_outstanding, Ended
  <1>5. status = "cancelled" \/
            (jobs[j].chain_edge # 0 => ~job_is_outstanding(Parent(jobs[j].chain_edge)))
    BY HeadFollows
  <1> HIDE DEF Ended
  <1>6. Lines'
    BY <1>1, <1>2, <1>3, <1>4, <1>5, SteadyTypes, LinesRewritten
  <1> QED BY <1>1, <1>6

(* The head of a mailbox has no parent that is outstanding.                *)
LEMMA StartSteady ==
    ASSUME Steady, NEW j \in DOMAIN jobs, Start(j)
    PROVE  Lines' /\ HandlerOK'
  <1>0. /\ jobs[j].status = "queued" /\ jobs[j].event /\ owns_mailbox_head(j)
        /\ jobs' = [jobs EXCEPT ![j].status = "running"]
        /\ UNCHANGED <<edges, replies, work>>
    BY DEF Start, owns_mailbox_head
  <1>1. /\ Lines' /\ DOMAIN jobs' = DOMAIN jobs
        /\ \A k \in DOMAIN jobs : k # j => jobs'[k] = jobs[k]
        /\ JobKept(j) /\ jobs'[j].message = jobs[j].message
        /\ jobs'[j].event = jobs[j].event /\ jobs'[j].status = "running"
    BY <1>0, LinesStatus
  <1>2. At("attempt") \/ At("event") => work.new # j /\ work.new \in DOMAIN jobs
    BY <1>0, SteadyTypes DEF HandlerOK, WorkOK
  <1>3. work.after = "done" \/ work.then = "register" \/ Ending => work.job \in DOMAIN jobs
    BY SteadyTypes DEF WorkOK
  <1>4. work.after = "done" \/ Recording("register") \/ Ending => work.job # j
    BY <1>0, <1>3, SteadyTypes DEF HandlerOK, Ended
  <1>5. work.after = "done" \/ Recording("register") \/ Ending => jobs'[work.job] = jobs[work.job]
    BY <1>1, <1>3, <1>4 DEF Recording
  <1>6. /\ \A r, m : IsAnswer(r, m)' <=> IsAnswer(r, m)
        /\ \A k : Delegates(k)' <=> Delegates(k)
        /\ \A e : Parent(e)' = Parent(e)
    BY <1>0 DEF IsAnswer, Delegates, Parent
  <1>7. HandlerOK'
    BY <1>0, <1>1, <1>2, <1>3, <1>5, <1>6
    DEF Steady, HandlerOK, At, Recording, Ending, Replied
  <1> QED BY <1>1, <1>7

\* A step that ends job j.
JobEnds(j, status) ==
    /\ jobs[j].status \in {"queued", "running"} /\ Lines' /\ DOMAIN jobs' = DOMAIN jobs
    /\ \A k \in DOMAIN jobs : k # j => jobs'[k] = jobs[k]
    /\ JobKept(j) /\ jobs'[j].message = jobs[j].message
    /\ jobs'[j].event = jobs[j].event /\ jobs'[j].status = status
    /\ UNCHANGED <<edges, replies, messages>> /\ At("idle")
    /\ work'.pc = IF status = "cancelled" THEN "cancel_edge" ELSE "result"
    /\ work'.job = j /\ work'.then = "idle" /\ work'.after = "done"
    /\ status # "cancelled" => ~work'.notice

(* The ends of a job.                                                      *)
LEMMA EndEffect ==
    ASSUME Steady, NEW j \in DOMAIN jobs,
           \/ Complete(j) \/ CompleteRetryable(j)
           \/ \E notice \in BOOLEAN : Cancel(j, notice)
    PROVE  \E status \in Ended : JobEnds(j, status)
  <1>0. jobs[j].event \/ jobs[j].status \in {"queued", "cancelled"}
    BY SteadyTypes DEF Durable, JobsOK
  <1>1. ASSUME NEW status \in {"completed", "failed"}, NEW retryable \in BOOLEAN,
               jobs[j].status = "running" \/ owns_mailbox_head(j), At("idle"),
               EndJob(j, status, retryable)
        PROVE  \E s \in Ended : JobEnds(j, s)
    <2>1. /\ jobs[j].status \in {"queued", "running"} /\ status \in Ended
          /\ jobs' = [jobs EXCEPT ![j].status = status] /\ UNCHANGED <<edges, replies, messages>>
      BY <1>0, <1>1 DEF owns_mailbox_head, Ended, EndJob
    <2>2. /\ Lines' /\ DOMAIN jobs' = DOMAIN jobs
          /\ \A k \in DOMAIN jobs : k # j => jobs'[k] = jobs[k]
          /\ JobKept(j) /\ jobs'[j].message = jobs[j].message
          /\ jobs'[j].event = jobs[j].event /\ jobs'[j].status = status
      BY <1>1, <2>1, LinesStatus
    <2>3. work' = [Idle EXCEPT !.pc = "result", !.job = j, !.retryable = retryable,
                               !.after = "done"]
      BY <1>1 DEF EndJob
    <2>4. /\ work'.pc = "result" /\ work'.job = j /\ ~work'.notice
          /\ work'.then = "idle" /\ work'.after = "done"
      BY <2>3 DEF Idle
    <2> QED BY <1>1, <2>1, <2>2, <2>4 DEF JobEnds
  <1>2. ASSUME NEW notice \in BOOLEAN, Cancel(j, notice)
        PROVE  \E s \in Ended : JobEnds(j, s)
    <2>1. /\ jobs[j].status \in {"queued", "running"} /\ "cancelled" \in Ended /\ At("idle")
          /\ jobs' = [jobs EXCEPT ![j].status = "cancelled"]
          /\ UNCHANGED <<edges, replies, messages>>
      BY <1>2, Zenon DEF Cancel, job_is_outstanding, Ended
    <2>2. /\ Lines' /\ DOMAIN jobs' = DOMAIN jobs
          /\ \A k \in DOMAIN jobs : k # j => jobs'[k] = jobs[k]
          /\ JobKept(j) /\ jobs'[j].message = jobs[j].message
          /\ jobs'[j].event = jobs[j].event /\ jobs'[j].status = "cancelled"
      BY <2>1, LinesStatus
    <2>3. work' = [Idle EXCEPT !.pc = "cancel_edge", !.job = j, !.notice = notice,
                               !.after = "done"]
      BY <1>2, Zenon DEF Cancel
    <2>4. /\ work'.pc = "cancel_edge" /\ work'.job = j
          /\ work'.then = "idle" /\ work'.after = "done"
      BY <2>3 DEF Idle
    <2> QED BY <2>1, <2>2, <2>4 DEF JobEnds
  <1> QED BY <1>1, <1>2 DEF Complete, CompleteRetryable

(* The handler knows the status with which the job has ended.              *)
LEMMA EndsSteady ==
    ASSUME Steady, NEW j \in DOMAIN jobs,
           \/ Complete(j) \/ CompleteRetryable(j)
           \/ \E notice \in BOOLEAN : Cancel(j, notice)
    PROVE  Lines' /\ HandlerOK'
  <1>1. PICK status \in Ended : JobEnds(j, status)
    BY EndEffect
  <1>2. HandlerOK'
    BY <1>1 DEF JobEnds, HandlerOK, At, Recording, Ending, Replied, Ended
  <1> QED BY <1>1, <1>2 DEF JobEnds

(* The decision: a job that waits for its child gives no reply.            *)
LEMMA ResultEffect ==
    ASSUME Steady, Result
    PROVE  /\ At("result") /\ UNCHANGED <<jobs, edges, replies, messages>>
           /\ \/ work' = Idle
              \/ /\ work'.pc \in {"retry", "reply"} /\ ~Delegates(work.job)
                 /\ work'.job = work.job /\ work'.notice = work.notice
                 /\ work'.then = work.then /\ work'.after = work.after
  <1>1. /\ At("result") /\ UNCHANGED <<jobs, edges, replies, messages>>
        /\ Goto("idle") \/ (~delegated(work.job) /\ (Goto("retry") \/ Goto("reply")))
    BY DEF Result, durable
  <1>2. Goto("idle") => work' = Idle
    BY DEF Goto
  <1>3. ASSUME NEW pc \in {"retry", "reply"}, Goto(pc)
        PROVE  /\ work'.pc = pc /\ work'.job = work.job /\ work'.notice = work.notice
               /\ work'.then = work.then /\ work'.after = work.after
    BY <1>3, SteadyTypes, GotoFields DEF Labels
  <1>4. delegated(work.job) <=> Delegates(work.job)
    BY SteadyTypes, EdgeOutOf
  <1> QED BY <1>1, <1>2, <1>3, <1>4

(* A job that goes on to a retry or to its reply has no open edge.         *)
LEMMA ResultSteady ==
    ASSUME Steady, Result
    PROVE  Lines' /\ HandlerOK'
  <1>1. At("result") /\ UNCHANGED <<jobs, edges, replies>>
    BY ResultEffect
  <1>2. Lines'
    BY <1>1, SteadyTypes, LinesKept DEF EdgesKept
  <1>3. CASE work' = Idle
    BY <1>2, <1>3, IdleSteady
  <1>4. CASE work' # Idle
    <2>1. /\ work'.pc \in {"retry", "reply"} /\ ~Delegates(work.job)
          /\ work'.job = work.job /\ work'.notice = work.notice
          /\ work'.then = work.then /\ work'.after = work.after
      BY <1>4, ResultEffect
    <2>2. Delegates(work.job)' <=> Delegates(work'.job)
      BY <1>1 DEF Delegates, Parent
    <2>3. /\ jobs[work.job].status \in {"completed", "failed"} /\ ~work.notice
          /\ work.after = "done"
      BY <1>1 DEF Steady, HandlerOK, Ending
    <2>4. HandlerOK'
      BY <1>1, <2>1, <2>2, <2>3 DEF HandlerOK, At, Recording, Ending, Replied, Ended
    <2> QED BY <1>2, <2>4
  <1> QED BY <1>3, <1>4

(* A job that has ended without delegating is submitted again.             *)
LEMMA RetryEffect ==
    ASSUME Steady, RetryJob
    PROVE  /\ At("retry") /\ work.job \in DOMAIN jobs
           /\ jobs[work.job].status \in {"completed", "failed"}
           /\ jobs[work.job].message # 0 /\ ~Delegates(work.job)
           /\ UNCHANGED <<edges, replies, messages>>
           /\ \E n \in Nat \ {0} :
                /\ JobAt(n, jobs[work.job].agent, jobs[work.job].chain_edge, TRUE)
                /\ work'.pc = "attempt" /\ work'.new = n /\ work'.then = "idle"
                /\ work'.message = jobs[work.job].message
                /\ work'.job = work.job /\ work'.after = work.after
  <1>j. PICK j \in DOMAIN jobs : j = work.job
    BY SteadyTypes DEF RetryJob, WorkOK, Ending
  <1>1. /\ At("retry") /\ jobs[j].status \in {"completed", "failed"} /\ ~Delegates(j)
    BY <1>j DEF RetryJob, Steady, HandlerOK
  <1>2. jobs[j].message # 0
    BY <1>1, SteadyTypes, StartedRecorded
  <1>3. /\ jobs' = Append(jobs, NewJob(jobs[j].agent, jobs[j].from_actor,
                                       jobs[j].chain_edge, TRUE))
        /\ UNCHANGED <<edges, replies, messages>>
    BY <1>j DEF RetryJob
  <1>n. PICK n \in Nat \ {0} : JobAt(n, jobs[j].agent, jobs[j].chain_edge, TRUE)
    BY <1>3, SteadyTypes, JobAdded, Zenon
  <1>m. PICK m \in Nat : m = jobs[j].message
    BY SteadyTypes, Fields
  <1>4. n = Len(jobs) + 1
    BY <1>n DEF JobAt
  <1>5. work' = [work EXCEPT !.pc = "attempt", !.new = n, !.message = m, !.then = "idle"]
    BY <1>j, <1>m, <1>4 DEF RetryJob
  <1>6. /\ work'.pc = "attempt" /\ work'.new = n /\ work'.then = "idle" /\ work'.message = m
        /\ work'.job = work.job /\ work'.after = work.after
    BY <1>5, SteadyTypes DEF Work
  <1> QED BY <1>j, <1>m, <1>n, <1>1, <1>2, <1>3, <1>6

(* A retry continues the edge of the job it retries.                       *)
LEMMA RetryJobSteady ==
    ASSUME Steady, RetryJob
    PROVE  Lines' /\ HandlerOK'
  <1>j. PICK j \in DOMAIN jobs : j = work.job
    BY RetryEffect
  <1>c. PICK c : c = jobs[j].chain_edge
    OBVIOUS
  <1>1. /\ At("retry") /\ jobs[j].status \in {"completed", "failed"} /\ jobs[j].message # 0
        /\ edges' = edges /\ jobs[j].retried \in BOOLEAN
    BY <1>j, RetryEffect, SteadyTypes, Fields
  <1>n. PICK n \in Nat \ {0} :
                /\ JobAt(n, jobs[j].agent, c, TRUE)
                /\ work'.pc = "attempt" /\ work'.new = n /\ work'.then = "idle"
                /\ work'.message = jobs[j].message
                /\ work'.job = j /\ work'.after = work.after
    BY <1>j, <1>c, RetryEffect
  <1>2. c # 0 => /\ c \in DOMAIN edges /\ jobs[j].agent = jobs[Parent(c)].agent
                 /\ ~job_is_outstanding(Parent(c)) /\ jobs[j].message = edges[c].parent_message
                 /\ \A k \in DOMAIN jobs :
                        jobs[k].chain_edge = c /\ ~jobs[k].retried => jobs[k].message # 0
    <2>1. CASE c # 0
      <3>1. c \in DOMAIN edges /\ FollowsParent(j)
        BY <1>c, <2>1, SteadyTypes, ChainEdge DEF Lines, JobLines
      <3>2. ~jobs[j].retried => \A k \in DOMAIN jobs :
                jobs[k].chain_edge = c /\ ~jobs[k].retried => k = j
        BY <1>c, <2>1, SteadyTypes DEF Durable, OneEach
      <3> QED BY <1>c, <1>1, <3>1, <3>2 DEF FollowsParent
    <2> QED BY <2>1
  <1>3. Lines'
    <2>1. jobs' = Append(jobs, NewJob(jobs[j].agent, jobs[j].from_actor, c, TRUE))
      BY <1>j, <1>c DEF RetryJob
    <2> QED BY <1>1, <1>2, <2>1, SteadyTypes, LinesAppend
  <1>4. HandlerOK'
    <2>1. /\ jobs'[n].status = "queued" /\ ~jobs'[n].event /\ jobs'[n].chain_edge = c
          /\ jobs'[n].retried /\ jobs'[j] = jobs[j]
      BY <1>n DEF JobAt
    <2> QED BY <1>n, <1>1, <1>2, <2>1 DEF HandlerOK, At, Recording, Ending, Replied, Ended
  <1> QED BY <1>3, <1>4

(* The edge of a cancelled job is closed.                                  *)
LEMMA CancelEdgeEffect ==
    ASSUME Steady, CancelEdge
    PROVE  /\ At("cancel_edge") /\ work.job \in DOMAIN jobs
           /\ jobs[work.job].status = "cancelled" /\ work.after = "done"
           /\ UNCHANGED <<jobs, replies, messages>>
           /\ \/ edges' = edges
              \/ \E e \in DOMAIN edges : /\ Parent(e) = work.job /\ edges[e].state \notin Closed
                                         /\ StateAt(e, "failed")
           /\ work'.pc = "reply" /\ work'.job = work.job /\ work'.then = work.then
           /\ work'.after = work.after
  <1>1. /\ At("cancel_edge") /\ work.job \in DOMAIN jobs
        /\ jobs[work.job].status = "cancelled" /\ work.after = "done"
        /\ UNCHANGED <<jobs, replies, messages>> /\ Goto("reply")
    BY SteadyTypes DEF CancelEdge, HandlerOK, WorkOK, Ending
  <1>2. /\ work'.pc = "reply" /\ work'.job = work.job /\ work'.then = work.then
        /\ work'.after = work.after
    BY <1>1, SteadyTypes, GotoFields DEF Labels
  <1>e. PICK e : e = delegated_parent_edge(work.job)
    OBVIOUS
  <1>3. CASE e # 0 /\ terminalizes(e)
    <2>1. /\ e \in DOMAIN edges /\ Parent(e) = work.job
          /\ edges[e].state \notin TERMINAL_CALLBACK_STATES
          /\ edges' = [edges EXCEPT ![e].state = "failed"]
      BY <1>e, <1>3, SteadyTypes, EdgeOutOf DEF CancelEdge, terminalizes
    <2>2. StateAt(e, "failed")
      BY <2>1, SteadyTypes, StateFields
    <2> QED BY <1>1, <1>2, <2>1, <2>2 DEF TERMINAL_CALLBACK_STATES
  <1>4. CASE ~(e # 0 /\ terminalizes(e))
    <2>1. edges' = edges
      BY <1>e, <1>4 DEF CancelEdge
    <2> QED BY <1>1, <1>2, <2>1
  <1> QED BY <1>3, <1>4

(* The handler goes on to the reply of a cancelled job.                    *)
LEMMA CancelEdgeSteady ==
    ASSUME Steady, CancelEdge
    PROVE  Lines' /\ HandlerOK'
  <1>1. Lines'
    BY CancelEdgeEffect, SteadyTypes, LinesKept DEF EdgesKept, StateAt
  <1>2. HandlerOK'
    BY CancelEdgeEffect DEF HandlerOK, At, Recording, Ending, Replied, Ended
  <1> QED BY <1>1, <1>2

(* The reply of a job that has one.                                        *)
LEMMA ReplyEffect ==
    ASSUME Steady, RecordReply
    PROVE  /\ At("reply") /\ work.job \in DOMAIN jobs /\ work.after = "done"
           /\ jobs[work.job].status \in Ended
           /\ jobs[work.job].status = "cancelled" \/ (~Delegates(work.job) /\ ~work.notice)
           /\ UNCHANGED <<jobs, edges, messages>>
           /\ work'.pc \in {"done", "continue"} /\ work'.job = work.job
           /\ work'.then = work.then /\ work'.after = "done"
           /\ jobs[work.job].message = 0 => replies' = replies
           /\ jobs[work.job].message # 0 => \E n \in Nat \ {0} :
                /\ n \notin DOMAIN replies /\ DOMAIN replies' = DOMAIN replies \cup {n}
                /\ \A r \in DOMAIN replies : replies'[r] = replies[r]
                /\ replies'[n].message = jobs[work.job].message
                /\ replies'[n].notice = work.notice
  <1>1. /\ At("reply") /\ work.job \in DOMAIN jobs /\ work.after = "done"
        /\ jobs[work.job].status \in Ended /\ UNCHANGED <<jobs, edges, messages>>
        /\ jobs[work.job].status = "cancelled" \/ (~Delegates(work.job) /\ ~work.notice)
    BY SteadyTypes DEF RecordReply, HandlerOK, WorkOK, Ending
  <1>e. PICK e, n : /\ e = callback_child_edge(work.job)
                    /\ n = IF jobs[work.job].message # 0 THEN Len(replies) + 1 ELSE 0
    OBVIOUS
  <1>p. PICK pc \in {"done", "continue"} : pc = IF e = 0 THEN "done" ELSE "continue"
    OBVIOUS
  <1>2. work' = [work EXCEPT !.pc = pc, !.edge = e, !.reply = n]
    BY <1>e, <1>p DEF RecordReply
  <1>3. /\ work'.pc = pc /\ work'.job = work.job
        /\ work'.then = work.then /\ work'.after = work.after
    BY <1>2, SteadyTypes DEF Work
  <1>4. jobs[work.job].message = 0 => replies' = replies
    BY DEF RecordReply
  <1>5. ASSUME jobs[work.job].message # 0
        PROVE  \E k \in Nat \ {0} :
                /\ k \notin DOMAIN replies /\ DOMAIN replies' = DOMAIN replies \cup {k}
                /\ \A r \in DOMAIN replies : replies'[r] = replies[r]
                /\ replies'[k].message = jobs[work.job].message
                /\ replies'[k].notice = work.notice
    <2>1. PICK r : /\ replies' = Append(replies, r) /\ r.message = jobs[work.job].message
                   /\ r.notice = work.notice
      BY <1>5 DEF RecordReply
    <2>k. PICK k \in Nat \ {0} : k = Len(replies) + 1
      BY SteadyTypes DEF Types
    <2>2. /\ k \notin DOMAIN replies /\ DOMAIN replies' = DOMAIN replies \cup {k}
          /\ \A i \in DOMAIN replies : replies'[i] = replies[i]
          /\ replies'[k] = r
      BY <2>1, <2>k, SteadyTypes DEF Types
    <2> QED BY <2>1, <2>2
  <1> QED BY <1>1, <1>3, <1>4, <1>5

(* A job that was not cancelled has its answer now.                        *)
LEMMA RecordReplySteady ==
    ASSUME Steady, RecordReply
    PROVE  Lines' /\ HandlerOK'
  <1>1. Lines'
    BY ReplyEffect, SteadyTypes, LinesKept DEF EdgesKept
  <1>j. PICK j \in DOMAIN jobs : j = work.job
    BY ReplyEffect
  <1>2. \/ jobs[j].status = "cancelled"
        \/ \E r \in DOMAIN replies' : IsAnswer(r, jobs[j].message)'
    <2>1. CASE jobs[j].message = 0
      BY <1>j, <2>1, ReplyEffect, SteadyTypes, StartedRecorded DEF Ended
    <2>2. CASE jobs[j].message # 0
      <3>1. PICK n \in DOMAIN replies' : /\ replies'[n].message = jobs[j].message
                                         /\ replies'[n].notice = work.notice
        BY <1>j, <2>2, ReplyEffect
      <3>2. ASSUME ~work.notice
            PROVE  IsAnswer(n, jobs[j].message)'
        BY <3>1, <3>2, ReplyEffect DEF IsAnswer
      <3> QED BY <1>j, <3>2, ReplyEffect
    <2> QED BY <2>1, <2>2
  <1>3. HandlerOK'
    BY <1>j, <1>2, ReplyEffect DEF HandlerOK, At, Recording, Ending, Replied, IsAnswer
  <1> QED BY <1>1, <1>3

(* The edge of a continuation that has ended is closed ...                 *)
LEMMA DoneEffect ==
    ASSUME Steady, MarkDone
    PROVE  /\ At("done") /\ work.job \in DOMAIN jobs /\ work.after = "done"
           /\ jobs[work.job].status \in Ended
           /\ UNCHANGED <<jobs, replies, messages>>
           /\ \/ edges' = edges /\ work' = Idle
              \/ LET e == jobs[work.job].chain_edge
                 IN /\ e # 0 /\ edges[e].state \notin Closed /\ StateAt(e, "done")
                    /\ work'.pc = "prior" /\ work'.edge = e /\ work'.job = work.job
                    /\ work'.then = work.then /\ work'.after = "done"
  <1>1. /\ At("done") /\ work.job \in DOMAIN jobs /\ work.after = "done"
        /\ jobs[work.job].status \in Ended /\ UNCHANGED <<jobs, replies, messages>>
    BY SteadyTypes DEF MarkDone, HandlerOK, WorkOK, Ending
  <1>e. PICK e : e = jobs[work.job].chain_edge
    OBVIOUS
  <1>2. CASE e # 0 /\ edges[e].state \notin Closed
    <2>1. /\ edges' = [edges EXCEPT ![e].state = "done"]
          /\ work' = [work EXCEPT !.pc = "prior", !.edge = e]
      BY <1>2, <1>e DEF MarkDone
    <2>2. e \in DOMAIN edges
      BY <1>1, <1>2, <1>e, SteadyTypes, ChainEdge
    <2>3. StateAt(e, "done")
      BY <2>1, <2>2, SteadyTypes, StateFields
    <2>4. /\ work'.pc = "prior" /\ work'.edge = e /\ work'.job = work.job
          /\ work'.then = work.then /\ work'.after = work.after
      BY <2>1, SteadyTypes DEF Work
    <2> QED BY <1>1, <1>2, <1>e, <2>3, <2>4
  <1>3. CASE ~(e # 0 /\ edges[e].state \notin Closed)
    BY <1>1, <1>3, <1>e DEF MarkDone
  <1> QED BY <1>2, <1>3

(* The edge the handler has closed is the one the job continues.           *)
LEMMA MarkDoneSteady ==
    ASSUME Steady, MarkDone
    PROVE  Lines' /\ HandlerOK'
  <1>1. Lines'
    BY DoneEffect, SteadyTypes, LinesKept DEF EdgesKept, StateAt
  <1>2. CASE work' = Idle
    BY <1>1, <1>2, IdleSteady
  <1>3. CASE work' # Idle
    <2>1. \/ jobs[work.job].status = "cancelled"
          \/ \E r \in DOMAIN replies : IsAnswer(r, jobs[work.job].message)
      BY DoneEffect DEF Steady, HandlerOK, Replied
    <2>2. HandlerOK'
      BY <1>3, <2>1, DoneEffect
      DEF HandlerOK, At, Recording, Ending, Replied, IsAnswer, StateAt
    <2> QED BY <1>1, <2>2
  <1> QED BY <1>2, <1>3

(* ... and, one by one, the earlier ones of its message.                   *)
LEMMA PriorEffect ==
    ASSUME Steady, MarkPrior
    PROVE  /\ At("prior") /\ work.edge \in DOMAIN edges /\ work.job \in DOMAIN jobs
           /\ UNCHANGED <<jobs, replies, messages>>
           /\ \/ edges' = edges /\ work' = Idle
              \/ /\ work' = work
                 /\ \E f \in DOMAIN edges :
                        /\ f # work.edge /\ StateAt(f, "done")
                        /\ edges[f].parent_message = edges[work.edge].parent_message
                        /\ edges[f].state = "continuation_submitted"
  <1> DEFINE E == {f \in DOMAIN edges \ {work.edge} :
                    /\ edges[f].parent_message = edges[work.edge].parent_message
                    /\ edges[f].state = "continuation_submitted"}
  <1>1. /\ At("prior") /\ work.edge \in DOMAIN edges /\ work.job \in DOMAIN jobs
        /\ UNCHANGED <<jobs, replies, messages>>
    BY SteadyTypes DEF MarkPrior, WorkOK, HandlerOK
  <1>2. CASE E = {}
    BY <1>1, <1>2 DEF MarkPrior, Goto
  <1>3. CASE E # {}
    <2>f. PICK f \in E : f = Min(E)
      <3>1. E \in SUBSET Nat
        BY SteadyTypes DEF Types
      <3> QED BY <1>3, <3>1, MinNat
    <2>1. edges' = [edges EXCEPT ![f].state = "done"] /\ work' = work
      BY <1>3, <2>f DEF MarkPrior
    <2>2. StateAt(f, "done")
      BY <2>1, SteadyTypes, StateFields
    <2> QED BY <1>1, <2>1, <2>2
  <1> QED BY <1>2, <1>3

(* The other edges change; the one the job continues stays closed.         *)
LEMMA MarkPriorSteady ==
    ASSUME Steady, MarkPrior
    PROVE  Lines' /\ HandlerOK'
  <1>1. Lines'
    BY PriorEffect, SteadyTypes, LinesKept DEF EdgesKept, StateAt
  <1>2. CASE work' = Idle
    BY <1>1, <1>2, IdleSteady
  <1>3. CASE work' # Idle
    <2>1. /\ work' = work /\ UNCHANGED <<jobs, replies>> /\ At("prior")
          /\ edges'[work.edge].state = edges[work.edge].state
      BY <1>3, PriorEffect DEF StateAt
    <2>2. HandlerOK'
      BY <2>1 DEF Steady, HandlerOK, At, Recording, Ending, Replied, IsAnswer
    <2> QED BY <1>1, <2>2
  <1> QED BY <1>2, <1>3

(* The continuation of an edge that is not closed: a new one is submitted, *)
(* or the one in the store is recorded and linked.                         *)
LEMMA ContinueEffect ==
    ASSUME Steady, Continue
    PROVE  /\ At("continue") /\ work.edge \in DOMAIN edges
           /\ UNCHANGED <<jobs, replies, messages>>
           /\ \/ Goto(work.after) /\ edges' = edges
              \/ /\ edges[work.edge].state \notin TERMINAL_CALLBACK_STATES
                 /\ StateAt(work.edge, "child_completed")
                 /\ work'.pc = "cont_job" /\ work'.job = work.job /\ work'.edge = work.edge
                 /\ work'.after = work.after /\ work'.then = work.then
              \/ \E c \in DOMAIN jobs :
                 /\ edges[work.edge].state \notin TERMINAL_CALLBACK_STATES /\ edges' = edges
                 /\ jobs[c].chain_edge = work.edge
                 /\ work'.pc = IF attempt_missing(c) THEN "attempt" ELSE "cont_edge"
                 /\ work'.message = edges[work.edge].parent_message
                 /\ work'.new = c /\ work'.then = "cont_edge"
                 /\ work'.job = work.job /\ work'.edge = work.edge
                 /\ work'.after = work.after
  <1>e. PICK e \in DOMAIN edges : e = work.edge
    BY SteadyTypes DEF Continue, WorkOK
  <1>c. PICK c : c = existing_continuation(e)
    OBVIOUS
  <1>0. At("continue") /\ UNCHANGED <<jobs, replies, messages>>
    BY DEF Continue
  <1>1. CASE edges[e].state \in TERMINAL_CALLBACK_STATES
    BY <1>0, <1>1, <1>e DEF Continue
  <1>2. CASE edges[e].state \notin TERMINAL_CALLBACK_STATES /\ c = 0
    <2>1. /\ edges' = [edges EXCEPT ![e].state = "child_completed", ![e].child_reply = work.reply]
          /\ Goto("cont_job")
      BY <1>2, <1>c, <1>e DEF Continue
    <2>2. edges[e] \in Edge
      BY SteadyTypes, Fields
    <2>3. /\ DOMAIN edges' = DOMAIN edges
          /\ edges'[e] = [edges[e] EXCEPT !.state = "child_completed", !.child_reply = work.reply]
          /\ \A f \in DOMAIN edges : f # e => edges'[f] = edges[f]
      BY <2>1, SteadyTypes DEF Types
    <2>4. StateAt(e, "child_completed")
      BY <2>2, <2>3 DEF StateAt, EdgesKept, Edge
    <2>5. /\ work'.pc = "cont_job" /\ work'.job = work.job /\ work'.edge = work.edge
          /\ work'.after = work.after /\ work'.then = work.then
      BY <2>1, SteadyTypes, GotoFields DEF Labels
    <2> QED BY <1>0, <1>2, <1>e, <2>4, <2>5
  <1>3. CASE edges[e].state \notin TERMINAL_CALLBACK_STATES /\ c # 0
    <2>1. c \in DOMAIN jobs /\ jobs[c].chain_edge = e
      BY <1>c, <1>3, SteadyTypes, ExistingContinuation
    <2>m. PICK m, pc : /\ m = edges[e].parent_message
                       /\ pc = IF attempt_missing(c) THEN "attempt" ELSE "cont_edge"
      OBVIOUS
    <2>2. /\ work' = [work EXCEPT !.pc = pc, !.new = c, !.message = m, !.then = "cont_edge"]
          /\ edges' = edges
      BY <1>3, <1>c, <1>e, <2>m DEF Continue
    <2>3. /\ work'.pc = pc /\ work'.message = m /\ work'.new = c /\ work'.then = "cont_edge"
          /\ work'.job = work.job /\ work'.edge = work.edge /\ work'.after = work.after
      BY <2>2, SteadyTypes DEF Work
    <2> QED BY <1>0, <1>3, <1>e, <2>m, <2>1, <2>2, <2>3
  <1> QED BY <1>1, <1>2, <1>3

(* What the handler knows of the job that has ended.                       *)
LEMMA EndedJob ==
    ASSUME Steady, Replied, work.after = "done", jobs' = jobs, replies' = replies,
           work'.job = work.job
    PROVE  /\ jobs'[work'.job].status \in Ended
           /\ \/ jobs'[work'.job].status = "cancelled"
              \/ \E r \in DOMAIN replies' : IsAnswer(r, jobs[work.job].message)'
  BY DEF Steady, HandlerOK, IsAnswer

(* The edge that is continued is not closed.                               *)
LEMMA ContinueSteady ==
    ASSUME Steady, Continue
    PROVE  Lines' /\ HandlerOK'
  <1>0. At("continue") /\ Replied /\ UNCHANGED <<jobs, replies>>
    BY ContinueEffect DEF Replied
  <1>1. Lines'
    BY ContinueEffect, SteadyTypes, LinesKept DEF EdgesKept, StateAt
  <1>e. PICK e \in DOMAIN edges : e = work.edge
    BY ContinueEffect
  <1>2. edges[e].parent_message # 0 /\ e # 0
    BY SteadyTypes, EdgeParent
  <1>3. CASE Goto(work.after) /\ edges' = edges
    BY <1>0, <1>1, <1>3, AfterSteady
  <1>4. CASE /\ work'.pc = "cont_job" /\ work'.job = work.job /\ work'.after = work.after
    <2>1. HandlerOK'
      BY <1>0, <1>4, EndedJob DEF HandlerOK, At, Recording, Ending, Replied
    <2> QED BY <1>1, <2>1
  <1>5. CASE \E c \in DOMAIN jobs :
                 /\ edges[work.edge].state \notin TERMINAL_CALLBACK_STATES /\ edges' = edges
                 /\ jobs[c].chain_edge = work.edge
                 /\ work'.pc = IF attempt_missing(c) THEN "attempt" ELSE "cont_edge"
                 /\ work'.message = edges[work.edge].parent_message
                 /\ work'.new = c /\ work'.then = "cont_edge"
                 /\ work'.job = work.job /\ work'.edge = work.edge
                 /\ work'.after = work.after
    <2>c. PICK c \in DOMAIN jobs :
                 /\ edges[e].state \notin TERMINAL_CALLBACK_STATES /\ edges' = edges
                 /\ jobs[c].chain_edge = e
                 /\ work'.pc = IF attempt_missing(c) THEN "attempt" ELSE "cont_edge"
                 /\ work'.message = edges[e].parent_message
                 /\ work'.new = c /\ work'.then = "cont_edge"
                 /\ work'.job = work.job /\ work'.edge = e
                 /\ work'.after = work.after
      BY <1>5, <1>e
    <2>1. attempt_missing(c) => jobs[c].status = "queued" /\ ~jobs[c].event
      BY DEF attempt_missing
    <2>2. work.after = "done" =>
            /\ jobs'[work'.job].status \in Ended
            /\ \/ jobs'[work'.job].status = "cancelled"
               \/ \E r \in DOMAIN replies' : IsAnswer(r, jobs[work.job].message)'
      BY <1>0, <2>c, EndedJob
    <2>3. HandlerOK'
      BY <1>0, <1>2, <2>c, <2>1, <2>2 DEF HandlerOK, At, Recording, Ending, Replied
    <2> QED BY <1>1, <2>3
  <1> QED BY <1>3, <1>4, <1>5, ContinueEffect

(* The first continuation of an edge.                                      *)
LEMMA ContinuationEffect ==
    ASSUME Steady, ContinuationJob
    PROVE  /\ At("cont_job") /\ work.edge \in DOMAIN edges /\ ~HasContinuation(work.edge)
           /\ edges[work.edge].state = "child_completed"
           /\ UNCHANGED <<edges, replies, messages>>
           /\ \E n \in Nat \ {0} :
                /\ JobAt(n, jobs[Parent(work.edge)].agent, work.edge, FALSE)
                /\ work'.pc = "attempt" /\ work'.new = n /\ work'.then = "cont_edge"
                /\ work'.message = edges[work.edge].parent_message
                /\ work'.job = work.job /\ work'.edge = work.edge
                /\ work'.after = work.after
  <1>e. PICK e \in DOMAIN edges : e = work.edge
    BY SteadyTypes DEF ContinuationJob, WorkOK
  <1>1. /\ At("cont_job") /\ ~HasContinuation(e) /\ edges[e].state = "child_completed"
    BY <1>e, SteadyTypes DEF ContinuationJob, WorkOK
  <1>2. /\ jobs' = Append(jobs, NewJob(jobs[Parent(e)].agent, edges[e].original_caller,
                                       e, FALSE))
        /\ UNCHANGED <<edges, replies, messages>>
    BY <1>e DEF ContinuationJob, Parent
  <1>n. PICK n \in Nat \ {0} : JobAt(n, jobs[Parent(e)].agent, e, FALSE)
    BY <1>2, SteadyTypes, JobAdded, Zenon
  <1>m. PICK m : m = edges[e].parent_message
    OBVIOUS
  <1>3. n = Len(jobs) + 1
    BY <1>n DEF JobAt
  <1>4. work' = [work EXCEPT !.pc = "attempt", !.new = n, !.message = m,
                             !.then = "cont_edge"]
    BY <1>e, <1>m, <1>3 DEF ContinuationJob
  <1>5. /\ work'.pc = "attempt" /\ work'.new = n /\ work'.then = "cont_edge"
        /\ work'.message = m /\ work'.job = work.job /\ work'.edge = work.edge
        /\ work'.after = work.after
    BY <1>4, SteadyTypes DEF Work
  <1> QED BY <1>e, <1>m, <1>n, <1>1, <1>2, <1>5

(* The continuation is for the message of its parent.                      *)
LEMMA ContinuationJobSteady ==
    ASSUME Steady, ContinuationJob
    PROVE  Lines' /\ HandlerOK'
  <1>e. PICK e \in DOMAIN edges : e = work.edge
    BY ContinuationEffect
  <1>1. /\ At("cont_job") /\ ~HasContinuation(e) /\ edges[e].state = "child_completed"
        /\ edges' = edges /\ replies' = replies
    BY <1>e, ContinuationEffect
  <1>2. edges[e].parent_message # 0 /\ e # 0
    BY SteadyTypes, EdgeParent
  <1>3. Lines'
    <2>1. jobs' = Append(jobs, NewJob(jobs[Parent(e)].agent, edges[e].original_caller,
                                      e, FALSE))
      BY <1>e DEF ContinuationJob, Parent
    <2> QED BY <1>1, <2>1, SteadyTypes, LinesAppend
  <1>n. PICK n \in Nat \ {0} :
                /\ JobAt(n, jobs[Parent(e)].agent, e, FALSE)
                /\ work'.pc = "attempt" /\ work'.new = n /\ work'.then = "cont_edge"
                /\ work'.message = edges[e].parent_message
                /\ work'.job = work.job /\ work'.edge = e /\ work'.after = work.after
    BY <1>e, ContinuationEffect
  <1>4. /\ jobs'[n].status = "queued" /\ ~jobs'[n].event /\ jobs'[n].chain_edge = e
        /\ \A j \in DOMAIN jobs : jobs'[j] = jobs[j]
    BY <1>n DEF JobAt
  <1>5. work.after = "done" =>
            /\ jobs'[work.job].status \in Ended
            /\ \/ jobs'[work.job].status = "cancelled"
               \/ \E r \in DOMAIN replies' : IsAnswer(r, jobs[work.job].message)'
    <2>1. work.after = "done" =>
            /\ work.job \in DOMAIN jobs /\ jobs[work.job].status \in Ended
            /\ \/ jobs[work.job].status = "cancelled"
               \/ \E r \in DOMAIN replies : IsAnswer(r, jobs[work.job].message)
      BY <1>1, SteadyTypes DEF WorkOK, HandlerOK, Replied
    <2> QED BY <1>n, <1>1, <1>4, <2>1 DEF IsAnswer
  <1>6. HandlerOK'
    BY <1>n, <1>1, <1>2, <1>4, <1>5
    DEF HandlerOK, At, Recording, Ending, Replied, TERMINAL_CALLBACK_STATES, Closed
  <1> QED BY <1>3, <1>6

(* An edge that cannot be continued is closed.                             *)
LEMMA FailsEffect ==
    ASSUME Steady, ContinuationFails
    PROVE  /\ At("cont_job") /\ work.edge \in DOMAIN edges /\ ~HasContinuation(work.edge)
           /\ edges[work.edge].state = "child_completed"
           /\ UNCHANGED <<jobs, replies, messages>> /\ StateAt(work.edge, "failed")
           /\ work'.pc = "notice" /\ work'.job = work.job /\ work'.then = work.then
           /\ work'.after = work.after
  <1>e. PICK e \in DOMAIN edges : e = work.edge
    BY SteadyTypes DEF ContinuationFails, WorkOK
  <1>1. /\ At("cont_job") /\ ~HasContinuation(e) /\ edges[e].state = "child_completed"
        /\ UNCHANGED <<jobs, replies, messages>> /\ Goto("notice")
        /\ edges' = [edges EXCEPT ![e].state = "failed"]
    BY <1>e, SteadyTypes DEF ContinuationFails, WorkOK
  <1>2. StateAt(e, "failed")
    BY <1>1, SteadyTypes, StateFields
  <1>3. /\ work'.pc = "notice" /\ work'.job = work.job /\ work'.then = work.then
        /\ work'.after = work.after
    BY <1>1, SteadyTypes, GotoFields DEF Labels
  <1> QED BY <1>e, <1>1, <1>2, <1>3

(* The reply of the child is recorded when the edge fails.                 *)
LEMMA ContinuationFailsSteady ==
    ASSUME Steady, ContinuationFails
    PROVE  Lines' /\ HandlerOK'
  <1>1. Lines'
    BY FailsEffect, SteadyTypes, LinesKept DEF StateAt
  <1>2. work.after = "done" =>
            /\ jobs'[work'.job].status \in Ended
            /\ \/ jobs'[work'.job].status = "cancelled"
               \/ \E r \in DOMAIN replies' : IsAnswer(r, jobs[work.job].message)'
    BY FailsEffect, EndedJob DEF Replied
  <1>3. HandlerOK'
    BY <1>2, FailsEffect DEF HandlerOK, At, Recording, Ending, Replied
  <1> QED BY <1>1, <1>3

(* A notice is no answer.                                                  *)
LEMMA NoticeEffect ==
    ASSUME Steady, FailureNotice
    PROVE  /\ At("notice") /\ UNCHANGED <<jobs, edges, messages>> /\ Goto(work.after)
           /\ \E n \in Nat \ {0} :
                /\ n \notin DOMAIN replies /\ DOMAIN replies' = DOMAIN replies \cup {n}
                /\ \A r \in DOMAIN replies : replies'[r] = replies[r]
                /\ replies'[n].notice
  <1>1. PICK r : replies' = Append(replies, r) /\ r.notice
    BY DEF FailureNotice
  <1>n. PICK n \in Nat \ {0} : n = Len(replies) + 1
    BY SteadyTypes DEF Types
  <1>2. /\ n \notin DOMAIN replies /\ DOMAIN replies' = DOMAIN replies \cup {n}
        /\ \A i \in DOMAIN replies : replies'[i] = replies[i]
        /\ replies'[n] = r
    BY <1>1, <1>n, SteadyTypes DEF Types
  <1> QED BY <1>1, <1>2 DEF FailureNotice

(* The handler goes on after the notice.                                   *)
LEMMA FailureNoticeSteady ==
    ASSUME Steady, FailureNotice
    PROVE  Lines' /\ HandlerOK'
  <1>1. Lines'
    BY NoticeEffect, SteadyTypes, LinesKept DEF EdgesKept
  <1>2. HandlerOK'
    BY NoticeEffect, AfterSteady DEF Replied
  <1> QED BY <1>1, <1>2

(* The continuation is linked; the edge is closed if it has ended.         *)
LEMMA LinkEffect ==
    ASSUME Steady, LinkContinuation
    PROVE  /\ At("cont_edge") /\ Recording("cont_edge") /\ work.edge \in DOMAIN edges
           /\ work.new \in DOMAIN jobs /\ jobs[work.new].chain_edge = work.edge
           /\ edges[work.edge].state \notin Closed
           /\ UNCHANGED <<jobs, replies, messages>> /\ Goto(work.after)
           /\ \/ StateAt(work.edge, "continuation_submitted")
              \/ StateAt(work.edge, "done") /\ jobs[work.new].status \in Ended
  <1>1. /\ At("cont_edge") /\ Recording("cont_edge") /\ work.edge \in DOMAIN edges
        /\ work.new \in DOMAIN jobs /\ jobs[work.new].chain_edge = work.edge
        /\ edges[work.edge].state \notin Closed
        /\ UNCHANGED <<jobs, replies, messages>> /\ Goto(work.after)
    BY SteadyTypes DEF LinkContinuation, WorkOK, HandlerOK, Recording, TERMINAL_CALLBACK_STATES
  <1>e. PICK e \in DOMAIN edges : e = work.edge
    BY <1>1
  <1>s. PICK st, rep, new :
            /\ st = IF work.after = "done" /\ jobs[work.new].status \in Ended
                    THEN "done" ELSE "continuation_submitted"
            /\ rep = IF work.reply # 0 THEN work.reply ELSE edges[e].child_reply
            /\ new = work.new
    OBVIOUS
  <1>2. /\ DOMAIN edges' = DOMAIN edges
        /\ edges'[e] = [edges[e] EXCEPT !.state = st, !.continuation_job = new,
                                        !.child_reply = rep]
        /\ \A f \in DOMAIN edges : f # e => edges'[f] = edges[f]
    BY <1>e, <1>s, SteadyTypes DEF LinkContinuation, Types
  <1>3. edges[e] \in Edge
    BY SteadyTypes, Fields
  <1>4. StateAt(e, st)
    BY <1>2, <1>3 DEF StateAt, EdgesKept, Edge
  <1> QED BY <1>1, <1>e, <1>s, <1>4

(* The handler goes on after the link.                                     *)
LEMMA LinkContinuationSteady ==
    ASSUME Steady, LinkContinuation
    PROVE  Lines' /\ HandlerOK'
  <1>1. Lines'
    BY LinkEffect, SteadyTypes, LinesKept DEF StateAt
  <1>2. HandlerOK'
    BY LinkEffect, AfterSteady DEF Replied
  <1> QED BY <1>1, <1>2

(* A repair takes the lock; a crash loses the handler.                     *)
LEMMA RepairEffect ==
    ASSUME Steady, NEW e \in DOMAIN edges, Repair(e)
    PROVE  /\ At("idle") /\ UNCHANGED <<jobs, edges, replies, messages>>
           /\ work'.pc = "continue" /\ work'.job = 0 /\ work'.then = "idle"
           /\ work'.after = "idle"
  <1>r. PICK r : r = latest_child_reply(e)
    OBVIOUS
  <1>1. work' = [Idle EXCEPT !.pc = "continue", !.edge = e, !.reply = r]
    BY <1>r DEF Repair
  <1>2. /\ work'.pc = "continue" /\ work'.job = 0 /\ work'.then = "idle"
        /\ work'.after = "idle"
    BY <1>1 DEF Idle
  <1> QED BY <1>2 DEF Repair, durable

(* Neither of them writes to a store.                                      *)
LEMMA RepairCrashSteady ==
    ASSUME Steady, (\E e \in DOMAIN edges : Repair(e)) \/ Crash
    PROVE  Lines' /\ HandlerOK'
  <1>1. UNCHANGED <<jobs, edges>>
    BY DEF Repair, Crash, durable
  <1>2. Lines'
    BY <1>1, SteadyTypes, LinesKept DEF EdgesKept
  <1>3. CASE Crash
    BY <1>2, <1>3, IdleSteady DEF Crash
  <1>4. CASE \E e \in DOMAIN edges : Repair(e)
    <2>1. HandlerOK'
      BY <1>4, RepairEffect DEF HandlerOK, At, Recording, Ending, Replied
    <2> QED BY <1>2, <2>1
  <1> QED BY <1>3, <1>4

(* No step breaks Lines or HandlerOK.                                      *)
LEMMA NextSteady ==
    ASSUME Steady, [Next]_vars
    PROVE  Steady'
  <1>0. Inv'
    BY NextOK DEF Steady
  <1>1. CASE Step
    BY <1>0, <1>1, RecordAttemptSteady, RecordEventSteady, RegisterEdgeSteady, ResultSteady,
       RetryJobSteady, CancelEdgeSteady, RecordReplySteady, MarkDoneSteady, MarkPriorSteady,
       ContinueSteady, ContinuationJobSteady, ContinuationFailsSteady, FailureNoticeSteady,
       LinkContinuationSteady
    DEF Step, Steady
  <1>2. CASE UNCHANGED vars
    <2>1. UNCHANGED <<jobs, edges, replies, messages, work>>
      BY <1>2 DEF vars
    <2>2. Lines'
      BY <2>1, SteadyTypes, LinesKept DEF EdgesKept
    <2>3. HandlerOK'
      BY <2>1 DEF Steady, HandlerOK, At, Recording, Ending, Replied, IsAnswer, Delegates, Parent
    <2> QED BY <1>0, <2>2, <2>3 DEF Steady
  <1> QED BY <1>0, <1>1, <1>2, SubmitSteady, SubmitChainSteady, StartSteady, EndsSteady,
             RepairCrashSteady DEF Next, Steady
-----------------------------------------------------------------------------
(* Claims: the steps that take none.                                       *)

KeepsClaim == {"result", "retry", "cancel_edge", "reply"}

(* No step gives a claim on m to somebody who had none.                   *)
LEMMA NoneGained ==
    ASSUME NEW m, OneClaim(m), \A kind, x : Claim(kind, x, m)' => Claim(kind, x, m)
    PROVE  OneClaim(m)'
  BY DEF OneClaim

(* The one claim on m goes from x to y.                                    *)
LEMMA HandedOn ==
    ASSUME NEW m, OneClaim(m), NEW kind, NEW x, Claim(kind, x, m), NEW other, NEW y,
           \A k, z : Claim(k, z, m)' => \/ k = other /\ z = y
                                        \/ Claim(k, z, m) /\ ~(k = kind /\ z = x)
    PROVE  OneClaim(m)'
  <1>1. \A k, z : Claim(k, z, m)' => k = other /\ z = y
    BY DEF OneClaim
  <1> QED BY <1>1 DEF OneClaim

\* The job store keeps all that claims depend on: at most, jobs end.
JobsKept ==
    /\ DOMAIN jobs' = DOMAIN jobs
    /\ \A j \in DOMAIN jobs :
        /\ jobs'[j].message = jobs[j].message /\ jobs'[j].chain_edge = jobs[j].chain_edge
        /\ jobs'[j].retried = jobs[j].retried
        /\ (job_is_outstanding(j))' => job_is_outstanding(j)

\* The handler's new label gives no claim.
NoWorkClaim(m) ==
    /\ work'.pc \in KeepsClaim =>
        \/ work.pc \in KeepsClaim /\ work'.job = work.job
        \/ job_is_outstanding(work'.job)
    /\ work'.after = "done" =>
        \/ work.after = "done" /\ work'.job = work.job
        \/ job_is_outstanding(work'.job)
    /\ \A n : work'.pc = "attempt" /\ work'.new = n /\ MayBeRecorded(n, m)' =>
        \/ At("attempt") /\ n = work.new /\ work'.message = work.message
        \/ MayBeRecorded(n, m)

(* No job starts to wait, no edge is closed or opened, nothing answers.    *)
LEMMA QuietStep ==
    ASSUME Durable, NEW m, OneClaim(m), JobsKept, EdgesKept, NoWorkClaim(m),
           \A e \in DOMAIN edges : edges'[e].state \in Closed <=> edges[e].state \in Closed,
           \A r \in DOMAIN replies' :
               ~replies'[r].notice => r \in DOMAIN replies /\ replies'[r] = replies[r],
           work'.pc = "prior" =>
               /\ At("prior") /\ work'.edge = work.edge
               /\ \A j \in DOMAIN jobs : job_is_outstanding(j) => (job_is_outstanding(j))'
    PROVE  OneClaim(m)'
  <1>1. /\ \A j : Delegates(j)' <=> Delegates(j)
        /\ \A e : Recorded(e)' <=> Recorded(e)
        /\ \A e \in DOMAIN edges : Parent(e)' = Parent(e) /\ Parent(e) \in DOMAIN jobs
        /\ \A j \in DOMAIN jobs : jobs[j].chain_edge # 0 => jobs[j].chain_edge \in DOMAIN edges
    BY ChainEdge DEF Delegates, Recorded, JobsKept, EdgesKept, Parent, Durable, EdgesOK
  <1>2. ASSUME NEW j \in DOMAIN jobs', MayAnswer(j, m)'
        PROVE  j \in DOMAIN jobs /\ MayAnswer(j, m)
    BY <1>1, <1>2 DEF MayAnswer, JobsKept, NoWorkClaim, KeepsClaim
  <1>3. ASSUME NEW j \in DOMAIN jobs', MayBeRecorded(j, m)'
        PROVE  j \in DOMAIN jobs /\ MayBeRecorded(j, m)
    BY <1>1, <1>3 DEF MayBeRecorded, JobsKept, NoWorkClaim, EdgesKept, At
  <1>4. ASSUME NEW e \in DOMAIN edges', MayContinue(e, m)'
        PROVE  e \in DOMAIN edges /\ MayContinue(e, m)
    BY <1>1, <1>4 DEF MayContinue, JobsKept, EdgesKept, At
  <1>5. ASSUME NEW r \in DOMAIN replies', IsAnswer(r, m)'
        PROVE  r \in DOMAIN replies /\ IsAnswer(r, m)
    BY <1>5 DEF IsAnswer
  <1>6. \A kind, x : Claim(kind, x, m)' => Claim(kind, x, m)
    BY <1>2, <1>3, <1>4, <1>5 DEF Claim, MayAnswer, MayBeRecorded, MayContinue, IsAnswer
  <1> QED BY <1>6, NoneGained

(* The handler is idle again, or goes on after its part.                   *)
LEMMA QuietGoto ==
    ASSUME Steady, NEW m, work' = Idle \/ (Replied /\ Goto(work.after))
    PROVE  NoWorkClaim(m) /\ work'.pc # "prior" /\ work'.pc \notin KeepsClaim
  <1>1. CASE work' = Idle
    BY <1>1, IdleFields DEF NoWorkClaim, KeepsClaim
  <1>2. CASE Replied /\ Goto(work.after)
    <2>1. CASE work.after = "idle"
      BY <1>1, <1>2, <2>1 DEF Goto
    <2>2. CASE work.after = "done"
      <3>1. work'.pc = "done" /\ work'.job = work.job
        BY <1>2, <2>2, SteadyTypes, GotoFields DEF Labels
      <3> QED BY <2>2, <3>1 DEF NoWorkClaim, KeepsClaim
    <2> QED BY <2>1, <2>2, SteadyTypes DEF WorkOK
  <1> QED BY <1>1, <1>2

\* What a step owes: nobody is cancelled, and there is one claim.
Undisturbed(m) == Steady /\ ~Cancelled(m)' /\ OneClaim(m)

(* A queued job has its claim before it starts.                            *)
LEMMA StartClaims ==
    ASSUME NEW m, Undisturbed(m), NEW j \in DOMAIN jobs, Start(j)
    PROVE  OneClaim(m)'
  <1>0. /\ jobs[j].status = "queued" /\ jobs' = [jobs EXCEPT ![j].status = "running"]
        /\ UNCHANGED <<edges, replies, work>> /\ Durable
    BY SteadyTypes DEF Start, owns_mailbox_head, Undisturbed
  <1>1. /\ DOMAIN jobs' = DOMAIN jobs
        /\ \A k \in DOMAIN jobs : k # j => jobs'[k] = jobs[k]
        /\ JobKept(j) /\ jobs'[j].message = jobs[j].message /\ jobs'[j].status = "running"
    BY <1>0, SteadyTypes, StatusFields DEF Undisturbed
  <1>2. JobsKept /\ \A k \in DOMAIN jobs : job_is_outstanding(k) => (job_is_outstanding(k))'
    BY <1>0, <1>1 DEF JobsKept, JobKept, job_is_outstanding
  <1>3. EdgesKept /\ NoWorkClaim(m)
    BY <1>0 DEF EdgesKept, NoWorkClaim, At
  <1> QED BY <1>0, <1>2, <1>3, QuietStep DEF Undisturbed, At

(* A job that ends keeps its claim until its reply.                        *)
LEMMA EndClaims ==
    ASSUME NEW m, Undisturbed(m), NEW j \in DOMAIN jobs,
           \/ Complete(j) \/ CompleteRetryable(j)
           \/ \E notice \in BOOLEAN : Cancel(j, notice)
    PROVE  OneClaim(m)'
  <1>0. Steady /\ Durable
    BY SteadyTypes DEF Undisturbed
  <1>1. PICK status \in Ended : JobEnds(j, status)
    BY <1>0, EndEffect
  <1>2. JobsKept /\ EdgesKept /\ job_is_outstanding(j) /\ replies' = replies /\ edges' = edges
    BY <1>1 DEF JobEnds, JobsKept, JobKept, EdgesKept, job_is_outstanding, Ended
  <1>3. NoWorkClaim(m) /\ work'.pc # "prior"
    BY <1>1, <1>2 DEF JobEnds, NoWorkClaim
  <1> QED BY <1>0, <1>2, <1>3, QuietStep DEF Undisturbed

(* The event moves no claim.                                               *)
LEMMA EventClaims ==
    ASSUME NEW m, Undisturbed(m), RecordEvent
    PROVE  OneClaim(m)'
  <1>0. Steady /\ Durable
    BY SteadyTypes DEF Undisturbed
  <1>n. PICK n : n = work.new
    OBVIOUS
  <1>1. /\ n \in DOMAIN jobs /\ DOMAIN jobs' = DOMAIN jobs /\ edges' = edges
        /\ \A k \in DOMAIN jobs : k # n => jobs'[k] = jobs[k]
        /\ JobKept(n) /\ jobs'[n].message = jobs[n].message
        /\ jobs'[n].status = jobs[n].status /\ replies' = replies
    BY <1>0, <1>n, EventEffect
  <1>2. JobsKept /\ EdgesKept
    BY <1>1 DEF JobsKept, JobKept, EdgesKept, job_is_outstanding
  <1>3. NoWorkClaim(m) /\ work'.pc # "prior"
    <2>1. CASE work.then = "idle"
      BY <1>0, <2>1, EventEffect, QuietGoto
    <2>2. CASE work.then # "idle"
      BY <1>0, <2>2, EventEffect DEF NoWorkClaim, KeepsClaim
    <2> QED BY <2>1, <2>2
  <1> QED BY <1>0, <1>1, <1>2, <1>3, QuietStep DEF Undisturbed

(* The decision moves no claim: a job that delegates has none.             *)
LEMMA ResultClaims ==
    ASSUME NEW m, Undisturbed(m), Result
    PROVE  OneClaim(m)'
  <1>0. Steady /\ Durable
    BY SteadyTypes DEF Undisturbed
  <1>1. UNCHANGED <<jobs, edges, replies>> /\ At("result") /\ work.after = "done"
    BY <1>0, ResultEffect DEF Steady, HandlerOK, Ending
  <1>2. JobsKept /\ EdgesKept
    BY <1>1 DEF JobsKept, EdgesKept, job_is_outstanding
  <1>3. NoWorkClaim(m) /\ work'.pc # "prior"
    <2>1. CASE work' = Idle
      BY <1>0, <2>1, QuietGoto
    <2>2. CASE work' # Idle
      BY <1>0, <1>1, <2>2, ResultEffect DEF NoWorkClaim, KeepsClaim, At
    <2> QED BY <2>1, <2>2
  <1> QED BY <1>0, <1>1, <1>2, <1>3, QuietStep DEF Undisturbed

(* A crash drops claims, and a repair takes none.                          *)
LEMMA RepairCrashClaims ==
    ASSUME NEW m, Undisturbed(m), (\E e \in DOMAIN edges : Repair(e)) \/ Crash
    PROVE  OneClaim(m)'
  <1>0. Steady /\ Durable
    BY SteadyTypes DEF Undisturbed
  <1>1. UNCHANGED <<jobs, edges, replies>>
    BY DEF Repair, Crash, durable
  <1>2. JobsKept /\ EdgesKept
    BY <1>1 DEF JobsKept, EdgesKept, job_is_outstanding
  <1>3. NoWorkClaim(m) /\ work'.pc # "prior"
    <2>1. CASE Crash
      BY <1>0, <2>1, QuietGoto DEF Crash
    <2>2. CASE \E e \in DOMAIN edges : Repair(e)
      BY <1>0, <2>2, RepairEffect DEF NoWorkClaim, KeepsClaim
    <2> QED BY <2>1, <2>2
  <1> QED BY <1>0, <1>1, <1>2, <1>3, QuietStep DEF Undisturbed

(* A notice is no claim.                                                   *)
LEMMA NoticeClaims ==
    ASSUME NEW m, Undisturbed(m), FailureNotice
    PROVE  OneClaim(m)'
  <1>0. Steady /\ Durable
    BY SteadyTypes DEF Undisturbed
  <1>1. /\ UNCHANGED <<jobs, edges>> /\ Goto(work.after) /\ Replied
        /\ \A r \in DOMAIN replies' :
               ~replies'[r].notice => r \in DOMAIN replies /\ replies'[r] = replies[r]
    BY <1>0, NoticeEffect DEF Replied
  <1>2. JobsKept /\ EdgesKept
    BY <1>1 DEF JobsKept, EdgesKept, job_is_outstanding
  <1>3. NoWorkClaim(m) /\ work'.pc # "prior"
    BY <1>0, <1>1, QuietGoto
  <1> QED BY <1>0, <1>1, <1>2, <1>3, QuietStep DEF Undisturbed

(* A continuation that is found in the store gets no second claim.         *)
LEMMA ContinueClaims ==
    ASSUME NEW m, Undisturbed(m), Continue
    PROVE  OneClaim(m)'
  <1>0. Steady /\ Durable
    BY SteadyTypes DEF Undisturbed
  <1>1. UNCHANGED <<jobs, replies>> /\ At("continue") /\ Replied
    BY <1>0, ContinueEffect DEF Replied
  <1>2. JobsKept
    BY <1>1 DEF JobsKept, job_is_outstanding
  <1>3. /\ EdgesKept
        /\ \A e \in DOMAIN edges : edges'[e].state \in Closed <=> edges[e].state \in Closed
    BY <1>0, ContinueEffect DEF EdgesKept, StateAt, TERMINAL_CALLBACK_STATES, Closed
  <1>4. NoWorkClaim(m) /\ work'.pc # "prior"
    <2>1. CASE Goto(work.after)
      BY <1>0, <1>1, <2>1, QuietGoto
    <2>2. CASE work'.pc = "cont_job" /\ work'.job = work.job /\ work'.after = work.after
      BY <2>2 DEF NoWorkClaim, KeepsClaim
    <2>3. ASSUME NEW c \in DOMAIN jobs, edges' = edges, jobs[c].chain_edge = work.edge,
                 work'.pc = IF attempt_missing(c) THEN "attempt" ELSE "cont_edge",
                 work'.message = edges[work.edge].parent_message,
                 work'.new = c, work'.job = work.job, work'.after = work.after
          PROVE  NoWorkClaim(m) /\ work'.pc # "prior"
      <3>1. work.edge # 0
        BY <1>0, ContinueEffect, SteadyTypes, EdgeParent
      <3>2. ASSUME work'.pc = "attempt", MayBeRecorded(c, m)'
            PROVE  MayBeRecorded(c, m)
        <4>1. jobs[c].status = "queued"
          BY <2>3, <3>2 DEF attempt_missing
        <4>2. jobs[c].message = 0 /\ jobs[c].retried /\ edges[work.edge].parent_message = m
          BY <1>1, <2>3, <3>1, <3>2 DEF MayBeRecorded
        <4> QED BY <2>3, <3>1, <4>1, <4>2 DEF MayBeRecorded, job_is_outstanding
      <3> QED BY <2>3, <3>2 DEF NoWorkClaim, KeepsClaim
    <2> QED BY <1>0, <2>1, <2>2, <2>3, ContinueEffect
  <1> QED BY <1>0, <1>1, <1>2, <1>3, <1>4, QuietStep DEF Undisturbed
-----------------------------------------------------------------------------
(* Claims: the steps that hand one on.                                     *)

(* Nobody has a claim on a message that is not there yet.                  *)
LEMMA Fresh ==
    ASSUME Steady, NEW m \in Nat, m > messages, NEW kind, NEW x, Claim(kind, x, m)
    PROVE  FALSE
  <1>0. Durable /\ Lines /\ WorkOK /\ work \in Work /\ messages \in Nat
    BY SteadyTypes
  <1>1. /\ \A j \in DOMAIN jobs : jobs[j].message \in Nat /\ jobs[j].message <= messages
        /\ \A e \in DOMAIN edges : edges[e].parent_message \in 1 .. messages
        /\ \A r \in DOMAIN replies : replies[r].message \in Nat /\ replies[r].message <= messages
        /\ work.message \in Nat /\ work.message <= messages
        /\ \A j \in DOMAIN jobs : jobs[j].chain_edge # 0 => jobs[j].chain_edge \in DOMAIN edges
    BY <1>0, Fields, EdgeParent, ChainEdge DEF Durable, JobsOK, RepliesOK, WorkOK, Work
  <1>2. CASE MayAnswer(x, m)
    BY <1>0, <1>1, <1>2 DEF MayAnswer
  <1>3. CASE MayContinue(x, m)
    BY <1>0, <1>1, <1>3 DEF MayContinue
  <1>4. CASE MayBeRecorded(x, m)
    BY <1>0, <1>1, <1>4 DEF MayBeRecorded
  <1>5. CASE IsAnswer(x, m)
    BY <1>0, <1>1, <1>5 DEF IsAnswer
  <1> QED BY <1>2, <1>3, <1>4, <1>5 DEF Claim

\* A step that adds job n and is about to record it.
AddsJob(n) ==
    /\ n \notin DOMAIN jobs /\ DOMAIN jobs' = DOMAIN jobs \cup {n}
    /\ \A j \in DOMAIN jobs : jobs'[j] = jobs[j]
    /\ jobs'[n].message = 0 /\ UNCHANGED <<edges, replies>>
    /\ work'.pc = "attempt" /\ work'.new = n
    /\ work'.after = "done" => work.after = "done" /\ work'.job = work.job

(* A job is enqueued: the job itself may gain a claim, and nobody else     *)
(* does.                                                                   *)
LEMMA Enqueued ==
    ASSUME NEW m, m # 0, NEW n, AddsJob(n), NEW kind, NEW x, Claim(kind, x, m)'
    PROVE  \/ Claim(kind, x, m) /\ ~(kind = "job" /\ ~job_is_outstanding(x))
           \/ kind = "new" /\ x = n /\ MayBeRecorded(n, m)'
  <1>1. /\ n \notin DOMAIN jobs /\ DOMAIN jobs' = DOMAIN jobs \cup {n}
        /\ \A j \in DOMAIN jobs : jobs'[j] = jobs[j]
        /\ jobs'[n].message = 0 /\ UNCHANGED <<edges, replies>>
        /\ work'.pc = "attempt" /\ work'.new = n
        /\ work'.after = "done" => work.after = "done" /\ work'.job = work.job
    BY DEF AddsJob
  <1>2. /\ \A j : Delegates(j)' <=> Delegates(j)
        /\ \A e : Recorded(e)' <=> Recorded(e)
    BY <1>1 DEF Delegates, Recorded, Parent
  <1>3. CASE kind = "job" /\ MayAnswer(x, m)'
    <2>1. MayAnswer(x, m) /\ job_is_outstanding(x)
      BY <1>1, <1>2, <1>3 DEF MayAnswer, job_is_outstanding
    <2> QED BY <1>3, <2>1 DEF Claim
  <1>4. CASE kind = "edge" /\ MayContinue(x, m)'
    <2>1. MayContinue(x, m)
      BY <1>1, <1>2, <1>4 DEF MayContinue, At
    <2> QED BY <1>4, <2>1 DEF Claim
  <1>5. CASE kind = "new" /\ MayBeRecorded(x, m)'
    <2>1. CASE x = n
      BY <1>5, <2>1
    <2>2. CASE x # n
      <3>1. x \in DOMAIN jobs /\ jobs'[x] = jobs[x] /\ jobs[x].message = 0
        BY <1>1, <1>5, <2>2 DEF MayBeRecorded
      <3>2. /\ jobs[x].chain_edge # 0 /\ jobs[x].retried
            /\ edges[jobs[x].chain_edge].parent_message = m
            /\ job_is_outstanding(x) \/ (work.job = x /\ work.after = "done")
        BY <1>1, <1>5, <2>2, <3>1 DEF MayBeRecorded, job_is_outstanding
      <3>3. MayBeRecorded(x, m)
        BY <3>1, <3>2 DEF MayBeRecorded
      <3> QED BY <1>5, <3>3 DEF Claim
    <2> QED BY <2>1, <2>2
  <1>6. CASE kind = "reply" /\ IsAnswer(x, m)'
    BY <1>1, <1>6 DEF IsAnswer, Claim
  <1> QED BY <1>3, <1>4, <1>5, <1>6 DEF Claim

(* A request is the one claim on its message.                              *)
LEMMA SubmitClaims ==
    ASSUME Steady, NEW m \in 1 .. messages + 1, m <= messages => OneClaim(m),
           \/ \E a \in Entry : Submit(a)
           \/ \E a, b \in Agents : SubmitChain(a, b)
    PROVE  OneClaim(m)'
  <1>0. messages \in Nat /\ m # 0 /\ Types
    BY SteadyTypes
  <1>a. PICK a, from : /\ jobs' = Append(jobs, NewJob(a, from, 0, FALSE))
                       /\ UNCHANGED <<edges, replies>>
    BY DEF Submit, SubmitChain
  <1>n. PICK n \in Nat \ {0} : JobAt(n, a, 0, FALSE)
    BY <1>0, <1>a, JobAdded, Zenon
  <1>1. n = Len(jobs) + 1
    BY <1>n DEF JobAt
  <1>2. /\ work'.pc = "attempt" /\ work'.new = n /\ work'.message = messages + 1
        /\ work'.after = "idle"
    <2>1. CASE \E b \in Entry : Submit(b)
      <3>1. work' = [Idle EXCEPT !.pc = "attempt", !.new = n, !.message = messages + 1]
        BY <1>1, <2>1 DEF Submit
      <3> QED BY <3>1 DEF Idle
    <2>2. CASE \E b, d \in Agents : SubmitChain(b, d)
      <3>1. PICK p : work' = [Idle EXCEPT !.pc = "attempt", !.job = p, !.new = n,
                                          !.message = messages + 1, !.then = "register"]
        BY <1>1, <2>2 DEF SubmitChain
      <3> QED BY <3>1 DEF Idle
    <2> QED BY <2>1, <2>2
  <1>3. \A kind, x : Claim(kind, x, m)' => \/ Claim(kind, x, m)
                                           \/ kind = "new" /\ x = n /\ m = messages + 1
    <2>1. AddsJob(n)
      BY <1>a, <1>n, <1>2, Zenon DEF JobAt, AddsJob
    <2>2. MayBeRecorded(n, m)' => m = messages + 1
      BY <1>2, <1>n DEF MayBeRecorded, JobAt
    <2> QED BY <1>0, <2>1, <2>2, Enqueued
  <1>4. CASE m <= messages
    BY <1>0, <1>3, <1>4, NoneGained
  <1>5. CASE m = messages + 1
    <2>1. \A kind, x : Claim(kind, x, m)' => kind = "new" /\ x = n
      BY <1>0, <1>3, <1>5, Fresh
    <2> QED BY <2>1 DEF OneClaim
  <1> QED BY <1>0, <1>4, <1>5

(* The first continuation of an edge gains no claim before its attempt.    *)
LEMMA ContinuationJobClaims ==
    ASSUME NEW m, m # 0, Undisturbed(m), ContinuationJob
    PROVE  OneClaim(m)'
  <1>0. Steady /\ work.edge \in DOMAIN edges /\ work.edge # 0
    BY ContinuationEffect, SteadyTypes, EdgeParent DEF Undisturbed
  <1>e. PICK e : e = work.edge
    OBVIOUS
  <1>1. PICK n \in Nat \ {0} :
            /\ JobAt(n, jobs[Parent(e)].agent, e, FALSE)
            /\ work'.pc = "attempt" /\ work'.new = n
            /\ work'.job = work.job /\ work'.after = work.after
    BY <1>0, <1>e, ContinuationEffect
  <1>2. UNCHANGED <<edges, replies>>
    BY <1>0, ContinuationEffect
  <1>a. AddsJob(n)
    BY <1>1, <1>2, Zenon DEF JobAt, AddsJob
  <1>b. ~jobs'[n].retried /\ jobs'[n].chain_edge # 0
    BY <1>0, <1>e, <1>1 DEF JobAt
  <1>3. \A kind, x : Claim(kind, x, m)' => Claim(kind, x, m)
    <2>1. ~MayBeRecorded(n, m)'
      BY <1>b DEF MayBeRecorded
    <2> QED BY <1>a, <2>1, Enqueued
  <1> QED BY <1>3, NoneGained DEF Undisturbed

(* A retry takes the claim of the job that has failed.                     *)
LEMMA RetryClaims ==
    ASSUME NEW m, m # 0, Undisturbed(m), RetryJob
    PROVE  OneClaim(m)'
  <1>0. Steady /\ Durable /\ Lines /\ OneClaim(m)
    BY SteadyTypes DEF Undisturbed
  <1>j. PICK j : j = work.job
    OBVIOUS
  <1>c. PICK c : c = jobs[j].chain_edge
    OBVIOUS
  <1>1. /\ At("retry") /\ j \in DOMAIN jobs /\ jobs[j].status \in {"completed", "failed"}
        /\ jobs[j].message # 0 /\ ~Delegates(j) /\ UNCHANGED <<edges, replies>>
    BY <1>0, <1>j, RetryEffect
  <1>a. PICK a : a = jobs[j].agent
    OBVIOUS
  <1>n. PICK n \in Nat \ {0} :
            /\ JobAt(n, a, c, TRUE) /\ work'.pc = "attempt" /\ work'.new = n
            /\ work'.message = jobs[j].message
            /\ work'.job = work.job /\ work'.after = work.after
    BY <1>0, <1>j, <1>c, <1>a, RetryEffect, Zenon
  <1>2. c # 0 => edges[c].parent_message = jobs[j].message
    BY <1>0, <1>1, <1>c DEF Lines, JobLines, FollowsParent
  <1>3. \A kind, x : Claim(kind, x, m)' =>
            \/ Claim(kind, x, m) /\ ~(kind = "job" /\ ~job_is_outstanding(x))
            \/ kind = "new" /\ x = n /\ jobs[j].message = m
    <2>1. AddsJob(n)
      BY <1>1, <1>n, Zenon DEF JobAt, AddsJob
    <2>2. MayBeRecorded(n, m)' => jobs[j].message = m
      BY <1>1, <1>2, <1>n DEF MayBeRecorded, JobAt
    <2> QED BY <2>1, <2>2, Enqueued
  <1>4. CASE jobs[j].message # m
    BY <1>0, <1>3, <1>4, NoneGained
  <1>5. CASE jobs[j].message = m
    <2>1. Claim("job", j, m) /\ ~job_is_outstanding(j)
      BY <1>1, <1>j, <1>5 DEF Claim, MayAnswer, At, job_is_outstanding
    <2> QED BY <1>0, <1>3, <2>1, HandedOn
  <1> QED BY <1>4, <1>5

(* The attempt: the request, the retry or the edge hands its claim to the  *)
(* job that is recorded.                                                   *)
LEMMA AttemptClaims ==
    ASSUME NEW m, m # 0, Undisturbed(m), RecordAttempt
    PROVE  OneClaim(m)'
  <1>0. Steady /\ Durable /\ Lines /\ WorkOK /\ HandlerOK /\ OneClaim(m)
    BY SteadyTypes DEF Undisturbed
  <1>n. PICK n : n = work.new
    OBVIOUS
  <1>w. PICK w : w = work.message
    OBVIOUS
  <1>c. PICK c : c = jobs[n].chain_edge
    OBVIOUS
  <1>1. /\ n \in DOMAIN jobs /\ DOMAIN jobs' = DOMAIN jobs
        /\ \A k \in DOMAIN jobs : k # n => jobs'[k] = jobs[k]
        /\ JobKept(n) /\ jobs'[n].status = jobs[n].status
        /\ jobs[n].message # 0 => jobs' = jobs
        /\ jobs[n].message = 0 => jobs'[n].message = w
        /\ UNCHANGED <<edges, replies>>
    BY <1>0, <1>n, <1>w, AttemptEffect DEF AttemptWritten
  <1>2. /\ At("attempt") /\ work'.pc = "event" /\ work'.job = work.job
        /\ work'.after = work.after
    BY <1>0, AttemptWork
  <1>3. CASE jobs[n].message # 0
    <2>1. JobsKept /\ EdgesKept /\ NoWorkClaim(m)
      BY <1>1, <1>2, <1>3 DEF JobsKept, EdgesKept, NoWorkClaim, KeepsClaim, job_is_outstanding
    <2> QED BY <1>0, <1>1, <1>2, <2>1, QuietStep
  <1>4. CASE jobs[n].message = 0
    <2>1. /\ w # 0 /\ jobs'[n].message = w /\ jobs'[n].chain_edge = c
          /\ \A k \in DOMAIN jobs : /\ jobs'[k].chain_edge = jobs[k].chain_edge
                                    /\ jobs'[k].retried = jobs[k].retried
                                    /\ jobs'[k].status = jobs[k].status
                                    /\ jobs[k].message # 0 => jobs'[k] = jobs[k]
      BY <1>0, <1>1, <1>2, <1>4, <1>w, <1>c DEF HandlerOK, JobKept
    <2>2. \A j : Delegates(j)' <=> Delegates(j)
      BY <1>1 DEF Delegates, Parent
    <2>3. \A e : Recorded(e) => Recorded(e)'
      BY <1>1, <2>1 DEF Recorded
    <2>4. Recorded(c)'
      BY <1>1, <2>1 DEF Recorded
    <2>5. \A kind, x : Claim(kind, x, m)' =>
                \/ kind = "job" /\ x = n /\ m = w
                \/ Claim(kind, x, m) /\ ~(kind = "new" /\ x = n) /\ ~(kind = "edge" /\ x = c)
      <3> SUFFICES ASSUME NEW kind, NEW x, Claim(kind, x, m)'
                   PROVE  \/ kind = "job" /\ x = n /\ m = w
                          \/ Claim(kind, x, m) /\ ~(kind = "new" /\ x = n)
                                               /\ ~(kind = "edge" /\ x = c)
        OBVIOUS
      <3>1. CASE kind = "job" /\ MayAnswer(x, m)'
        <4>1. /\ x \in DOMAIN jobs /\ jobs'[x].message = m /\ ~Delegates(x)
              /\ job_is_outstanding(x)
          BY <1>1, <1>2, <2>1, <2>2, <3>1 DEF MayAnswer, job_is_outstanding
        <4>2. CASE x = n
          BY <2>1, <3>1, <4>1, <4>2
        <4>3. CASE x # n
          BY <1>1, <3>1, <4>1, <4>3 DEF MayAnswer, Claim
        <4> QED BY <4>2, <4>3
      <3>2. CASE kind = "edge" /\ MayContinue(x, m)'
        <4>1. MayContinue(x, m) /\ x # c
          BY <1>1, <1>2, <2>3, <2>4, <3>2 DEF MayContinue, At
        <4> QED BY <3>2, <4>1 DEF Claim
      <3>3. CASE kind = "new" /\ MayBeRecorded(x, m)'
        <4>1. x # n /\ x \in DOMAIN jobs /\ jobs'[x] = jobs[x]
          BY <1>1, <2>1, <3>3 DEF MayBeRecorded
        <4>2. MayBeRecorded(x, m)
          BY <1>1, <1>2, <3>3, <4>1 DEF MayBeRecorded, At, job_is_outstanding
        <4> QED BY <3>3, <4>1, <4>2 DEF Claim
      <3>4. CASE kind = "reply" /\ IsAnswer(x, m)'
        BY <1>1, <3>4 DEF IsAnswer, Claim
      <3> QED BY <3>1, <3>2, <3>3, <3>4 DEF Claim
    <2>6. CASE m # w
      BY <1>0, <2>5, <2>6, NoneGained
    <2>7. CASE m = w /\ (c = 0 \/ jobs[n].retried)
      <3>1. Claim("new", n, m)
        BY <1>1, <1>2, <1>4, <1>n, <1>w, <1>c, <2>7 DEF Claim, MayBeRecorded
      <3> QED BY <1>0, <2>5, <3>1, HandedOn
    <2>8. CASE m = w /\ c # 0 /\ ~jobs[n].retried
      <3>1. c \in DOMAIN edges /\ edges[c].parent_message = m
        BY <1>0, <1>1, <1>2, <1>n, <1>c, <1>w, <2>8, ChainEdge DEF HandlerOK
      <3>2. edges[c].state \notin Closed
        BY <1>0, <1>2, <1>n, <1>c, <2>8 DEF HandlerOK, WorkOK, Recording, TERMINAL_CALLBACK_STATES
      <3>3. ASSUME NEW k \in DOMAIN jobs, jobs[k].chain_edge = c, jobs[k].message # 0
            PROVE  FALSE
        <4>1. CASE jobs[k].retried
          BY <1>0, <1>1, <1>4, <1>c, <2>8, <3>3, <4>1 DEF Lines, JobLines, FollowsParent
        <4>2. CASE ~jobs[k].retried
          BY <1>0, <1>1, <1>4, <1>c, <2>8, <3>3, <4>2 DEF Durable, OneEach
        <4> QED BY <4>1, <4>2
      <3>4. Claim("edge", c, m)
        BY <3>1, <3>2, <3>3 DEF Claim, MayContinue, Recorded
      <3> QED BY <1>0, <2>5, <3>4, HandedOn
    <2> QED BY <2>6, <2>7, <2>8
  <1> QED BY <1>3, <1>4

(* The edge takes the claim of the job that delegates.                     *)
LEMMA RegisterClaims ==
    ASSUME NEW m, m # 0, Undisturbed(m), RegisterEdge
    PROVE  OneClaim(m)'
  <1>0. Steady /\ Durable /\ OneClaim(m)
    BY SteadyTypes DEF Undisturbed
  <1>p. PICK p : p = work.job
    OBVIOUS
  <1>1. /\ p \in DOMAIN jobs /\ jobs[p].status = "running" /\ ~Delegates(p)
        /\ UNCHANGED <<jobs, replies>> /\ work' = Idle
    BY <1>0, <1>p, RegisterEffect DEF Delegates
  <1>n. PICK n \in Nat \ {0} :
            /\ n \notin DOMAIN edges /\ DOMAIN edges' = DOMAIN edges \cup {n}
            /\ \A e \in DOMAIN edges : edges'[e] = edges[e]
            /\ edges'[n].parent_job = p /\ edges'[n].parent_message = jobs[p].message
            /\ edges'[n].state = "pending"
    BY <1>0, <1>p, RegisterEffect
  <1>2. \A j : Delegates(j) => Delegates(j)'
    BY <1>n DEF Delegates, Parent
  <1>3. Delegates(p)'
    BY <1>n DEF Delegates, Parent, Closed
  <1>4. \A e : Recorded(e)' <=> Recorded(e)
    BY <1>1 DEF Recorded
  <1>5. work'.pc = "idle" /\ work'.after = "idle"
    BY <1>1, IdleFields
  <1>6. \A kind, x : Claim(kind, x, m)' =>
            \/ kind = "edge" /\ x = n /\ jobs[p].message = m
            \/ Claim(kind, x, m) /\ ~(kind = "job" /\ x = p)
    <2> SUFFICES ASSUME NEW kind, NEW x, Claim(kind, x, m)'
                 PROVE  \/ kind = "edge" /\ x = n /\ jobs[p].message = m
                        \/ Claim(kind, x, m) /\ ~(kind = "job" /\ x = p)
      OBVIOUS
    <2>1. CASE kind = "job" /\ MayAnswer(x, m)'
      <3>1. MayAnswer(x, m) /\ x # p
        BY <1>1, <1>2, <1>3, <1>5, <2>1 DEF MayAnswer, job_is_outstanding
      <3> QED BY <2>1, <3>1 DEF Claim
    <2>2. CASE kind = "edge" /\ MayContinue(x, m)'
      <3>1. CASE x = n
        BY <1>n, <2>2, <3>1 DEF MayContinue
      <3>2. CASE x # n
        BY <1>n, <1>4, <1>5, <2>2, <3>2 DEF MayContinue, Claim, At
      <3> QED BY <3>1, <3>2
    <2>3. CASE kind = "new" /\ MayBeRecorded(x, m)'
      <3>1. x \in DOMAIN jobs /\ jobs[x].chain_edge # 0
        BY <1>1, <1>5, <2>3 DEF MayBeRecorded, At
      <3>2. edges'[jobs[x].chain_edge] = edges[jobs[x].chain_edge]
        BY <1>0, <1>n, <3>1, ChainEdge
      <3>3. MayBeRecorded(x, m)
        BY <1>1, <1>5, <2>3, <3>2 DEF MayBeRecorded, At, job_is_outstanding
      <3> QED BY <2>3, <3>3 DEF Claim
    <2>4. CASE kind = "reply" /\ IsAnswer(x, m)'
      BY <1>1, <2>4 DEF IsAnswer, Claim
    <2> QED BY <2>1, <2>2, <2>3, <2>4 DEF Claim
  <1>7. CASE jobs[p].message # m
    BY <1>0, <1>6, <1>7, NoneGained
  <1>8. CASE jobs[p].message = m
    <2>1. Claim("job", p, m)
      BY <1>1, <1>8 DEF Claim, MayAnswer, job_is_outstanding
    <2> QED BY <1>0, <1>6, <2>1, HandedOn
  <1> QED BY <1>7, <1>8

(* The reply takes the claim of the job that has ended.                    *)
LEMMA ReplyClaims ==
    ASSUME NEW m, m # 0, Undisturbed(m), RecordReply
    PROVE  OneClaim(m)'
  <1>0. Steady /\ Durable /\ OneClaim(m) /\ ~Cancelled(m)'
    BY SteadyTypes DEF Undisturbed
  <1>j. PICK j : j = work.job
    OBVIOUS
  <1>1. /\ At("reply") /\ j \in DOMAIN jobs /\ work.after = "done" /\ jobs[j].status \in Ended
        /\ jobs[j].status = "cancelled" \/ ~Delegates(j)
        /\ UNCHANGED <<jobs, edges>>
        /\ work'.pc \in {"done", "continue"} /\ work'.job = work.job /\ work'.after = "done"
    BY <1>0, <1>j, ReplyEffect
  <1>2. CASE jobs[j].message = 0
    <2>1. JobsKept /\ EdgesKept /\ NoWorkClaim(m) /\ replies' = replies
      BY <1>0, <1>1, <1>2, <1>j, ReplyEffect
         DEF JobsKept, EdgesKept, NoWorkClaim, KeepsClaim, job_is_outstanding
    <2> QED BY <1>0, <1>1, <2>1, QuietStep
  <1>3. CASE jobs[j].message # 0
    <2>n. PICK n \in Nat \ {0} :
            /\ n \notin DOMAIN replies /\ DOMAIN replies' = DOMAIN replies \cup {n}
            /\ \A r \in DOMAIN replies : replies'[r] = replies[r]
            /\ replies'[n].message = jobs[j].message
      BY <1>0, <1>3, <1>j, ReplyEffect
    <2>1. /\ \A i : Delegates(i)' <=> Delegates(i)
          /\ \A e : Recorded(e)' <=> Recorded(e)
      BY <1>1 DEF Delegates, Recorded, Parent
    <2>2. \A kind, x : Claim(kind, x, m)' =>
                \/ kind = "reply" /\ x = n /\ jobs[j].message = m
                \/ Claim(kind, x, m) /\ ~(kind = "job" /\ x = j)
      <3> SUFFICES ASSUME NEW kind, NEW x, Claim(kind, x, m)'
                   PROVE  \/ kind = "reply" /\ x = n /\ jobs[j].message = m
                          \/ Claim(kind, x, m) /\ ~(kind = "job" /\ x = j)
        OBVIOUS
      <3>1. CASE kind = "job" /\ MayAnswer(x, m)'
        <4>1. MayAnswer(x, m) /\ x # j
          BY <1>1, <2>1, <3>1 DEF MayAnswer, job_is_outstanding, Ended
        <4> QED BY <3>1, <4>1 DEF Claim
      <3>2. CASE kind = "edge" /\ MayContinue(x, m)'
        BY <1>1, <2>1, <3>2 DEF MayContinue, Claim, At
      <3>3. CASE kind = "new" /\ MayBeRecorded(x, m)'
        BY <1>1, <3>3 DEF MayBeRecorded, Claim, At, job_is_outstanding
      <3>4. CASE kind = "reply" /\ IsAnswer(x, m)'
        BY <2>n, <3>4 DEF IsAnswer, Claim
      <3> QED BY <3>1, <3>2, <3>3, <3>4 DEF Claim
    <2>3. CASE jobs[j].message # m
      BY <1>0, <2>2, <2>3, NoneGained
    <2>4. CASE jobs[j].message = m
      <3>1. jobs[j].status # "cancelled"
        BY <1>0, <1>1, <2>4 DEF Cancelled
      <3>2. Claim("job", j, m)
        BY <1>1, <1>j, <2>4, <3>1 DEF Claim, MayAnswer, At
      <3> QED BY <1>0, <2>2, <3>2, HandedOn
    <2> QED BY <2>3, <2>4
  <1> QED BY <1>2, <1>3
-----------------------------------------------------------------------------
(* Claims: the steps that close an edge.                                   *)

(* An edge is closed.  If its job is still outstanding, the claim of the   *)
(* edge returns to the job.                                                *)
LEMMA EdgeCloses ==
    ASSUME NEW m, Steady, OneClaim(m), NEW e, NEW st \in Closed, StateAt(e, st),
           edges[e].state \notin Closed, UNCHANGED <<jobs, replies>>, NoWorkClaim(m),
           work'.pc = "prior" => work'.edge = e \/ work' = work,
           work'.pc \notin KeepsClaim \/ edges[e].parent_message # m,
           edges[e].parent_message = m /\ job_is_outstanding(Parent(e)) => MayContinue(e, m)
    PROVE  OneClaim(m)'
  <1>0. Durable /\ Lines /\ ParentsOK
    BY SteadyTypes
  <1>p. PICK p : p = Parent(e)
    OBVIOUS
  <1>1. /\ e \in DOMAIN edges /\ EdgesKept /\ edges'[e].state \in Closed
        /\ \A f \in DOMAIN edges : f # e => edges'[f] = edges[f]
        /\ p \in DOMAIN jobs /\ jobs[p].message = edges[e].parent_message
    BY <1>0, <1>p, EdgeParent DEF StateAt
  <1>2. /\ DOMAIN edges' = DOMAIN edges
        /\ \A f \in DOMAIN edges : /\ Parent(f)' = Parent(f)
                                   /\ edges'[f].parent_message = edges[f].parent_message
    BY <1>1 DEF EdgesKept, Parent
  <1>3. /\ \A j : j # p => (Delegates(j)' <=> Delegates(j))
        /\ \A f : Recorded(f)' <=> Recorded(f)
        /\ \A j \in DOMAIN jobs : (job_is_outstanding(j))' <=> job_is_outstanding(j)
    BY <1>1, <1>2, <1>p DEF Delegates, Recorded, job_is_outstanding
  <1>4. \A kind, x : Claim(kind, x, m)' =>
            \/ /\ kind = "job" /\ x = p
               /\ job_is_outstanding(p) /\ MayContinue(e, m)
            \/ Claim(kind, x, m) /\ (kind = "edge" /\ x = e => ~job_is_outstanding(p))
    <2> SUFFICES ASSUME NEW kind, NEW x, Claim(kind, x, m)'
                 PROVE  \/ /\ kind = "job" /\ x = p
                           /\ job_is_outstanding(p) /\ MayContinue(e, m)
                        \/ /\ Claim(kind, x, m)
                           /\ kind = "edge" /\ x = e => ~job_is_outstanding(p)
      OBVIOUS
    <2>1. CASE kind = "job" /\ MayAnswer(x, m)'
      <3>0. /\ x \in DOMAIN jobs /\ jobs[x].message = m /\ ~Delegates(x)'
            /\ \/ job_is_outstanding(x)
               \/ work'.job = x /\ work'.pc \in KeepsClaim
        BY <1>3, <2>1 DEF MayAnswer, KeepsClaim
      <3>1. CASE x = p
        BY <1>1, <1>p, <2>1, <3>0, <3>1
      <3>2. CASE x # p
        <4>1. ~Delegates(x)
          BY <1>3, <3>0, <3>2
        <4>2. MayAnswer(x, m)
          BY <3>0, <4>1 DEF MayAnswer, NoWorkClaim, KeepsClaim
        <4> QED BY <2>1, <4>2 DEF Claim
      <3> QED BY <3>1, <3>2
    <2>2. CASE kind = "edge" /\ MayContinue(x, m)'
      <3>0. /\ x \in DOMAIN edges /\ edges[x].parent_message = m /\ ~Recorded(x)
            /\ \/ edges'[x].state \notin Closed
               \/ work'.pc = "prior" /\ work'.edge = x /\ ~job_is_outstanding(Parent(x))
        <4>1. x \in DOMAIN edges /\ Parent(x)' = Parent(x) /\ Parent(x) \in DOMAIN jobs
          BY <1>0, <1>2, <2>2, EdgeParent DEF MayContinue
        <4> QED BY <1>2, <1>3, <2>2, <4>1 DEF MayContinue, At
      <3>1. CASE x = e
        <4>1. ~job_is_outstanding(p) /\ MayContinue(x, m)
          BY <1>1, <1>p, <3>0, <3>1 DEF MayContinue
        <4> QED BY <2>2, <4>1 DEF Claim
      <3>2. CASE x # e
        <4>1. MayContinue(x, m)
          BY <1>1, <3>0, <3>2 DEF MayContinue, At
        <4> QED BY <2>2, <3>2, <4>1 DEF Claim
      <3> QED BY <3>1, <3>2
    <2>3. CASE kind = "new" /\ MayBeRecorded(x, m)'
      <3>1. x \in DOMAIN jobs /\ (jobs[x].chain_edge # 0 => jobs[x].chain_edge \in DOMAIN edges)
        BY <1>0, <2>3, ChainEdge DEF MayBeRecorded
      <3>2. MayBeRecorded(x, m)
        BY <1>2, <1>3, <2>3, <3>1 DEF MayBeRecorded, NoWorkClaim, At
      <3> QED BY <2>3, <3>2 DEF Claim
    <2>4. CASE kind = "reply" /\ IsAnswer(x, m)'
      BY <2>4 DEF IsAnswer, Claim
    <2> QED BY <2>1, <2>2, <2>3, <2>4 DEF Claim
  <1>5. CASE job_is_outstanding(p) /\ MayContinue(e, m)
    <2>1. Claim("edge", e, m)
      BY <1>5 DEF Claim
    <2> QED BY <1>4, <1>5, <2>1, HandedOn
  <1>6. CASE ~(job_is_outstanding(p) /\ MayContinue(e, m))
    BY <1>4, <1>6, NoneGained
  <1> QED BY <1>5, <1>6

(* A continuation has ended before the job that delegated: it was          *)
(* cancelled before it was recorded, and the edge has the claim.           *)
LEMMA EndedBefore ==
    ASSUME NEW m, Steady, ~Cancelled(m), NEW e \in DOMAIN edges,
           edges[e].state \notin Closed, edges[e].parent_message = m,
           job_is_outstanding(Parent(e)),
           NEW k \in DOMAIN jobs, jobs[k].chain_edge = e, jobs[k].status \in Ended
    PROVE  MayContinue(e, m)
  <1>0. Durable /\ Lines /\ e # 0
    BY SteadyTypes, EdgeParent
  <1>1. \A i \in DOMAIN jobs : jobs[i].chain_edge = e =>
            /\ jobs[i].status \in {"queued", "cancelled"} /\ ~jobs[i].retried
            /\ jobs[i].message \in {0, m}
    BY <1>0 DEF Lines, JobLines, FollowsParent
  <1>2. jobs[k].message = 0
    BY <1>1 DEF Cancelled, Ended
  <1>3. \A i \in DOMAIN jobs : jobs[i].chain_edge = e => i = k
    BY <1>0, <1>1 DEF Durable, OneEach
  <1> QED BY <1>2, <1>3 DEF MayContinue, Recorded

(* Steps without a write to the job store keep the cancellations.          *)
LEMMA SameCancelled ==
    ASSUME NEW m, jobs' = jobs, ~Cancelled(m)'
    PROVE  ~Cancelled(m)
  BY DEF Cancelled

(* The edge of a cancelled job: its message is excepted.                   *)
LEMMA CancelEdgeClaims ==
    ASSUME NEW m, m # 0, Undisturbed(m), CancelEdge
    PROVE  OneClaim(m)'
  <1>0. Steady /\ Durable /\ Lines /\ OneClaim(m) /\ ~Cancelled(m)'
    BY SteadyTypes DEF Undisturbed
  <1>1. /\ At("cancel_edge") /\ work.job \in DOMAIN jobs /\ jobs[work.job].status = "cancelled"
        /\ UNCHANGED <<jobs, replies>> /\ work'.pc = "reply" /\ work'.job = work.job
        /\ work'.after = work.after
    BY <1>0, CancelEdgeEffect
  <1>2. NoWorkClaim(m)
    BY <1>1 DEF NoWorkClaim, KeepsClaim, At
  <1>3. CASE edges' = edges
    <2>1. JobsKept /\ EdgesKept
      BY <1>1, <1>3 DEF JobsKept, EdgesKept, job_is_outstanding
    <2> QED BY <1>0, <1>1, <1>2, <1>3, <2>1, QuietStep
  <1>4. ASSUME NEW e \in DOMAIN edges, Parent(e) = work.job, edges[e].state \notin Closed,
               StateAt(e, "failed")
        PROVE  OneClaim(m)'
    <2>1. edges[e].parent_message # m
      BY <1>0, <1>1, <1>4, EdgeParent DEF Cancelled
    <2> QED BY <1>0, <1>1, <1>2, <1>4, <2>1, EdgeCloses DEF Closed
  <1> QED BY <1>0, <1>3, <1>4, CancelEdgeEffect

(* The end of a continuation closes its edge.                              *)
LEMMA DoneClaims ==
    ASSUME NEW m, m # 0, Undisturbed(m), MarkDone
    PROVE  OneClaim(m)'
  <1>0. Steady /\ Durable /\ Lines /\ OneClaim(m) /\ ~Cancelled(m)'
    BY SteadyTypes DEF Undisturbed
  <1>j. PICK j : j = work.job
    OBVIOUS
  <1>e. PICK e : e = jobs[j].chain_edge
    OBVIOUS
  <1>1. /\ At("done") /\ j \in DOMAIN jobs /\ jobs[j].status \in Ended /\ work.after = "done"
        /\ UNCHANGED <<jobs, replies>> /\ ~Cancelled(m)
    BY <1>0, <1>j, DoneEffect, SameCancelled
  <1>2. CASE edges' = edges /\ work' = Idle
    <2>1. JobsKept /\ EdgesKept
      BY <1>1, <1>2 DEF JobsKept, EdgesKept, job_is_outstanding
    <2> QED BY <1>0, <1>1, <1>2, <2>1, QuietGoto, QuietStep
  <1>3. CASE /\ e # 0 /\ edges[e].state \notin Closed /\ StateAt(e, "done")
             /\ work'.pc = "prior" /\ work'.edge = e /\ work'.job = work.job
             /\ work'.after = "done"
    <2>1. NoWorkClaim(m) /\ work'.pc \notin KeepsClaim
      BY <1>1, <1>3 DEF NoWorkClaim, KeepsClaim
    <2>2. e \in DOMAIN edges
      BY <1>3 DEF StateAt
    <2>3. edges[e].parent_message = m /\ job_is_outstanding(Parent(e)) => MayContinue(e, m)
      BY <1>0, <1>1, <1>e, <1>3, <2>2, EndedBefore
    <2> QED BY <1>0, <1>1, <1>3, <2>1, <2>3, EdgeCloses DEF Closed
  <1> QED BY <1>0, <1>j, <1>e, <1>2, <1>3, DoneEffect

(* An edge without a continuation fails.                                   *)
LEMMA ContinuationFailsClaims ==
    ASSUME NEW m, m # 0, Undisturbed(m), ContinuationFails
    PROVE  OneClaim(m)'
  <1>0. Steady /\ OneClaim(m)
    BY DEF Undisturbed
  <1>e. PICK e : e = work.edge
    OBVIOUS
  <1>1. /\ e \in DOMAIN edges /\ ~HasContinuation(e) /\ edges[e].state = "child_completed"
        /\ UNCHANGED <<jobs, replies>> /\ StateAt(e, "failed")
        /\ work'.pc = "notice" /\ work'.job = work.job /\ work'.after = work.after
    BY <1>0, <1>e, FailsEffect
  <1>2. NoWorkClaim(m) /\ work'.pc \notin KeepsClaim
    BY <1>1 DEF NoWorkClaim, KeepsClaim
  <1>3. edges[e].parent_message = m => MayContinue(e, m)
    BY <1>1 DEF MayContinue, Recorded, HasContinuation, Closed
  <1> QED BY <1>0, <1>1, <1>2, <1>3, EdgeCloses DEF Closed

(* The link closes the edge of a continuation that has ended.              *)
LEMMA LinkClaims ==
    ASSUME NEW m, m # 0, Undisturbed(m), LinkContinuation
    PROVE  OneClaim(m)'
  <1>0. Steady /\ Durable /\ OneClaim(m) /\ ~Cancelled(m)'
    BY SteadyTypes DEF Undisturbed
  <1>e. PICK e : e = work.edge
    OBVIOUS
  <1>n. PICK n : n = work.new
    OBVIOUS
  <1>1. /\ e \in DOMAIN edges /\ n \in DOMAIN jobs /\ jobs[n].chain_edge = e
        /\ edges[e].state \notin Closed /\ UNCHANGED <<jobs, replies>>
        /\ ~Cancelled(m) /\ Replied /\ Goto(work.after)
    BY <1>0, <1>e, <1>n, LinkEffect, SameCancelled DEF Replied
  <1>2. NoWorkClaim(m) /\ work'.pc # "prior" /\ work'.pc \notin KeepsClaim
    BY <1>0, <1>1, QuietGoto
  <1>3. CASE StateAt(e, "continuation_submitted")
    <2>1. JobsKept
      BY <1>1 DEF JobsKept, job_is_outstanding
    <2>2. /\ EdgesKept
          /\ \A f \in DOMAIN edges : edges'[f].state \in Closed <=> edges[f].state \in Closed
      BY <1>1, <1>3 DEF StateAt, Closed
    <2> QED BY <1>0, <1>1, <1>2, <2>1, <2>2, QuietStep
  <1>4. CASE StateAt(e, "done") /\ jobs[n].status \in Ended
    <2>1. edges[e].parent_message = m /\ job_is_outstanding(Parent(e)) => MayContinue(e, m)
      BY <1>0, <1>1, <1>4, EndedBefore
    <2> QED BY <1>0, <1>1, <1>2, <1>4, <2>1, EdgeCloses DEF Closed
  <1> QED BY <1>0, <1>e, <1>n, <1>3, <1>4, LinkEffect

(* The handler closes the earlier edges of the message of work.edge: the   *)
(* job of such an edge has ended, or the edge has no recorded continuation *)
(* that it could take the claim from.                                      *)
LEMMA PriorEnded ==
    ASSUME NEW m, Steady, OneClaim(m), ~Cancelled(m), At("prior"), NEW f \in DOMAIN edges,
           edges[f].state \notin Closed, edges[f].parent_message = m,
           edges[work.edge].parent_message = m, job_is_outstanding(Parent(f))
    PROVE  MayContinue(f, m)
  <1>0. Durable /\ Lines /\ ParentsOK /\ WorkOK /\ HandlerOK
    BY SteadyTypes
  <1>e. PICK e : e = work.edge
    OBVIOUS
  <1>j. PICK j : j = work.job
    OBVIOUS
  <1>1. /\ e \in DOMAIN edges /\ e # 0 /\ f # 0 /\ m # 0 /\ j \in DOMAIN jobs
        /\ edges[e].parent_message = m /\ edges[e].state = "done" /\ work.after = "done"
        /\ jobs[j].chain_edge = e /\ jobs[j].status \in Ended
    <2>1. /\ work.after = "done" /\ work.edge \in DOMAIN edges /\ work.job \in DOMAIN jobs
          /\ jobs[work.job].chain_edge = work.edge /\ edges[work.edge].state = "done"
          /\ jobs[work.job].status \in Ended
      BY <1>0 DEF HandlerOK, WorkOK, Ending
    <2>2. f # 0 /\ work.edge # 0 /\ edges[f].parent_message # 0
      BY <1>0, <2>1, EdgeParent DEF Durable, Types
    <2> QED BY <1>e, <1>j, <2>1, <2>2
  <1>2. FollowsParent(j) /\ jobs[j].message \in {0, m}
    BY <1>0, <1>1 DEF Lines, JobLines, FollowsParent
  <1>3. SUFFICES ASSUME NEW c \in DOMAIN jobs, jobs[c].chain_edge = f, jobs[c].message # 0
                 PROVE  FALSE
    BY DEF MayContinue, Recorded
  <1>4. jobs[c].message = m /\ jobs[c].status = "queued"
    <2>1. jobs[c].message = m /\ jobs[c].status \in {"queued", "cancelled"}
      BY <1>0, <1>1, <1>3 DEF Lines, JobLines, FollowsParent
    <2> QED BY <2>1 DEF Cancelled
  <1>5. MayAnswer(c, m)
    BY <1>0, <1>4 DEF MayAnswer, Delegates, ParentsOK, job_is_outstanding
  <1>6. Claim("job", c, m)
    BY <1>5 DEF Claim
  <1>7. CASE jobs[j].message = m
    <2>1. PICK r \in DOMAIN replies : IsAnswer(r, m)
      BY <1>0, <1>1, <1>7, <1>j DEF HandlerOK, Replied, Cancelled
    <2>2. Claim("reply", r, m)
      BY <2>1 DEF Claim
    <2> QED BY <1>6, <2>2 DEF OneClaim
  <1>8. CASE jobs[j].message = 0 /\ jobs[j].retried
    <2>1. Claim("new", j, m)
      BY <1>1, <1>8, <1>j DEF Claim, MayBeRecorded
    <2> QED BY <1>6, <2>1 DEF OneClaim
  <1>9. CASE jobs[j].message = 0 /\ ~jobs[j].retried
    <2>1. ASSUME NEW k \in DOMAIN jobs, jobs[k].chain_edge = e, jobs[k].message # 0
          PROVE  FALSE
      <3>1. CASE jobs[k].retried
        BY <1>0, <1>1, <1>9, <2>1, <3>1 DEF Lines, JobLines, FollowsParent
      <3>2. CASE ~jobs[k].retried
        BY <1>0, <1>1, <1>9, <2>1, <3>2 DEF Durable, OneEach
      <3> QED BY <3>1, <3>2
    <2>2. CASE ~job_is_outstanding(Parent(e))
      <3>1. Claim("edge", e, m)
        BY <1>1, <1>e, <2>1, <2>2 DEF Claim, MayContinue, Recorded, At
      <3> QED BY <1>6, <3>1 DEF OneClaim
    <2>3. CASE job_is_outstanding(Parent(e))
      <3>q. PICK q : q = Parent(e)
        OBVIOUS
      <3>1. /\ q \in DOMAIN jobs /\ jobs[q].message = m /\ jobs[q].status # "queued"
        BY <1>0, <1>1, <3>q, EdgeParent
      <3>2. ~Delegates(q)
        BY <1>0, <1>1, <3>q DEF Delegates, ParentsOK, Closed
      <3>3. Claim("job", q, m)
        BY <2>3, <3>q, <3>1, <3>2 DEF Claim, MayAnswer
      <3> QED BY <1>4, <1>6, <3>1, <3>3 DEF OneClaim
    <2> QED BY <2>2, <2>3
  <1> QED BY <1>2, <1>7, <1>8, <1>9 DEF Durable

(* The earlier edges of the message are closed.                            *)
LEMMA PriorClaims ==
    ASSUME NEW m, m # 0, Undisturbed(m), MarkPrior
    PROVE  OneClaim(m)'
  <1>0. Steady /\ Durable /\ OneClaim(m) /\ ~Cancelled(m)'
    BY SteadyTypes DEF Undisturbed
  <1>1. At("prior") /\ UNCHANGED <<jobs, replies>> /\ ~Cancelled(m)
    BY <1>0, PriorEffect, SameCancelled
  <1>2. CASE edges' = edges /\ work' = Idle
    <2>1. JobsKept /\ EdgesKept
      BY <1>1, <1>2 DEF JobsKept, EdgesKept, job_is_outstanding
    <2> QED BY <1>0, <1>1, <1>2, <2>1, QuietGoto, QuietStep
  <1>3. ASSUME work' = work, NEW f \in DOMAIN edges, StateAt(f, "done"),
               edges[f].parent_message = edges[work.edge].parent_message,
               edges[f].state = "continuation_submitted"
        PROVE  OneClaim(m)'
    <2>1. NoWorkClaim(m) /\ work'.pc \notin KeepsClaim
      BY <1>1, <1>3 DEF NoWorkClaim, KeepsClaim, At
    <2>2. edges[f].state \notin Closed
      BY <1>3 DEF Closed
    <2>3. edges[f].parent_message = m /\ job_is_outstanding(Parent(f)) => MayContinue(f, m)
      BY <1>0, <1>1, <1>3, <2>2, PriorEnded
    <2> QED BY <1>0, <1>1, <1>3, <2>1, <2>2, <2>3, EdgeCloses DEF Closed
  <1> QED BY <1>0, <1>2, <1>3, PriorEffect
-----------------------------------------------------------------------------
(* Theorems: one answer.                                                   *)

(* A cancelled job stays cancelled, and on its message.                    *)
LEMMA CancelledStays ==
    ASSUME Steady, [Next]_vars, NEW m, m # 0, Cancelled(m)
    PROVE  Cancelled(m)'
  <1>0. Types
    BY SteadyTypes
  <1>j. PICK j \in DOMAIN jobs : jobs[j].message = m /\ jobs[j].status = "cancelled"
    BY DEF Cancelled
  <1> SUFFICES j \in DOMAIN jobs' /\ jobs'[j].message = m /\ jobs'[j].status = "cancelled"
    BY DEF Cancelled
  <1>1. CASE jobs' = jobs
    BY <1>1, <1>j
  <1>2. ASSUME NEW r, jobs' = Append(jobs, r)
        PROVE  j \in DOMAIN jobs' /\ jobs'[j] = jobs[j]
    BY <1>0, <1>2 DEF Types
  <1>3. CASE (\E a \in Entry : Submit(a)) \/ (\E a, b \in Agents : SubmitChain(a, b))
             \/ RetryJob \/ ContinuationJob
    BY <1>j, <1>2, <1>3 DEF Submit, SubmitChain, RetryJob, ContinuationJob
  <1>4. CASE RecordAttempt
    BY <1>4, <1>j, AttemptEffect DEF AttemptWritten
  <1>5. CASE RecordEvent
    BY <1>5, <1>j, EventEffect
  <1>6. ASSUME NEW k \in DOMAIN jobs, Start(k)
        PROVE  j \in DOMAIN jobs' /\ jobs'[j] = jobs[j]
    <2>1. jobs[k].status = "queued" /\ jobs' = [jobs EXCEPT ![k].status = "running"]
      BY <1>6 DEF Start, owns_mailbox_head
    <2> QED BY <1>0, <1>j, <2>1, StatusFields
  <1>7. ASSUME NEW k \in DOMAIN jobs,
               \/ Complete(k) \/ CompleteRetryable(k)
               \/ \E notice \in BOOLEAN : Cancel(k, notice)
        PROVE  j \in DOMAIN jobs' /\ jobs'[j] = jobs[j]
    <2>1. PICK status \in Ended : JobEnds(k, status)
      BY <1>7, EndEffect
    <2> QED BY <1>j, <2>1 DEF JobEnds
  <1>8. CASE UNCHANGED vars
    BY <1>1, <1>8 DEF vars
  <1>9. CASE RegisterEdge \/ Result \/ CancelEdge \/ RecordReply \/ MarkDone \/ MarkPrior
             \/ Continue \/ ContinuationFails \/ FailureNotice \/ LinkContinuation
             \/ (\E e \in DOMAIN edges : Repair(e)) \/ Crash
    BY <1>1, <1>9 DEF RegisterEdge, Result, CancelEdge, RecordReply, MarkDone, MarkPrior,
       Continue, ContinuationFails, FailureNotice, LinkContinuation, Repair, Crash, durable
  <1> QED BY <1>j, <1>3, <1>4, <1>5, <1>6, <1>7, <1>8, <1>9 DEF Next, Step

(* No step but a submission makes a message.                               *)
LEMMA SameMessages ==
    ASSUME [Next]_vars, ~\E a \in Entry : Submit(a), ~\E a, b \in Agents : SubmitChain(a, b)
    PROVE  messages' = messages
  <1>1. CASE Step
    BY <1>1 DEF Step, RecordAttempt, RecordEvent, RegisterEdge, Result, RetryJob, CancelEdge,
       RecordReply, MarkDone, MarkPrior, Continue, ContinuationJob, ContinuationFails,
       FailureNotice, LinkContinuation, durable
  <1>2. CASE ~Step
    BY <1>2 DEF Next, vars, Start, Complete, CompleteRetryable, Cancel, EndJob, Repair,
       Crash, durable
  <1> QED BY <1>1, <1>2

(* No step makes a second claim.                                           *)
LEMMA NextClaims ==
    ASSUME AnswerInv, [Next]_vars
    PROVE  AnswerInv'
  <1>0. Steady /\ messages \in Nat /\ Claims
    BY SteadyTypes DEF AnswerInv, Steady
  <1>1. Steady'
    BY <1>0, NextSteady
  <1>2. SUFFICES ASSUME NEW m \in 1 .. messages', ~Cancelled(m)'
                 PROVE  OneClaim(m)'
    BY <1>1 DEF AnswerInv, Steady, Claims
  <1>3. CASE (\E a \in Entry : Submit(a)) \/ (\E a, b \in Agents : SubmitChain(a, b))
    <2>1. messages' = messages + 1
      BY <1>3 DEF Submit, SubmitChain
    <2>2. m \in 1 .. messages + 1 /\ m # 0
      BY <1>0, <2>1
    <2>3. m <= messages => OneClaim(m)
      BY <1>0, <1>2, <2>2, CancelledStays DEF Claims
    <2> QED BY <1>0, <1>3, <2>2, <2>3, SubmitClaims
  <1>4. CASE ~((\E a \in Entry : Submit(a)) \/ (\E a, b \in Agents : SubmitChain(a, b)))
    <2>1. m \in 1 .. messages /\ m # 0
      BY <1>0, <1>4, SameMessages
    <2>2. Undisturbed(m)
      BY <1>0, <1>2, <2>1, CancelledStays DEF Claims, Undisturbed
    <2>3. CASE Step
      BY <2>1, <2>2, <2>3, AttemptClaims, EventClaims, RegisterClaims, ResultClaims,
         RetryClaims, CancelEdgeClaims, ReplyClaims, DoneClaims, PriorClaims,
         ContinueClaims, ContinuationJobClaims, ContinuationFailsClaims, NoticeClaims,
         LinkClaims DEF Step
    <2>4. CASE \E j \in DOMAIN jobs : Start(j)
      BY <2>2, <2>4, StartClaims
    <2>5. CASE \/ \E j \in DOMAIN jobs : Complete(j) \/ CompleteRetryable(j)
               \/ \E j \in DOMAIN jobs, notice \in BOOLEAN : Cancel(j, notice)
      BY <2>2, <2>5, EndClaims
    <2>6. CASE (\E e \in DOMAIN edges : Repair(e)) \/ Crash
      BY <2>2, <2>6, RepairCrashClaims
    <2>7. CASE UNCHANGED vars
      <3>1. UNCHANGED <<jobs, edges, replies, work>>
        BY <2>7 DEF vars
      <3>2. JobsKept /\ EdgesKept /\ NoWorkClaim(m)
        BY <3>1 DEF JobsKept, EdgesKept, NoWorkClaim, At, job_is_outstanding
      <3>3. \A j \in DOMAIN jobs : job_is_outstanding(j) => (job_is_outstanding(j))'
        BY <3>1 DEF job_is_outstanding
      <3> QED BY <1>0, <2>2, <3>1, <3>2, <3>3, SteadyTypes, QuietStep DEF Undisturbed, At
    <2> QED BY <1>4, <2>3, <2>4, <2>5, <2>6, <2>7 DEF Next
  <1> QED BY <1>3, <1>4

(* Between any two writes there is at most one claim to the answer of a    *)
(* message of which no job was cancelled.                                  *)
THEOREM AnswerInvariant == Spec => []AnswerInv
  <1>1. ASSUME Init
        PROVE  AnswerInv
    <2>1. Inv
      BY <1>1, InitOK
    <2>2. jobs = << >> /\ edges = << >> /\ work = Idle /\ messages = 0
      BY <1>1 DEF Init
    <2>3. Lines
      BY <2>2 DEF Lines, ParentsOK, JobLines
    <2>4. HandlerOK
      BY <2>2, IdleFields DEF HandlerOK, At, Recording, Ending, Replied
    <2> QED BY <2>1, <2>2, <2>3, <2>4 DEF AnswerInv, Claims
  <1> QED BY <1>1, NextClaims, PTL DEF Spec

(* The caller of a message of which no job was cancelled has at most one   *)
(* answer to it: the job that delegated is silent, and its continuation    *)
(* answers, whatever is retried, repaired or lost in a crash.              *)
THEOREM AnsweredOnceHolds == Spec => []AnsweredOnce
  <1>1. ASSUME AnswerInv
        PROVE  AnsweredOnce
    <2> SUFFICES ASSUME NEW m \in 1 .. messages, ~Cancelled(m)
                 PROVE  Cardinality({r \in DOMAIN replies : /\ replies[r].message = m
                                                          /\ replies[r].delivered
                                                          /\ ~replies[r].notice}) <= 1
      BY DEF AnsweredOnce, Cancelled
    <2> DEFINE R == {r \in DOMAIN replies : /\ replies[r].message = m
                                           /\ replies[r].delivered /\ ~replies[r].notice}
    <2>1. OneClaim(m)
      BY <1>1 DEF AnswerInv, Claims
    <2>2. \A r \in R : Claim("reply", r, m)
      BY DEF Claim, IsAnswer
    <2>3. \A r, s \in R : r = s
      BY <2>1, <2>2 DEF OneClaim
    <2> HIDE DEF R
    <2>4. Cardinality(R) <= 1
      BY <2>3, AtMostOne
    <2> QED BY <2>4 DEF R
  <1> QED BY <1>1, AnswerInvariant, PTL
=============================================================================
