---------------------------- MODULE SocketServer ----------------------------
(* The control socket of the daemon: the accepting main thread, the request *)
(* worker and the maintenance worker, from the moment they serve (the       *)
(* runtime bootstrap is still to be finished) to the end of the process.    *)
(* A thread is the list of the steps it has yet to take (its agenda): a     *)
(* call puts the steps of the callee in front, a thread whose agenda is     *)
(* empty has ended, and the end of main is the end of the process.          *)
EXTENDS Integers, Sequences, FiniteSets

CONSTANTS
    Limits,      \* what may happen in a run: the requests that clients send
                 \* and a bound on exceptions (failing actions, ticks, accepts)
    MaxQueue     \* _CONNECTION_QUEUE_MAXSIZE

Threads == {"main", "worker", "maintenance"}
Nobody == "nobody"

MutatingOps == {"submit", "restart", "stop-all"}
FinalizedOps == {"restart", "stop-all", "shutdown"}
ShutdownOps == {"stop-all", "shutdown"}
Ops == {"ping"} \cup MutatingOps \cup FinalizedOps

ASSUME SocketServerAssumption ==
    /\ MaxQueue \in Nat \ {0}
    /\ \A l \in Limits : l.requests \in Seq(Ops) /\ l.errors \in Nat

(* Bootstrapping leaves one action for the maintenance worker: on_serving. *)
Serving == [op |-> "serving", conn |-> 0]
Sentinel == 0

VARIABLES
    limits,    \* the limits of this run
    conns,     \* the state of each connection accepted so far
    queue,     \* _connection_queue: connections and sentinels
    aged,      \* queued connections older than _MAX_QUEUED_CONNECTION_AGE_S
    server,    \* the flags, the dirty signal and the action list of the server
    agenda,    \* what each thread has yet to do
    errors,    \* exceptions so far
    history    \* what happened, for the properties

vars == <<limits, conns, queue, aged, server, agenda, errors, history>>

requests == limits.requests   \* connection c asks for requests[c]
MaxErrors == limits.errors

Conns == DOMAIN conns
ended(t) == agenda[t] = <<>>
exited == ended("main")

-----------------------------------------------------------------------------
(* Steps and lists of steps.                                                *)

Do(what) == [do |-> what, conn |-> 0, op |-> "none"]
Serve(what, c) == [do |-> what, conn |-> c, op |-> requests[c]]
Run(action) == [do |-> "run", conn |-> action.conn, op |-> action.op]

(* shutdown_server sets the stop event before it clears the gate flags.     *)
request_shutdown_flags_first == <<Do("close_listener"), Do("set_stop")>>
request_shutdown == <<Do("set_stop"), Do("close_listener")>>

stop_worker == <<Do("close_pending"), Do("put_sentinel"), Do("join_worker")>>
stop_maintenance_worker == <<Do("wake"), Do("join_maintenance"), Do("drain")>>

release_backend_ownership ==
    request_shutdown \o stop_worker \o stop_maintenance_worker

Batch(actions) ==
    IF actions = <<>> THEN <<>>
    ELSE [i \in 1 .. Len(actions) |-> Run(actions[i])] \o <<Do("end_batch")>>

(* What is left of an agenda when an action of its batch raises.            *)
AfterBatch(steps) ==
    LET i == CHOOSE i \in DOMAIN steps :
                /\ steps[i].do = "end_batch"
                /\ \A k \in 1 .. i - 1 : steps[k].do # "end_batch"
    IN  SubSeq(steps, i + 1, Len(steps))

At(t, what) == ~exited /\ ~ended(t) /\ Head(agenda[t]).do = what
Goes(t, steps) == agenda' = [agenda EXCEPT ![t] = steps]
GoesOn(t) == Goes(t, Tail(agenda[t]))
Calls(t, steps) == Goes(t, steps \o Tail(agenda[t]))

-----------------------------------------------------------------------------
(* The dirty signal and the action list, each changed under                 *)
(* _maintenance_state_lock.                                                 *)

queue_maintenance_ticks(s) == [s EXCEPT !.ticks = 1, !.event = TRUE]

take_queued_maintenance_ticks(s) ==
    [s EXCEPT !.ticks = 0, !.event = s.event /\ s.actions # <<>>]

queue_after_response_action(s, action) ==
    [s EXCEPT !.actions = Append(@, action), !.event = TRUE]

pop_after_response_actions_clears(s) ==
    [s EXCEPT !.actions = <<>>, !.event = FALSE]
pop_after_response_actions(s) ==
    [s EXCEPT !.actions = <<>>, !.event = s.event /\ s.ticks > 0]

popped_none_after_stop(s, shutdown_only) ==
    IF shutdown_only THEN <<>> ELSE s.actions
popped(s, shutdown_only) ==
    LET keep[i \in 0 .. Len(s.actions)] ==
            IF i = 0 THEN <<>>
            ELSE IF ~shutdown_only \/ s.actions[i].op \in ShutdownOps
                 THEN Append(keep[i - 1], s.actions[i])
                 ELSE keep[i - 1]
    IN  keep[Len(s.actions)]

-----------------------------------------------------------------------------
Init ==
    /\ limits \in Limits
    /\ conns = <<>>
    /\ queue = <<>>
    /\ aged = {}
    /\ server = [stop |-> FALSE, listening |-> TRUE, bootstrap |-> TRUE,
                 gate |-> Nobody, error |-> FALSE, ticks |-> 0, event |-> TRUE,
                 actions |-> <<Serving>>, joined |-> {}, stopping |-> FALSE]
    /\ agenda = [t \in Threads |->
                    <<Do(CASE t = "main" -> "accept"
                           [] t = "worker" -> "get"
                           [] t = "maintenance" -> "wait")>>]
    /\ errors = 0
    /\ history = [published |-> FALSE, failed |-> FALSE, posted |-> {},
                  handled |-> {}, owed |-> {}, finalized |-> <<>>]

(* An exception ends the batch of actions it came from and stops serving.   *)
Raises(t, steps) ==
    /\ server' = [server EXCEPT !.error = TRUE, !.stop = TRUE,
                                !.gate = IF @ = t THEN Nobody ELSE @]
    /\ Goes(t, steps)
    /\ UNCHANGED <<limits, conns, queue, aged, history>>

MayRaise == errors < MaxErrors /\ errors' = errors + 1

-----------------------------------------------------------------------------
(* The main thread.                                                         *)

Accept ==
    /\ At("main", "accept")
    /\ ~server.stop /\ server.listening
    /\ Len(conns) < Len(requests)
    /\ conns' = Append(conns, "accepted")
    /\ Calls("main", <<Serve("enqueue", Len(conns')), Do("accept")>>)
    /\ UNCHANGED <<limits, queue, aged, server, errors, history>>

EnqueueCheck ==
    /\ At("main", "enqueue")
    /\ LET c == Head(agenda["main"]).conn IN
        IF server.stop
        THEN /\ conns' = [conns EXCEPT ![c] = "closed"]
             /\ GoesOn("main")
        ELSE /\ Calls("main", <<Serve("put", c)>>)
             /\ UNCHANGED conns
    /\ UNCHANGED <<limits, queue, aged, server, errors, history>>

(* A connection that is given up is closed; a sentinel is no connection.    *)
Close(cs, c) == IF c = Sentinel THEN cs ELSE [cs EXCEPT ![c] = "closed"]

Full_off_by_one(q) == Len(q) > MaxQueue
Full(q) == Len(q) >= MaxQueue

(* put_nowait, when there is room.                                          *)
Put(c) ==
    /\ queue' = Append(queue, c)
    /\ conns' = IF c = Sentinel THEN conns ELSE [conns EXCEPT ![c] = "queued"]

(* A full queue loses its oldest entry, and the put is tried once more.     *)
EnqueuePut ==
    /\ At("main", "put")
    /\ LET c == Head(agenda["main"]).conn IN
        \/ /\ ~Full(queue)
           /\ Put(c)
           /\ GoesOn("main")
        \/ /\ Full(queue)
           /\ Calls("main", <<Do("make_room"), Serve("put_again", c)>>)
           /\ UNCHANGED <<conns, queue>>
    /\ UNCHANGED <<limits, aged, server, errors, history>>

EnqueueAgain ==
    /\ At("main", "put_again")
    /\ LET c == Head(agenda["main"]).conn IN
        \/ ~Full(queue) /\ Put(c)
        \/ Full(queue) /\ conns' = Close(conns, c) /\ UNCHANGED queue
    /\ GoesOn("main")
    /\ UNCHANGED <<limits, aged, server, errors, history>>

without_oldest_peeks(q) == q
without_oldest(q) == Tail(q)

(* close_oldest_queued_connection: a sentinel is put back, if it still can. *)
MakeRoom(t) ==
    /\ At(t, "make_room")
    /\ \/ /\ queue = <<>>
          /\ GoesOn(t)
          /\ UNCHANGED <<conns, queue>>
       \/ /\ queue # <<>>
          /\ conns' = Close(conns, Head(queue))
          /\ queue' = without_oldest(queue)
          /\ IF Head(queue) = Sentinel THEN Calls(t, <<Do("put_sentinel_again")>>)
             ELSE GoesOn(t)
    /\ UNCHANGED <<limits, aged, server, errors, history>>

(* The accept loop ends; what is left is the teardown of serve_forever and  *)
(* the release of the backend by the application.                           *)
Leave ==
    Goes("main", stop_worker \o stop_maintenance_worker \o release_backend_ownership)

AcceptStops ==
    /\ At("main", "accept")
    /\ server.stop \/ ~server.listening
    /\ Leave
    /\ UNCHANGED <<limits, conns, queue, aged, server, errors, history>>

AcceptFails ==
    /\ At("main", "accept")
    /\ MayRaise
    /\ Leave
    /\ UNCHANGED <<limits, conns, queue, aged, server, history>>

(* A queued connection gets older than the limit.                           *)
Age(c) ==
    /\ ~exited
    /\ c \in Conns \ aged
    /\ conns[c] = "queued"
    /\ aged' = aged \cup {c}
    /\ UNCHANGED <<limits, conns, queue, server, agenda, errors, history>>

-----------------------------------------------------------------------------
(* The request worker.                                                      *)

queued_connection_expired(c) == c \in aged

WorkerGet ==
    /\ At("worker", "get")
    /\ queue # <<>>
    /\ LET c == Head(queue) IN
        \/ /\ c = Sentinel
           /\ Goes("worker", <<>>)
           /\ UNCHANGED conns
        \/ /\ c # Sentinel
           /\ queued_connection_expired(c)
           /\ conns' = [conns EXCEPT ![c] = "closed"]
           /\ UNCHANGED agenda
        \/ /\ c # Sentinel
           /\ ~queued_connection_expired(c)
           /\ conns' = [conns EXCEPT ![c] = "read"]
           /\ Calls("worker", <<Serve("dispatch", c), Serve("respond", c),
                                Serve("post", c), Do("get")>>)
    /\ queue' = Tail(queue)
    /\ UNCHANGED <<limits, aged, server, errors, history>>

WorkerStops ==
    /\ At("worker", "get")
    /\ queue = <<>> /\ server.stop
    /\ Goes("worker", <<>>)
    /\ UNCHANGED <<limits, conns, queue, aged, server, errors, history>>

stopping_refuses(op) == server.stop /\ op # "shutdown"
bootstrap_restricted(op) == server.bootstrap /\ op # "ping"

(* handle_connection takes the gate and reads the stop event; a request     *)
(* that passes keeps the gate until its handler returns.                    *)
Dispatch ==
    /\ At("worker", "dispatch")
    /\ server.gate = Nobody
    /\ LET c == Head(agenda["worker"]).conn IN
        \/ /\ stopping_refuses(requests[c])
           /\ conns' = [conns EXCEPT ![c] = "refused"]
           /\ GoesOn("worker")
           /\ UNCHANGED server
        \/ /\ ~stopping_refuses(requests[c])
           /\ server' = [server EXCEPT !.gate = "worker"]
           /\ Calls("worker", <<Serve("admit", c)>>)
           /\ UNCHANGED conns
    /\ UNCHANGED <<limits, queue, aged, errors, history>>

(* It reads the bootstrap flags later: shutdown_server, which does not take *)
(* the gate, may have set the stop event and cleared them in between.  The  *)
(* handlers of stop-all and shutdown mark the lifecycle as stopping; that   *)
(* of shutdown then releases the backend itself.                            *)
Admit ==
    /\ At("worker", "admit")
    /\ LET c == Head(agenda["worker"]).conn
           op == requests[c]
       IN  \/ /\ bootstrap_restricted(op)
              /\ conns' = [conns EXCEPT ![c] = "refused"]
              /\ server' = [server EXCEPT !.gate = Nobody]
              /\ GoesOn("worker")
              /\ UNCHANGED history
           \/ /\ ~bootstrap_restricted(op)
              /\ conns' = [conns EXCEPT ![c] = "handling"]
              /\ server' = [server EXCEPT !.stopping = @ \/ op \in ShutdownOps]
              /\ history' = [history EXCEPT !.handled = @ \cup {c},
                                !.owed = IF op = "stop-all" THEN @ \cup {c} ELSE @]
              /\ Calls("worker",
                       (IF op = "shutdown" THEN release_backend_ownership ELSE <<>>)
                       \o <<Serve("return", c)>>)
    /\ UNCHANGED <<limits, queue, aged, errors>>

HandlerReturns ==
    /\ At("worker", "return")
    /\ conns' = [conns EXCEPT ![Head(agenda["worker"]).conn] = "handled"]
    /\ server' = [server EXCEPT !.gate = Nobody]
    /\ GoesOn("worker")
    /\ UNCHANGED <<limits, queue, aged, errors, history>>

(* The response is written, or the client is gone; either way the finalizer *)
(* of a handled request is queued.                                          *)
Respond ==
    /\ At("worker", "respond")
    /\ LET c == Head(agenda["worker"]).conn
           op == requests[c]
       IN  /\ server' = IF conns[c] = "handled" /\ op \in FinalizedOps
                        THEN queue_after_response_action(server, [op |-> op, conn |-> c])
                        ELSE server
           /\ conns' = [conns EXCEPT ![c] = "answered"]
    /\ GoesOn("worker")
    /\ UNCHANGED <<limits, queue, aged, errors, history>>

request_maintenance_ticks(op) == op \in MutatingOps

PostRequest ==
    /\ At("worker", "post")
    /\ LET c == Head(agenda["worker"]).conn IN
        IF ~server.stop /\ request_maintenance_ticks(requests[c])
        THEN /\ server' = queue_maintenance_ticks(server)
             /\ history' = [history EXCEPT !.posted = @ \cup {c}]
        ELSE UNCHANGED <<server, history>>
    /\ GoesOn("worker")
    /\ UNCHANGED <<limits, conns, queue, aged, errors>>

-----------------------------------------------------------------------------
(* The maintenance worker.                                                  *)

(* Wait until the event is set, or until the next tick is due.              *)
MaintenanceWakes ==
    /\ At("maintenance", "wait")
    /\ Goes("maintenance", <<Do(IF server.event THEN "woken" ELSE "timed_out")>>)
    /\ UNCHANGED <<limits, conns, queue, aged, server, errors, history>>

(* Then the actions come first.  After a stop only those of a shutdown run, *)
(* and the thread ends.                                                     *)
MaintenanceActions ==
    /\ At("maintenance", "woken") \/ At("maintenance", "timed_out")
    /\ LET woke == At("maintenance", "woken") IN
        Goes("maintenance",
             Batch(popped(server, server.stop))
             \o IF server.stop THEN <<>>
                ELSE <<Do(IF woke THEN "post_request_tick" ELSE "tick_if_needed")>>)
    /\ server' = pop_after_response_actions(server)
    /\ UNCHANGED <<limits, conns, queue, aged, errors, history>>

request_backlog_pending == queue # <<>>

(* A tick is taken if one is pending or due; with a backlog of requests a   *)
(* due tick is put off.                                                     *)
MaintenanceTicks ==
    /\ At("maintenance", "post_request_tick") \/ At("maintenance", "tick_if_needed")
    /\ \/ /\ server.stop
          /\ Goes("maintenance", <<>>)
          /\ UNCHANGED server
       \/ /\ ~server.stop /\ At("maintenance", "tick_if_needed")
          /\ request_backlog_pending
          /\ Goes("maintenance", <<Do("wait")>>)
          /\ UNCHANGED server
       \/ /\ ~server.stop
          /\ At("maintenance", "tick_if_needed") => ~request_backlog_pending
          /\ server' = take_queued_maintenance_ticks(server)
          /\ \E due \in BOOLEAN :
                /\ At("maintenance", "tick_if_needed") \/ server.ticks > 0 => due
                /\ Goes("maintenance",
                        (IF due THEN <<Do("tick")>> ELSE <<>>) \o <<Do("wait")>>)
    /\ UNCHANGED <<limits, conns, queue, aged, errors, history>>

(* The heartbeat; it asks for a shutdown when the lifecycle is stopping.    *)
Tick ==
    /\ At("maintenance", "tick")
    /\ Calls("maintenance", IF server.stopping THEN request_shutdown ELSE <<>>)
    /\ history' = [history EXCEPT !.posted = {}]
    /\ UNCHANGED <<limits, conns, queue, aged, server, errors>>

TickFails ==
    /\ At("maintenance", "tick")
    /\ MayRaise
    /\ Raises("maintenance", <<>>)

-----------------------------------------------------------------------------
(* After-response actions and the teardown, which any thread may come to.   *)

RunAction(t) ==
    /\ At(t, "run")
    /\ LET step == Head(agenda[t]) IN
        Calls(t, CASE step.op = "serving" -> <<Do("publish")>>
                   [] step.op = "restart" -> <<>>
                   [] step.op = "stop-all" ->
                        release_backend_ownership
                        \o <<[do |-> "finalize", conn |-> step.conn, op |-> step.op]>>
                   [] step.op = "shutdown" -> request_shutdown)
    /\ UNCHANGED <<limits, conns, queue, aged, server, errors, history>>

(* A runtime bootstrap that fails marks the lifecycle as failed and         *)
(* releases the backend, and only then raises.                              *)
BootstrapFails(t) == Calls(t, release_backend_ownership \o <<Do("raise")>>)

ActionFails(t) ==
    /\ At(t, "run")
    /\ MayRaise
    /\ \/ /\ Head(agenda[t]).op = "serving"
          /\ BootstrapFails(t)
          /\ UNCHANGED <<limits, conns, queue, aged, server, history>>
       \/ /\ Head(agenda[t]).op = "restart"
          /\ Raises(t, AfterBatch(agenda[t]))

RaiseAfterRelease(t) ==
    /\ At(t, "raise")
    /\ Raises(t, AfterBatch(agenda[t]))
    /\ UNCHANGED errors

EndBatch(t) ==
    /\ At(t, "end_batch")
    /\ GoesOn(t)
    /\ UNCHANGED <<limits, conns, queue, aged, server, errors, history>>

bootstrap_can_finish ==
    /\ server.bootstrap /\ server.listening
    /\ ~server.stop /\ ~server.error
    /\ ~ended("worker")

(* A publication that fails stops serving before it gives up the gate.      *)
publication_fails_open(s) == [s EXCEPT !.gate = Nobody]
publication_fails(s) == [s EXCEPT !.gate = Nobody, !.stop = TRUE]

PublicationFails(t) ==
    /\ server' = publication_fails(server)
    /\ history' = [history EXCEPT !.failed = TRUE]
    /\ BootstrapFails(t)

(* finish_runtime_bootstrap: publish under the gate (publish_ready may      *)
(* raise), check again, open.  The startup report that follows may raise.   *)
Publish(t) ==
    /\ At(t, "publish")
    /\ server.gate = Nobody
    /\ \/ /\ bootstrap_can_finish
          /\ server' = [server EXCEPT !.gate = t]
          /\ history' = [history EXCEPT !.published = TRUE]
          /\ Calls(t, <<Do("open")>>)
          /\ UNCHANGED errors
       \/ /\ IF bootstrap_can_finish THEN MayRaise ELSE UNCHANGED errors
          /\ PublicationFails(t)
    /\ UNCHANGED <<limits, conns, queue, aged>>

Open(t) ==
    /\ At(t, "open")
    /\ \/ /\ bootstrap_can_finish
          /\ server' = [server EXCEPT !.gate = Nobody, !.bootstrap = FALSE]
          /\ \/ GoesOn(t) /\ UNCHANGED errors
             \/ BootstrapFails(t) /\ MayRaise
          /\ UNCHANGED history
       \/ /\ ~bootstrap_can_finish
          /\ PublicationFails(t)
          /\ UNCHANGED errors
    /\ UNCHANGED <<limits, conns, queue, aged>>

(* The rest of finalize_project_stop: the report and the deferred           *)
(* destruction of the namespace.                                            *)
Finalize(t) ==
    /\ At(t, "finalize")
    /\ history' = [history EXCEPT !.finalized = Append(@, Head(agenda[t]).conn)]
    /\ GoesOn(t)
    /\ UNCHANGED <<limits, conns, queue, aged, server, errors>>

ShutdownServer(t) ==
    /\ \/ /\ At(t, "set_stop")
          /\ server' = [server EXCEPT !.stop = TRUE]
       \/ /\ At(t, "close_listener")
          /\ server' = [server EXCEPT !.listening = FALSE, !.bootstrap = FALSE]
    /\ GoesOn(t)
    /\ UNCHANGED <<limits, conns, queue, aged, errors, history>>

(* close_pending_connections takes one connection after the other.  A       *)
(* worker that was joined before leaves nothing to do.                      *)
StopWorker(t) ==
    /\ \/ /\ At(t, "close_pending")
          /\ \/ /\ "worker" \in server.joined
                /\ Goes(t, SubSeq(agenda[t], Len(stop_worker) + 1, Len(agenda[t])))
                /\ UNCHANGED <<conns, queue>>
             \/ /\ "worker" \notin server.joined /\ queue # <<>>
                /\ conns' = Close(conns, Head(queue))
                /\ queue' = Tail(queue)
                /\ UNCHANGED agenda
             \/ /\ "worker" \notin server.joined /\ queue = <<>>
                /\ GoesOn(t)
                /\ UNCHANGED <<conns, queue>>
       \/ /\ At(t, "put_sentinel")
          /\ \/ ~Full(queue) /\ Put(Sentinel) /\ GoesOn(t)
             \/ /\ Full(queue)
                /\ Calls(t, <<Do("make_room"), Do("put_sentinel_again")>>)
                /\ UNCHANGED <<conns, queue>>
       \/ /\ At(t, "put_sentinel_again")
          /\ IF Full(queue) THEN UNCHANGED <<conns, queue>> ELSE Put(Sentinel)
          /\ GoesOn(t)
    /\ UNCHANGED <<limits, aged, server, errors, history>>

StopMaintenance(t) ==
    /\ \/ /\ At(t, "wake")
          /\ IF "maintenance" \in server.joined
             THEN /\ Goes(t, SubSeq(agenda[t], 3, Len(agenda[t])))
                  /\ UNCHANGED server
             ELSE /\ server' = [server EXCEPT !.event = TRUE]
                  /\ GoesOn(t)
       \/ /\ At(t, "drain")
          /\ Calls(t, Batch(popped(server, server.stop)))
          /\ server' = pop_after_response_actions(server)
    /\ UNCHANGED <<limits, conns, queue, aged, errors, history>>

(* A join ends with the thread it waits for, or after                       *)
(* _WORKER_JOIN_TIMEOUT_S; a thread does not wait for itself.               *)
join_returns_untimed(t, other) == t = other \/ ended(other)
join_returns(t, other) == TRUE

Join(t, other) ==
    /\ At(t, IF other = "worker" THEN "join_worker" ELSE "join_maintenance")
    /\ join_returns(t, other)
    /\ server' = [server EXCEPT !.joined =
                    IF ended(other) THEN @ \cup {other} ELSE @]
    /\ GoesOn(t)
    /\ UNCHANGED <<limits, conns, queue, aged, errors, history>>

-----------------------------------------------------------------------------
Main ==
    \/ Accept \/ EnqueueCheck \/ EnqueuePut \/ EnqueueAgain
    \/ AcceptStops \/ AcceptFails

Worker ==
    \/ WorkerGet \/ WorkerStops \/ Dispatch \/ Admit
    \/ HandlerReturns \/ Respond \/ PostRequest

Maintenance ==
    \/ MaintenanceWakes \/ MaintenanceActions \/ MaintenanceTicks
    \/ Tick \/ TickFails

Teardown(t) ==
    \/ RunAction(t) \/ ActionFails(t) \/ RaiseAfterRelease(t) \/ EndBatch(t)
    \/ Publish(t) \/ Open(t) \/ Finalize(t) \/ MakeRoom(t)
    \/ ShutdownServer(t) \/ StopWorker(t) \/ StopMaintenance(t)
    \/ \E other \in {"worker", "maintenance"} : Join(t, other)

Next ==
    \/ Main \/ Worker \/ Maintenance
    \/ \E t \in Threads : Teardown(t)
    \/ \E c \in Conns : Age(c)

Spec == Init /\ [][Next]_vars

(* Threads are scheduled, handlers and actions return, joins time out.      *)
(* Nobody has to connect, and nothing has to go wrong.                      *)
FairSpec ==
    /\ Spec
    /\ WF_vars(EnqueueCheck \/ EnqueuePut \/ EnqueueAgain
               \/ AcceptStops \/ Teardown("main"))
    /\ WF_vars(Worker \/ Teardown("worker"))
    /\ WF_vars(Maintenance \/ Teardown("maintenance"))

-----------------------------------------------------------------------------
Action == [op : FinalizedOps \cup {"serving"}, conn : 0 .. Len(requests)]

Steps == [do : {"accept", "enqueue", "put", "put_again", "make_room", "get",
                "dispatch", "admit", "return", "respond", "post", "wait", "woken",
                "timed_out", "post_request_tick", "tick_if_needed", "tick", "run",
                "end_batch", "raise", "publish", "open", "finalize", "set_stop",
                "close_listener", "close_pending", "put_sentinel",
                "put_sentinel_again", "join_worker", "wake", "join_maintenance",
                "drain"},
          conn : {0} \cup Conns,
          op : Ops \cup {"none", "serving"}]

(* The connection queue stays within its size, the dirty signal is a flag,  *)
(* and whatever a thread has yet to do is about a connection there is.      *)
TypeOK ==
    /\ limits \in Limits
    /\ conns \in Seq({"accepted", "queued", "read", "refused", "handling",
                      "handled", "answered", "closed"})
    /\ Len(conns) <= Len(requests)
    /\ queue \in Seq({Sentinel} \cup Conns) /\ Len(queue) <= MaxQueue
    /\ aged \subseteq Conns
    /\ server \in [stop : BOOLEAN, listening : BOOLEAN, bootstrap : BOOLEAN,
                   gate : Threads \cup {Nobody}, error : BOOLEAN,
                   ticks : {0, 1}, event : BOOLEAN, actions : Seq(Action),
                   joined : SUBSET {"worker", "maintenance"},
                   stopping : BOOLEAN]
    /\ agenda \in [Threads -> Seq(Steps)]
    /\ errors \in 0 .. MaxErrors
    /\ history \in [published : BOOLEAN, failed : BOOLEAN, posted : SUBSET Conns,
                    handled : SUBSET Conns, owed : SUBSET Conns,
                    finalized : Seq(Conns)]

(* A mutation that was posted is followed by a tick without waiting for the *)
(* period: until a tick begins, the dirty signal and the event are set, or  *)
(* the maintenance worker has the tick in hand, or serving has stopped      *)
(* (take_queued_maintenance_ticks, pop_after_response_actions).             *)
NoLostWakeup ==
    history.posted # {} =>
        \/ server.stop
        \/ server.ticks = 1 /\ server.event
        \/ At("maintenance", "tick")

(* What the order of shutdown_server and the gate achieve: as long as       *)
(* serving has not stopped, only ping is handled before the bootstrap is    *)
(* published.  A request that passes the stop event and finds the flags     *)
(* cleared by a bootstrap that failed in between is handled in a daemon     *)
(* that is not published; it stays the exception, since serving has stopped *)
(* by then (handle_connection, shutdown_server).                            *)
UnpublishedIsStopped ==
    \A c \in history.handled :
        requests[c] = "ping" \/ history.published \/ server.stop

(* "Once final publication fails, even ping must fail closed": from then on *)
(* no handler starts but that of shutdown (finish_runtime_bootstrap sets    *)
(* the stop event before it releases the gate).                             *)
FailedPublicationCloses ==
    [][\A c \in history'.handled \ history.handled :
        history.failed => requests[c] = "shutdown"]_vars

(* A connection the server closes without an answer (dropped from the full  *)
(* queue, expired, closed by the teardown) had no effect, and an open one   *)
(* waits in the queue exactly once: a client may repeat a request whose     *)
(* connection was dropped (enqueue_connection, worker_loop,                 *)
(* close_pending_connections).                                              *)
ClosedHasNoEffect ==
    /\ \A c \in Conns : conns[c] = "closed" => c \notin history.handled
    /\ \A c \in Conns : conns[c] = "queued" <=> \E i \in DOMAIN queue : queue[i] = c
    /\ \A i, k \in DOMAIN queue : queue[i] = queue[k] /\ queue[i] # Sentinel => i = k

Finalized(c) == \E i \in DOMAIN history.finalized : history.finalized[i] = c

(* The finalizer of a stop-all runs at most once, whoever drains it, and if *)
(* the process ends with both workers joined and without an exception, it   *)
(* has run (stop_maintenance_worker, run_after_response_actions).           *)
FinalizerRunsOnce ==
    /\ \A i, k \in DOMAIN history.finalized :
        history.finalized[i] = history.finalized[k] => i = k
    /\ exited /\ server.joined = {"worker", "maintenance"} /\ ~server.error =>
        \A c \in history.owed : Finalized(c)

(* "The request worker is stopped before this function during serve-loop    *)
(* teardown, so every response finalizer has now been queued ... stop-all   *)
(* must not lose namespace destruction to that shutdown race": at the end   *)
(* of the process the finalizer of every stop-all has run                   *)
(* (loop.py, stop_maintenance_worker).                                      *)
FinalizerNotLost ==
    exited /\ ~server.error => \A c \in history.owed : Finalized(c)

(* Once serving has stopped the process ends, also when two threads wait    *)
(* for each other (stop_worker, stop_maintenance_worker).                   *)
StopEnds == server.stop ~> exited
=============================================================================
