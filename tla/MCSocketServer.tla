--------------------------- MODULE MCSocketServer ---------------------------
EXTENDS SocketServer

(* A mutation, or an ordinary finalizer, and a stop of the project; two     *)
(* stops.  One exception anywhere, during the runtime bootstrap too, with   *)
(* each kind of request.                                                    *)
MCLimits ==
    {[requests |-> <<"submit", "stop-all">>, errors |-> 0],
     [requests |-> <<"restart", "stop-all">>, errors |-> 0],
     [requests |-> <<"stop-all", "shutdown">>, errors |-> 0]}
    \cup {[requests |-> <<op>>, errors |-> 1] :
            op \in {"ping", "restart", "stop-all", "shutdown"}}

MCStopAll == {[requests |-> <<"stop-all">>, errors |-> 0]}
=============================================================================
