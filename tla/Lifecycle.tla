------------------------------ MODULE Lifecycle ------------------------------
(***************************************************************************)
(* What the rest of the server has to know of one handler: it runs once,   *)
(* it ends once, and there are two ends. A handler that has failed has     *)
(* closed its socket; one that has done its work leaves it open, and then  *)
(* it is for somebody else to close it.                                    *)
(***************************************************************************)
VARIABLES
    life,     \* "new", "running", "done" or "stopped"
    socket    \* the server's end of the connection, "open" or "closed"

vars == <<life, socket>>

Begin ==
    /\ life = "new" /\ socket = "open"
    /\ life' = "running"
    /\ UNCHANGED socket

(* run() returns, without stop(). *)
Finish ==
    /\ life = "running"
    /\ life' = "done"
    /\ UNCHANGED socket

(* run() calls stop(), or the server dies. *)
Stop ==
    /\ life \in {"running", "done"}
    /\ life' = "stopped"
    /\ socket' = "closed"

(* The socket of a handler that does not run is closed by the collector. *)
Collect ==
    /\ life \in {"new", "done"}
    /\ socket' = "closed"
    /\ UNCHANGED life

Init == life \in {"new", "running"} /\ socket = "open"
Next == Begin \/ Finish \/ Stop \/ Collect
Spec == Init /\ [][Next]_vars
=============================================================================
