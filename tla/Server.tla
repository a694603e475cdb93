-------------------------------- MODULE Server --------------------------------
(***************************************************************************)
(* The accept loop: ClientConnectionHandler, one thread that accepts a     *)
(* connection, creates its ClientHandler, enters it into a map under the   *)
(* address of the client and starts it, and the threads it has started.    *)
(* Of a handler there is left its Lifecycle, which Session implements.     *)
(*                                                                         *)
(* A socket is closed by stop(), or by the interpreter when nothing refers *)
(* to it or its handler any more: a running handler, the map and the local *)
(* variable client_socket of the accepting thread do, and that variable    *)
(* keeps what it has until the next accept() returns.                      *)
(***************************************************************************)
EXTENDS Integers, Sequences, FiniteSets

CONSTANTS
    Conns,      \* bound: the connections that are ever asked for
    NoConn,     \* no connection
    Addrs,      \* the addresses that clients connect from
    Backlog,    \* the argument of listen()
    MaxOpen,    \* how many sockets of clients the process may have open
    Faults      \* the faults this instance admits

FaultNames ==
    {"bindFails",    \* the port is taken
     "dbFails",      \* the database cannot be opened, or has no place for tables
     "startFails",   \* no thread can be started
     "clientCrash"}  \* a client dies, and its address is free

ASSUME ConnAssumption  == NoConn \notin Conns
ASSUME AddrAssumption  == Addrs # {}
ASSUME BoundAssumption == Backlog \in Nat \ {0} /\ MaxOpen \in Nat \ {0}
ASSUME FaultAssumption == Faults \subseteq FaultNames

VARIABLES
    mpc,       \* where the accepting thread is
    hand,      \* client_socket: the connection it has accepted last
    database,  \* the singleton: "none", "broken" (its tables) or "ready"
    state,     \* the state of each connection, on the server's side
    client,    \* whether the client of each connection is there
    addr,      \* the address of each connection
    queue,     \* the connections that wait to be accepted
    map        \* the connection in whose handler each address is entered

vars == <<mpc, hand, database, state, client, addr, queue, map>>

(* The accepting thread has it; its handler could not be created; its      *)
(* thread could not be started; its thread runs; its thread has returned   *)
(* True; stop() was called; it was collected before its thread was         *)
(* started, or after its thread had ended.                                 *)
OpenStates == {"accepted", "refused", "unstarted", "running", "done"}
States == OpenStates \cup {"none", "queued", "stopped", "dropped", "collected"}

Open == {k \in Conns : state[k] \in OpenStates}

-----------------------------------------------------------------------------
(* The accepting thread. *)

(* bind() and listen(). When they fail stop() is called, with an empty map *)
(* of handlers: this is the only place from which it ever is.              *)
Bind ==
    /\ mpc = "bind"
    /\ \/ mpc' = "accept"
       \/ "bindFails" \in Faults /\ mpc' = "ended"
    /\ UNCHANGED <<hand, database, state, client, addr, queue, map>>

(* Mutant of Released: what client_socket referred to is kept. *)
ReleasedNever == state

(* client_socket is assigned anew: a connection that has got no handler is *)
(* closed, as nothing else ever referred to it.                            *)
Released ==
    [k \in Conns |-> IF k = hand /\ state[k] = "refused" THEN "dropped"
                     ELSE state[k]]

(* accept() waits for a connection. With all descriptors in use it raises  *)
(* an exception, which is logged, and the loop goes on: nothing changes.   *)
(* The descriptor of the connection that is released still counts here.    *)
Accept ==
    /\ mpc = "accept"
    /\ queue # <<>>
    /\ Cardinality(Open) < MaxOpen
    /\ hand' = Head(queue)
    /\ queue' = Tail(queue)
    /\ state' = [Released EXCEPT ![Head(queue)] = "accepted"]
    /\ mpc' = "create"
    /\ UNCHANGED <<database, client, addr, map>>

(* Mutants of AfterException: the loop is left; the connection is tried    *)
(* once more.                                                              *)
LoopLeft == "ended"
TriedAgain == "create"

(* An exception is logged, and the loop goes on. *)
AfterException == "accept"

(* Mutant of Entered: the socket of the handler that was in the map under  *)
(* the address is closed.                                                  *)
EnteredAlone ==
    [k \in Conns |-> IF k = map[addr[hand]] /\ state[k] = "running"
                       THEN "collected" ELSE state[k]]

(* A handler is entered into the map; the one that was there under the     *)
(* address, if any, is only forgotten.                                     *)
Entered == state

(* handle_new_client: the first handler creates the database. That may     *)
(* raise an exception before the singleton exists, or after it, when its   *)
(* tables cannot be created; of this some exceptions are caught, and the   *)
(* handler is created all the same. Later handlers get what there is.      *)
Create ==
    /\ mpc = "create"
    /\ \/ /\ \/ database' = IF database = "none" THEN "ready" ELSE database
             \/ database = "none" /\ "dbFails" \in Faults /\ database' = "broken"
          /\ map' = [map EXCEPT ![addr[hand]] = hand]
          /\ state' = Entered
          /\ mpc' = "start"
       \/ /\ database = "none" /\ "dbFails" \in Faults
          /\ database' \in {"none", "broken"}
          /\ state' = [state EXCEPT ![hand] = "refused"]
          /\ mpc' = AfterException
          /\ UNCHANGED map
    /\ UNCHANGED <<hand, client, addr, queue>>

(* client_handler.start(). When it fails the handler stays in the map. *)
Start ==
    /\ mpc = "start"
    /\ \/ /\ state' = [state EXCEPT ![hand] = "running"]
          /\ mpc' = "accept"
       \/ /\ "startFails" \in Faults
          /\ state' = [state EXCEPT ![hand] = "unstarted"]
          /\ mpc' = AfterException
    /\ UNCHANGED <<hand, database, client, addr, queue, map>>

Main == Bind \/ Accept \/ Create \/ Start

-----------------------------------------------------------------------------
(* The thread of a handler, as Session describes it from within. *)

(* It returns True after an upload, which takes a client and a database    *)
(* with tables.                                                            *)
Finish(k) ==
    /\ state[k] = "running"
    /\ database = "ready"
    /\ state' = [state EXCEPT ![k] = "done"]
    /\ UNCHANGED <<mpc, hand, database, client, addr, queue, map>>

(* In all other cases run() calls stop(). *)
Stop(k) ==
    /\ state[k] = "running"
    /\ state' = [state EXCEPT ![k] = "stopped"]
    /\ UNCHANGED <<mpc, hand, database, client, addr, queue, map>>

(* Whether the map and client_socket are all that may refer to it. *)
Unused(k) == state[k] \in {"done", "unstarted"}

(* The interpreter collects it and closes its socket. *)
Collect(k) ==
    /\ Unused(k)
    /\ map[addr[k]] # k
    /\ hand # k
    /\ state' = [state EXCEPT ![k] =
                    IF @ = "unstarted" THEN "dropped" ELSE "collected"]
    /\ UNCHANGED <<mpc, hand, database, client, addr, queue, map>>

Handler(k) == Finish(k) \/ Stop(k) \/ Collect(k)

-----------------------------------------------------------------------------
(* The clients. *)

(* The kernel completes a connection when there is room in the backlog.    *)
Connect(k) ==
    /\ state[k] = "none"
    /\ mpc \notin {"bind", "ended"}
    /\ Len(queue) < Backlog
    /\ \E a \in Addrs :
          /\ \A j \in Conns : client[j] => addr[j] # a
          /\ addr' = [addr EXCEPT ![k] = a]
    /\ client' = [client EXCEPT ![k] = TRUE]
    /\ state' = [state EXCEPT ![k] = "queued"]
    /\ queue' = Append(queue, k)
    /\ UNCHANGED <<mpc, hand, database, map>>

(* A client ends when it has been served or finds its connection closed,   *)
(* or dies.                                                                *)
Leave(k) ==
    /\ client[k]
    /\ \/ state[k] \in {"done", "stopped", "dropped", "collected"}
       \/ "clientCrash" \in Faults
    /\ client' = [client EXCEPT ![k] = FALSE]
    /\ UNCHANGED <<mpc, hand, database, state, addr, queue, map>>

-----------------------------------------------------------------------------
Init ==
    /\ mpc = "bind"
    /\ hand = NoConn
    /\ database = "none"
    /\ state = [k \in Conns |-> "none"]
    /\ client = [k \in Conns |-> FALSE]
    /\ addr = [k \in Conns |-> CHOOSE a \in Addrs : TRUE]
    /\ queue = <<>>
    /\ map = [a \in Addrs |-> NoConn]

Next ==
    \/ Main
    \/ \E k \in Conns : Handler(k) \/ Connect(k) \/ Leave(k)

Spec == Init /\ [][Next]_vars

(* The accepting thread is scheduled; a handler ends, as Session's         *)
(* Termination says; no client is bound to connect or to leave.            *)
FairSpec == Spec /\ WF_vars(Main) /\ \A k \in Conns : WF_vars(Handler(k))

-----------------------------------------------------------------------------
(* What must hold. *)

(* Every variable has its type; the accepting thread has at most one       *)
(* connection in work, those that wait are in the queue, once, and there   *)
(* are no more open sockets than descriptors.                              *)
TypeOK ==
    /\ mpc \in {"bind", "accept", "create", "start", "ended"}
    /\ database \in {"none", "broken", "ready"}
    /\ state \in [Conns -> States]
    /\ client \in [Conns -> BOOLEAN]
    /\ addr \in [Conns -> Addrs]
    /\ map \in [Addrs -> Conns \cup {NoConn}]
    /\ {k \in Conns : state[k] = "accepted"} =
          IF mpc \in {"create", "start"} THEN {hand} ELSE {}
    /\ {k \in Conns : state[k] = "queued"} = {queue[i] : i \in DOMAIN queue}
    /\ \A i, j \in DOMAIN queue : queue[i] = queue[j] => i = j
    /\ Cardinality(Open) <= MaxOpen

(* Each handler keeps to the lifecycle that Session implements, whatever   *)
(* becomes of its entry in the map: no socket is taken from a handler that *)
(* runs.                                                                   *)
LifeOf(k) == IF state[k] \in {"running", "stopped"} THEN state[k]
             ELSE IF state[k] \in {"done", "collected"} THEN "done"
             ELSE "new"

Cycle(k) == INSTANCE Lifecycle WITH
    life   <- LifeOf(k),
    socket <- IF state[k] \in {"stopped", "dropped", "collected"}
                THEN "closed" ELSE "open"

KeepsLifecycles ==
    /\ \A k \in Conns : Cycle(k)!Init
    /\ [][\A k \in Conns : [Cycle(k)!Next]_(Cycle(k)!vars)]_vars

(* Of all the connections for which no handler could be created at most    *)
(* one stays open, the one that was accepted last: the others were closed, *)
(* so that their clients found out (bind_and_listen_for_clients).          *)
OnlyLastIsHeld == \A k \in Conns : state[k] = "refused" => k = hand

(* No thread will ever use the sockets of these connections. *)
Idle == {k \in Conns : state[k] \in {"refused", "unstarted", "done"}}

(* What can keep a connection waiting: it is the last one accepted and has *)
(* no handler, and nobody came or could be accepted since; its thread was  *)
(* not started, and its address was not used again; or all descriptors     *)
(* belong to idle connections.                                             *)
Stuck(k) ==
    \/ state[k] = "refused" /\ hand = k
    \/ state[k] = "unstarted" /\ map[addr[k]] = k
    \/ state[k] = "queued" /\ Cardinality(Idle) = MaxOpen

(* Whoever is in the queue gets a handler, which comes to an end, or has   *)
(* its connection closed, unless it is stuck, and nothing ever changes     *)
(* that: the loop of bind_and_listen_for_clients survives every failure,   *)
(* and nobody waits for another reason or longer than the reason lasts.    *)
EveryoneIsServed ==
    \A k \in Conns :
        state[k] = "queued" ~>
            \/ state[k] \in {"done", "stopped", "dropped", "collected"}
            \/ []Stuck(k)
=============================================================================
