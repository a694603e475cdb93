----------------------------- MODULE ServerProofs -----------------------------
(***************************************************************************)
(* Proofs about Server: its types, that one connection at most stays open  *)
(* without a handler, and that no connection is treated against the        *)
(* lifecycle of its handler.                                               *)
(*                                                                         *)
(* They rest on one invariant: client_socket has the one connection that   *)
(* is accepted or refused, and the queue has those that wait, each of them *)
(* once.                                                                   *)
(***************************************************************************)
EXTENDS Server, FiniteSetTheorems, SequenceTheorems, TLAPS

-----------------------------------------------------------------------------
(* The inductive invariant. *)

Types ==
    /\ mpc \in {"bind", "accept", "create", "start", "ended"}
    /\ database \in {"none", "broken", "ready"}
    /\ state \in [Conns -> States]
    /\ client \in [Conns -> BOOLEAN]
    /\ addr \in [Conns -> Addrs]
    /\ map \in [Addrs -> Conns \cup {NoConn}]

(* The connection at hand is accepted between Accept and Start; before the *)
(* next Accept it may be refused.                                          *)
HandHasAccepted ==
    /\ hand \in Conns \cup {NoConn}
    /\ mpc \in {"create", "start"} => hand \in Conns
    /\ \A k \in Conns :
          /\ state[k] = "accepted" <=> k = hand /\ mpc \in {"create", "start"}
          /\ state[k] = "refused" => k = hand

(* The queue has the connections that wait. *)
QueueHasWaiting ==
    /\ queue \in Seq(Conns)
    /\ \A k \in Conns : state[k] = "queued" <=> \E i \in DOMAIN queue : queue[i] = k
    /\ \A i, j \in DOMAIN queue : queue[i] = queue[j] => i = j

(* There are descriptors for all open sockets. *)
OpenFit == IsFiniteSet(Open) /\ Cardinality(Open) <= MaxOpen

IInv == Types /\ HandHasAccepted /\ QueueHasWaiting /\ OpenFit

-----------------------------------------------------------------------------
(* What most steps leave alone. *)

(* A step after which no more sockets are open. *)
LEMMA FewerOpen ==
    ASSUME OpenFit, Open' \subseteq Open
    PROVE  OpenFit'
<1>1. IsFiniteSet(Open') /\ Cardinality(Open') <= Cardinality(Open)
  BY FS_Subset DEF OpenFit
<1>2. Cardinality(Open) \in Nat /\ Cardinality(Open') \in Nat
  BY <1>1, FS_CardinalityType DEF OpenFit
<1> QED
  BY <1>1, <1>2, BoundAssumption DEF OpenFit

(* A connection of which the thread is over or runs goes to another such   *)
(* state: nobody waits for it.                                             *)
LEMMA HandlerStep ==
    ASSUME IInv, NEW k \in Conns,
           NEW s \in States \ {"accepted", "refused", "queued"},
           state[k] \notin {"accepted", "refused", "queued"},
           state[k] \in OpenStates \/ s \notin OpenStates,
           state' = [state EXCEPT ![k] = s],
           UNCHANGED <<mpc, hand, database, client, addr, queue, map>>
    PROVE  IInv'
<1> USE DEF IInv
<1>1. Types'
  BY DEF Types
<1>2. HandHasAccepted'
  BY DEF HandHasAccepted, Types
<1>3. QueueHasWaiting'
  BY DEF QueueHasWaiting, Types
<1>4. Open' \subseteq Open
  BY DEF Open, Types
<1> QED
  BY <1>1, <1>2, <1>3, <1>4, FewerOpen

-----------------------------------------------------------------------------
(* The initial states. *)

LEMMA InitIInv == Init => IInv
<1> SUFFICES ASSUME Init PROVE IInv
  OBVIOUS
<1>1. Types
  BY AddrAssumption DEF Init, Types, States
<1>2. HandHasAccepted
  BY ConnAssumption DEF Init, HandHasAccepted
<1>3. QueueHasWaiting
  BY DEF Init, QueueHasWaiting
<1>4. Open = {}
  BY DEF Init, Open, OpenStates
<1>5. OpenFit
  BY <1>4, FS_EmptySet, BoundAssumption DEF OpenFit
<1> QED
  BY <1>1, <1>2, <1>3, <1>5 DEF IInv

-----------------------------------------------------------------------------
(* The steps. *)

(* The connection that waits longest is accepted: it leaves the queue. *)
LEMMA AcceptIInv ==
    ASSUME IInv, Accept
    PROVE  IInv'
<1> USE DEF IInv
<1>1. PICK k \in Conns : k = Head(queue)
  BY HeadTailProperties DEF Accept, QueueHasWaiting
<1>2. /\ mpc = "accept" /\ mpc' = "create"
      /\ hand' = k /\ queue' = Tail(queue) /\ queue # <<>>
      /\ state' = [Released EXCEPT ![k] = "accepted"]
      /\ Cardinality(Open) < MaxOpen
      /\ UNCHANGED <<database, client, addr, map>>
  BY <1>1 DEF Accept
<1>3. /\ queue \in Seq(Conns) /\ Tail(queue) \in Seq(Conns)
      /\ Len(queue) \in Nat \ {0} /\ Len(Tail(queue)) = Len(queue) - 1
      /\ \A i \in 1 .. Len(Tail(queue)) : Tail(queue)[i] = queue[i + 1]
      /\ queue[1] = k
  BY <1>1, <1>2, HeadTailProperties DEF QueueHasWaiting
<1>4. state[k] = "queued"
  BY <1>3 DEF QueueHasWaiting
<1>9. /\ state'[k] = "accepted"
      /\ \A j \in Conns \ {k} :
            state'[j] = IF j = hand /\ state[j] = "refused" THEN "dropped" ELSE state[j]
  BY <1>2 DEF Released
<1>5. Types'
  BY <1>2 DEF Types, States, OpenStates, Released
<1>6. HandHasAccepted'
  <2>1. \A j \in Conns \ {k} : state'[j] \notin {"accepted", "refused"}
    BY <1>2, <1>9 DEF HandHasAccepted
  <2> QED
    BY <1>2, <1>9, <2>1 DEF HandHasAccepted
<1>7. QueueHasWaiting'
  <2>1. \A j \in Conns \ {k} :
          (\E i \in DOMAIN queue : queue[i] = j)
            <=> \E i \in DOMAIN Tail(queue) : Tail(queue)[i] = j
    <3> SUFFICES ASSUME NEW j \in Conns \ {k}
                 PROVE  (\E i \in DOMAIN queue : queue[i] = j)
                          <=> \E i \in DOMAIN Tail(queue) : Tail(queue)[i] = j
      OBVIOUS
    <3>1. ASSUME NEW i \in DOMAIN queue, queue[i] = j
          PROVE  i - 1 \in DOMAIN Tail(queue) /\ Tail(queue)[i - 1] = j
      BY <1>3, <3>1
    <3>2. ASSUME NEW i \in DOMAIN Tail(queue), Tail(queue)[i] = j
          PROVE  i + 1 \in DOMAIN queue /\ queue[i + 1] = j
      BY <1>3, <3>2
    <3> QED
      BY <3>1, <3>2
  <2>2. \A i \in DOMAIN Tail(queue) : Tail(queue)[i] # k
    BY <1>3 DEF QueueHasWaiting
  <2>3. \A i, j \in DOMAIN Tail(queue) : Tail(queue)[i] = Tail(queue)[j] => i = j
    BY <1>3 DEF QueueHasWaiting
  <2> HIDE DEF IInv
  <2>4. \A j \in Conns : state'[j] = "queued" <=> (j # k /\ state[j] = "queued")
    BY <1>9
  <2> QED
    BY <1>2, <1>3, <2>1, <2>2, <2>3, <2>4 DEF IInv, QueueHasWaiting
<1>8. OpenFit'
  <2>1. Open' \subseteq Open \cup {k} /\ k \notin Open
    BY <1>4, <1>9 DEF Open, OpenStates
  <2>2. /\ IsFiniteSet(Open \cup {k})
        /\ Cardinality(Open \cup {k}) = Cardinality(Open) + 1
    BY <2>1, FS_AddElement DEF OpenFit
  <2>3. IsFiniteSet(Open') /\ Cardinality(Open') <= Cardinality(Open \cup {k})
    BY <2>1, <2>2, FS_Subset
  <2>4. Cardinality(Open) \in Nat /\ Cardinality(Open') \in Nat
    BY <2>3, FS_CardinalityType DEF OpenFit
  <2> QED
    BY <1>2, <2>2, <2>3, <2>4, BoundAssumption DEF OpenFit
<1> QED
  BY <1>5, <1>6, <1>7, <1>8

(* A handler is created for the connection at hand, or it is refused. *)
LEMMA CreateIInv ==
    ASSUME IInv, Create
    PROVE  IInv'
<1> USE DEF IInv
<1>1. hand \in Conns /\ state[hand] = "accepted"
  BY DEF Create, HandHasAccepted
<1>2. hand' = hand /\ UNCHANGED <<client, addr, queue>>
  BY DEF Create
<1>3. CASE /\ mpc' = "start" /\ state' = state
           /\ database' \in {"broken", "ready"}
           /\ map' = [map EXCEPT ![addr[hand]] = hand]
  <2>1. Types'
    BY <1>1, <1>2, <1>3 DEF Types
  <2>2. HandHasAccepted' /\ QueueHasWaiting' /\ OpenFit'
    BY <1>1, <1>2, <1>3
    DEF Create, HandHasAccepted, QueueHasWaiting, OpenFit, Open
  <2> QED
    BY <2>1, <2>2
<1>4. CASE /\ database' \in {"none", "broken"}
           /\ state' = [state EXCEPT ![hand] = "refused"]
           /\ mpc' = "accept"
           /\ UNCHANGED map
  <2>1. Types'
    BY <1>2, <1>4 DEF Types, States, OpenStates
  <2>2. HandHasAccepted'
    BY <1>1, <1>2, <1>4 DEF HandHasAccepted, Types
  <2>3. QueueHasWaiting'
    BY <1>1, <1>2, <1>4 DEF QueueHasWaiting, Types
  <2>4. Open' \subseteq Open
    BY <1>1, <1>4 DEF Open, OpenStates, Types
  <2> QED
    BY <2>1, <2>2, <2>3, <2>4, FewerOpen
<1>5. database \in {"none", "broken", "ready"}
  BY DEF Types
<1> QED
  BY <1>3, <1>4, <1>5 DEF Create, Entered, AfterException

(* The thread of the connection at hand is started, or cannot be. *)
LEMMA StartIInv ==
    ASSUME IInv, Start
    PROVE  IInv'
<1> USE DEF IInv
<1>1. hand \in Conns /\ state[hand] = "accepted"
  BY DEF Start, HandHasAccepted
<1>2. PICK s \in {"running", "unstarted"} : state' = [state EXCEPT ![hand] = s]
  BY DEF Start
<1>3. mpc' = "accept" /\ UNCHANGED <<hand, database, client, addr, queue, map>>
  BY DEF Start, AfterException
<1>4. Types'
  BY <1>2, <1>3 DEF Types, States, OpenStates
<1>5. HandHasAccepted'
  BY <1>1, <1>2, <1>3 DEF HandHasAccepted, Types
<1>6. QueueHasWaiting'
  BY <1>1, <1>2, <1>3 DEF QueueHasWaiting, Types
<1>7. Open' \subseteq Open
  BY <1>1, <1>2 DEF Open, OpenStates, Types
<1> QED
  BY <1>4, <1>5, <1>6, <1>7, FewerOpen

(* A connection that was not there is put at the end of the queue. *)
LEMMA ConnectIInv ==
    ASSUME IInv, NEW k \in Conns, Connect(k)
    PROVE  IInv'
<1> USE DEF IInv
<1>1. /\ state[k] = "none"
      /\ state' = [state EXCEPT ![k] = "queued"]
      /\ client' = [client EXCEPT ![k] = TRUE]
      /\ queue' = Append(queue, k)
      /\ UNCHANGED <<mpc, hand, database, map>>
  BY DEF Connect
<1>2. addr' \in [Conns -> Addrs]
  BY DEF Connect, Types
<1>3. Types'
  BY <1>1, <1>2 DEF Types, States
<1>4. HandHasAccepted'
  BY <1>1 DEF HandHasAccepted, Types
<1>5. /\ queue \in Seq(Conns) /\ Append(queue, k) \in Seq(Conns)
      /\ Len(queue) \in Nat /\ Len(Append(queue, k)) = Len(queue) + 1
      /\ \A i \in 1 .. Len(queue) : Append(queue, k)[i] = queue[i]
      /\ Append(queue, k)[Len(queue) + 1] = k
  BY AppendProperties DEF QueueHasWaiting
<1>6. QueueHasWaiting'
  <2>1. \A i \in DOMAIN queue : queue[i] # k
    BY <1>1 DEF QueueHasWaiting
  <2>2. \A i, j \in DOMAIN Append(queue, k) :
          Append(queue, k)[i] = Append(queue, k)[j] => i = j
    BY <1>5, <2>1 DEF QueueHasWaiting
  <2>3. \A j \in Conns :
          (\E i \in DOMAIN Append(queue, k) : Append(queue, k)[i] = j)
            <=> j = k \/ \E i \in DOMAIN queue : queue[i] = j
    BY <1>5
  <2>4. \A j \in Conns : state'[j] = "queued" <=> (j = k \/ state[j] = "queued")
    BY <1>1 DEF Types
  <2> QED
    BY <1>1, <1>5, <2>2, <2>3, <2>4 DEF QueueHasWaiting
<1>7. Open' \subseteq Open
  BY <1>1 DEF Open, OpenStates, Types
<1> QED
  BY <1>3, <1>4, <1>6, <1>7, FewerOpen

(* No step leaves the invariant. *)
LEMMA NextIInv == IInv /\ [Next]_vars => IInv'
<1> SUFFICES ASSUME IInv, [Next]_vars PROVE IInv'
  OBVIOUS
<1>1. CASE Bind
  BY <1>1 DEF Bind, IInv, Types, HandHasAccepted, QueueHasWaiting, OpenFit, Open
<1>2. CASE Accept \/ Create \/ Start
  BY <1>2, AcceptIInv, CreateIInv, StartIInv
<1>3. ASSUME NEW k \in Conns, Handler(k)
      PROVE  IInv'
  <2>1. CASE Finish(k)
    BY <2>1, HandlerStep DEF Finish, OpenStates, States
  <2>2. CASE Stop(k)
    BY <2>2, HandlerStep DEF Stop, OpenStates, States
  <2>3. CASE Collect(k)
    <3>1. PICK s \in {"dropped", "collected"} : state' = [state EXCEPT ![k] = s]
      BY <2>3 DEF Collect
    <3> QED
      BY <2>3, <3>1, HandlerStep DEF Collect, Unused, OpenStates, States
  <2> QED
    BY <1>3, <2>1, <2>2, <2>3 DEF Handler
<1>4. ASSUME NEW k \in Conns, Connect(k)
      PROVE  IInv'
  BY <1>4, ConnectIInv
<1>5. ASSUME NEW k \in Conns, Leave(k)
      PROVE  IInv'
  BY <1>5 DEF Leave, IInv, Types, HandHasAccepted, QueueHasWaiting, OpenFit, Open
<1>6. CASE UNCHANGED vars
  BY <1>6 DEF vars, IInv, Types, HandHasAccepted, QueueHasWaiting, OpenFit, Open
<1> QED
  BY <1>1, <1>2, <1>3, <1>4, <1>5, <1>6 DEF Next, Main

-----------------------------------------------------------------------------
(* The lifecycles. *)

(* How a state of a connection is a state of its Lifecycle. *)
SocketOf(k) == IF state[k] \in {"stopped", "dropped", "collected"}
                 THEN "closed" ELSE "open"
LifeUnchanged(k) == LifeOf(k)' = LifeOf(k) /\ SocketOf(k)' = SocketOf(k)

(* The steps of a connection: those after which its handler is as new as   *)
(* before, and those that are steps of its lifecycle.                      *)
StaysNew(from, to) ==
    \/ from = "none" /\ to = "queued"
    \/ from = "queued" /\ to = "accepted"
    \/ from = "accepted" /\ to \in {"refused", "unstarted"}
Lives(from, to) ==
    \/ from = "accepted" /\ to = "running"
    \/ from = "running" /\ to \in {"done", "stopped"}
    \/ from \in {"refused", "unstarted"} /\ to = "dropped"
    \/ from = "done" /\ to = "collected"
Steps(from, to) == from = to \/ StaysNew(from, to) \/ Lives(from, to)

(* Every step of Server is such a step of every connection, or leaves it   *)
(* alone.                                                                  *)
LEMMA EachConnection ==
    ASSUME IInv, [Next]_vars, NEW k \in Conns
    PROVE  Steps(state[k], state'[k])
<1> USE DEF IInv, Steps, StaysNew, Lives
<1>1. CASE Bind \/ UNCHANGED vars \/ \E j \in Conns : Leave(j)
  BY <1>1 DEF Bind, Leave, vars
<1>2. CASE Accept
  <2>1. queue \in Seq(Conns) /\ queue # <<>>
    BY <1>2 DEF Accept, QueueHasWaiting
  <2>2. Head(queue) \in Conns /\ 1 \in DOMAIN queue /\ queue[1] = Head(queue)
    BY <2>1, HeadTailProperties
  <2>3. state[Head(queue)] = "queued"
    BY <2>2 DEF QueueHasWaiting
  <2>4. state' = [Released EXCEPT ![Head(queue)] = "accepted"]
    BY <1>2 DEF Accept
  <2>5. CASE k = Head(queue)
    BY <2>3, <2>4, <2>5 DEF Released
  <2>6. CASE k # Head(queue)
    BY <2>4, <2>6 DEF Released
  <2> QED
    BY <2>5, <2>6
<1>3. CASE Create \/ Start
  <2>1. hand \in Conns /\ state[hand] = "accepted" /\ state \in [Conns -> States]
    BY <1>3 DEF Create, Start, HandHasAccepted, Types
  <2>2. PICK s \in {"accepted", "refused", "running", "unstarted"} :
          state' = state \/ state' = [state EXCEPT ![hand] = s]
    BY <1>3 DEF Create, Entered, Start
  <2> QED
    BY <2>1, <2>2
<1>4. CASE \E j \in Conns : Handler(j)
  <2>1. PICK j \in Conns : Finish(j) \/ Stop(j) \/ Collect(j)
    BY <1>4 DEF Handler
  <2> QED
    BY <2>1 DEF Types, Finish, Stop, Collect, Unused
<1>5. CASE \E j \in Conns : Connect(j)
  BY <1>5 DEF Connect, Types
<1> QED
  BY <1>1, <1>2, <1>3, <1>4, <1>5 DEF Next, Main

(* What the steps of Server are in the lifecycle of a connection. *)
LEMMA LifeStep ==
    ASSUME IInv, [Next]_vars, NEW k \in Conns
    PROVE  [Cycle(k)!Next]_(Cycle(k)!vars)
<1>1. CASE state[k] = state'[k] \/ StaysNew(state[k], state'[k])
  <2>1. LifeUnchanged(k)
    BY <1>1 DEF StaysNew, LifeUnchanged, LifeOf, SocketOf
  <2> QED
    BY <2>1 DEF LifeUnchanged, SocketOf, Cycle!vars
<1>2. CASE Lives(state[k], state'[k])
  <2>1. Cycle(k)!Next
    BY <1>2
    DEF Lives, LifeOf, Cycle!Next, Cycle!Begin, Cycle!Finish, Cycle!Stop, Cycle!Collect
  <2> QED
    BY <2>1
<1> QED
  BY <1>1, <1>2, EachConnection DEF Steps

-----------------------------------------------------------------------------
(* The theorems. *)

(* The invariant holds in every state. *)
THEOREM ServerInvariant == Spec => []IInv
<1> QED
  BY InitIInv, NextIInv, PTL DEF Spec

(* However many connections, addresses and descriptors there are: the      *)
(* accepting thread works on one connection at most, each of those that    *)
(* wait is in the queue once, and no more sockets are open than there can  *)
(* be, those of refused and unstarted connections included.                *)
THEOREM ServerTypeCorrect == Spec => []TypeOK
<1>1. IInv => TypeOK
  BY ConnAssumption
  DEF IInv, Types, HandHasAccepted, QueueHasWaiting, OpenFit, TypeOK
<1> QED
  BY <1>1, ServerInvariant, PTL

(* Of the connections whose handler could not be created only the last one *)
(* accepted is still open, whatever fails and however often.               *)
THEOREM RefusedAreReleased == Spec => []OnlyLastIsHeld
<1>1. IInv => OnlyLastIsHeld
  BY DEF IInv, HandHasAccepted, OnlyLastIsHeld
<1> QED
  BY <1>1, ServerInvariant, PTL

(* Server treats every connection as the lifecycle of its handler allows,  *)
(* the one that Session implements: no socket is closed under a handler    *)
(* that runs, no handler runs twice, and none that has ended runs again.   *)
THEOREM LifecyclesAreKept == Spec => KeepsLifecycles
<1>1. Init => \A k \in Conns : Cycle(k)!Init
  BY DEF Init, Cycle!Init, LifeOf
<1>2. IInv /\ [Next]_vars => [\A k \in Conns : [Cycle(k)!Next]_(Cycle(k)!vars)]_vars
  BY LifeStep
<1> QED
  BY <1>1, <1>2, ServerInvariant, PTL DEF Spec, KeepsLifecycles
=============================================================================
