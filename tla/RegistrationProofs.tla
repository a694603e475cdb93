-------------------------- MODULE RegistrationProofs --------------------------
(***************************************************************************)
(* Proofs about Registration: its types, that the clients table is a       *)
(* registry of names, and that no two users ever own one name.             *)
(*                                                                         *)
(* The last is an argument about an id on its way: it is drawn when its    *)
(* row is inserted, travels in one response to one client, and is then in  *)
(* the memory and in the me.info of that user only. An id that is not from *)
(* before the last restart always has its row, and a name has one row.     *)
(***************************************************************************)
EXTENDS Registration, TLAPS

-----------------------------------------------------------------------------
(* The inductive invariant. *)

(* A run has a user name and a connection that no other run has. *)
RunsHaveConns ==
    /\ \A u \in Users : cpc[u] # "idle" =>
          me[u].name \in UserNames /\ conn[cur[u]].pc # "none"
    /\ \A u, v \in Users : cpc[u] # "idle" /\ cur[u] = cur[v] => u = v
    /\ \A c \in Conns : conn[c].up => conn[c].pc # "none"

(* As long as its connection is up a request has the name of its run. *)
RequestsAreNamed ==
    \A u \in Users :
        /\ cpc[u] # "idle"
        /\ conn[cur[u]].up
        /\ conn[cur[u]].req.code # "none"
        => conn[cur[u]].req.name = me[u].name

(* A name has one row, and so has an id. *)
RowsAreUnique ==
    \A x, y \in clients : x.name = y.name \/ x.id = y.id => x = y

Run == TypeOK /\ RunsHaveConns /\ RequestsAreNamed /\ RowsAreUnique

-----------------------------------------------------------------------------
(* The connection of a run. *)

(* Where a run ends. *)
LEMMA EndRun ==
    ASSUME Run, NEW u \in Users, End(u), cpc[u] # "idle",
           UNCHANGED <<name, clients, issued, floor, restarts, renames>>,
           meInfo' \in [Users -> InfoFile]
    PROVE  Run'
<1> USE DEF Run
<1>1. cur[u] \in Conns /\ NoConn \notin Conns
  BY ConnAssumption DEF TypeOK
<1>2. /\ cpc' = [cpc EXCEPT ![u] = "idle"]
      /\ me' = [me EXCEPT ![u] = NoOne]
      /\ conn' = [conn EXCEPT ![cur[u]] =
                    [@ EXCEPT !.up = FALSE, !.resp = NoResponse]]
      /\ cur' = [cur EXCEPT ![u] = NoConn]
  BY DEF End
<1>3. conn' \in [Conns -> Connections]
  BY <1>1, <1>2 DEF TypeOK, Connections, Responses, NoResponse
<1>4. me' \in [Users -> Identities]
  BY <1>2 DEF TypeOK, NoOne, Identity, Identities, UserNames
<1>5. TypeOK'
  BY <1>1, <1>2, <1>3, <1>4 DEF TypeOK
<1>6. RunsHaveConns'
  BY <1>1, <1>2 DEF RunsHaveConns, TypeOK, Connections
<1>7. RequestsAreNamed'
  BY <1>1, <1>2 DEF RunsHaveConns, RequestsAreNamed, TypeOK, Connections
<1>8. RowsAreUnique'
  BY DEF RowsAreUnique
<1> QED
  BY <1>5, <1>6, <1>7, <1>8

(* Where a run goes on, with the same name, and its connection with a new  *)
(* request of that name or a response less.                                *)
LEMMA GoRun ==
    ASSUME Run, NEW u \in Users, cpc[u] # "idle",
           NEW place \in {"init", "await_registration", "save_info",
                          "send_key", "await_key", "served"},
           cpc' = [cpc EXCEPT ![u] = place],
           NEW who \in Identities, who.name = me[u].name,
           me' = [me EXCEPT ![u] = who],
           NEW req \in Requests, NEW resp \in Responses,
           req = conn[cur[u]].req \/ req.name = me[u].name,
           conn' = [conn EXCEPT ![cur[u]] = [@ EXCEPT !.req = req, !.resp = resp]],
           UNCHANGED <<name, cur, clients, issued, floor, restarts, renames>>,
           meInfo' \in [Users -> InfoFile]
    PROVE  Run'
<1> USE DEF Run
<1>1. cur[u] \in Conns /\ NoConn \notin Conns
  BY ConnAssumption DEF TypeOK
<1>2. conn' \in [Conns -> Connections]
  BY <1>1 DEF TypeOK, Connections
<1>3. TypeOK'
  BY <1>1, <1>2 DEF TypeOK
<1>4. RunsHaveConns'
  BY <1>1 DEF RunsHaveConns, TypeOK, Connections
<1>5. RequestsAreNamed'
  BY <1>1 DEF RunsHaveConns, RequestsAreNamed, TypeOK, Connections
<1>6. RowsAreUnique'
  BY DEF RowsAreUnique
<1> QED
  BY <1>3, <1>4, <1>5, <1>6

(* A request is the one step of a run that puts something on its way. *)
LEMMA SendRun ==
    ASSUME Run, NEW u \in Users, cpc[u] # "idle",
           NEW code \in {"CLIENT_REGISTRATION", "CLIENT_PUBLIC_KEY"}, Send(u, code),
           NEW place \in {"await_registration", "await_key"},
           cpc' = [cpc EXCEPT ![u] = place],
           UNCHANGED <<name, meInfo, cur, me, clients, issued, floor, restarts, renames>>
    PROVE  Run'
<1> USE DEF Run
<1> DEFINE k == conn[cur[u]]
           req == IF k.up THEN Request(code, me[u]) ELSE k.req
<1>1. k \in Connections /\ me[u] \in Identities /\ me[u].name \in UserNames
  BY DEF TypeOK, RunsHaveConns
<1>2. req \in Requests /\ (req = k.req \/ req.name = me[u].name)
  BY <1>1 DEF Request, Requests, Identities, Connections
<1>3. conn' = [conn EXCEPT ![cur[u]] = [@ EXCEPT !.req = req, !.resp = k.resp]]
  BY <1>1 DEF Send, Connections
<1>4. k.resp \in Responses
  BY <1>1 DEF Connections
<1>5. me' = [me EXCEPT ![u] = me[u]]
  BY DEF TypeOK
<1>6. meInfo' \in [Users -> InfoFile]
  BY DEF TypeOK
<1> HIDE DEF req, Run
<1> QED
  BY <1>1, <1>2, <1>3, <1>4, <1>5, <1>6, GoRun

(* Or takes a response, and perhaps an id from it. *)
LEMMA TakeRun ==
    ASSUME Run, NEW u \in Users, cpc[u] # "idle",
           NEW place \in {"save_info", "served"},
           cpc' = [cpc EXCEPT ![u] = place],
           NEW i \in Nat, me' = [me EXCEPT ![u].id = i],
           conn' = [conn EXCEPT ![cur[u]].resp = NoResponse],
           UNCHANGED <<name, meInfo, cur, clients, issued, floor, restarts, renames>>
    PROVE  Run'
<1> USE DEF Run
<1> DEFINE k == conn[cur[u]]
           who == [me[u] EXCEPT !.id = i]
<1>1. k \in Connections /\ me[u] \in Identities
  BY DEF TypeOK
<1>2. who \in Identities /\ who.name = me[u].name /\ me' = [me EXCEPT ![u] = who]
  BY <1>1 DEF Identities
<1>3. conn' = [conn EXCEPT ![cur[u]] = [@ EXCEPT !.req = k.req, !.resp = NoResponse]]
  BY <1>1 DEF Connections
<1>4. k.req \in Requests /\ NoResponse \in Responses
  BY <1>1 DEF Connections, NoResponse, Responses
<1>5. meInfo' \in [Users -> InfoFile]
  BY DEF TypeOK
<1>6. place \in {"init", "await_registration", "save_info", "send_key",
                "await_key", "served"}
  OBVIOUS
<1> HIDE DEF who, Run, k
<1>7. \A req \in Requests : req = conn[cur[u]].req => (
        conn' = [conn EXCEPT ![cur[u]] = [@ EXCEPT !.req = req, !.resp = NoResponse]]
          => Run')
  BY <1>2, <1>4, <1>5, <1>6, GoRun
<1> QED
  BY <1>3, <1>4, <1>7 DEF k

(* Or looks at me.info only. *)
LEMMA InfoRun ==
    ASSUME Run, NEW u \in Users, cpc[u] # "idle",
           cpc' = [cpc EXCEPT ![u] = "send_key"],
           NEW who \in Identities, who.name = me[u].name,
           me' = [me EXCEPT ![u] = who],
           UNCHANGED <<name, conn, cur, clients, issued, floor, restarts, renames>>,
           meInfo' \in [Users -> InfoFile]
    PROVE  Run'
<1> USE DEF Run
<1> DEFINE k == conn[cur[u]]
<1>1. k \in Connections
  BY DEF TypeOK
<1>2. conn' = [conn EXCEPT ![cur[u]] = [@ EXCEPT !.req = k.req, !.resp = k.resp]]
  BY <1>1 DEF TypeOK, Connections
<1>3. k.req \in Requests /\ k.resp \in Responses
  BY <1>1 DEF Connections
<1> HIDE DEF Run
<1> QED
  BY <1>2, <1>3, GoRun

(* And goes on with an identity of its name, or ends without one. *)
LEMMA GoOnRun ==
    ASSUME Run, NEW u \in Users, cpc[u] # "idle",
           NEW who \in Identities, who.name = me[u].name, GoOn(u, who),
           UNCHANGED <<name, clients, issued, floor, restarts, renames>>,
           meInfo' \in [Users -> InfoFile]
    PROVE  Run'
<1>1. CASE End(u)
  BY <1>1, EndRun
<1>2. CASE /\ me' = [me EXCEPT ![u] = who]
           /\ cpc' = [cpc EXCEPT ![u] = "send_key"]
           /\ UNCHANGED <<cur, conn>>
  BY <1>2, InfoRun
<1> QED
  BY <1>1, <1>2 DEF GoOn

(* What a handler, or the network, does to a connection. *)
LEMMA ServeRun ==
    ASSUME Run, NEW c \in Conns, conn[c].pc # "none",
           NEW new \in Connections, new.pc # "none", conn' = [conn EXCEPT ![c] = new],
           new.up => conn[c].up,
           new.req.code # "none" /\ new.up => new.req = conn[c].req,
           UNCHANGED <<name, clientVars, floor, restarts, renames>>,
           issued' \in Nat, issued <= issued', clients' \subseteq Rows,
           \A x \in clients' : floor < x.id /\ x.id <= issued',
           RowsAreUnique'
    PROVE  Run'
<1> USE DEF Run, clientVars
<1>1. TypeOK'
  BY DEF TypeOK
<1>2. RunsHaveConns'
  BY DEF RunsHaveConns, TypeOK
<1>3. RequestsAreNamed'
  BY DEF RequestsAreNamed, TypeOK
<1> QED
  BY <1>1, <1>2, <1>3

-----------------------------------------------------------------------------
(* The steps, as far as the types and the connections go. *)

LEMMA ConnectRun ==
    ASSUME Run, NEW u \in Users, Connect(u)
    PROVE  Run'
<1> USE DEF Run
<1>1. PICK c \in Conns :
        /\ conn[c] = Unused
        /\ conn' = [conn EXCEPT ![c] = Accepted]
        /\ cur' = [cur EXCEPT ![u] = c]
  BY DEF Connect
<1>2. /\ cpc[u] = "idle" /\ cpc' = [cpc EXCEPT ![u] = "init"]
      /\ me' = [me EXCEPT ![u] = Identity(name[u], 0)]
      /\ UNCHANGED <<name, meInfo, serverVars, renames>>
  BY DEF Connect
<1>3. Identity(name[u], 0) \in Identities /\ Identity(name[u], 0).name \in UserNames
  BY DEF TypeOK, Identity, Identities
<1>4. /\ Accepted \in Connections /\ Accepted.pc = "first"
      /\ Accepted.req.code = "none" /\ Unused.pc = "none"
  BY DEF Accepted, Unused, NoRequest, NoResponse, Connections, HandlerPc,
         Requests, Responses, UserNames
<1>5. \A v \in Users : cpc[v] # "idle" => cur[v] # c
  BY <1>1, <1>4 DEF RunsHaveConns
<1> HIDE DEF Run
<1>6. TypeOK'
  BY <1>1, <1>2, <1>3, <1>4, ConnAssumption DEF Run, TypeOK, serverVars
<1>7. RunsHaveConns'
  BY <1>1, <1>2, <1>3, <1>4, <1>5, ConnAssumption DEF Run, RunsHaveConns, TypeOK
<1>8. RequestsAreNamed'
  BY <1>1, <1>2, <1>4, <1>5 DEF Run, RequestsAreNamed, TypeOK
<1>9. RowsAreUnique'
  BY <1>2 DEF Run, RowsAreUnique, serverVars
<1> QED
  BY <1>6, <1>7, <1>8, <1>9 DEF Run

LEMMA ClientRun ==
    ASSUME Run, NEW u \in Users, Client(u)
    PROVE  Run'
<1>1. meInfo \in [Users -> InfoFile] /\ me \in [Users -> Identities]
        /\ conn \in [Conns -> Connections]
  BY DEF Run, TypeOK
<1>2. \A v \in Users : cpc[v] # "idle" => me[v].name \in UserNames /\ cur[v] \in Conns
  BY DEF Run, TypeOK, RunsHaveConns
<1>3. CASE GetClientConnectionInfo(u)
  <2>1. cpc[u] = "init" /\ UNCHANGED <<name, meInfo, serverVars, renames>>
    BY <1>3 DEF GetClientConnectionInfo
  <2>2. CASE End(u)
    BY <1>1, <2>1, <2>2, EndRun DEF serverVars
  <2>3. CASE meInfo[u].of.name = me[u].name /\ GoOn(u, meInfo[u].of)
    <3>1. meInfo[u].of \in Identities
      BY <1>1 DEF InfoFile
    <3> QED
      BY <1>1, <2>1, <2>3, <3>1, GoOnRun DEF serverVars
  <2> QED
    BY <1>3, <2>2, <2>3 DEF GetClientConnectionInfo
<1>4. CASE RegisterClient(u)
  BY <1>4, SendRun DEF RegisterClient, serverVars
<1>5. CASE AwaitRegistration(u)
  <2>1. cpc[u] = "await_registration" /\ UNCHANGED <<name, meInfo, serverVars, renames>>
    BY <1>5 DEF AwaitRegistration
  <2>2. CASE End(u)
    BY <1>1, <2>1, <2>2, EndRun DEF serverVars
  <2>3. CASE /\ me' = [me EXCEPT ![u].id = conn[cur[u]].resp.id]
             /\ cpc' = [cpc EXCEPT ![u] = "save_info"]
             /\ conn' = [conn EXCEPT ![cur[u]].resp = NoResponse]
             /\ UNCHANGED cur
    <3>1. conn[cur[u]].resp.id \in Nat
      BY <1>1, <1>2, <2>1 DEF Connections, Responses
    <3> QED
      BY <2>1, <2>3, <3>1, TakeRun DEF serverVars
  <2> QED
    BY <1>5, <2>2, <2>3 DEF AwaitRegistration
<1>6. CASE SaveInfo(u)
  <2>1. cpc[u] = "save_info" /\ UNCHANGED <<name, serverVars, renames>>
    BY <1>6 DEF SaveInfo
  <2>2. CASE End(u) /\ UNCHANGED meInfo
    BY <1>1, <2>1, <2>2, EndRun DEF serverVars
  <2>3. CASE /\ \E file \in Written(me[u]) : meInfo' = [meInfo EXCEPT ![u] = file]
             /\ GoOn(u, me[u])
    <3>1. Written(me[u]) \subseteq InfoFile
      BY <1>1 DEF Written, Whole, Damaged, InfoFile
    <3>2. meInfo' \in [Users -> InfoFile]
      BY <1>1, <2>3, <3>1
    <3>3. me[u] \in Identities
      BY <1>1
    <3> QED
      BY <2>1, <2>3, <3>2, <3>3, GoOnRun DEF serverVars
  <2> QED
    BY <1>6, <2>2, <2>3 DEF SaveInfo
<1>7. CASE SendPublicKey(u)
  BY <1>7, SendRun DEF SendPublicKey, serverVars
<1>8. CASE ReceiveSharedSecret(u)
  <2>1. me[u].id \in Nat /\ me' = [me EXCEPT ![u].id = me[u].id]
    BY <1>1, <1>8 DEF ReceiveSharedSecret, Identities
  <2> QED
    BY <1>8, <2>1, TakeRun DEF ReceiveSharedSecret, serverVars
<1>9. CASE Leave(u)
  BY <1>1, <1>9, EndRun DEF Leave, serverVars
<1> QED
  BY <1>3, <1>4, <1>5, <1>6, <1>7, <1>8, <1>9 DEF Client

(* What a handler answers is a connection again. *)
LEMMA AnswerConn ==
    ASSUME Run, NEW c \in Conns, NEW pc \in HandlerPc \ {"none"}, NEW i \in Nat,
           NEW code \in {"REGISTRATION_SUCCESS", "REGISTRATION_FAILED",
                         "CLIENT_AES_KEY"},
           Answer(c, pc, i, code)
    PROVE  \E new \in Connections :
              /\ conn' = [conn EXCEPT ![c] = new]
              /\ new.pc # "none" /\ new.req.code = "none"
              /\ new.up => conn[c].up
              /\ new.resp = IF conn[c].up THEN Response(code, i) ELSE conn[c].resp
<1> DEFINE new == [pc |-> pc, id |-> i, up |-> conn[c].up /\ pc # "stopped",
                   req |-> NoRequest,
                   resp |-> IF conn[c].up THEN Response(code, i) ELSE conn[c].resp]
<1>1. conn[c] \in Connections /\ conn' = [conn EXCEPT ![c] = new]
  BY DEF Answer, Run, TypeOK
<1>2. Response(code, i) \in Responses /\ NoRequest \in Requests /\ NoRequest.code = "none"
  BY DEF Response, Responses, NoRequest, Requests, UserNames
<1>3. (conn[c].up /\ pc # "stopped") \in BOOLEAN /\ conn[c].resp \in Responses
  BY <1>1 DEF Connections
<1>4. new \in Connections
  BY <1>2, <1>3 DEF Connections
<1>5. new.pc = pc /\ new.req = NoRequest /\ (new.up => conn[c].up)
        /\ new.resp = IF conn[c].up THEN Response(code, i) ELSE conn[c].resp
  OBVIOUS
<1> HIDE DEF new
<1> QED
  BY <1>1, <1>2, <1>4, <1>5

(* So is what it leaves when it stops. *)
LEMMA StopConn ==
    ASSUME Run, NEW c \in Conns, Stop(c)
    PROVE  \E new \in Connections :
              /\ conn' = [conn EXCEPT ![c] = new]
              /\ new.pc # "none" /\ new.req.code = "none"
              /\ new.up = FALSE
              /\ new.resp = conn[c].resp
<1> DEFINE new == [conn[c] EXCEPT !.pc = "stopped", !.id = 0, !.up = FALSE,
                                  !.req = NoRequest]
<1>1. conn[c] \in Connections /\ conn' = [conn EXCEPT ![c] = new]
  BY DEF Stop, Run, TypeOK
<1>2. NoRequest \in Requests /\ NoRequest.code = "none"
  BY DEF NoRequest, Requests, UserNames
<1>3. new \in Connections /\ new.pc = "stopped" /\ new.up = FALSE
        /\ new.req = NoRequest /\ new.resp = conn[c].resp
  BY <1>1, <1>2 DEF Connections, HandlerPc
<1> HIDE DEF new
<1> QED
  BY <1>1, <1>2, <1>3

(* A row that is inserted is the only one of its name and of its id. *)
LEMMA InsertRows ==
    ASSUME Run, NEW n \in UserNames, Insert(n, issued + 1)
    PROVE  /\ clients' \subseteq Rows
           /\ \A x \in clients' : floor < x.id /\ x.id <= issued + 1
           /\ RowsAreUnique'
           /\ ~Taken(n)
           /\ clients' = clients \cup {[id |-> issued + 1, name |-> n, key |-> FALSE]}
<1> DEFINE new == [id |-> issued + 1, name |-> n, key |-> FALSE]
<1>1. issued \in Nat /\ clients \subseteq Rows
        /\ \A x \in clients : floor < x.id /\ x.id <= issued
  BY DEF Run, TypeOK
<1>2. ~Taken(n) /\ clients' = clients \cup {new}
  BY DEF Insert
<1>3. new \in Rows /\ new.id = issued + 1 /\ new.name = n
  BY <1>1 DEF Rows
<1>4. floor \in Nat /\ floor <= issued
  BY DEF Run, TypeOK
<1> HIDE DEF new
<1>5. clients' \subseteq Rows /\ \A x \in clients' : floor < x.id /\ x.id <= issued + 1
  BY <1>1, <1>2, <1>3, <1>4 DEF Rows
<1>6. \A x \in clients : x.name # n /\ x.id # issued + 1
  BY <1>1, <1>2 DEF Taken, Rows
<1>7. RowsAreUnique'
  BY <1>2, <1>3, <1>6 DEF Run, RowsAreUnique
<1> QED
  BY <1>2, <1>5, <1>7 DEF new

(* Keys change no row's name and id. *)
LEMMA KeyRows ==
    ASSUME Run, NEW i, clients' \in {KeyStored(i), clients}
    PROVE  /\ clients' \subseteq Rows
           /\ \A x \in clients' : floor < x.id /\ x.id <= issued
           /\ RowsAreUnique'
           /\ \A n, j : (\E x \in clients : x.name = n /\ x.id = j)
                         <=> \E x \in clients' : x.name = n /\ x.id = j
<1>1. clients \subseteq Rows /\ \A x \in clients : floor < x.id /\ x.id <= issued
  BY DEF Run, TypeOK
<1>2. CASE clients' = clients
  BY <1>1, <1>2 DEF Run, RowsAreUnique
<1>3. CASE clients' = KeyStored(i)
  <2> DEFINE keyed(x) == [x EXCEPT !.key = @ \/ x.id = i]
  <2>1. clients' = {keyed(x) : x \in clients}
    BY <1>3 DEF KeyStored
  <2>2. ASSUME NEW x \in clients
        PROVE  keyed(x) \in Rows /\ keyed(x).name = x.name /\ keyed(x).id = x.id
    <3>1. x = [id |-> x.id, name |-> x.name, key |-> x.key] /\ x \in Rows
      BY <1>1 DEF Rows
    <3>2. (x.key \/ x.id = i) \in BOOLEAN
      OBVIOUS
    <3> QED
      BY <3>1, <3>2 DEF Rows
  <2> HIDE DEF keyed
  <2>3. clients' \subseteq Rows /\ \A x \in clients' : floor < x.id /\ x.id <= issued
    BY <1>1, <2>1, <2>2
  <2>4. RowsAreUnique'
    <3> SUFFICES ASSUME NEW x \in clients, NEW y \in clients,
                        keyed(x).name = keyed(y).name \/ keyed(x).id = keyed(y).id
                 PROVE  keyed(x) = keyed(y)
      BY <2>1 DEF RowsAreUnique
    <3>1. x = y
      BY <2>2 DEF Run, RowsAreUnique
    <3> QED
      BY <3>1
  <2>5. \A n, j : (\E x \in clients : x.name = n /\ x.id = j)
                  <=> \E x \in clients' : x.name = n /\ x.id = j
    BY <2>1, <2>2
  <2> QED
    BY <2>3, <2>4, <2>5
<1> QED
  BY <1>2, <1>3

(* The three steps of a handler. *)
LEMMA RegisterNewClientRun ==
    ASSUME Run, NEW c \in Conns, RegisterNewClient(c)
    PROVE  Run'
<1>1. /\ conn[c] \in Connections /\ conn[c].req.name \in UserNames
      /\ issued \in Nat /\ RowsAreUnique /\ clients \subseteq Rows
      /\ \A x \in clients : floor < x.id /\ x.id <= issued
  BY DEF Run, TypeOK, Connections, Requests
<1>2. /\ conn[c].pc = "first" /\ issued' = issued + 1
      /\ UNCHANGED <<name, clientVars, floor, restarts, renames>>
  BY DEF RegisterNewClient
<1>3. \/ Insert(conn[c].req.name, issued + 1)
      \/ clients' = clients
  BY <1>2 DEF RegisterNewClient
<1>4. /\ clients' \subseteq Rows
      /\ \A x \in clients' : floor < x.id /\ x.id <= issued'
      /\ RowsAreUnique'
  <2>1. CASE Insert(conn[c].req.name, issued + 1)
    BY <1>1, <1>2, <2>1, InsertRows
  <2>2. CASE clients' = clients
    BY <1>1, <1>2, <2>2 DEF RowsAreUnique, Rows
  <2> QED
    BY <1>3, <2>1, <2>2
<1>5. \E new \in Connections :
         /\ conn' = [conn EXCEPT ![c] = new]
         /\ new.pc # "none" /\ new.req.code = "none"
         /\ new.up => conn[c].up
  <2>1. CASE Stop(c)
    BY <2>1, StopConn
  <2>2. CASE \/ Answer(c, "await_key", issued', "REGISTRATION_SUCCESS")
             \/ Answer(c, "stopped", 0, "REGISTRATION_FAILED")
    <3>1. PICK i \in Nat, pc \in {"await_key", "stopped"},
               code \in {"REGISTRATION_SUCCESS", "REGISTRATION_FAILED"} :
             Answer(c, pc, i, code)
      BY <1>1, <1>2, <2>2
    <3> QED
      BY <3>1, AnswerConn DEF HandlerPc
  <2> QED
    BY <2>1, <2>2 DEF RegisterNewClient
<1>6. issued' \in Nat /\ issued <= issued'
  BY <1>1, <1>2
<1> QED
  BY <1>2, <1>4, <1>5, <1>6, ServeRun

LEMMA SendAesKeyRun ==
    ASSUME Run, NEW c \in Conns, SendAesKey(c)
    PROVE  Run'
<1> DEFINE i == IF conn[c].pc = "first" THEN conn[c].req.id ELSE conn[c].id
<1>1. /\ conn[c] \in Connections /\ i \in Nat /\ issued \in Nat
  BY DEF Run, TypeOK, Connections, Requests
<1>2. /\ conn[c].pc \in {"first", "await_key"}
      /\ clients' \in {KeyStored(i), clients}
      /\ Answer(c, "serving", i, "CLIENT_AES_KEY") \/ Stop(c)
      /\ UNCHANGED <<name, clientVars, issued, floor, restarts, renames>>
  BY DEF SendAesKey
<1> HIDE DEF i
<1>3. /\ clients' \subseteq Rows
      /\ \A x \in clients' : floor < x.id /\ x.id <= issued'
      /\ RowsAreUnique'
  BY <1>2, KeyRows
<1>4. \E new \in Connections :
         /\ conn' = [conn EXCEPT ![c] = new]
         /\ new.pc # "none" /\ new.req.code = "none"
         /\ new.up => conn[c].up
  BY <1>1, <1>2, AnswerConn, StopConn DEF HandlerPc
<1>5. conn[c].pc # "none" /\ issued' \in Nat /\ issued <= issued'
  BY <1>1, <1>2
<1> QED
  BY <1>2, <1>3, <1>4, <1>5, ServeRun

(* A step that leaves the table alone. *)
LEMMA OtherServeRun ==
    ASSUME Run, NEW c \in Conns, StopHandler(c) \/ LinkDown(c)
    PROVE  Run'
<1>1. /\ conn[c] \in Connections /\ conn[c].pc # "none"
      /\ UNCHANGED <<name, clientVars, serverVars, renames>>
  BY DEF Run, TypeOK, RunsHaveConns, StopHandler, LinkDown
<1>2. \E new \in Connections :
         /\ conn' = [conn EXCEPT ![c] = new]
         /\ new.pc # "none"
         /\ new.up = FALSE
  <2>1. CASE StopHandler(c)
    BY <2>1, StopConn DEF StopHandler
  <2>2. CASE LinkDown(c)
    <3>1. PICK req \in CutRequests(conn[c].req), resp \in CutResponses(conn[c].resp) :
            conn' = [conn EXCEPT ![c] =
                       [@ EXCEPT !.up = FALSE, !.req = req, !.resp = resp]]
      BY <2>2 DEF LinkDown
    <3>2. req \in Requests
      BY <1>1 DEF Connections, CutRequests, Requests, NoRequest, UserNames
    <3>3. resp \in Responses
      BY <1>1 DEF Connections, CutResponses, Responses, NoResponse
    <3> DEFINE new == [conn[c] EXCEPT !.up = FALSE, !.req = req, !.resp = resp]
    <3>4. new \in Connections /\ new.pc # "none" /\ new.up = FALSE
      BY <1>1, <3>2, <3>3 DEF Connections
    <3>5. conn' = [conn EXCEPT ![c] = new]
      BY <3>1
    <3> HIDE DEF new
    <3> QED
      BY <3>4, <3>5
  <2> QED
    BY <2>1, <2>2
<1>3. /\ clients' \subseteq Rows /\ issued' \in Nat /\ issued <= issued'
      /\ \A x \in clients' : floor < x.id /\ x.id <= issued'
      /\ RowsAreUnique'
  BY <1>1 DEF Run, TypeOK, RowsAreUnique, serverVars
<1> QED
  BY <1>1, <1>2, <1>3, ServeRun DEF serverVars

(* The client dies, at any place. *)
LEMMA ClientCrashRun ==
    ASSUME Run, NEW u \in Users, ClientCrash(u)
    PROVE  Run'
<1>1. meInfo \in [Users -> InfoFile] /\ me[u] \in Identities
  BY DEF Run, TypeOK
<1>2. {Damaged(me[u]), Whole(me[u])} \subseteq InfoFile
  BY <1>1 DEF Damaged, Whole, InfoFile
<1>3. meInfo' \in [Users -> InfoFile]
  BY <1>1, <1>2 DEF ClientCrash
<1> QED
  BY <1>3, EndRun DEF ClientCrash, serverVars

(* The server is started again: every connection is over. *)
LEMMA RestartRun ==
    ASSUME Run, Restart
    PROVE  Run'
<1> USE DEF Run
<1>1. PICK lost \in SUBSET Conns :
        conn' = [c \in Conns |->
            IF conn[c] = Unused THEN Unused
            ELSE [Unused EXCEPT !.pc = "stopped",
                                !.resp = IF c \in lost THEN NoResponse
                                                       ELSE conn[c].resp]]
  BY DEF Restart
<1>2. /\ restarts' \in 0 .. MaxRestarts /\ clients' = {} /\ floor' = issued
      /\ UNCHANGED <<name, clientVars, issued, renames>>
  <2>1. /\ restarts < MaxRestarts /\ restarts' = restarts + 1
        /\ clients' = {} /\ floor' = issued
        /\ UNCHANGED <<name, clientVars, issued, renames>>
    BY DEF Restart
  <2>2. restarts \in 0 .. MaxRestarts
    BY DEF TypeOK
  <2> QED
    BY <2>1, <2>2, BoundAssumption
<1>3. /\ Unused \in Connections /\ Unused.up = FALSE /\ Unused.pc = "none"
      /\ NoResponse \in Responses
  BY DEF Unused, NoRequest, NoResponse, Connections, HandlerPc, Requests,
         Responses, UserNames
<1>4. \A c \in Conns :
        /\ conn'[c] \in Connections /\ conn'[c].up = FALSE
        /\ conn'[c].pc = "none" => conn[c] = Unused
  <2> SUFFICES ASSUME NEW c \in Conns, conn[c] # Unused
               PROVE  /\ conn'[c] \in Connections /\ conn'[c].up = FALSE
                      /\ conn'[c].pc = "stopped"
    BY <1>1, <1>3
  <2>1. PICK resp \in Responses :
          conn'[c] = [Unused EXCEPT !.pc = "stopped", !.resp = resp]
    BY <1>1, <1>3 DEF TypeOK, Connections
  <2> QED
    BY <1>3, <2>1 DEF Connections, HandlerPc
<1>5. conn' \in [Conns -> Connections]
  BY <1>1, <1>4
<1> HIDE DEF Run
<1>6. TypeOK'
  BY <1>2, <1>5 DEF Run, TypeOK, clientVars
<1>7. RunsHaveConns'
  BY <1>2, <1>3, <1>4, ConnAssumption DEF Run, TypeOK, RunsHaveConns, clientVars
<1>8. RequestsAreNamed' /\ RowsAreUnique'
  BY <1>2, <1>4 DEF Run, TypeOK, RequestsAreNamed, RowsAreUnique, clientVars
<1> QED
  BY <1>6, <1>7, <1>8 DEF Run

(* A user edits transfer.info: no run looks at it again. *)
LEMMA RenameRun ==
    ASSUME Run, NEW u \in Users, Rename(u)
    PROVE  Run'
<1> USE DEF Run, Rename, clientVars, serverVars
<1>1. TypeOK'
  BY BoundAssumption DEF TypeOK
<1>2. RunsHaveConns' /\ RequestsAreNamed' /\ RowsAreUnique'
  BY DEF RunsHaveConns, RequestsAreNamed, RowsAreUnique
<1> QED
  BY <1>1, <1>2

LEMMA InitRun == Init => Run
<1> SUFFICES ASSUME Init PROVE Run
  OBVIOUS
<1>1. Unused \in Connections /\ NoOne \in Identities /\ Absent \in InfoFile
  BY DEF Unused, NoRequest, NoResponse, Connections, HandlerPc, Requests,
         Responses, NoOne, Absent, InfoFile, Identity, Identities, UserNames
<1>2. TypeOK
  BY <1>1, BoundAssumption DEF Init, TypeOK
<1>3. RunsHaveConns /\ RequestsAreNamed /\ RowsAreUnique
  BY DEF Init, RunsHaveConns, RequestsAreNamed, RowsAreUnique, Unused
<1> QED
  BY <1>2, <1>3 DEF Run

LEMMA NextRun == Run /\ [Next]_vars => Run'
<1> SUFFICES ASSUME Run, [Next]_vars PROVE Run'
  OBVIOUS
<1>1. ASSUME NEW u \in Users,
             Connect(u) \/ Client(u) \/ ClientCrash(u) \/ Rename(u)
      PROVE  Run'
  BY <1>1, ConnectRun, ClientRun, ClientCrashRun, RenameRun
<1>2. ASSUME NEW c \in Conns, Handler(c) \/ LinkDown(c)
      PROVE  Run'
  BY <1>2, RegisterNewClientRun, SendAesKeyRun, OtherServeRun DEF Handler
<1>3. CASE UNCHANGED vars
  BY <1>3 DEF vars, clientVars, serverVars, Run, TypeOK, RunsHaveConns,
     RequestsAreNamed, RowsAreUnique
<1> QED
  BY <1>1, <1>2, <1>3, RestartRun DEF Next, Ended

-----------------------------------------------------------------------------
(* The clients table as a registry of names. *)

HolderIn(T, n) == IF \E x \in T : x.name = n
                    THEN (CHOOSE x \in T : x.name = n).id ELSE 0
Table == [n \in UserNames |-> HolderIn(clients, n)]
Row(n, i) == \E x \in clients : x.name = n /\ x.id = i

(* Who holds a name is in its row. *)
LEMMA HolderRow ==
    ASSUME NEW T, \A x, y \in T : x.name = y.name => x = y, NEW n
    PROVE  /\ \A x \in T : x.name = n => HolderIn(T, n) = x.id
           /\ (\A x \in T : x.name # n) => HolderIn(T, n) = 0
<1>1. ASSUME NEW x \in T, x.name = n PROVE HolderIn(T, n) = x.id
  <2>1. (CHOOSE y \in T : y.name = n) = x
    BY <1>1
  <2> QED
    BY <1>1, <2>1 DEF HolderIn
<1>2. ASSUME \A x \in T : x.name # n PROVE HolderIn(T, n) = 0
  BY <1>2 DEF HolderIn
<1> QED
  BY <1>1, <1>2

(* Steps of the handlers and of the server, as far as rows go. *)
SameTable ==
    /\ UNCHANGED <<issued, floor>>
    /\ \A n, i : Row(n, i)' <=> Row(n, i)
NewRow(n) ==
    /\ n \in UserNames
    /\ \A i : ~Row(n, i)
    /\ issued' = issued + 1 /\ floor' = floor
    /\ \A m, i : Row(m, i)' <=> Row(m, i) \/ (m = n /\ i = issued')
NoRow ==
    /\ issued' = issued + 1 /\ floor' = floor
    /\ \A n, i : Row(n, i)' <=> Row(n, i)
NoRows ==
    /\ issued' = issued /\ floor' = issued
    /\ \A n, i : ~Row(n, i)'

LEMMA RegisterTable ==
    ASSUME Run, NEW c \in Conns, RegisterNewClient(c)
    PROVE  \/ /\ NewRow(conn[c].req.name)
              /\ Answer(c, "await_key", issued', "REGISTRATION_SUCCESS") \/ Stop(c)
           \/ /\ NoRow
              /\ Answer(c, "stopped", 0, "REGISTRATION_FAILED")
<1> DEFINE n == conn[c].req.name
<1>1. n \in UserNames
  BY DEF Run, TypeOK, Connections, Requests
<1>2. issued' = issued + 1 /\ floor' = floor
  BY DEF RegisterNewClient
<1>3. CASE /\ Insert(n, issued')
           /\ Answer(c, "await_key", issued', "REGISTRATION_SUCCESS") \/ Stop(c)
  <2>1. Insert(n, issued + 1)
    BY <1>2, <1>3
  <2>2. /\ ~Taken(n)
        /\ clients' = clients \cup {[id |-> issued + 1, name |-> n, key |-> FALSE]}
    BY <1>1, <2>1, InsertRows
  <2>3. \A i : ~Row(n, i)
    BY <2>2 DEF Taken, Row
  <2> DEFINE new == [id |-> issued + 1, name |-> n, key |-> FALSE]
  <2>a. clients' = clients \cup {new} /\ new.name = n /\ new.id = issued + 1
    BY <2>2
  <2> HIDE DEF new
  <2>4. \A m, i : Row(m, i)' <=> Row(m, i) \/ (m = n /\ i = issued + 1)
    BY <2>a DEF Row
  <2> QED
    BY <1>1, <1>2, <1>3, <2>3, <2>4 DEF NewRow
<1>4. CASE UNCHANGED clients /\ Answer(c, "stopped", 0, "REGISTRATION_FAILED")
  BY <1>2, <1>4 DEF NoRow, Row
<1> QED
  BY <1>3, <1>4 DEF RegisterNewClient

LEMMA KeyTable ==
    ASSUME Run, NEW c \in Conns, SendAesKey(c)
    PROVE  SameTable
<1>1. PICK i : clients' \in {KeyStored(i), clients}
  BY DEF SendAesKey
<1>2. UNCHANGED <<issued, floor>>
  BY DEF SendAesKey
<1> QED
  BY <1>1, <1>2, KeyRows DEF SameTable, Row

(* Every step is one of the four. *)
LEMMA TableStep ==
    ASSUME Run, [Next]_vars
    PROVE  SameTable \/ NoRow \/ NoRows \/ \E n \in UserNames : NewRow(n)
<1> USE DEF serverVars
<1>1. CASE Restart
  BY <1>1 DEF Restart, NoRows, Row
<1>2. ASSUME NEW u \in Users,
             Connect(u) \/ Client(u) \/ ClientCrash(u) \/ Rename(u)
      PROVE  SameTable
  <2>1. UNCHANGED serverVars
    BY <1>2 DEF Connect, Client, GetClientConnectionInfo, RegisterClient,
       AwaitRegistration, SaveInfo, SendPublicKey, ReceiveSharedSecret, Leave,
       ClientCrash, Rename
  <2> QED
    BY <2>1 DEF SameTable, Row
<1>3. ASSUME NEW c \in Conns, StopHandler(c) \/ LinkDown(c)
      PROVE  SameTable
  BY <1>3 DEF StopHandler, LinkDown, SameTable, Row
<1>4. ASSUME NEW c \in Conns, RegisterNewClient(c)
      PROVE  NoRow \/ \E n \in UserNames : NewRow(n)
  BY <1>4, RegisterTable DEF NewRow
<1>5. CASE UNCHANGED vars
  BY <1>5 DEF vars, SameTable, Row
<1> QED
  BY <1>1, <1>2, <1>3, <1>4, <1>5, KeyTable DEF Next, Handler, Ended

(* What the steps of Registration are in Registry. *)
LEMMA RegistryStep ==
    ASSUME Run, Run', [Next]_vars
    PROVE  [Promise!Next]_(Promise!vars)
<1> DEFINE old(n) == HolderIn(clients, n)
           new(n) == HolderIn(clients', n)
<1>1. \A n : /\ \A x \in clients : x.name = n => old(n) = x.id
             /\ (\A x \in clients : x.name # n) => old(n) = 0
  BY HolderRow DEF Run, RowsAreUnique
<1>2. \A n : /\ \A x \in clients' : x.name = n => new(n) = x.id
             /\ (\A x \in clients' : x.name # n) => new(n) = 0
  BY HolderRow DEF Run, RowsAreUnique
<1>3. Table = [n \in UserNames |-> old(n)] /\ Table' = [n \in UserNames |-> new(n)]
  BY DEF Table
<1> HIDE DEF old, new
<1>4. ASSUME NEW n, \A i : Row(n, i)' <=> Row(n, i)
      PROVE  new(n) = old(n)
  BY <1>1, <1>2, <1>4 DEF Row
<1>5. CASE SameTable
  <2>1. Table' = Table /\ issued' = issued
    BY <1>3, <1>4, <1>5 DEF SameTable
  <2> QED
    BY <2>1 DEF Promise!vars, Table, HolderIn, Taken
<1>6. CASE NoRow
  <2>1. Table' = Table /\ issued' = issued + 1
    BY <1>3, <1>4, <1>6 DEF NoRow
  <2> QED
    BY <2>1 DEF Promise!Next, Promise!Refuse, Table, HolderIn, Taken
<1>7. CASE NoRows
  <2>1. Table' = [n \in UserNames |-> 0] /\ issued' = issued
    BY <1>2, <1>3, <1>7 DEF NoRows, Row
  <2> QED
    BY <2>1 DEF Promise!Next, Promise!Clear, Table, HolderIn, Taken
<1>8. CASE \E n \in UserNames : NewRow(n)
  <2>1. PICK n \in UserNames : NewRow(n)
    BY <1>8
  <2>2. old(n) = 0
    BY <1>1, <2>1 DEF NewRow, Row
  <2>3. new(n) = issued'
    BY <1>2, <2>1 DEF NewRow, Row
  <2>4. \A m \in UserNames \ {n} : new(m) = old(m)
    BY <1>4, <2>1 DEF NewRow
  <2>5. Table[n] = 0 /\ issued' = issued + 1 /\ Table' = [Table EXCEPT ![n] = issued']
    BY <1>3, <2>1, <2>2, <2>3, <2>4 DEF NewRow
  <2>6. Promise!Claim(n)
    BY <2>5 DEF Promise!Claim, Table, HolderIn, Taken
  <2> QED
    BY <2>1, <2>6 DEF Promise!Next
<1> QED
  BY <1>5, <1>6, <1>7, <1>8, TableStep

-----------------------------------------------------------------------------
(* Who has an id. *)

(* The id that is on its way to u. *)
Awaits(u, i) ==
    /\ cpc[u] # "idle"
    /\ conn[cur[u]].resp.code = "REGISTRATION_SUCCESS"
    /\ conn[cur[u]].resp.id = i

(* The ids that u has, or that are on their way to it, for a name. *)
Owns(u, n, i) ==
    \/ \E h \in Has(u) : h.name = n /\ h.id = i
    \/ Awaits(u, i) /\ me[u].name = n

(* All of them were drawn; those that were drawn since the last restart    *)
(* have a row of that name, and one owner.                                 *)
Held ==
    /\ \A u \in Users : \A n, i : Owns(u, n, i) => i \in Nat /\ i <= issued
    /\ \A u \in Users : \A n, i : Owns(u, n, i) /\ floor < i => Row(n, i)
    /\ \A u, v \in Users : \A n, m, i :
          Owns(u, n, i) /\ Owns(v, m, i) /\ floor < i => u = v

(* If nobody owns more than before, it stays so, also with a new row. *)
LEMMA FewerHeld ==
    ASSUME Run, Held, \A u \in Users : \A n, i : Owns(u, n, i)' => Owns(u, n, i),
           SameTable \/ NoRow \/ \E n \in UserNames : NewRow(n)
    PROVE  Held'
<1>1. issued \in Nat /\ issued' \in Nat /\ issued <= issued' /\ floor' = floor
  BY DEF Run, TypeOK, SameTable, NoRow, NewRow
<1>2. \A n, i : Row(n, i) => Row(n, i)'
  BY DEF SameTable, NoRow, NewRow
<1> QED
  BY <1>1, <1>2 DEF Held

(* If one user comes to own a new id, for a name that has just been given  *)
(* to it, too.                                                             *)
LEMMA NewHeld ==
    ASSUME Run, Held, NEW u \in Users, NEW given \in UserNames, NewRow(given),
           \A v \in Users : \A n, i : Owns(v, n, i)' =>
               Owns(v, n, i) \/ (v = u /\ n = given /\ i = issued')
    PROVE  Held'
<1>1. issued \in Nat /\ issued' = issued + 1 /\ floor' = floor /\ floor <= issued
  BY DEF Run, TypeOK, NewRow
<1>2. /\ \A n, i : Row(n, i) => Row(n, i)'
      /\ \A i : i = issued' => Row(given, i)'
  BY DEF NewRow
<1>3. \A v \in Users : \A n, i : Owns(v, n, i) => i # issued'
  BY <1>1 DEF Held
<1>4. \A v \in Users : \A n, i : Owns(v, n, i)' => i \in Nat /\ i <= issued'
  BY <1>1 DEF Held
<1>5. \A v \in Users : \A n, i : Owns(v, n, i)' /\ floor < i => Row(n, i)'
  BY <1>2 DEF Held
<1>6. \A v, w \in Users : \A n, m, i :
        Owns(v, n, i)' /\ Owns(w, m, i)' /\ floor < i => v = w
  BY <1>3 DEF Held
<1> QED
  BY <1>1, <1>4, <1>5, <1>6 DEF Held

(* A restart makes all ids old. *)
LEMMA RestartHeld ==
    ASSUME Run, Held, \A u \in Users : \A n, i : Owns(u, n, i)' => Owns(u, n, i),
           NoRows
    PROVE  Held'
<1>1. issued \in Nat /\ issued' = issued /\ floor' = issued
  BY DEF Run, TypeOK, NoRows
<1> QED
  BY <1>1 DEF Held

(* The invariant is what OneHolder needs. *)
LEMMA HeldOnce == Run /\ Held => OneHolder
<1> SUFFICES ASSUME Run, Held, NEW u \in Users, NEW v \in Users, u # v,
                    NEW i \in Has(u), NEW j \in Has(v),
                    i.name = j.name, i.id > floor, j.id > floor
             PROVE  FALSE
  BY DEF OneHolder
<1>1. floor \in Nat /\ Owns(u, i.name, i.id) /\ Owns(v, j.name, j.id)
  BY DEF Run, TypeOK, Owns
<1>2. i.id \in Nat /\ j.id \in Nat
  BY <1>1 DEF Held
<1>3. Row(i.name, i.id) /\ Row(j.name, j.id)
  BY <1>1, <1>2 DEF Held
<1>4. i.id = j.id
  BY <1>3 DEF Row, Run, RowsAreUnique
<1> QED
  BY <1>1, <1>2, <1>4 DEF Held

-----------------------------------------------------------------------------
(* What the steps do to the ids that users have. *)

NoMore(u) == \A n, i : Owns(u, n, i)' => Owns(u, n, i)

(* What a run has on disk, in memory and on its way. *)
LEMMA SameOwns ==
    ASSUME NEW u \in Users, cpc'[u] = cpc[u], cur'[u] = cur[u], me'[u] = me[u],
           meInfo'[u] = meInfo[u],
           cpc[u] # "idle" =>
               \/ conn'[cur[u]].resp = conn[cur[u]].resp
               \/ conn'[cur[u]].resp.code # "REGISTRATION_SUCCESS"
    PROVE  NoMore(u)
  BY DEF NoMore, Owns, Awaits, Has

(* A step of one run concerns no other. *)
LEMMA OtherOwns ==
    ASSUME Run, NEW u \in Users, NEW v \in Users \ {u},
           NEW place, cpc' = [cpc EXCEPT ![u] = place],
           NEW c, cur' = [cur EXCEPT ![u] = c] \/ UNCHANGED cur,
           NEW who, me' = [me EXCEPT ![u] = who] \/ UNCHANGED me,
           NEW i, meInfo' = [meInfo EXCEPT ![u] = i] \/ UNCHANGED meInfo,
           NEW k, NEW new, conn' = [conn EXCEPT ![k] = new] \/ UNCHANGED conn,
           (cpc[u] # "idle" /\ k = cur[u]) \/ conn[k].pc = "none"
    PROVE  NoMore(v)
<1> USE DEF Run
<1>1. /\ cpc'[v] = cpc[v] /\ cur'[v] = cur[v] /\ me'[v] = me[v]
      /\ meInfo'[v] = meInfo[v]
  BY DEF TypeOK
<1>2. cpc[v] # "idle" => cur[v] # k /\ cur[v] \in Conns
  BY DEF TypeOK, RunsHaveConns
<1>3. cpc[v] # "idle" => conn'[cur[v]] = conn[cur[v]]
  BY <1>2 DEF TypeOK
<1> QED
  BY <1>1, <1>3, SameOwns

(* A me.info that has nothing but what u has. *)
Keeps(u, file) == file.of \in {meInfo[u].of, me[u]}

(* A run that ends owns at most what is in me.info. *)
LEMMA EndOwns ==
    ASSUME Run, NEW u \in Users, cpc[u] # "idle", End(u),
           NEW file, Keeps(u, file),
           meInfo' = [meInfo EXCEPT ![u] = file]
    PROVE  \A v \in Users : NoMore(v)
<1>1. /\ cpc' = [cpc EXCEPT ![u] = "idle"]
      /\ me' = [me EXCEPT ![u] = NoOne]
      /\ conn' = [conn EXCEPT ![cur[u]] =
                    [conn[cur[u]] EXCEPT !.up = FALSE, !.resp = NoResponse]]
      /\ cur' = [cur EXCEPT ![u] = NoConn]
  BY DEF End
<1>2. \A v \in Users \ {u} : NoMore(v)
  BY <1>1, OtherOwns
<1>3. cpc'[u] = "idle" /\ me'[u] = NoOne /\ meInfo'[u] = file
  BY <1>1 DEF Run, TypeOK
<1>4. Has(u)' \subseteq Has(u)
  BY <1>3 DEF Has, Keeps, NoOne, Identity
<1>5. NoMore(u)
  BY <1>3, <1>4 DEF NoMore, Owns, Awaits
<1> QED
  BY <1>2, <1>5

(* A run that goes on works with what it has, in memory or on its disk. *)
LEMMA GoOnOwns ==
    ASSUME Run, NEW u \in Users, cpc[u] # "idle",
           NEW who \in {meInfo[u].of, me[u]}, GoOn(u, who),
           NEW file, Keeps(u, file),
           meInfo' = [meInfo EXCEPT ![u] = file],
           who.name = me[u].name
    PROVE  \A v \in Users : NoMore(v)
<1>1. CASE End(u)
  BY <1>1, EndOwns
<1>2. CASE /\ me' = [me EXCEPT ![u] = who]
           /\ cpc' = [cpc EXCEPT ![u] = "send_key"]
           /\ UNCHANGED <<cur, conn>>
  <2>1. \A v \in Users \ {u} : NoMore(v)
    BY <1>2, OtherOwns
  <2>2. me'[u] = who /\ meInfo'[u] = file
    BY <1>2 DEF Run, TypeOK
  <2>3. Has(u)' \subseteq Has(u)
    BY <2>2 DEF Has, Keeps
  <2>4. \A i : Awaits(u, i)' => Awaits(u, i)
    BY <1>2 DEF Awaits
  <2>5. \A i : Awaits(u, i)' => me'[u].name = me[u].name
    BY <2>2, <2>4
  <2>6. NoMore(u)
    BY <2>3, <2>4, <2>5 DEF NoMore, Owns
  <2> QED
    BY <2>1, <2>6
<1> QED
  BY <1>1, <1>2 DEF GoOn

LEMMA ConnectOwns ==
    ASSUME Run, NEW u \in Users, Connect(u)
    PROVE  \A v \in Users : NoMore(v)
<1>1. PICK c \in Conns :
        /\ conn[c] = Unused
        /\ conn' = [conn EXCEPT ![c] = Accepted]
        /\ cur' = [cur EXCEPT ![u] = c]
  BY DEF Connect
<1>2. /\ cpc' = [cpc EXCEPT ![u] = "init"]
      /\ me' = [me EXCEPT ![u] = Identity(name[u], 0)]
      /\ UNCHANGED meInfo
  BY DEF Connect
<1>3. conn[c].pc = "none" /\ Accepted.resp.code = "none"
  BY <1>1 DEF Unused, Accepted, NoResponse
<1>4. \A v \in Users \ {u} : NoMore(v)
  BY <1>1, <1>2, <1>3, OtherOwns
<1>5. /\ me'[u] = Identity(name[u], 0) /\ meInfo'[u] = meInfo[u]
      /\ conn'[cur'[u]].resp.code = "none"
  BY <1>1, <1>2, <1>3 DEF Run, TypeOK
<1>6. NoMore(u)
  BY <1>5 DEF NoMore, Owns, Awaits, Has, Identity
<1> QED
  BY <1>4, <1>6

LEMMA ClientOwns ==
    ASSUME Run, NEW u \in Users, Client(u)
    PROVE  \A v \in Users : NoMore(v)
<1>1. /\ me[u] \in Identities /\ cur[u] \in Conns \cup {NoConn}
      /\ DOMAIN cpc = Users /\ DOMAIN cur = Users /\ DOMAIN me = Users
      /\ DOMAIN meInfo = Users /\ conn \in [Conns -> Connections]
      /\ cpc[u] # "idle" => cur[u] \in Conns /\ me[u].name \in UserNames
      /\ meInfo[u] \in InfoFile
      /\ meInfo = [meInfo EXCEPT ![u] = meInfo[u]]
  BY DEF Run, TypeOK, RunsHaveConns
<1> Keeps(u, meInfo[u])
  BY DEF Keeps
<1>2. ASSUME cpc[u] # "idle", End(u), UNCHANGED meInfo
      PROVE  \A v \in Users : NoMore(v)
  BY <1>1, <1>2, EndOwns
<1>3. CASE GetClientConnectionInfo(u)
  <2>1. cpc[u] = "init" /\ UNCHANGED meInfo
    BY <1>3 DEF GetClientConnectionInfo
  <2>2. CASE meInfo[u].of.name = me[u].name /\ GoOn(u, meInfo[u].of)
    BY <1>1, <2>1, <2>2, GoOnOwns
  <2> QED
    BY <1>2, <1>3, <2>1, <2>2 DEF GetClientConnectionInfo
<1>4. CASE RegisterClient(u) \/ SendPublicKey(u)
  <2>1. PICK place \in {"await_registration", "await_key"},
             code \in {"CLIENT_REGISTRATION", "CLIENT_PUBLIC_KEY"} :
          cpc' = [cpc EXCEPT ![u] = place] /\ Send(u, code)
    BY <1>4 DEF RegisterClient, SendPublicKey
  <2>2. cpc[u] # "idle" /\ UNCHANGED <<meInfo, cur, me>>
    BY <1>4 DEF RegisterClient, SendPublicKey
  <2>3. PICK req : conn' = [conn EXCEPT ![cur[u]] = [conn[cur[u]] EXCEPT !.req = req]]
    BY <2>1 DEF Send
  <2>4. \A v \in Users \ {u} : NoMore(v)
    BY <2>1, <2>2, <2>3, OtherOwns
  <2>5. conn'[cur[u]].resp = conn[cur[u]].resp
    BY <1>1, <2>2, <2>3 DEF Connections
  <2>6. NoMore(u)
    BY <2>2, <2>5 DEF NoMore, Owns, Awaits, Has
  <2> QED
    BY <2>4, <2>6
<1>5. CASE AwaitRegistration(u)
  <2>1. cpc[u] = "await_registration" /\ UNCHANGED meInfo
    BY <1>5 DEF AwaitRegistration
  <2>2. CASE /\ conn[cur[u]].resp.code = "REGISTRATION_SUCCESS"
             /\ me' = [me EXCEPT ![u].id = conn[cur[u]].resp.id]
             /\ cpc' = [cpc EXCEPT ![u] = "save_info"]
             /\ conn' = [conn EXCEPT ![cur[u]].resp = NoResponse]
             /\ UNCHANGED cur
    <3>1. \A v \in Users \ {u} : NoMore(v)
      <4>1. PICK who : me' = [me EXCEPT ![u] = who]
        BY <2>2
      <4>2. PICK new : conn' = [conn EXCEPT ![cur[u]] = new]
        BY <2>2
      <4>3. cpc[u] # "idle" /\ cpc' = [cpc EXCEPT ![u] = "save_info"] /\ UNCHANGED cur
        BY <2>1, <2>2
      <4> QED
        BY <2>1, <4>1, <4>2, <4>3, OtherOwns
    <3>2. /\ me'[u].name = me[u].name /\ me'[u].id = conn[cur[u]].resp.id
          /\ conn'[cur[u]].resp = NoResponse /\ meInfo'[u] = meInfo[u]
      BY <1>1, <2>1, <2>2 DEF Identities, Connections
    <3>3. NoMore(u)
      <4>1. \A i : ~Awaits(u, i)'
        BY <2>2, <3>2 DEF Awaits, NoResponse
      <4>2. \A h \in Has(u)' : h \in Has(u) \/ h = me'[u]
        BY <3>2 DEF Has
      <4>3. Awaits(u, me'[u].id) /\ me'[u].name = me[u].name
        BY <2>1, <2>2, <3>2 DEF Awaits
      <4> QED
        BY <4>1, <4>2, <4>3 DEF NoMore, Owns
    <3> QED
      BY <3>1, <3>3
  <2> QED
    BY <1>2, <1>5, <2>1, <2>2 DEF AwaitRegistration
<1>6. CASE SaveInfo(u)
  <2>1. cpc[u] = "save_info"
    BY <1>6 DEF SaveInfo
  <2>2. CASE /\ \E file \in Written(me[u]) : meInfo' = [meInfo EXCEPT ![u] = file]
             /\ GoOn(u, me[u])
    <3>1. PICK file \in {Whole(me[u]), Damaged(me[u])} :
            meInfo' = [meInfo EXCEPT ![u] = file]
      BY <2>2 DEF Written
    <3>2. Keeps(u, file)
      BY <3>1 DEF Keeps, Whole, Damaged
    <3> QED
      BY <2>1, <2>2, <3>1, <3>2, GoOnOwns
  <2> QED
    BY <1>2, <1>6, <2>1, <2>2 DEF SaveInfo
<1>7. CASE ReceiveSharedSecret(u)
  <2>1. /\ cpc[u] = "await_key" /\ UNCHANGED <<meInfo, cur, me>>
        /\ cpc' = [cpc EXCEPT ![u] = "served"]
        /\ conn' = [conn EXCEPT ![cur[u]] = [conn[cur[u]] EXCEPT !.resp = NoResponse]]
    BY <1>7 DEF ReceiveSharedSecret
  <2>2. \A v \in Users \ {u} : NoMore(v)
    BY <2>1, OtherOwns
  <2>3. conn'[cur[u]].resp = NoResponse
    BY <1>1, <2>1 DEF Connections
  <2>4. NoMore(u)
    BY <2>1, <2>3 DEF NoMore, Owns, Awaits, Has, NoResponse
  <2> QED
    BY <2>2, <2>4
<1>8. CASE Leave(u)
  BY <1>2, <1>8 DEF Leave
<1> QED
  BY <1>3, <1>4, <1>5, <1>6, <1>7, <1>8 DEF Client

(* What happens to one connection, when its response stays, is lost or is  *)
(* not that to a registration.                                             *)
LEMMA ConnOwns ==
    ASSUME Run, UNCHANGED clientVars, NEW c \in Conns, NEW new \in Connections,
           conn' = [conn EXCEPT ![c] = new],
           new.resp = conn[c].resp \/ new.resp.code # "REGISTRATION_SUCCESS"
    PROVE  \A v \in Users : NoMore(v)
<1> SUFFICES ASSUME NEW v \in Users PROVE NoMore(v)
  OBVIOUS
<1>1. cpc[v] # "idle" =>
        \/ conn'[cur[v]].resp = conn[cur[v]].resp
        \/ conn'[cur[v]].resp.code # "REGISTRATION_SUCCESS"
  BY DEF Run, TypeOK
<1> QED
  BY <1>1, SameOwns DEF clientVars

LEMMA RegisterNewClientHeld ==
    ASSUME Run, Held, NEW c \in Conns, RegisterNewClient(c)
    PROVE  Held'
<1> DEFINE n == conn[c].req.name
<1>1. /\ UNCHANGED clientVars /\ issued' = issued + 1
      /\ conn[c].req.code = "CLIENT_REGISTRATION"
  BY DEF RegisterNewClient
<1>2. issued \in Nat /\ conn \in [Conns -> Connections]
  BY DEF Run, TypeOK
<1>3. CASE Stop(c) /\ NewRow(n)
  <2>1. \A v \in Users : NoMore(v)
    BY <1>1, <1>3, StopConn, ConnOwns
  <2> QED
    BY <1>3, <2>1, FewerHeld DEF NewRow, NoMore
<1>4. CASE Answer(c, "stopped", 0, "REGISTRATION_FAILED") /\ NoRow
  <2>1. PICK new \in Connections :
          /\ conn' = [conn EXCEPT ![c] = new]
          /\ new.resp = IF conn[c].up THEN Response("REGISTRATION_FAILED", 0)
                                      ELSE conn[c].resp
    BY <1>4, AnswerConn DEF HandlerPc
  <2>2. new.resp = conn[c].resp \/ new.resp.code # "REGISTRATION_SUCCESS"
    BY <2>1 DEF Response
  <2>3. \A v \in Users : NoMore(v)
    BY <1>1, <2>1, <2>2, ConnOwns
  <2> QED
    BY <1>4, <2>3, FewerHeld DEF NoMore
<1>5. CASE Answer(c, "await_key", issued', "REGISTRATION_SUCCESS") /\ NewRow(n)
  <2>1. PICK i \in Nat : i = issued'
    BY <1>1, <1>2
  <2>2. Answer(c, "await_key", i, "REGISTRATION_SUCCESS")
    BY <1>5, <2>1
  <2>3. PICK new \in Connections :
          /\ conn' = [conn EXCEPT ![c] = new]
          /\ new.resp = IF conn[c].up THEN Response("REGISTRATION_SUCCESS", i)
                                      ELSE conn[c].resp
    BY <2>2, AnswerConn DEF HandlerPc
  <2>4. CASE ~conn[c].up
    <3>1. \A v \in Users : NoMore(v)
      BY <1>1, <2>3, <2>4, ConnOwns
    <3> QED
      BY <1>5, <3>1, FewerHeld DEF NewRow, NoMore
  <2>5. ASSUME conn[c].up, NEW u \in Users, cpc[u] # "idle", cur[u] = c
        PROVE  Held'
    <3>1. me[u].name = n
      BY <1>1, <2>5 DEF Run, RequestsAreNamed
    <3>2. \A v \in Users \ {u} : NoMore(v)
      <4> SUFFICES ASSUME NEW v \in Users \ {u} PROVE NoMore(v)
        OBVIOUS
      <4>1. cpc[v] # "idle" => cur[v] # c /\ cur[v] \in Conns
        BY <2>5 DEF Run, TypeOK, RunsHaveConns
      <4>2. cpc[v] # "idle" => conn'[cur[v]].resp = conn[cur[v]].resp
        BY <1>2, <2>3, <4>1
      <4> QED
        BY <1>1, <4>2, SameOwns DEF clientVars
    <3>3. \A m, j : Owns(u, m, j)' => Owns(u, m, j) \/ (m = n /\ j = i)
      <4>1. conn'[c].resp.id = i
        BY <1>2, <2>3, <2>5 DEF Response
      <4> QED
        BY <1>1, <2>5, <3>1, <4>1 DEF clientVars, Owns, Awaits, Has
    <3>4. n \in UserNames
      BY <1>5 DEF NewRow
    <3> HIDE DEF n
    <3> QED
      BY <1>5, <2>1, <3>2, <3>3, <3>4, NewHeld DEF NoMore
  <2>6. CASE \A u \in Users : cpc[u] # "idle" => cur[u] # c
    <3>1. \A v \in Users : NoMore(v)
      <4> SUFFICES ASSUME NEW v \in Users PROVE NoMore(v)
        OBVIOUS
      <4>1. cpc[v] # "idle" => cur[v] # c /\ cur[v] \in Conns
        BY <2>6 DEF Run, TypeOK
      <4>2. cpc[v] # "idle" => conn'[cur[v]].resp = conn[cur[v]].resp
        BY <1>2, <2>3, <4>1
      <4> QED
        BY <1>1, <4>2, SameOwns DEF clientVars
    <3> QED
      BY <1>5, <3>1, FewerHeld DEF NewRow, NoMore
  <2> QED
    BY <2>4, <2>5, <2>6
<1> QED
  BY <1>3, <1>4, <1>5, RegisterTable

LEMMA SendAesKeyHeld ==
    ASSUME Run, Held, NEW c \in Conns, SendAesKey(c)
    PROVE  Held'
<1> DEFINE i == IF conn[c].pc = "first" THEN conn[c].req.id ELSE conn[c].id
<1>1. i \in Nat
  BY DEF Run, TypeOK, Connections, Requests
<1>2. Answer(c, "serving", i, "CLIENT_AES_KEY") \/ Stop(c)
  BY DEF SendAesKey
<1>3. UNCHANGED clientVars
  BY DEF SendAesKey
<1> HIDE DEF i
<1>4. Response("CLIENT_AES_KEY", i).code # "REGISTRATION_SUCCESS"
  BY DEF Response
<1>5. PICK new \in Connections :
        /\ conn' = [conn EXCEPT ![c] = new]
        /\ new.resp = conn[c].resp \/ new.resp.code # "REGISTRATION_SUCCESS"
  <2>1. CASE Stop(c)
    BY <2>1, StopConn
  <2>2. CASE Answer(c, "serving", i, "CLIENT_AES_KEY")
    <3>1. "serving" \in HandlerPc \ {"none"}
      BY DEF HandlerPc
    <3> QED
      BY <1>1, <1>4, <2>2, <3>1, AnswerConn
  <2> QED
    BY <1>2, <2>1, <2>2
<1>6. \A v \in Users : NoMore(v)
  BY <1>3, <1>5, ConnOwns
<1> QED
  BY <1>6, FewerHeld, KeyTable DEF NoMore

(* No other step makes anybody own more. *)
LEMMA OtherStepOwns ==
    ASSUME Run,
           \/ \E u \in Users : Connect(u) \/ Client(u) \/ ClientCrash(u) \/ Rename(u)
           \/ \E c \in Conns : StopHandler(c) \/ LinkDown(c)
           \/ Restart
           \/ UNCHANGED vars
    PROVE  \A v \in Users : NoMore(v)
<1>1. ASSUME NEW u \in Users, Connect(u) \/ Client(u)
      PROVE  \A v \in Users : NoMore(v)
  BY <1>1, ConnectOwns, ClientOwns
<1>2. ASSUME NEW u \in Users, ClientCrash(u)
      PROVE  \A v \in Users : NoMore(v)
  <2>1. PICK file \in {meInfo[u], Damaged(me[u]), Whole(me[u])} :
          meInfo' = [meInfo EXCEPT ![u] = file]
    BY <1>2 DEF ClientCrash
  <2>2. Keeps(u, file)
    BY <2>1 DEF Keeps, Damaged, Whole
  <2> QED
    BY <1>2, <2>1, <2>2, EndOwns DEF ClientCrash
<1>3. ASSUME NEW c \in Conns, StopHandler(c)
      PROVE  \A v \in Users : NoMore(v)
  <2>1. Stop(c) /\ UNCHANGED clientVars
    BY <1>3 DEF StopHandler
  <2> QED
    BY <2>1, StopConn, ConnOwns
<1>4. ASSUME NEW c \in Conns, LinkDown(c), NEW v \in Users
      PROVE  NoMore(v)
  <2>1. PICK req \in CutRequests(conn[c].req), resp \in {conn[c].resp, NoResponse} :
          conn' = [conn EXCEPT ![c] =
                     [conn[c] EXCEPT !.up = FALSE, !.req = req, !.resp = resp]]
    BY <1>4 DEF LinkDown, CutResponses
  <2>2. conn'[c].resp = resp /\ \A k \in Conns \ {c} : conn'[k] = conn[k]
    BY <2>1 DEF Run, TypeOK, Connections
  <2>3. cpc[v] # "idle" => cur[v] \in Conns
    BY DEF Run, TypeOK
  <2>4. UNCHANGED clientVars
    BY <1>4 DEF LinkDown
  <2> QED
    BY <2>2, <2>3, <2>4, SameOwns DEF clientVars, NoResponse
<1>5. ASSUME Restart, NEW v \in Users
      PROVE  NoMore(v)
  <2>1. UNCHANGED clientVars
    BY <1>5 DEF Restart
  <2>2. \A c \in Conns : conn'[c].resp \in {conn[c].resp, NoResponse}
    BY <1>5 DEF Restart, Unused
  <2>3. cpc[v] # "idle" => cur[v] \in Conns
    BY DEF Run, TypeOK
  <2> QED
    BY <2>1, <2>2, <2>3, SameOwns DEF clientVars, NoResponse
<1>6. ASSUME UNCHANGED vars \/ \E u \in Users : Rename(u), NEW v \in Users
      PROVE  NoMore(v)
  BY <1>6, SameOwns DEF vars, Rename, clientVars
<1> QED
  BY <1>1, <1>2, <1>3, <1>4, <1>5, <1>6

LEMMA InitHeld == Init => Held
  BY DEF Init, Held, Owns, Awaits, Has, Absent, NoOne, Identity

LEMMA NextHeld == Run /\ Held /\ [Next]_vars => Held'
<1> SUFFICES ASSUME Run, Held, [Next]_vars PROVE Held'
  OBVIOUS
<1>1. ASSUME NEW c \in Conns, RegisterNewClient(c) \/ SendAesKey(c)
      PROVE  Held'
  BY <1>1, RegisterNewClientHeld, SendAesKeyHeld
<1>2. CASE \/ \E u \in Users : Connect(u) \/ Client(u) \/ ClientCrash(u) \/ Rename(u)
           \/ \E c \in Conns : StopHandler(c) \/ LinkDown(c)
           \/ Restart
           \/ UNCHANGED vars
  <2>1. \A v \in Users : \A n, i : Owns(v, n, i)' => Owns(v, n, i)
    BY <1>2, OtherStepOwns DEF NoMore
  <2> QED
    BY <2>1, TableStep, FewerHeld, RestartHeld
<1> QED
  BY <1>1, <1>2 DEF Next, Handler, Ended

-----------------------------------------------------------------------------
(* The theorems. *)

(* The invariant holds in every state. *)
THEOREM RegistrationInvariant == Spec => [](Run /\ Held)
<1>1. Init => Run /\ Held
  BY InitRun, InitHeld
<1>2. Run /\ Held /\ [Next]_vars => (Run /\ Held)'
  BY NextRun, NextHeld
<1> QED
  BY <1>1, <1>2, PTL DEF Spec

(* For every number of users, names and connections, and under all faults: *)
(* the types; and every row has an id that was drawn since the server was  *)
(* started.                                                                *)
THEOREM RegistrationTypeCorrect == Spec => []TypeOK
<1>1. Run => TypeOK
  BY DEF Run
<1> QED
  BY <1>1, RegistrationInvariant, PTL

(* The clients table implements Registry: a name is given out once, to an  *)
(* id that is new, and only the restart of the server takes names back.    *)
THEOREM TableIsRegistry == Spec => KeepsRegistry
<1>1. Init => Promise!Init
  BY DEF Init, Promise!Init, Taken
<1>2. Run /\ Run' /\ [Next]_vars => [Promise!Next]_(Promise!vars)
  BY RegistryStep
<1> QED
  BY <1>1, <1>2, RegistrationInvariant, PTL DEF Spec, KeepsRegistry, Promise!Spec

(* __register_client never makes two users the owners of one name, however *)
(* many register at once, lose their connection or die half way, and       *)
(* however often the server is restarted.                                  *)
THEOREM NamesHaveOneHolder == Spec => []OneHolder
<1> QED
  BY HeldOnce, RegistrationInvariant, PTL
=============================================================================
