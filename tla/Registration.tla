----------------------------- MODULE Registration -----------------------------
(***************************************************************************)
(* Identities over many runs of many clients: me.info on the side of each  *)
(* user, the clients table on the side of a server that may be restarted,  *)
(* and the two requests between them. A run is ClientInitializer's         *)
(* initializeClient followed by the key exchange; what comes after it is   *)
(* the subject of Session.                                                 *)
(*                                                                         *)
(* A connection has one request and one response on its way at most, since *)
(* client and handler take turns; it is never used again after a run, so   *)
(* the handler of an earlier run can still be working on it.               *)
(***************************************************************************)
EXTENDS Integers

CONSTANTS
    Users,        \* the directories from which a client is run
    Names,        \* user names
    NoName,       \* the empty one; also what a cut payload leaves of a name
    Conns,        \* bound: the connections that are ever made
    NoConn,       \* that of a user who does not run the client
    MaxRestarts,  \* bound: how often the server is restarted
    MaxRenames,   \* bound: how often a user edits transfer.info
    Faults        \* the faults this instance admits

FaultNames ==
    {"linkDown",     \* a connection is reset, with data lost in flight
     "clientCrash",  \* a client process dies
     "infoFails",    \* me.info cannot be opened or written
     "overread",     \* me.info is read with what lies behind its buffer
     "dbFails"}      \* a statement raises a database error

ASSUME NameAssumption  == NoName \notin Names
ASSUME ConnAssumption  == NoConn \notin Conns
ASSUME BoundAssumption == MaxRestarts \in Nat /\ MaxRenames \in Nat
ASSUME FaultAssumption == Faults \subseteq FaultNames

VARIABLES
    name,      \* the user name in each transfer.info
    meInfo,    \* each me.info, with the identity that was to be written
    cpc,       \* where the client run of each user is
    cur,       \* the connection of that run
    me,        \* the name and id that the run has in memory
    conn,      \* each connection, with the handler that serves it
    clients,   \* the rows of the clients table
    issued,    \* uuid4: how many ids have been generated
    floor,     \* history: the value of issued when the server was started
    restarts,
    renames

clientVars == <<meInfo, cpc, cur, me>>
serverVars == <<clients, issued, floor, restarts>>
vars == <<name, clientVars, conn, serverVars, renames>>

UserNames == Names \cup {NoName}

Identity(n, i) == [name |-> n, id |-> i]
NoOne          == Identity(NoName, 0)
Identities     == [name : UserNames, id : Nat]

(* me.info: not there, whole, or damaged, which is not to be read again;   *)
(* of is then the identity that was to be written.                         *)
Absent     == [state |-> "absent", of |-> NoOne]
Whole(i)   == [state |-> "whole", of |-> i]
Damaged(i) == [state |-> "damaged", of |-> i]
InfoFile   == [state : {"absent", "whole", "damaged"}, of : Identities]

NoRequest  == [code |-> "none", name |-> NoName, id |-> 0]
NoResponse == [code |-> "none", id |-> 0]
Request(code, who) == [code |-> code, name |-> who.name, id |-> who.id]
Response(code, i)  == [code |-> code, id |-> i]
Requests  == [code : {"none", "CLIENT_REGISTRATION", "CLIENT_PUBLIC_KEY"},
              name : UserNames, id : Nat]
Responses == [code : {"none", "REGISTRATION_SUCCESS", "REGISTRATION_FAILED",
                      "CLIENT_AES_KEY"},
              id : Nat]

(* A connection: the place and the client id of its handler, what is on    *)
(* its way, and whether both ends and the link are there.                  *)
HandlerPc   == {"none", "first", "await_key", "serving", "stopped"}
Connections == [pc : HandlerPc, id : Nat, up : BOOLEAN,
                req : Requests, resp : Responses]
Unused   == [pc |-> "none", id |-> 0, up |-> FALSE,
             req |-> NoRequest, resp |-> NoResponse]
Accepted == [Unused EXCEPT !.pc = "first", !.up = TRUE]

Rows  == [id : Nat, name : UserNames, key : BOOLEAN]
Taken(n) == \E x \in clients : x.name = n

-----------------------------------------------------------------------------
(* The client. *)

(* getTransferInformation: the name is read and the connection is opened.  *)
Connect(u) ==
    /\ cpc[u] = "idle"
    /\ \E c \in Conns :
          /\ conn[c] = Unused
          /\ conn' = [conn EXCEPT ![c] = Accepted]
          /\ cur' = [cur EXCEPT ![u] = c]
    /\ me' = [me EXCEPT ![u] = Identity(name[u], 0)]
    /\ cpc' = [cpc EXCEPT ![u] = "init"]
    /\ UNCHANGED <<name, meInfo, serverVars, renames>>

(* The run of u ends, and with it the client's end of the connection. *)
End(u) ==
    /\ cpc' = [cpc EXCEPT ![u] = "idle"]
    /\ me' = [me EXCEPT ![u] = NoOne]
    /\ conn' = [conn EXCEPT ![cur[u]] =
                  [@ EXCEPT !.up = FALSE, !.resp = NoResponse]]
    /\ cur' = [cur EXCEPT ![u] = NoConn]

Send(u, code) ==
    conn' = [conn EXCEPT ![cur[u]].req =
                IF conn[cur[u]].up THEN Request(code, me[u]) ELSE @]

(* main() goes on from initializeClient, with the identity i; but not      *)
(* without a user name, which nothing has asked for before.                *)
GoOn(u, i) ==
    \/ /\ i.name # NoName
       /\ me' = [me EXCEPT ![u] = i]
       /\ cpc' = [cpc EXCEPT ![u] = "send_key"]
       /\ UNCHANGED <<cur, conn>>
    \/ /\ i.name = NoName
       /\ End(u)

(* me.info is there: registration is skipped, whatever the server knows.   *)
(* Mutant: the name in it is not compared with the one in transfer.info.   *)
GetClientConnectionInfoUnchecked(u) ==
    /\ cpc[u] = "init"
    /\ meInfo[u] # Absent
    /\ \/ /\ meInfo[u].state = "whole"
          /\ GoOn(u, Identity(me[u].name, meInfo[u].of.id))
       \/ /\ meInfo[u].state # "whole"
          /\ End(u)
    /\ UNCHANGED <<name, meInfo, serverVars, renames>>

(* getClientConnectionInfo: a file that is not made of three lines, that   *)
(* has no usable key, or that was made for another user name ends the run. *)
GetClientConnectionInfo(u) ==
    /\ cpc[u] = "init"
    /\ meInfo[u] # Absent
    /\ LET usable == meInfo[u].state = "whole" /\ meInfo[u].of.name = me[u].name
       IN  \/ usable /\ GoOn(u, meInfo[u].of)
           \/ (~usable \/ "overread" \in Faults) /\ End(u)
    /\ UNCHANGED <<name, meInfo, serverVars, renames>>

(* me.info is not there: the first half of registerClient. *)
RegisterClient(u) ==
    /\ cpc[u] = "init"
    /\ meInfo[u] = Absent
    /\ Send(u, "CLIENT_REGISTRATION")
    /\ cpc' = [cpc EXCEPT ![u] = "await_registration"]
    /\ UNCHANGED <<name, meInfo, cur, me, serverVars, renames>>

(* The other half: the answer. *)
AwaitRegistration(u) ==
    LET resp == conn[cur[u]].resp IN
    /\ cpc[u] = "await_registration"
    /\ \/ /\ resp.code = "REGISTRATION_SUCCESS"
          /\ me' = [me EXCEPT ![u].id = resp.id]
          /\ cpc' = [cpc EXCEPT ![u] = "save_info"]
          /\ conn' = [conn EXCEPT ![cur[u]].resp = NoResponse]
          /\ UNCHANGED cur
       \/ /\ resp.code = "REGISTRATION_FAILED"
          /\ End(u)
    /\ UNCHANGED <<name, meInfo, serverVars, renames>>

(* What writeToFile can leave in me.info; it reports success also when the *)
(* write has failed.                                                       *)
Written(i) ==
    {Whole(i)} \cup (IF "infoFails" \in Faults THEN {Damaged(i)} ELSE {})

(* Mutant of SaveInfo: the identity is only kept in memory. *)
SaveInfoSkipped(u) ==
    /\ cpc[u] = "save_info"
    /\ GoOn(u, me[u])
    /\ UNCHANGED <<name, meInfo, serverVars, renames>>

(* initializeClient after a registration: me.info is written. A file that  *)
(* cannot be opened ends the run.                                          *)
SaveInfo(u) ==
    /\ cpc[u] = "save_info"
    /\ \/ /\ \E file \in Written(me[u]) : meInfo' = [meInfo EXCEPT ![u] = file]
          /\ GoOn(u, me[u])
       \/ /\ "infoFails" \in Faults
          /\ End(u)
          /\ UNCHANGED meInfo
    /\ UNCHANGED <<name, serverVars, renames>>

(* EncryptionHandler::initializeHandler: the public key goes out, *)
SendPublicKey(u) ==
    /\ cpc[u] = "send_key"
    /\ Send(u, "CLIENT_PUBLIC_KEY")
    /\ cpc' = [cpc EXCEPT ![u] = "await_key"]
    /\ UNCHANGED <<name, meInfo, cur, me, serverVars, renames>>

(* and the AES key comes in: the client can upload. *)
ReceiveSharedSecret(u) ==
    /\ cpc[u] = "await_key"
    /\ conn[cur[u]].resp.code = "CLIENT_AES_KEY"
    /\ cpc' = [cpc EXCEPT ![u] = "served"]
    /\ conn' = [conn EXCEPT ![cur[u]].resp = NoResponse]
    /\ UNCHANGED <<name, meInfo, cur, me, serverVars, renames>>

(* A send or a receive that fails ends the run; so does the end of main(). *)
Leave(u) ==
    /\ \/ /\ cpc[u] = "init" => meInfo[u] = Absent
          /\ cpc[u] \in {"init", "send_key", "await_registration", "await_key"}
          /\ ~conn[cur[u]].up
          /\ conn[cur[u]].resp = NoResponse
       \/ cpc[u] = "served"
    /\ End(u)
    /\ UNCHANGED <<name, meInfo, serverVars, renames>>

Client(u) ==
    \/ GetClientConnectionInfo(u) \/ RegisterClient(u) \/ AwaitRegistration(u)
    \/ SaveInfo(u) \/ SendPublicKey(u) \/ ReceiveSharedSecret(u) \/ Leave(u)

-----------------------------------------------------------------------------
(* The handler of connection c. *)

(* The handler takes the request, goes on to pc and answers; a handler     *)
(* that stops closes the connection. *)
Answer(c, pc, i, code) ==
    conn' = [conn EXCEPT ![c] =
        [pc |-> pc, id |-> i, up |-> @.up /\ pc # "stopped",
         req |-> NoRequest,
         resp |-> IF @.up THEN Response(code, i) ELSE @.resp]]

(* The handler takes the request and ends without an answer. *)
Stop(c) ==
    conn' = [conn EXCEPT ![c] =
        [@ EXCEPT !.pc = "stopped", !.id = 0, !.up = FALSE, !.req = NoRequest]]

(* Mutants of Insert: the row of the name is replaced; or kept, as if the  *)
(* client that asks again were the one that has it.                        *)
InsertOrReplace(n, i) ==
    clients' = {x \in clients : x.name # n}
                 \cup {[id |-> i, name |-> n, key |-> FALSE]}
InsertOrIgnore(n, i) ==
    clients' = clients \cup
        (IF Taken(n) THEN {} ELSE {[id |-> i, name |-> n, key |-> FALSE]})

(* The INSERT of register_new_client; names are unique. *)
Insert(n, i) ==
    /\ ~Taken(n)
    /\ clients' = clients \cup {[id |-> i, name |-> n, key |-> FALSE]}

(* __register_client and register_new_client: the row is inserted before   *)
(* the answer goes out, and last_seen is updated in between; only the      *)
(* errors of the INSERT are answered.                                      *)
RegisterNewClient(c) ==
    LET req == conn[c].req IN
    /\ conn[c].pc = "first"
    /\ req.code = "CLIENT_REGISTRATION"
    /\ issued' = issued + 1
    /\ \/ /\ Insert(req.name, issued')
          /\ \/ Answer(c, "await_key", issued', "REGISTRATION_SUCCESS")
             \/ /\ ~conn[c].up \/ "dbFails" \in Faults
                /\ Stop(c)
       \/ /\ Taken(req.name) \/ "dbFails" \in Faults
          /\ Answer(c, "stopped", 0, "REGISTRATION_FAILED")
          /\ UNCHANGED clients
    /\ UNCHANGED <<name, clientVars, floor, restarts, renames>>

(* Mutant of KeyStored: an id without a row gets a new one. *)
KeyUpserted(i) ==
    {x \in clients : x.id # i} \cup
        {[id |-> i, key |-> TRUE,
          name |-> IF \E x \in clients : x.id = i
                     THEN (CHOOSE x \in clients : x.id = i).name ELSE NoName]}

(* The keys of the row with that id, if there is one: no row is no error.  *)
KeyStored(i) == {[x EXCEPT !.key = @ \/ x.id = i] : x \in clients}

(* Mutant of SendAesKey: an id without a row is refused. *)
SendAesKeyToKnown(c) ==
    LET req == conn[c].req
        i   == IF conn[c].pc = "first" THEN req.id ELSE conn[c].id
    IN  /\ conn[c].pc \in {"first", "await_key"}
        /\ req.code = "CLIENT_PUBLIC_KEY"
        /\ clients' = KeyStored(i)
        /\ IF \E x \in clients : x.id = i
             THEN Answer(c, "serving", i, "CLIENT_AES_KEY")
             ELSE Stop(c)
        /\ UNCHANGED <<name, clientVars, issued, floor, restarts, renames>>

(* __send_aes_key_to_client: after a registration the handler knows the    *)
(* id, otherwise it believes the request. A key that was cut is stored and *)
(* then fails to import.                                                   *)
SendAesKey(c) ==
    LET req == conn[c].req
        i   == IF conn[c].pc = "first" THEN req.id ELSE conn[c].id
    IN  /\ conn[c].pc \in {"first", "await_key"}
        /\ req.code = "CLIENT_PUBLIC_KEY"
        /\ \/ /\ req.name # NoName
              /\ clients' = KeyStored(i)
              /\ Answer(c, "serving", i, "CLIENT_AES_KEY")
           \/ /\ req.name = NoName \/ ~conn[c].up \/ "dbFails" \in Faults
              /\ clients' \in {KeyStored(i)}
                    \cup (IF "dbFails" \in Faults THEN {clients} ELSE {})
              /\ Stop(c)
        /\ UNCHANGED <<name, clientVars, issued, floor, restarts, renames>>

(* A stream that has ended, or the end of the session, ends the handler.   *)
StopHandler(c) ==
    /\ \/ /\ conn[c].pc \in {"first", "await_key"}
          /\ conn[c].req = NoRequest
          /\ ~conn[c].up
       \/ conn[c].pc = "serving"
    /\ Stop(c)
    /\ UNCHANGED <<name, clientVars, serverVars, renames>>

Handler(c) == RegisterNewClient(c) \/ SendAesKey(c) \/ StopHandler(c)

-----------------------------------------------------------------------------
(* The events outside the programs. *)

(* What a lost connection makes of a request and of a response. *)
CutRequests(req)   == {req, [req EXCEPT !.name = NoName], NoRequest}
CutResponses(resp) == {resp, NoResponse}

LinkDown(c) ==
    /\ "linkDown" \in Faults
    /\ conn[c].up
    /\ \E req \in CutRequests(conn[c].req),
          resp \in CutResponses(conn[c].resp) :
          conn' = [conn EXCEPT ![c] =
                     [@ EXCEPT !.up = FALSE, !.req = req, !.resp = resp]]
    /\ UNCHANGED <<name, clientVars, serverVars, renames>>

(* The client dies; me.info is empty from its opening to its closing. *)
ClientCrash(u) ==
    /\ "clientCrash" \in Faults
    /\ cpc[u] # "idle"
    /\ End(u)
    /\ \E file \in {meInfo[u]} \cup
                    (IF cpc[u] = "save_info" THEN {Damaged(me[u]), Whole(me[u])}
                                             ELSE {}) :
          meInfo' = [meInfo EXCEPT ![u] = file]
    /\ UNCHANGED <<name, serverVars, renames>>

(* The server dies and is started again: all handlers are gone, and so are *)
(* all rows, since nothing has ever been committed.                        *)
Restart ==
    /\ restarts < MaxRestarts
    /\ restarts' = restarts + 1
    /\ clients' = {}
    /\ floor' = issued
    /\ \E lost \in SUBSET {c \in Conns : conn[c].resp # NoResponse} :
          conn' = [c \in Conns |->
              IF conn[c] = Unused THEN Unused
              ELSE [Unused EXCEPT !.pc = "stopped",
                                  !.resp = IF c \in lost THEN NoResponse
                                                         ELSE conn[c].resp]]
    /\ UNCHANGED <<name, clientVars, issued, renames>>

(* The user edits transfer.info. *)
Rename(u) ==
    /\ renames < MaxRenames
    /\ renames' = renames + 1
    /\ \E n \in UserNames \ {name[u]} : name' = [name EXCEPT ![u] = n]
    /\ UNCHANGED <<clientVars, conn, serverVars>>

-----------------------------------------------------------------------------
Init ==
    /\ name \in [Users -> UserNames]
    /\ meInfo = [u \in Users |-> Absent]
    /\ cpc = [u \in Users |-> "idle"]
    /\ cur = [u \in Users |-> NoConn]
    /\ me = [u \in Users |-> NoOne]
    /\ conn = [c \in Conns |-> Unused]
    /\ clients = {}
    /\ issued = 0
    /\ floor = 0
    /\ restarts = 0
    /\ renames = 0

(* All connections of the instance have been used. *)
Ended == /\ \A c \in Conns : conn[c].pc = "stopped"
         /\ \A u \in Users : cpc[u] = "idle"
         /\ UNCHANGED vars

Next ==
    \/ \E u \in Users : Connect(u) \/ Client(u) \/ ClientCrash(u) \/ Rename(u)
    \/ \E c \in Conns : Handler(c) \/ LinkDown(c)
    \/ Restart
    \/ Ended

Spec == Init /\ [][Next]_vars

(* Every client process and every handler thread is scheduled; no user is  *)
(* bound to run the client.                                                *)
FairSpec ==
    /\ Spec
    /\ \A u \in Users : WF_vars(Client(u))
    /\ \A c \in Conns : WF_vars(Handler(c))

-----------------------------------------------------------------------------
(* What must hold. *)

(* Every variable has its type, and ids are those that have been issued.   *)
TypeOK ==
    /\ name \in [Users -> UserNames]
    /\ meInfo \in [Users -> InfoFile]
    /\ cpc \in [Users -> {"idle", "init", "await_registration", "save_info",
                          "send_key", "await_key", "served"}]
    /\ cur \in [Users -> Conns \cup {NoConn}]
    /\ \A u \in Users : cur[u] = NoConn <=> cpc[u] = "idle"
    /\ me \in [Users -> Identities]
    /\ conn \in [Conns -> Connections]
    /\ clients \subseteq Rows
    /\ issued \in Nat /\ floor \in 0 .. issued
    /\ \A x \in clients : floor < x.id /\ x.id <= issued
    /\ restarts \in 0 .. MaxRestarts
    /\ renames \in 0 .. MaxRenames

(* The identities that u has, in memory and on its disk, spoiled or not. *)
Has(u) == {i \in {meInfo[u].of, me[u]} : i.id > 0}

(* Two users never both own a name on the server that runs now, whatever   *)
(* was lost between them and it: __register_client answers with an id only *)
(* for the row it has inserted.                                            *)
OneHolder ==
    \A u, v \in Users : u # v =>
        ~\E i \in Has(u), j \in Has(v) :
             i.name = j.name /\ i.id > floor /\ j.id > floor

(* The id that a CLIENT_PUBLIC_KEY request makes the handler work for is   *)
(* never the row of another user name than the one in the request, also    *)
(* when the user has edited transfer.info; the handler itself never looks. *)
PresentsOwnName ==
    \A c \in Conns : \A x \in clients :
        LET req == conn[c].req IN
        /\ req.code = "CLIENT_PUBLIC_KEY"
        /\ req.name # NoName
        /\ x.id = (IF conn[c].pc = "first" THEN req.id ELSE conn[c].id)
        => x.name = req.name

(* A row gets its keys only after me.info was written by the user that     *)
(* the row was made for, and with nothing but its name and id, though the  *)
(* write may have failed: an id that was lost on its way to that user, in  *)
(* an answer or with a client that died, never gets a key.                 *)
KeyedIsHeld ==
    \A x \in clients : x.key =>
        \E u \in Users : meInfo[u].of = Identity(x.name, x.id)

(* FileUtils.cpp:47 says of writeToFile "Returns true upon successful      *)
(* write. false otherwise", and initializeClient goes on only when it was  *)
(* true: a row that has its keys has its id in a me.info that can be read. *)
KeyedIsKept ==
    \A x \in clients : x.key =>
        \E u \in Users : meInfo[u] = Whole(Identity(x.name, x.id))

(* Without faults no name is taken in vain, not even by a restart: the id  *)
(* of each row is in a me.info or on its way there.                        *)
RowsAreHeld ==
    \A x \in clients :
        \/ \E u \in Users : Identity(x.name, x.id) \in Has(u)
        \/ \E u \in Users : /\ cpc[u] = "await_registration"
                            /\ me[u].name = x.name
                            /\ conn[cur[u]].resp.id = x.id

(* The clients table is the registry of the names, that of a cut request   *)
(* included; only a restart takes names back.                              *)
Promise == INSTANCE Registry WITH
    Names  <- UserNames,
    holder <- [n \in UserNames |->
                  IF Taken(n) THEN (CHOOSE x \in clients : x.name = n).id
                              ELSE 0]
KeepsRegistry == Promise!Spec

(* Without faults, a run that has a connection gets its key if its me.info *)
(* was made for its user name, also when the server has been restarted     *)
(* since and knows nothing of it; a run that has to register first gets it *)
(* unless the name is somebody else's. The server may be restarted. A run  *)
(* without a user name is never served.                                    *)
RefusedFor(u, n) ==
    /\ cpc[u] = "idle"
    /\ \E x \in clients : x.name = n /\ x.id # meInfo[u].of.id

RunsAreServed ==
    \A u \in Users, n \in Names, k \in 0 .. MaxRestarts :
        /\ cpc[u] = "init"
        /\ me[u].name = n
        /\ conn[cur[u]].up
        /\ meInfo[u] = Absent \/ meInfo[u].of.name = n
        /\ restarts = k
        ~> cpc[u] = "served" \/ restarts # k \/ RefusedFor(u, n)
=============================================================================
