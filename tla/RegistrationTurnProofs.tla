------------------------ MODULE RegistrationTurnProofs ------------------------
(***************************************************************************)
(* More about Registration: which id the handler works for. A client that  *)
(* sends its public key has written me.info before, and the id that the    *)
(* handler has for it, its own or that of the request, is the one in there.*)
(*                                                                         *)
(* The argument is that client and handler take turns as long as their     *)
(* connection is up: the place of one determines what the other can be at, *)
(* what is on its way, and whose id that is.                               *)
(***************************************************************************)
EXTENDS RegistrationProofs

-----------------------------------------------------------------------------
(* The inductive invariant. *)

(* An id is of no other name than n; and its owner has written it down.    *)
Named(n, i) ==
    /\ i \in 0 .. issued
    /\ \A m : Row(m, i) => m = n
Kept(i) ==
    /\ i \in 0 .. issued
    /\ \A n : Row(n, i) =>
          \E u \in Users : meInfo[u].of = Identity(n, i)

(* The id that a CLIENT_PUBLIC_KEY request on connection c is served for.  *)
At(c) == IF conn[c].pc = "first" THEN conn[c].req.id ELSE conn[c].id

(* A connection has a request or a response, and the ids that belong there. *)
Orderly(c) ==
    LET k == conn[c] IN
    /\ k.pc = "stopped" => ~k.up
    /\ k.req.code # "none" => k.pc \in {"first", "await_key"}
    /\ k.up /\ k.req.code # "none" => k.resp.code = "none"
    /\ k.up /\ k.pc = "await_key" /\ k.resp.code = "REGISTRATION_SUCCESS"
          => k.resp.id = k.id
    /\ k.req.code = "CLIENT_PUBLIC_KEY" =>
          Kept(At(c)) /\ (k.req.name # NoName => Named(k.req.name, At(c)))

(* What me.info holds at the places of a run. *)
InfoFits(u) ==
    /\ cpc[u] \in {"await_registration", "save_info"} => meInfo[u] = Absent
    /\ cpc[u] \in {"send_key", "await_key", "served"} => meInfo[u].of = me[u]

(* Where a run is when its connection is up. *)
InStep(u) ==
    LET k == conn[cur[u]] IN
    cpc[u] # "idle" /\ k.up =>
      /\ k.req.code = "CLIENT_REGISTRATION" => cpc[u] = "await_registration"
      /\ k.req.code = "CLIENT_PUBLIC_KEY" => cpc[u] = "await_key"
      /\ k.pc = "serving" => cpc[u] \in {"await_key", "served"}
      /\ k.pc = "await_key" => cpc[u] # "init"
      /\ k.pc = "await_key" /\ cpc[u] \in {"save_info", "send_key"} => k.id = me[u].id
      /\ cpc[u] \in {"init", "save_info", "send_key"} => k.resp.code = "none"

InTurn ==
    /\ \A c \in Conns : Orderly(c)
    /\ \A u \in Users : InfoFits(u) /\ InStep(u)

-----------------------------------------------------------------------------
(* Ids and names. *)

(* An id that has a row is one that was drawn. *)
LEMMA RowIds ==
    ASSUME Run, NEW n, NEW i, Row(n, i)
    PROVE  i \in Nat /\ 0 < i /\ floor < i /\ i <= issued /\ n \in UserNames
  BY DEF Run, TypeOK, Row, Rows

(* The ids that somebody has for a name are of that name. *)
LEMMA OwnedNamed ==
    ASSUME Run, Held, NEW u \in Users, NEW n, NEW i, Owns(u, n, i)
    PROVE  Named(n, i)
<1>1. i \in 0 .. issued
  BY DEF Held, Run, TypeOK
<1>2. ASSUME NEW m, Row(m, i) PROVE m = n
  <2>1. Row(n, i)
    BY <1>2, RowIds DEF Held
  <2> QED
    BY <1>2, <2>1 DEF Row, Run, RowsAreUnique
<1> QED
  BY <1>1, <1>2 DEF Named

LEMMA MeNamed ==
    ASSUME Run, Held, NEW u \in Users
    PROVE  Named(me[u].name, me[u].id)
<1>1. me[u].id \in Nat /\ issued \in Nat
  BY DEF Run, TypeOK, Identities
<1>2. CASE me[u].id = 0
  BY <1>1, <1>2, RowIds DEF Named
<1>3. CASE me[u].id > 0
  BY <1>3, OwnedNamed DEF Owns, Has
<1> QED
  BY <1>1, <1>2, <1>3

(* No step gives an id a new name, *)
LEMMA StaysNamed ==
    ASSUME Run, [Next]_vars, NEW n, NEW i, Named(n, i)
    PROVE  Named(n, i)'
<1>1. issued \in Nat
  BY DEF Run, TypeOK
<1>2. i \in 0 .. issued'
  BY <1>1, TableStep DEF Named, SameTable, NoRow, NoRows, NewRow
<1>3. i # issued + 1
  BY <1>1 DEF Named
<1>4. \A m : Row(m, i)' => Row(m, i)
  BY <1>3, TableStep DEF SameTable, NoRow, NoRows, NewRow
<1> QED
  BY <1>2, <1>4 DEF Named

(* nor does it change a me.info that is there. *)
LEMMA InfoStays ==
    ASSUME Run, NEW u \in Users, InfoFits(u), [Next]_vars
    PROVE  meInfo'[u] = meInfo[u] \/ meInfo[u] = Absent
<1>1. meInfo \in [Users -> InfoFile]
  BY DEF Run, TypeOK
<1>2. ASSUME NEW v \in Users, SaveInfo(v) \/ ClientCrash(v)
      PROVE  meInfo'[u] = meInfo[u] \/ meInfo[u] = Absent
  <2>1. \/ meInfo' = meInfo
        \/ cpc[v] = "save_info" /\ \E i : meInfo' = [meInfo EXCEPT ![v] = i]
        \/ meInfo' = [meInfo EXCEPT ![v] = meInfo[v]]
    BY <1>2 DEF SaveInfo, ClientCrash
  <2> QED
    BY <1>1, <2>1 DEF InfoFits
<1>3. ASSUME NEW v \in Users,
             Connect(v) \/ Rename(v) \/ GetClientConnectionInfo(v) \/ RegisterClient(v)
               \/ AwaitRegistration(v) \/ SendPublicKey(v) \/ ReceiveSharedSecret(v)
               \/ Leave(v)
      PROVE  meInfo' = meInfo
  BY <1>3 DEF Connect, Rename, GetClientConnectionInfo, RegisterClient,
     AwaitRegistration, SendPublicKey, ReceiveSharedSecret, Leave, clientVars
<1>4. ASSUME NEW c \in Conns, Handler(c) \/ LinkDown(c)
      PROVE  meInfo' = meInfo
  BY <1>4 DEF Handler, RegisterNewClient, SendAesKey, StopHandler, LinkDown, clientVars
<1>5. CASE Restart \/ UNCHANGED vars
  BY <1>5 DEF Restart, vars, clientVars
<1> QED
  BY <1>2, <1>3, <1>4, <1>5 DEF Next, Client, Ended

LEMMA StaysKept ==
    ASSUME Run, InTurn, [Next]_vars, NEW i, Kept(i)
    PROVE  Kept(i)'
<1>1. issued \in Nat
  BY DEF Run, TypeOK
<1>2. i \in 0 .. issued' /\ i # issued + 1
  BY <1>1, TableStep DEF Kept, SameTable, NoRow, NoRows, NewRow
<1>3. ASSUME NEW n, Row(n, i)'
      PROVE  \E u \in Users : meInfo'[u].of = Identity(n, i)
  <2>1. Row(n, i)
    BY <1>2, <1>3, TableStep DEF SameTable, NoRow, NoRows, NewRow
  <2>2. PICK u \in Users : meInfo[u].of = Identity(n, i)
    BY <2>1 DEF Kept
  <2>3. meInfo[u] # Absent
    BY <2>1, <2>2, RowIds DEF Absent, NoOne, Identity
  <2>4. meInfo'[u] = meInfo[u]
    BY <2>3, InfoStays DEF InTurn
  <2> QED
    BY <2>2, <2>4
<1> QED
  BY <1>2, <1>3 DEF Kept, Identity

(* Both together: what was true of ids stays so. *)
Stays ==
    /\ \A n, i : Named(n, i) => Named(n, i)'
    /\ \A i : Kept(i) => Kept(i)'

LEMMA NextStays ==
    ASSUME Run, InTurn, [Next]_vars
    PROVE  Stays
  BY StaysNamed, StaysKept DEF Stays

-----------------------------------------------------------------------------
(* What is left alone. *)

(* A connection that has at most less on its way. *)
LEMMA FewerOrderly ==
    ASSUME Stays, NEW c \in Conns, Orderly(c),
           conn'[c].up => conn[c].up,
           conn'[c].pc = conn[c].pc, conn'[c].id = conn[c].id,
           \/ conn'[c].req.code = "none"
           \/ /\ conn'[c].req.code = conn[c].req.code
              /\ conn'[c].req.id = conn[c].req.id
              /\ conn'[c].req.name \in {conn[c].req.name, NoName},
           conn'[c].resp = conn[c].resp \/ conn'[c].resp.code = "none"
    PROVE  Orderly(c)'
<1>1. CASE conn'[c].req.code = "none"
  BY <1>1 DEF Orderly
<1>2. CASE /\ conn'[c].req.code = conn[c].req.code
           /\ conn'[c].req.id = conn[c].req.id
           /\ conn'[c].req.name \in {conn[c].req.name, NoName}
  <2>1. At(c)' = At(c)
    BY <1>2 DEF At
  <2>2. ASSUME conn'[c].req.code = "CLIENT_PUBLIC_KEY"
        PROVE  /\ Kept(At(c))'
               /\ (conn[c].req.name # NoName => Named(conn[c].req.name, At(c)))'
    <3>1. Kept(At(c)) /\ (conn[c].req.name # NoName => Named(conn[c].req.name, At(c)))
      BY <1>2, <2>2 DEF Orderly
    <3> DEFINE i == At(c)  n == conn[c].req.name
    <3>2. Kept(i) => \A j : j = i => Kept(j)'
      BY DEF Stays
    <3>3. Named(n, i) => \A j, m : j = i /\ m = n => Named(m, j)'
      BY DEF Stays
    <3> QED
      BY <1>2, <2>1, <3>1, <3>2, <3>3
  <2> QED
    BY <1>2, <2>2 DEF Orderly
<1> QED
  BY <1>1, <1>2

(* A run whose connection stays as it is, or goes down. *)
LEMMA SameInStep ==
    ASSUME NEW v \in Users, InfoFits(v), InStep(v),
           cpc'[v] = cpc[v], cur'[v] = cur[v], me'[v] = me[v], meInfo'[v] = meInfo[v],
           cpc[v] # "idle" => conn'[cur[v]] = conn[cur[v]] \/ ~conn'[cur[v]].up
    PROVE  InfoFits(v)' /\ InStep(v)'
  BY DEF InfoFits, InStep

(* A step of a run concerns its own connection and no other run. *)
LEMMA OwnStep ==
    ASSUME Run, InTurn, Stays, NEW u \in Users,
           NEW place, cpc' = [cpc EXCEPT ![u] = place],
           NEW d, cur' = [cur EXCEPT ![u] = d] \/ UNCHANGED cur,
           NEW who, me' = [me EXCEPT ![u] = who] \/ UNCHANGED me,
           NEW i, meInfo' = [meInfo EXCEPT ![u] = i] \/ UNCHANGED meInfo,
           NEW c \in Conns, NEW new,
           conn' = [conn EXCEPT ![c] = new] \/ UNCHANGED conn,
           (cpc[u] # "idle" /\ c = cur[u]) \/ conn[c].pc = "none",
           Orderly(c)', InfoFits(u)', InStep(u)'
    PROVE  InTurn'
<1>1. ASSUME NEW k \in Conns \ {c} PROVE Orderly(k)'
  <2>1. conn'[k] = conn[k]
    BY DEF Run, TypeOK
  <2> QED
    BY <2>1, FewerOrderly DEF InTurn
<1>2. ASSUME NEW v \in Users \ {u} PROVE InfoFits(v)' /\ InStep(v)'
  <2>1. /\ cpc'[v] = cpc[v] /\ cur'[v] = cur[v] /\ me'[v] = me[v]
        /\ meInfo'[v] = meInfo[v]
    BY DEF Run, TypeOK
  <2>2. cpc[v] # "idle" => cur[v] # c /\ cur[v] \in Conns
    BY DEF Run, TypeOK, RunsHaveConns
  <2>3. cpc[v] # "idle" => conn'[cur[v]] = conn[cur[v]]
    BY <2>2 DEF Run, TypeOK
  <2> QED
    BY <2>1, <2>3, SameInStep DEF InTurn
<1> QED
  BY <1>1, <1>2 DEF InTurn

(* So does a step of a handler, or of the network. *)
LEMMA ConnStep ==
    ASSUME Run, InTurn, Stays, UNCHANGED clientVars,
           NEW c \in Conns, NEW new, conn' = [conn EXCEPT ![c] = new],
           Orderly(c)',
           \A v \in Users : cpc[v] # "idle" /\ cur[v] = c => InStep(v)' \/ ~new.up
    PROVE  InTurn'
<1>1. ASSUME NEW k \in Conns \ {c} PROVE Orderly(k)'
  <2>1. conn'[k] = conn[k]
    BY DEF Run, TypeOK
  <2> QED
    BY <2>1, FewerOrderly DEF InTurn
<1>2. ASSUME NEW v \in Users PROVE InfoFits(v)' /\ InStep(v)'
  <2>1. /\ cpc'[v] = cpc[v] /\ cur'[v] = cur[v] /\ me'[v] = me[v]
        /\ meInfo'[v] = meInfo[v]
    BY DEF clientVars
  <2>2. cpc[v] # "idle" => cur[v] \in Conns
    BY DEF Run, TypeOK
  <2>3. conn'[c] = new /\ \A k \in Conns \ {c} : conn'[k] = conn[k]
    BY DEF Run, TypeOK
  <2>4. CASE cpc[v] # "idle" /\ cur[v] = c /\ new.up
    BY <2>1, <2>4 DEF InTurn, InfoFits
  <2>5. CASE ~(cpc[v] # "idle" /\ cur[v] = c /\ new.up)
    BY <2>1, <2>2, <2>3, <2>5, SameInStep DEF InTurn
  <2> QED
    BY <2>4, <2>5
<1> QED
  BY <1>1, <1>2 DEF InTurn

-----------------------------------------------------------------------------
(* The steps of the clients. *)

LEMMA ConnectTurn ==
    ASSUME Run, InTurn, Stays, NEW u \in Users, Connect(u)
    PROVE  InTurn'
<1>1. PICK c \in Conns :
        /\ conn[c] = Unused
        /\ conn' = [conn EXCEPT ![c] = Accepted]
        /\ cur' = [cur EXCEPT ![u] = c]
  BY DEF Connect
<1>2. /\ cpc' = [cpc EXCEPT ![u] = "init"]
      /\ me' = [me EXCEPT ![u] = Identity(name[u], 0)]
      /\ UNCHANGED meInfo
  BY DEF Connect
<1>3. conn[c].pc = "none" /\ conn'[c] = Accepted /\ cpc'[u] = "init" /\ cur'[u] = c
  BY <1>1, <1>2 DEF Run, TypeOK, Unused
<1>4. /\ conn'[c].pc = "first" /\ conn'[c].req.code = "none"
      /\ conn'[c].resp.code = "none"
  BY <1>3 DEF Accepted, Unused, NoRequest, NoResponse
<1>5. Orderly(c)'
  BY <1>4 DEF Orderly
<1>6. InfoFits(u)' /\ InStep(u)'
  BY <1>3, <1>4 DEF InfoFits, InStep
<1> QED
  BY <1>1, <1>2, <1>3, <1>5, <1>6, OwnStep

(* Where a run ends. *)
LEMMA EndTurn ==
    ASSUME Run, InTurn, Stays, NEW u \in Users, cpc[u] # "idle", End(u),
           NEW i, meInfo' = [meInfo EXCEPT ![u] = i] \/ UNCHANGED meInfo
    PROVE  InTurn'
<1>0. PICK c \in Conns : c = cur[u]
  BY DEF Run, TypeOK
<1> DEFINE new == [conn[c] EXCEPT !.up = FALSE, !.resp = NoResponse]
<1>1. /\ cpc' = [cpc EXCEPT ![u] = "idle"]
      /\ me' = [me EXCEPT ![u] = NoOne]
      /\ conn' = [conn EXCEPT ![c] = new]
      /\ cur' = [cur EXCEPT ![u] = NoConn]
  BY <1>0 DEF End
<1>2. conn[c] \in Connections
  BY DEF Run, TypeOK
<1>3. /\ conn'[c].up = FALSE /\ conn'[c].pc = conn[c].pc /\ conn'[c].id = conn[c].id
      /\ conn'[c].req = conn[c].req /\ conn'[c].resp.code = "none"
  BY <1>1, <1>2 DEF Run, TypeOK, Connections, NoResponse
<1>4. Orderly(c)'
  BY <1>3, FewerOrderly DEF InTurn
<1>5. InfoFits(u)' /\ InStep(u)'
  <2>1. cpc'[u] = "idle"
    BY <1>1 DEF Run, TypeOK
  <2> QED
    BY <2>1 DEF InfoFits, InStep
<1> HIDE DEF new
<1> QED
  BY <1>0, <1>1, <1>4, <1>5, OwnStep

(* Where a request goes out: the connection has neither a request nor a    *)
(* response then, if it is still up.                                       *)
LEMMA SendTurn ==
    ASSUME Run, Held, InTurn, Stays, NEW u \in Users,
           RegisterClient(u) \/ SendPublicKey(u)
    PROVE  InTurn'
<1>1. PICK code \in {"CLIENT_REGISTRATION", "CLIENT_PUBLIC_KEY"},
           place \in {"await_registration", "await_key"} :
        /\ cpc' = [cpc EXCEPT ![u] = place]
        /\ Send(u, code)
        /\ \/ /\ code = "CLIENT_REGISTRATION" /\ place = "await_registration"
              /\ cpc[u] = "init" /\ meInfo[u] = Absent
           \/ /\ code = "CLIENT_PUBLIC_KEY" /\ place = "await_key"
              /\ cpc[u] = "send_key"
  BY DEF RegisterClient, SendPublicKey
<1>2. cpc[u] \in {"init", "send_key"} /\ UNCHANGED <<meInfo, cur, me>>
  BY DEF RegisterClient, SendPublicKey
<1>0. PICK c \in Conns : c = cur[u]
  BY <1>2 DEF Run, TypeOK
<1>3. /\ conn[c] \in Connections /\ cpc'[u] = place
      /\ conn[c].pc # "none" /\ me[u] \in Identities
  BY <1>0, <1>1, <1>2 DEF Run, TypeOK, RunsHaveConns
<1> DEFINE req == IF conn[c].up THEN Request(code, me[u]) ELSE conn[c].req
           new == [conn[c] EXCEPT !.req = req]
<1>4. conn' = [conn EXCEPT ![c] = new] /\ conn'[c] = new
  BY <1>0, <1>1 DEF Send, Run, TypeOK
<1>5. /\ conn'[c].up = conn[c].up /\ conn'[c].pc = conn[c].pc
      /\ conn'[c].id = conn[c].id /\ conn'[c].resp = conn[c].resp
      /\ conn'[c].req = req
  BY <1>3, <1>4 DEF Connections
<1>6. Orderly(c) /\ InStep(u) /\ InfoFits(u)
  BY DEF InTurn
<1>7. Orderly(c)'
  <2>1. CASE ~conn[c].up
    BY <1>5, <1>6, <2>1, FewerOrderly
  <2>2. CASE conn[c].up
    <3>1. /\ conn'[c].req.code = code /\ conn'[c].req.name = me[u].name
          /\ conn'[c].req.id = me[u].id
      BY <1>5, <2>2 DEF Request
    <3>2. conn[c].pc \in {"first", "await_key"} /\ conn[c].resp.code = "none"
      BY <1>0, <1>2, <1>3, <1>6, <2>2 DEF Orderly, InStep, Connections, HandlerPc
    <3>3. ASSUME code = "CLIENT_PUBLIC_KEY"
          PROVE  /\ (Kept(me[u].id) /\ Named(me[u].name, me[u].id))'
                 /\ At(c)' = me[u].id
      <4>1. At(c)' = me[u].id
        BY <1>0, <1>1, <1>5, <1>6, <2>2, <3>1, <3>2, <3>3 DEF At, InStep
      <4>2. Named(me[u].name, me[u].id)
        BY MeNamed
      <4>3. meInfo[u].of = me[u]
        BY <1>1, <1>6, <3>3 DEF InfoFits
      <4>4. \A n : Row(n, me[u].id) => me[u] = Identity(n, me[u].id)
        BY <1>3, <4>2 DEF Named, Identity, Identities
      <4>5. Kept(me[u].id)
        BY <4>2, <4>3, <4>4 DEF Named, Kept
      <4>6. me'[u] = me[u]
        BY <1>2
      <4> QED
        BY <4>1, <4>2, <4>5, <4>6 DEF Stays
    <3>4. ASSUME code = "CLIENT_PUBLIC_KEY"
          PROVE  (Kept(At(c)) /\ Named(conn[c].req.name, At(c)))'
      BY <1>2, <3>1, <3>3, <3>4
    <3> QED
      BY <1>5, <3>1, <3>2, <3>4 DEF Orderly
  <2> QED
    BY <2>1, <2>2
<1>8. InfoFits(u)'
  BY <1>1, <1>2, <1>3, <1>6 DEF InfoFits
<1>9. InStep(u)'
  <2>1. conn'[c].up =>
          /\ conn'[c].req.code = code /\ conn[c].pc \in {"first", "await_key"}
          /\ conn[c].pc = "await_key" => cpc[u] = "send_key"
    BY <1>0, <1>1, <1>2, <1>3, <1>5, <1>6
       DEF Request, Orderly, InStep, Connections, HandlerPc
  <2> QED
    BY <1>0, <1>1, <1>2, <1>3, <1>5, <1>6, <2>1 DEF InStep
<1> HIDE DEF new
<1> QED
  BY <1>0, <1>1, <1>2, <1>4, <1>7, <1>8, <1>9, OwnStep

(* Where a run goes on without its connection. *)
LEMMA InfoTurn ==
    ASSUME Run, InTurn, Stays, NEW u \in Users,
           \/ GetClientConnectionInfo(u) /\ ~End(u)
           \/ SaveInfo(u) /\ ~End(u)
    PROVE  InTurn'
<1>1. cpc[u] \in {"init", "save_info"}
  BY DEF GetClientConnectionInfo, SaveInfo
<1>2. PICK c \in Conns : c = cur[u]
  BY <1>1 DEF Run, TypeOK
<1>3. PICK who : who \in {me[u], meInfo[u].of} /\ GoOn(u, who) /\ (SaveInfo(u) => who = me[u])
                    /\ (GetClientConnectionInfo(u) => who = meInfo[u].of)
  BY DEF GetClientConnectionInfo, SaveInfo
<1>4. /\ cpc' = [cpc EXCEPT ![u] = "send_key"] /\ UNCHANGED <<cur, conn>>
      /\ me' = [me EXCEPT ![u] = who]
  BY <1>3 DEF GoOn
<1>5. /\ cpc'[u] = "send_key" /\ cur'[u] = c /\ conn'[c] = conn[c] /\ me'[u] = who
  BY <1>2, <1>4 DEF Run, TypeOK
<1>6. Orderly(c) /\ InfoFits(u) /\ InStep(u)
  BY DEF InTurn
<1>7. Orderly(c)'
  BY <1>5, <1>6, FewerOrderly
<1>8. CASE GetClientConnectionInfo(u)
  <2>1. cpc[u] = "init" /\ UNCHANGED meInfo /\ who = meInfo[u].of
    BY <1>3, <1>8 DEF GetClientConnectionInfo
  <2>2. InfoFits(u)' /\ InStep(u)'
    BY <1>2, <1>5, <1>6, <2>1 DEF InfoFits, InStep
  <2> QED
    BY <1>1, <1>2, <1>4, <1>7, <2>1, <2>2, OwnStep
<1>9. CASE SaveInfo(u)
  <2>1. cpc[u] = "save_info" /\ who = me[u]
    BY <1>3, <1>9 DEF SaveInfo
  <2>2. PICK file : file.of = me[u] /\ meInfo' = [meInfo EXCEPT ![u] = file]
    BY <1>9 DEF SaveInfo, Written, Whole, Damaged
  <2>3. meInfo'[u] = file
    BY <2>2 DEF Run, TypeOK
  <2>4. InfoFits(u)' /\ InStep(u)'
    BY <1>2, <1>5, <1>6, <2>1, <2>2, <2>3 DEF InfoFits, InStep
  <2> QED
    BY <1>1, <1>2, <1>4, <1>7, <2>2, <2>4, OwnStep
<1> QED
  BY <1>8, <1>9

(* Where it takes the response from it. *)
LEMMA TakeTurn ==
    ASSUME Run, InTurn, Stays, NEW u \in Users,
           \/ AwaitRegistration(u) /\ ~End(u)
           \/ ReceiveSharedSecret(u)
    PROVE  InTurn'
<1>1. /\ cpc[u] \in {"await_registration", "await_key"}
      /\ conn[cur[u]].resp.code # "none"
      /\ conn' = [conn EXCEPT ![cur[u]] = [conn[cur[u]] EXCEPT !.resp = NoResponse]]
      /\ UNCHANGED <<meInfo, cur>>
  BY DEF AwaitRegistration, ReceiveSharedSecret
<1>2. PICK c \in Conns : c = cur[u]
  BY <1>1 DEF Run, TypeOK
<1>3. /\ conn[c] \in Connections /\ me[u] \in Identities
  BY DEF Run, TypeOK
<1>4. /\ conn'[c].up = conn[c].up /\ conn'[c].pc = conn[c].pc
      /\ conn'[c].id = conn[c].id /\ conn'[c].req = conn[c].req
      /\ conn'[c].resp.code = "none"
  BY <1>1, <1>2, <1>3 DEF Run, TypeOK, Connections, NoResponse
<1>5. Orderly(c) /\ InfoFits(u) /\ InStep(u)
  BY DEF InTurn
<1>6. Orderly(c)'
  BY <1>4, <1>5, FewerOrderly
<1>7. conn[c].up => conn[c].req.code = "none"
  BY <1>1, <1>2, <1>5 DEF Orderly
<1>8. CASE AwaitRegistration(u) /\ ~End(u)
  <2>1. /\ cpc[u] = "await_registration" /\ cpc' = [cpc EXCEPT ![u] = "save_info"]
        /\ me' = [me EXCEPT ![u].id = conn[c].resp.id]
        /\ conn[c].resp.code = "REGISTRATION_SUCCESS"
    BY <1>2, <1>8 DEF AwaitRegistration
  <2>2. /\ cpc'[u] = "save_info" /\ me'[u].id = conn[c].resp.id
        /\ me' = [me EXCEPT ![u] = [me[u] EXCEPT !.id = conn[c].resp.id]]
    BY <1>3, <2>1 DEF Run, TypeOK, Identities
  <2>3. conn[c].up => /\ conn[c].pc # "serving"
                      /\ conn[c].pc = "await_key" => conn[c].id = me'[u].id
    BY <1>2, <1>5, <2>1, <2>2 DEF Orderly, InStep
  <2>4. InfoFits(u)' /\ InStep(u)'
    BY <1>1, <1>2, <1>4, <1>5, <1>7, <2>1, <2>2, <2>3 DEF InfoFits, InStep
  <2> QED
    BY <1>1, <1>2, <1>6, <2>1, <2>2, <2>4, OwnStep
<1>9. CASE ReceiveSharedSecret(u)
  <2>1. /\ cpc[u] = "await_key" /\ cpc' = [cpc EXCEPT ![u] = "served"] /\ UNCHANGED me
    BY <1>9 DEF ReceiveSharedSecret
  <2>2. cpc'[u] = "served"
    BY <2>1 DEF Run, TypeOK
  <2>3. InfoFits(u)' /\ InStep(u)'
    BY <1>1, <1>2, <1>4, <1>5, <1>7, <2>1, <2>2 DEF InfoFits, InStep
  <2> QED
    BY <1>1, <1>2, <1>6, <2>1, <2>3, OwnStep
<1> QED
  BY <1>8, <1>9

LEMMA ClientTurn ==
    ASSUME Run, Held, InTurn, Stays, NEW u \in Users, Client(u) \/ ClientCrash(u)
    PROVE  InTurn'
<1>1. CASE End(u)
  <2>1. cpc[u] # "idle" \/ (Leave(u) /\ cpc[u] # "idle")
    BY DEF Client, ClientCrash, GetClientConnectionInfo, RegisterClient,
       AwaitRegistration, SaveInfo, SendPublicKey, ReceiveSharedSecret, Leave
  <2>2. \E file : meInfo' = [meInfo EXCEPT ![u] = file] \/ UNCHANGED meInfo
    BY DEF Client, ClientCrash, GetClientConnectionInfo, RegisterClient,
       AwaitRegistration, SaveInfo, SendPublicKey, ReceiveSharedSecret, Leave
  <2> QED
    BY <1>1, <2>1, <2>2, EndTurn
<1>2. CASE ~End(u)
  BY <1>2, SendTurn, InfoTurn, TakeTurn DEF Client, ClientCrash, Leave
<1> QED
  BY <1>1, <1>2

-----------------------------------------------------------------------------
(* The steps of the handlers. *)

(* A handler that stops, or a link that goes down. *)
LEMMA DownTurn ==
    ASSUME Run, InTurn, Stays, UNCHANGED clientVars, NEW c \in Conns,
           \/ Stop(c)
           \/ LinkDown(c)
    PROVE  InTurn'
<1>1. conn \in [Conns -> Connections] /\ Orderly(c)
  BY DEF Run, TypeOK, InTurn
<1>2. CASE Stop(c)
  <2> DEFINE new == [conn[c] EXCEPT !.pc = "stopped", !.id = 0, !.up = FALSE,
                                    !.req = NoRequest]
  <2>1. conn' = [conn EXCEPT ![c] = new] /\ ~new.up
    BY <1>1, <1>2 DEF Stop, Connections
  <2>2. /\ conn'[c].req.code = "none" /\ conn'[c].up = FALSE
    BY <1>1, <2>1 DEF Connections, NoRequest
  <2>3. Orderly(c)'
    BY <2>2 DEF Orderly
  <2> HIDE DEF new
  <2> QED
    BY <2>1, <2>3, ConnStep
<1>3. CASE LinkDown(c)
  <2>1. PICK req \in CutRequests(conn[c].req), resp \in CutResponses(conn[c].resp) :
          conn' = [conn EXCEPT ![c] =
                     [conn[c] EXCEPT !.up = FALSE, !.req = req, !.resp = resp]]
    BY <1>3 DEF LinkDown
  <2> DEFINE new == [conn[c] EXCEPT !.up = FALSE, !.req = req, !.resp = resp]
  <2>2. /\ conn'[c].up = FALSE /\ conn'[c].pc = conn[c].pc /\ conn'[c].id = conn[c].id
        /\ conn'[c].req = req /\ conn'[c].resp = resp /\ ~new.up
    BY <1>1, <2>1 DEF Connections
  <2>3. \/ req.code = "none"
        \/ /\ req.code = conn[c].req.code /\ req.id = conn[c].req.id
           /\ req.name \in {conn[c].req.name, NoName}
    BY <1>1 DEF CutRequests, NoRequest, Connections, Requests
  <2>4. resp = conn[c].resp \/ resp.code = "none"
    BY DEF CutResponses, NoResponse
  <2>5. Orderly(c)'
    BY <1>1, <2>2, <2>3, <2>4, FewerOrderly
  <2> HIDE DEF new
  <2> QED
    BY <2>1, <2>2, <2>5, ConnStep DEF new
<1> QED
  BY <1>2, <1>3

(* An answer takes the request off its way, and the handler one place on. *)
LEMMA AnswerTurn ==
    ASSUME Run, InTurn, Stays, UNCHANGED clientVars, NEW c \in Conns, NEW i \in Nat,
           \/ /\ conn[c].req.code = "CLIENT_REGISTRATION"
              /\ \/ Answer(c, "await_key", i, "REGISTRATION_SUCCESS")
                 \/ Answer(c, "stopped", i, "REGISTRATION_FAILED")
           \/ /\ conn[c].req.code = "CLIENT_PUBLIC_KEY"
              /\ Answer(c, "serving", i, "CLIENT_AES_KEY")
    PROVE  InTurn'
<1>1. conn \in [Conns -> Connections] /\ Orderly(c)
  BY DEF Run, TypeOK, InTurn
<1>2. PICK pc, code :
        /\ Answer(c, pc, i, code)
        /\ \/ /\ conn[c].req.code = "CLIENT_REGISTRATION"
              /\ \/ pc = "await_key" /\ code = "REGISTRATION_SUCCESS"
                 \/ pc = "stopped" /\ code = "REGISTRATION_FAILED"
           \/ /\ conn[c].req.code = "CLIENT_PUBLIC_KEY"
              /\ pc = "serving" /\ code = "CLIENT_AES_KEY"
  OBVIOUS
<1> DEFINE new == [pc |-> pc, id |-> i, up |-> conn[c].up /\ pc # "stopped",
                   req |-> NoRequest,
                   resp |-> IF conn[c].up THEN Response(code, i) ELSE conn[c].resp]
<1>3. conn' = [conn EXCEPT ![c] = new] /\ conn'[c] = new
  BY <1>1, <1>2 DEF Answer
<1>4. /\ conn'[c].pc = pc /\ conn'[c].id = i /\ conn'[c].req.code = "none"
      /\ conn'[c].up => conn[c].up /\ pc # "stopped"
      /\ conn[c].up => conn'[c].resp.code = code /\ conn'[c].resp.id = i
  <2>1. /\ new.pc = pc /\ new.id = i /\ new.req = NoRequest
        /\ new.up => conn[c].up /\ pc # "stopped"
        /\ conn[c].up => new.resp = Response(code, i)
    OBVIOUS
  <2> HIDE DEF new
  <2> QED
    BY <1>3, <2>1 DEF NoRequest, Response
<1>5. Orderly(c)'
  BY <1>2, <1>4 DEF Orderly
<1>6. ASSUME NEW v \in Users, cpc[v] # "idle", cur[v] = c
      PROVE  InStep(v)' \/ ~new.up
  <2>1. InStep(v) /\ UNCHANGED <<cpc, cur, me>>
    BY DEF InTurn, clientVars
  <2> HIDE DEF new
  <2> QED
    BY <1>2, <1>3, <1>4, <1>6, <2>1 DEF InStep
<1> HIDE DEF new
<1> QED
  BY <1>3, <1>5, <1>6, ConnStep

LEMMA HandlerTurn ==
    ASSUME Run, InTurn, Stays, NEW c \in Conns, Handler(c) \/ LinkDown(c)
    PROVE  InTurn'
<1>1. UNCHANGED clientVars
  BY DEF Handler, RegisterNewClient, SendAesKey, StopHandler, LinkDown
<1>2. CASE Stop(c) \/ LinkDown(c)
  BY <1>1, <1>2, DownTurn
<1>3. CASE RegisterNewClient(c) /\ ~Stop(c)
  <2>1. issued' \in Nat /\ 0 \in Nat
    BY <1>3 DEF Run, TypeOK, RegisterNewClient
  <2>2. /\ conn[c].req.code = "CLIENT_REGISTRATION"
        /\ \E i \in Nat :
              \/ Answer(c, "await_key", i, "REGISTRATION_SUCCESS")
              \/ Answer(c, "stopped", i, "REGISTRATION_FAILED")
    BY <1>3, <2>1 DEF RegisterNewClient
  <2> QED
    BY <1>1, <2>2, AnswerTurn
<1>4. CASE SendAesKey(c) /\ ~Stop(c)
  <2> DEFINE j == IF conn[c].pc = "first" THEN conn[c].req.id ELSE conn[c].id
  <2>1. j \in Nat
    BY DEF Run, TypeOK, Connections, Requests
  <2>2. /\ conn[c].req.code = "CLIENT_PUBLIC_KEY"
        /\ Answer(c, "serving", j, "CLIENT_AES_KEY")
    BY <1>4 DEF SendAesKey
  <2> HIDE DEF j
  <2> QED
    BY <1>1, <2>1, <2>2, AnswerTurn
<1> QED
  BY <1>2, <1>3, <1>4 DEF Handler, StopHandler

(* The server is started again: nothing is asked of it any more. *)
LEMMA RestartTurn ==
    ASSUME Run, InTurn, Restart
    PROVE  InTurn'
<1>1. UNCHANGED clientVars
  BY DEF Restart
<1>2. ASSUME NEW c \in Conns
      PROVE  ~conn'[c].up /\ conn'[c].req.code = "none"
  <2>1. PICK resp : conn'[c] \in {Unused, [Unused EXCEPT !.pc = "stopped", !.resp = resp]}
    BY DEF Restart
  <2> DEFINE ended == [Unused EXCEPT !.pc = "stopped", !.resp = resp]
  <2>2. Unused.up = FALSE /\ Unused.req.code = "none"
    BY DEF Unused, NoRequest
  <2>3. ended.up = FALSE /\ ended.req.code = "none"
    BY DEF Unused, NoRequest
  <2> HIDE DEF ended
  <2> QED
    BY <2>1, <2>2, <2>3 DEF ended
<1>3. ASSUME NEW c \in Conns PROVE Orderly(c)'
  BY <1>2 DEF Orderly
<1>4. ASSUME NEW v \in Users PROVE InfoFits(v)' /\ InStep(v)'
  <2>1. cpc[v] # "idle" => cur[v] \in Conns
    BY DEF Run, TypeOK
  <2> QED
    BY <1>1, <1>2, <2>1, SameInStep DEF InTurn, clientVars
<1> QED
  BY <1>3, <1>4 DEF InTurn

LEMMA SameTurn ==
    ASSUME Run, InTurn, Stays, UNCHANGED <<clientVars, conn>>
    PROVE  InTurn'
<1>1. ASSUME NEW c \in Conns PROVE Orderly(c)'
  BY FewerOrderly DEF InTurn
<1>2. ASSUME NEW v \in Users PROVE InfoFits(v)' /\ InStep(v)'
  BY SameInStep DEF InTurn, clientVars
<1> QED
  BY <1>1, <1>2 DEF InTurn

LEMMA InitTurn == Init => InTurn
<1> SUFFICES ASSUME Init PROVE InTurn
  OBVIOUS
<1>1. ASSUME NEW c \in Conns PROVE Orderly(c)
  BY DEF Init, Orderly, Unused, NoRequest
<1>2. ASSUME NEW u \in Users PROVE InfoFits(u) /\ InStep(u)
  BY DEF Init, InfoFits, InStep
<1> QED
  BY <1>1, <1>2 DEF InTurn

LEMMA NextTurn ==
    ASSUME Run, Held, InTurn, [Next]_vars
    PROVE  InTurn'
<1>1. Stays
  BY NextStays
<1>2. ASSUME NEW u \in Users, Connect(u) \/ Client(u) \/ ClientCrash(u)
      PROVE  InTurn'
  BY <1>1, <1>2, ConnectTurn, ClientTurn
<1>3. ASSUME NEW c \in Conns, Handler(c) \/ LinkDown(c)
      PROVE  InTurn'
  BY <1>1, <1>3, HandlerTurn
<1>4. CASE UNCHANGED vars \/ \E u \in Users : Rename(u)
  BY <1>1, <1>4, SameTurn DEF vars, Rename
<1> QED
  BY <1>2, <1>3, <1>4, RestartTurn DEF Next, Ended

-----------------------------------------------------------------------------
(* Rows that have their keys. *)

(* A step that gives nobody's row its key. *)
LEMMA FewerKeyed ==
    ASSUME Run, InTurn, KeyedIsHeld, [Next]_vars,
           \A x \in clients' : x.key =>
               \E y \in clients : y.key /\ y.name = x.name /\ y.id = x.id
    PROVE  KeyedIsHeld'
<1> SUFFICES ASSUME NEW x \in clients', x.key
             PROVE  \E u \in Users : meInfo'[u].of = Identity(x.name, x.id)
  BY DEF KeyedIsHeld, Identity
<1>1. PICK y \in clients : y.key /\ y.name = x.name /\ y.id = x.id
  OBVIOUS
<1>2. PICK u \in Users : meInfo[u].of = Identity(x.name, x.id)
  BY <1>1 DEF KeyedIsHeld
<1>3. 0 < x.id
  BY <1>1, RowIds DEF Row
<1>4. meInfo[u] # Absent
  BY <1>2, <1>3 DEF Absent, NoOne, Identity
<1> QED
  BY <1>2, <1>4, InfoStays DEF InTurn

(* The one that does: SendAesKey. *)
LEMMA SendAesKeyKeyed ==
    ASSUME Run, InTurn, KeyedIsHeld, NEW c \in Conns, SendAesKey(c)
    PROVE  KeyedIsHeld'
<1>1. /\ conn[c].req.code = "CLIENT_PUBLIC_KEY"
      /\ clients' \in {KeyStored(At(c)), clients} /\ meInfo' = meInfo
  BY DEF SendAesKey, At, clientVars
<1>2. Kept(At(c)) /\ clients \subseteq Rows
  BY <1>1 DEF InTurn, Orderly, Run, TypeOK
<1> SUFFICES ASSUME NEW x \in clients', x.key
             PROVE  \E u \in Users : meInfo[u].of = Identity(x.name, x.id)
  BY <1>1 DEF KeyedIsHeld, Identity
<1>3. PICK y \in clients :
        /\ y.name = x.name /\ y.id = x.id
        /\ y.key \/ y.id = At(c)
  <2>1. CASE clients' = clients
    BY <2>1
  <2>2. CASE clients' = KeyStored(At(c))
    <3>1. PICK y \in clients : x = [y EXCEPT !.key = y.key \/ y.id = At(c)]
      BY <2>2 DEF KeyStored
    <3>2. y \in Rows
      BY <1>2
    <3>3. /\ x.name = y.name /\ x.id = y.id
          /\ x.key <=> y.key \/ y.id = At(c)
      BY <3>1, <3>2 DEF Rows
    <3> QED
      BY <3>3
  <2> QED
    BY <1>1, <2>1, <2>2
<1>4. CASE y.key
  BY <1>3, <1>4 DEF KeyedIsHeld
<1>5. CASE y.id = At(c)
  BY <1>2, <1>3, <1>5 DEF Kept, Row
<1> QED
  BY <1>3, <1>4, <1>5

LEMMA NextKeyed ==
    ASSUME Run, InTurn, KeyedIsHeld, [Next]_vars
    PROVE  KeyedIsHeld'
<1>1. ASSUME NEW c \in Conns, RegisterNewClient(c)
      PROVE  KeyedIsHeld'
  <2>1. \A x \in clients' : x \in clients \/ x.key = FALSE
    BY <1>1 DEF RegisterNewClient, Insert
  <2> QED
    BY <2>1, FewerKeyed
<1>2. CASE Restart
  BY <1>2, FewerKeyed DEF Restart
<1>3. ASSUME UNCHANGED clients
      PROVE  KeyedIsHeld'
  BY <1>3, FewerKeyed
<1>4. ASSUME NEW u \in Users,
             Connect(u) \/ Client(u) \/ ClientCrash(u) \/ Rename(u)
      PROVE  UNCHANGED clients
  BY <1>4 DEF Connect, Client, GetClientConnectionInfo, RegisterClient,
     AwaitRegistration, SaveInfo, SendPublicKey, ReceiveSharedSecret, Leave,
     ClientCrash, Rename, serverVars
<1>5. ASSUME NEW c \in Conns, StopHandler(c) \/ LinkDown(c)
      PROVE  UNCHANGED clients
  BY <1>5 DEF StopHandler, LinkDown, serverVars
<1>6. CASE UNCHANGED vars
  BY <1>3, <1>6 DEF vars, serverVars
<1> QED
  BY <1>1, <1>2, <1>3, <1>4, <1>5, <1>6, SendAesKeyKeyed DEF Next, Handler, Ended

-----------------------------------------------------------------------------
(* Rows when nothing fails. *)

(* Who asks for a registration waits for the answer on a link that is up.  *)
Asked(c) ==
    conn[c].pc = "first" /\ conn[c].req.code = "CLIENT_REGISTRATION" =>
        /\ conn[c].up
        /\ \E u \in Users : cpc[u] = "await_registration" /\ cur[u] = c

(* The id of a row is in a me.info, about to be written there, or in the   *)
(* answer to its owner.                                                    *)
Notes(u, n, i) ==
    \/ meInfo[u].of = Identity(n, i)
    \/ cpc[u] = "save_info" /\ me[u] = Identity(n, i)
    \/ /\ cpc[u] = "await_registration" /\ me[u].name = n
       /\ conn[cur[u]].resp = Response("REGISTRATION_SUCCESS", i)

Noted ==
    /\ \A c \in Conns : Asked(c)
    /\ \A n, i : Row(n, i) => \E u \in Users : Notes(u, n, i)

(* A step of one run leaves the other runs and connections alone. *)
Alone(u) ==
    /\ cpc[u] # "idle" /\ cur[u] \in Conns
    /\ \A v \in Users \ {u} :
          /\ cpc'[v] = cpc[v] /\ cur'[v] = cur[v] /\ me'[v] = me[v]
          /\ cpc[v] # "idle" => cur[v] # cur[u]
    /\ \A c \in Conns \ {cur[u]} : conn'[c] = conn[c]

LEMMA ClientAlone ==
    ASSUME Run, NEW u \in Users, Client(u)
    PROVE  Alone(u)
<1>1. cpc[u] # "idle"
  BY DEF Client, GetClientConnectionInfo, RegisterClient, AwaitRegistration,
     SaveInfo, SendPublicKey, ReceiveSharedSecret, Leave
<1>2. cur[u] \in Conns
  BY <1>1 DEF Run, TypeOK
<1>3. \A v \in Users \ {u} : cpc[v] # "idle" => cur[v] # cur[u]
  BY DEF Run, RunsHaveConns
<1>4. /\ \E new : conn' = [conn EXCEPT ![cur[u]] = new] \/ UNCHANGED conn
      /\ \E new : cpc' = [cpc EXCEPT ![u] = new]
      /\ \E new : cur' = [cur EXCEPT ![u] = new] \/ UNCHANGED cur
      /\ \E new : me' = [me EXCEPT ![u] = new] \/ UNCHANGED me
  BY DEF Client, GetClientConnectionInfo, RegisterClient, AwaitRegistration,
     SaveInfo, SendPublicKey, ReceiveSharedSecret, Leave, End, GoOn, Send
<1> QED
  BY <1>1, <1>2, <1>3, <1>4 DEF Alone, Run, TypeOK

(* A request for a registration is asked once, and not abandoned. *)
LEMMA ClientAsked ==
    ASSUME Run, InTurn, Noted, Faults = {}, NEW u \in Users, Client(u), NEW c \in Conns
    PROVE  Asked(c)'
<1>1. Asked(c) /\ Orderly(c) /\ Alone(u)
  BY ClientAlone DEF Noted, InTurn
<1>2. CASE c # cur[u]
  <2>1. conn'[c] = conn[c]
    BY <1>1, <1>2 DEF Alone
  <2>2. ASSUME NEW v \in Users, cpc[v] = "await_registration", cur[v] = c
        PROVE  cpc'[v] = "await_registration" /\ cur'[v] = c
    BY <1>1, <1>2, <2>2 DEF Alone
  <2> QED
    BY <1>1, <2>1, <2>2 DEF Asked
<1>3. CASE c = cur[u]
  <2>1. /\ conn[c] \in Connections /\ cpc[u] # "idle" /\ conn' \in [Conns -> Connections]
    BY <1>1, ClientRun DEF Alone, Run, TypeOK
  <2>2. ASSUME conn[c].pc = "first", conn[c].req.code = "CLIENT_REGISTRATION"
        PROVE  FALSE
    <3>1. conn[c].up /\ cpc[u] = "await_registration"
      BY <1>1, <1>3, <2>2 DEF Asked, Run, RunsHaveConns
    <3>2. conn[c].resp.code = "none"
      BY <1>1, <2>2, <3>1 DEF Orderly
    <3> QED
      BY <1>3, <3>1, <3>2 DEF Client, GetClientConnectionInfo, RegisterClient,
         AwaitRegistration, SaveInfo, SendPublicKey, ReceiveSharedSecret, Leave
  <2>3. CASE RegisterClient(u)
    <3>1. /\ cpc'[u] = "await_registration" /\ cur'[u] = c
          /\ conn'[c] = [conn[c] EXCEPT !.req =
                 IF conn[c].up THEN Request("CLIENT_REGISTRATION", me[u])
                               ELSE conn[c].req]
      BY <1>3, <2>3 DEF RegisterClient, Send, Run, TypeOK
    <3>2. /\ conn'[c].pc = conn[c].pc /\ conn'[c].up = conn[c].up
          /\ ~conn[c].up => conn'[c].req = conn[c].req
      BY <2>1, <3>1 DEF Connections
    <3> QED
      BY <2>2, <3>1, <3>2 DEF Asked
  <2>4. CASE ~RegisterClient(u)
    <3>1. \/ UNCHANGED conn
          \/ End(u)
          \/ Send(u, "CLIENT_PUBLIC_KEY")
          \/ conn' = [conn EXCEPT ![c].resp = NoResponse]
      BY <1>3, <2>4 DEF Client, GetClientConnectionInfo, AwaitRegistration,
         SaveInfo, GoOn, SendPublicKey, ReceiveSharedSecret, Leave
    <3>2. /\ conn'[c].pc = conn[c].pc
          /\ conn'[c].req = conn[c].req \/ conn'[c].req.code = "CLIENT_PUBLIC_KEY"
      <4>1. CASE UNCHANGED conn
        BY <4>1
      <4>2. CASE End(u)
        <5>1. conn'[c] = [conn[c] EXCEPT !.up = FALSE, !.resp = NoResponse]
          BY <1>3, <4>2 DEF End, Run, TypeOK
        <5> QED
          BY <2>1, <5>1 DEF Connections
      <4>3. CASE Send(u, "CLIENT_PUBLIC_KEY")
        <5> DEFINE req == IF conn[c].up THEN Request("CLIENT_PUBLIC_KEY", me[u])
                                        ELSE conn[c].req
        <5>1. conn'[c] = [conn[c] EXCEPT !.req = req]
          BY <1>3, <4>3 DEF Send, Run, TypeOK
        <5>2. req = conn[c].req \/ req.code = "CLIENT_PUBLIC_KEY"
          BY DEF Request
        <5> HIDE DEF req
        <5> QED
          BY <2>1, <5>1, <5>2 DEF Connections
      <4>4. CASE conn' = [conn EXCEPT ![c].resp = NoResponse]
        <5>1. conn'[c] = [conn[c] EXCEPT !.resp = NoResponse]
          BY <4>4 DEF Run, TypeOK
        <5> QED
          BY <2>1, <5>1 DEF Connections
      <4> QED
        BY <3>1, <4>1, <4>2, <4>3, <4>4
    <3> QED
      BY <2>2, <3>2 DEF Asked
  <2> QED
    BY <2>3, <2>4
<1> QED
  BY <1>2, <1>3

(* Where an id is noted, it stays. *)
LEMMA ClientNotes ==
    ASSUME Run, InTurn, Noted, Faults = {}, [Next]_vars, NEW u \in Users, Client(u),
           NEW v \in Users, NEW n, NEW i, 0 < i, Notes(v, n, i)
    PROVE  Notes(v, n, i)'
<1>1. CASE meInfo[v].of = Identity(n, i)
  <2>1. meInfo[v] # Absent
    BY <1>1 DEF Absent, NoOne, Identity
  <2> QED
    BY <1>1, <2>1, InfoStays DEF InTurn, Notes, Identity
<1>2. CASE v # u /\ meInfo[v].of # Identity(n, i)
  <2>1. cpc[v] # "idle" => cur[v] \in Conns
    BY DEF Run, TypeOK
  <2>2. Alone(u)
    BY ClientAlone
  <2>3. /\ cpc'[v] = cpc[v] /\ cur'[v] = cur[v] /\ me'[v] = me[v]
        /\ cpc[v] # "idle" => conn'[cur[v]] = conn[cur[v]]
    BY <1>2, <2>1, <2>2 DEF Alone
  <2> QED
    BY <1>2, <2>3 DEF Notes, Identity, Response
<1>3. CASE v = u /\ cpc[u] = "save_info" /\ me[u] = Identity(n, i)
  <2>1. meInfo' = [meInfo EXCEPT ![u] = Whole(me[u])]
    BY <1>3 DEF Client, GetClientConnectionInfo, RegisterClient, AwaitRegistration,
       SaveInfo, SendPublicKey, ReceiveSharedSecret, Leave, Written
  <2> QED
    BY <1>3, <2>1 DEF Notes, Whole, Run, TypeOK, Identity
<1>4. CASE /\ v = u /\ cpc[u] = "await_registration" /\ me[u].name = n
           /\ conn[cur[u]].resp = Response("REGISTRATION_SUCCESS", i)
  <2>1. conn[cur[u]].resp # NoResponse /\ conn[cur[u]].resp.id = i
          /\ conn[cur[u]].resp.code = "REGISTRATION_SUCCESS"
    BY <1>4 DEF Response, NoResponse
  <2>2. /\ me' = [me EXCEPT ![u].id = i]
        /\ cpc' = [cpc EXCEPT ![u] = "save_info"]
    BY <1>4, <2>1 DEF Client, GetClientConnectionInfo, RegisterClient, AwaitRegistration,
       SaveInfo, SendPublicKey, ReceiveSharedSecret, Leave
  <2>3. me \in [Users -> Identities] /\ cpc'[u] = "save_info"
    BY <2>2 DEF Run, TypeOK
  <2>4. me'[u] = Identity(n, i)
    BY <1>4, <2>2, <2>3 DEF Identities, Identity
  <2> QED
    BY <1>4, <2>3, <2>4 DEF Notes, Identity
<1> QED
  BY <1>1, <1>2, <1>3, <1>4 DEF Notes

LEMMA ClientNoted ==
    ASSUME Run, InTurn, Noted, Faults = {}, NEW u \in Users, Client(u)
    PROVE  Noted'
<1>1. [Next]_vars
  BY DEF Next
<1>2. UNCHANGED clients
  BY DEF Client, GetClientConnectionInfo, RegisterClient, AwaitRegistration,
     SaveInfo, SendPublicKey, ReceiveSharedSecret, Leave, serverVars
<1>3. ASSUME NEW n, NEW i, Row(n, i) PROVE \E v \in Users : Notes(v, n, i)'
  BY <1>1, <1>3, ClientNotes, RowIds DEF Noted
<1>4. \A n, i : Row(n, i)' <=> Row(n, i)
  BY <1>2 DEF Row
<1> QED
  BY <1>3, <1>4, ClientAsked DEF Noted

LEMMA ConnectNoted ==
    ASSUME Run, Noted, NEW u \in Users, Connect(u)
    PROVE  Noted'
<1>1. PICK c \in Conns :
        /\ conn[c] = Unused
        /\ conn' = [conn EXCEPT ![c] = Accepted]
        /\ cur' = [cur EXCEPT ![u] = c]
  BY DEF Connect
<1>2. /\ cpc[u] = "idle" /\ cpc' = [cpc EXCEPT ![u] = "init"]
      /\ me' = [me EXCEPT ![u] = Identity(name[u], 0)]
      /\ UNCHANGED <<meInfo, clients>>
  BY DEF Connect, serverVars
<1>3. \A v \in Users \ {u} : cpc'[v] = cpc[v] /\ me'[v] = me[v] /\ cur'[v] = cur[v]
  BY <1>1, <1>2 DEF Run, TypeOK
<1>4. ASSUME NEW k \in Conns PROVE Asked(k)'
  <2>1. CASE k = c
    BY <1>1, <2>1 DEF Asked, Accepted, Unused, NoRequest, Run, TypeOK
  <2>2. CASE k # c
    <3>1. conn'[k] = conn[k]
      BY <1>1, <2>2 DEF Run, TypeOK
    <3> QED
      BY <1>2, <1>3, <3>1 DEF Asked, Noted
  <2> QED
    BY <2>1, <2>2
<1>5. ASSUME NEW n, NEW i, NEW v \in Users, Notes(v, n, i) PROVE Notes(v, n, i)'
  <2>1. cpc[v] # "idle" => conn'[cur[v]] = conn[cur[v]]
    BY <1>1 DEF Run, TypeOK, RunsHaveConns, Unused
  <2> QED
    BY <1>2, <1>3, <1>5, <2>1 DEF Notes, Identity, Response
<1>6. \A n, i : Row(n, i)' <=> Row(n, i)
  BY <1>2 DEF Row
<1> QED
  BY <1>4, <1>5, <1>6 DEF Noted

(* What a handler does is noted where it was, if its connection has no     *)
(* request any more and an answer is not lost.                             *)
LEMMA ServeAsked ==
    ASSUME Run, Noted, UNCHANGED clientVars, NEW c \in Conns,
           NEW new \in Connections, conn' = [conn EXCEPT ![c] = new],
           new.req.code = "none", NEW k \in Conns
    PROVE  Asked(k)'
<1>1. CASE k = c
  BY <1>1 DEF Asked, Run, TypeOK
<1>2. CASE k # c
  <2>1. conn'[k] = conn[k]
    BY <1>2 DEF Run, TypeOK
  <2> QED
    BY <2>1 DEF Noted, Asked, clientVars
<1> QED
  BY <1>1, <1>2

LEMMA ServeNotes ==
    ASSUME Run, UNCHANGED clientVars, NEW c \in Conns,
           NEW new \in Connections, conn' = [conn EXCEPT ![c] = new],
           new.resp = conn[c].resp \/ conn[c].resp.code = "none",
           NEW u \in Users, NEW n, NEW i, Notes(u, n, i)
    PROVE  Notes(u, n, i)'
<1>1. CASE meInfo[u].of = Identity(n, i) \/ (cpc[u] = "save_info" /\ me[u] = Identity(n, i))
  BY <1>1 DEF Notes, Identity, clientVars
<1>2. CASE /\ cpc[u] = "await_registration" /\ me[u].name = n
           /\ conn[cur[u]].resp = Response("REGISTRATION_SUCCESS", i)
  <2>1. cur[u] \in Conns /\ conn[cur[u]].resp.code # "none"
    BY <1>2 DEF Run, TypeOK, Response
  <2>2. conn'[cur[u]].resp = conn[cur[u]].resp
    BY <2>1 DEF Run, TypeOK
  <2> QED
    BY <1>2, <2>2 DEF Notes, Identity, Response, clientVars
<1> QED
  BY <1>1, <1>2 DEF Notes

(* A registration: the new row is in the answer to who has asked for it.   *)
LEMMA RegisterNewClientNoted ==
    ASSUME Run, InTurn, Noted, Faults = {}, NEW c \in Conns, RegisterNewClient(c)
    PROVE  Noted'
<1>1. /\ conn[c].pc = "first" /\ conn[c].req.code = "CLIENT_REGISTRATION"
      /\ UNCHANGED clientVars /\ issued' = issued + 1 /\ issued \in Nat
      /\ conn \in [Conns -> Connections]
  BY DEF RegisterNewClient, Run, TypeOK
<1>2. PICK u \in Users : cpc[u] = "await_registration" /\ cur[u] = c
  BY <1>1 DEF Noted, Asked
<1>3. conn[c].up /\ conn[c].resp.code = "none"
  BY <1>1 DEF Noted, Asked, InTurn, Orderly
<1>4. \/ /\ Insert(conn[c].req.name, issued')
         /\ Answer(c, "await_key", issued', "REGISTRATION_SUCCESS")
      \/ /\ Answer(c, "stopped", 0, "REGISTRATION_FAILED")
         /\ UNCHANGED clients
  BY <1>3 DEF RegisterNewClient
<1>5. PICK new \in Connections :
        /\ conn' = [conn EXCEPT ![c] = new] /\ new.req.code = "none"
        /\ Answer(c, "await_key", issued', "REGISTRATION_SUCCESS") =>
              new.resp = Response("REGISTRATION_SUCCESS", issued')
  <2>1. CASE Answer(c, "await_key", issued', "REGISTRATION_SUCCESS")
    <3>1. issued' \in Nat /\ "await_key" \in HandlerPc \ {"none"}
      BY <1>1 DEF HandlerPc
    <3> QED
      BY <1>3, <2>1, <3>1, AnswerConn
  <2>2. CASE /\ Answer(c, "stopped", 0, "REGISTRATION_FAILED")
             /\ ~Answer(c, "await_key", issued', "REGISTRATION_SUCCESS")
    BY <2>2, AnswerConn DEF HandlerPc
  <2> QED
    BY <1>4, <2>1, <2>2
<1>6. ASSUME NEW k \in Conns PROVE Asked(k)'
  BY <1>1, <1>5, ServeAsked
<1>7. ASSUME NEW n, NEW i, Row(n, i) PROVE \E v \in Users : Notes(v, n, i)'
  BY <1>1, <1>3, <1>5, <1>7, ServeNotes DEF Noted
<1>8. ASSUME NEW n, NEW i, Row(n, i)', ~Row(n, i) PROVE \E v \in Users : Notes(v, n, i)'
  <2>1. /\ n = conn[c].req.name /\ i = issued'
        /\ Answer(c, "await_key", issued', "REGISTRATION_SUCCESS")
    BY <1>4, <1>8 DEF Insert, Row
  <2>2. me[u].name = n
    BY <1>1, <1>2, <1>3, <2>1 DEF Run, RequestsAreNamed
  <2>3. conn'[c].resp = Response("REGISTRATION_SUCCESS", i)
    BY <1>1, <1>5, <2>1
  <2>4. cpc'[u] = "await_registration" /\ cur'[u] = c /\ me'[u].name = n
    BY <1>1, <1>2, <2>2 DEF clientVars
  <2>5. Notes(u, n, i)'
    BY <2>3, <2>4 DEF Notes, Response
  <2> QED
    BY <2>5
<1> QED
  BY <1>6, <1>7, <1>8 DEF Noted

LEMMA SendAesKeyNoted ==
    ASSUME Run, InTurn, Noted, NEW c \in Conns, SendAesKey(c) \/ StopHandler(c)
    PROVE  Noted'
<1> DEFINE j == IF conn[c].pc = "first" THEN conn[c].req.id ELSE conn[c].id
<1>1. /\ UNCHANGED clientVars /\ conn[c] \in Connections /\ j \in Nat
      /\ \/ Stop(c)
         \/ /\ Answer(c, "serving", j, "CLIENT_AES_KEY")
            /\ conn[c].req.code = "CLIENT_PUBLIC_KEY"
  BY DEF SendAesKey, StopHandler, Run, TypeOK, Connections, Requests
<1> HIDE DEF j
<1>2. PICK new \in Connections :
        /\ conn' = [conn EXCEPT ![c] = new] /\ new.req.code = "none"
        /\ new.resp = conn[c].resp \/ conn[c].resp.code = "none"
  <2>1. CASE Stop(c)
    BY <2>1, StopConn
  <2>2. CASE /\ Answer(c, "serving", j, "CLIENT_AES_KEY")
             /\ conn[c].req.code = "CLIENT_PUBLIC_KEY"
    <3>1. conn[c].up => conn[c].resp.code = "none"
      BY <2>2 DEF InTurn, Orderly
    <3>2. "serving" \in HandlerPc \ {"none"}
      BY DEF HandlerPc
    <3> QED
      BY <1>1, <2>2, <3>1, <3>2, AnswerConn
  <2> QED
    BY <1>1, <2>1, <2>2
<1>3. ASSUME NEW k \in Conns PROVE Asked(k)'
  BY <1>1, <1>2, ServeAsked
<1>4. ASSUME NEW n, NEW i, Row(n, i) PROVE \E v \in Users : Notes(v, n, i)'
  BY <1>1, <1>2, <1>4, ServeNotes DEF Noted
<1>5. \A n, i : Row(n, i)' <=> Row(n, i)
  BY KeyTable DEF SameTable, StopHandler, serverVars, Row
<1> QED
  BY <1>3, <1>4, <1>5 DEF Noted

LEMMA RestartNoted ==
    ASSUME Run, Restart
    PROVE  Noted'
<1>1. ASSUME NEW c \in Conns PROVE conn'[c].pc # "first"
  <2>1. PICK resp : conn'[c] \in {Unused, [Unused EXCEPT !.pc = "stopped", !.resp = resp]}
    BY DEF Restart
  <2> DEFINE ended == [Unused EXCEPT !.pc = "stopped", !.resp = resp]
  <2>2. Unused.pc = "none" /\ ended.pc = "stopped"
    BY DEF Unused
  <2> HIDE DEF ended
  <2> QED
    BY <2>1, <2>2 DEF ended
<1>2. \A n, i : ~Row(n, i)'
  BY DEF Restart, Row
<1> QED
  BY <1>1, <1>2 DEF Noted, Asked

LEMMA InitNoted == Init => Noted
  BY DEF Init, Noted, Asked, Row, Unused

LEMMA NextNoted ==
    ASSUME Run, InTurn, Noted, Faults = {}, [Next]_vars
    PROVE  Noted'
<1>1. ASSUME NEW u \in Users, Connect(u) \/ Client(u) PROVE Noted'
  BY <1>1, ConnectNoted, ClientNoted
<1>2. ASSUME NEW c \in Conns, Handler(c) PROVE Noted'
  BY <1>2, RegisterNewClientNoted, SendAesKeyNoted DEF Handler
<1>3. ASSUME NEW u \in Users, NEW c \in Conns, ClientCrash(u) \/ LinkDown(c)
      PROVE  FALSE
  BY <1>3 DEF ClientCrash, LinkDown
<1>4. CASE UNCHANGED vars \/ \E u \in Users : Rename(u)
  <2>1. UNCHANGED <<clientVars, conn, clients>>
    BY <1>4 DEF vars, Rename, serverVars
  <2> QED
    BY <2>1 DEF Noted, Asked, Notes, Row, clientVars, Identity, Response
<1> QED
  BY <1>1, <1>2, <1>3, <1>4, RestartNoted DEF Next, Ended, ClientCrash, LinkDown

-----------------------------------------------------------------------------
(* The theorems. *)

(* Client and handler take turns, in every state and under all faults.     *)
THEOREM TurnInvariant == Spec => [](Run /\ Held /\ InTurn)
<1>1. Init => InTurn
  BY InitTurn
<1>2. Run /\ Held /\ InTurn /\ [Next]_vars => InTurn'
  BY NextTurn
<1> QED
  BY <1>1, <1>2, RegistrationInvariant, PTL DEF Spec

(* The handler of a CLIENT_PUBLIC_KEY request never looks at the name in   *)
(* it, and does not need to: the id that it works for has no row, or one   *)
(* of that name, however often users edit transfer.info and the server is  *)
(* restarted.                                                              *)
THEOREM KeysGoToTheirNames == Spec => []PresentsOwnName
<1>1. Run /\ InTurn => PresentsOwnName
  <2> SUFFICES ASSUME Run, InTurn, NEW c \in Conns, NEW x \in clients,
                      conn[c].req.code = "CLIENT_PUBLIC_KEY",
                      conn[c].req.name # NoName, x.id = At(c)
               PROVE  x.name = conn[c].req.name
    BY DEF PresentsOwnName, At
  <2>1. Named(conn[c].req.name, At(c)) /\ Row(x.name, At(c))
    BY DEF InTurn, Orderly, Row
  <2> QED
    BY <2>1 DEF Named
<1> QED
  BY <1>1, TurnInvariant, PTL

(* A row gets its keys only after the user that it was made for has        *)
(* written me.info with its name and id, even if the write has failed: a   *)
(* client that is lost before leaves a row without keys.                   *)
THEOREM KeyedRowsAreHeld == Spec => []KeyedIsHeld
<1>1. Init => KeyedIsHeld
  BY DEF Init, KeyedIsHeld
<1>2. Run /\ InTurn /\ KeyedIsHeld /\ [Next]_vars => KeyedIsHeld'
  BY NextKeyed
<1> QED
  BY <1>1, <1>2, TurnInvariant, PTL DEF Spec

(* When nothing fails, no name is taken in vain: the id of every row is in *)
(* the me.info of its user or on its way there. Restarts of the server and *)
(* edits of transfer.info are no faults here.                              *)
THEOREM RowsHaveOwners ==
    ASSUME Faults = {}
    PROVE  Spec => []RowsAreHeld
<1>1. Init => Noted
  BY InitNoted
<1>2. Run /\ InTurn /\ Noted /\ [Next]_vars => Noted'
  BY NextNoted
<1>3. Run /\ Noted => RowsAreHeld
  <2> SUFFICES ASSUME Run, Noted, NEW x \in clients
               PROVE  \/ \E u \in Users : Identity(x.name, x.id) \in Has(u)
                      \/ \E u \in Users : /\ cpc[u] = "await_registration"
                                          /\ me[u].name = x.name
                                          /\ conn[cur[u]].resp.id = x.id
    BY DEF RowsAreHeld
  <2>1. PICK u \in Users : Notes(u, x.name, x.id)
    BY DEF Noted, Row
  <2>2. 0 < x.id
    BY RowIds DEF Row
  <2> QED
    BY <2>1, <2>2 DEF Notes, Has, Identity, Response
<1> QED
  BY <1>1, <1>2, <1>3, TurnInvariant, PTL DEF Spec
=============================================================================
