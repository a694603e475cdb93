---------------------------- MODULE SessionProofs ----------------------------
(***************************************************************************)
(* The theorems about Session: its invariant and what follows from it, for *)
(* all values of the constants and all sets of faults.                     *)
(*                                                                         *)
(* Facts about messages and streams come first, then one lemma for each    *)
(* action, then the theorems. The first step of an action's lemma collects *)
(* the parts of IInv that follow from its definition alone; each part that *)
(* needs more has a step of its own.                                       *)
(***************************************************************************)
EXTENDS SessionInvariant, SequenceTheorems, TLAPS

-----------------------------------------------------------------------------
(* Messages, streams, and the steps that touch them. *)

(* The widths of the five responses, and what the client asks for at each  *)
(* call site: they differ for the acknowledgement of a confirmation only.  *)
LEMMA Sizes ==
    /\ PackedSize("REGISTRATION_SUCCESS") = 23
    /\ PackedSize("REGISTRATION_FAILED") = 23
    /\ PackedSize("CLIENT_AES_KEY") = 151
    /\ PackedSize("LAST_SENT_FILE_CRC") = 286
    /\ PackedSize("REQUEST_RECEIVED") = 7
    /\ Asked("await_registration") = 23
    /\ Asked("await_key") = 151
    /\ Asked("validate") = 286
    /\ Asked("await_ack") = 3
    /\ Asked("await_resend") = 7
    /\ Asked("await_final") = 7
  BY DEF PackedSize, PayloadSize, RegistrationPayload, AesKeyPayload,
         CrcPayload, HeaderSize, PACKET_SIZE, Asked,
         ClientHeaderSize, ClientSizeField, CLIENT_ID_FIELD_LENGTH,
         ENCRYPTED_SHARED_KEY_LENGTH, FILE_LENGTH_FIELD_LENGTH,
         FILE_NAME_LENGTH_FIELD_LENGTH, CHECKSUM_FIELD_LENGTH

(* Length, emptiness and first element of a sequence, in the form the      *)
(* provers need.                                                           *)
LEMMA Singleton ==
    ASSUME NEW S, NEW q \in Seq(S)
    PROVE  /\ Len(q) \in Nat
           /\ q = <<>> <=> Len(q) = 0
           /\ q # <<>> => Head(q) = q[1] /\ q[1] \in S
  BY EmptySeq, LenProperties, HeadTailProperties

(* What Append does to length, elements and head. *)
LEMMA Appended ==
    ASSUME NEW S, NEW q \in Seq(S), NEW m \in S
    PROVE  /\ Append(q, m) \in Seq(S)
           /\ Len(Append(q, m)) = Len(q) + 1
           /\ Append(q, m) # <<>>
           /\ Append(q, m)[Len(q) + 1] = m
           /\ \A i \in 1 .. Len(q) : Append(q, m)[i] = q[i]
           /\ q = <<>> => Head(Append(q, m)) = m
           /\ q # <<>> => Head(Append(q, m)) = Head(q)
<1>1. Append(q, m) \in Seq(S) /\ Len(Append(q, m)) = Len(q) + 1
  OBVIOUS
<1>2. /\ Append(q, m)[Len(q) + 1] = m
      /\ \A i \in 1 .. Len(q) : Append(q, m)[i] = q[i]
  OBVIOUS
<1> QED
  BY <1>1, <1>2, Singleton

(* Cutting the last request of a stream changes no code and no data. *)
LEMMA CutRequest ==
    ASSUME NEW q \in Seq(Requests)
    PROVE  /\ CutLast(q) \in Seq(Requests)
           /\ Len(CutLast(q)) = Len(q)
           /\ \A i \in 1 .. Len(q) :
                 /\ CutLast(q)[i].code = q[i].code
                 /\ CutLast(q)[i].data = q[i].data
<1>1. CASE q = <<>>
  BY <1>1 DEF CutLast
<1>2. CASE q # <<>>
  <2> DEFINE e == [q[Len(q)] EXCEPT !.whole = FALSE]
  <2>1. Len(q) \in 1 .. Len(q)
    BY <1>2, EmptySeq
  <2>2. q[Len(q)] \in Requests
    BY <2>1, ElementOfSeq
  <2>3. /\ e \in Requests
        /\ e.code = q[Len(q)].code
        /\ e.data = q[Len(q)].data
    BY <2>2 DEF Requests
  <2>4. CutLast(q) = [q EXCEPT ![Len(q)] = e]
    BY <1>2 DEF CutLast
  <2> HIDE DEF e
  <2> QED
    BY <2>1, <2>3, <2>4, ExceptSeq
<1> QED
  BY <1>1, <1>2

(* Cutting the last response of a stream changes no code and no CRC. *)
LEMMA CutResponse ==
    ASSUME NEW q \in Seq(Responses)
    PROVE  /\ CutLast(q) \in Seq(Responses)
           /\ Len(CutLast(q)) = Len(q)
           /\ \A i \in 1 .. Len(q) :
                 /\ CutLast(q)[i].code = q[i].code
                 /\ CutLast(q)[i].crc = q[i].crc
<1>1. CASE q = <<>>
  BY <1>1 DEF CutLast
<1>2. CASE q # <<>>
  <2> DEFINE e == [q[Len(q)] EXCEPT !.whole = FALSE]
  <2>1. Len(q) \in 1 .. Len(q)
    BY <1>2, EmptySeq
  <2>2. q[Len(q)] \in Responses
    BY <2>1, ElementOfSeq
  <2>3. /\ e \in Responses
        /\ e.code = q[Len(q)].code
        /\ e.crc = q[Len(q)].crc
    BY <2>2 DEF Responses
  <2>4. CutLast(q) = [q EXCEPT ![Len(q)] = e]
    BY <1>2 DEF CutLast
  <2> HIDE DEF e
  <2> QED
    BY <2>1, <2>3, <2>4, ExceptSeq
<1> QED
  BY <1>1, <1>2

(* Singleton for the two streams. *)
LEMMA Streams ==
    ASSUME TypeOK
    PROVE  /\ c2s \in Seq(Requests)
           /\ s2c \in Seq(Responses)
           /\ Len(c2s) \in Nat
           /\ Len(s2c) \in Nat
           /\ c2s = <<>> <=> Len(c2s) = 0
           /\ s2c = <<>> <=> Len(s2c) = 0
           /\ c2s # <<>> => Head(c2s) = c2s[1] /\ Head(c2s) \in Requests
           /\ s2c # <<>> => Head(s2c) = s2c[1] /\ Head(s2c) \in Responses
<1>1. c2s \in Seq(Requests) /\ s2c \in Seq(Responses)
  BY DEF TypeOK
<1> QED
  BY <1>1, Singleton

(* What the statements of ServerDatabase do to the fields the invariant    *)
(* speaks of.                                                              *)
LEMMA DbUpdates ==
    ASSUME TypeOK
    PROVE  /\ EmptyDb \in DbStates
           /\ ~EmptyDb.verified
           /\ EmptyDb.rows = 0
           /\ db.rows \in Nat
           /\ \A n \in {"empty", "full"} :
                 /\ [db EXCEPT !.name = n] \in DbStates
                 /\ [db EXCEPT !.name = n].verified = db.verified
                 /\ [db EXCEPT !.name = n].rows = db.rows
                 /\ KeyStored(n) \in DbStates
                 /\ KeyStored(n).verified = db.verified
                 /\ KeyStored(n).rows = db.rows
           /\ [db EXCEPT !.rows = @ + 1] \in DbStates
           /\ [db EXCEPT !.rows = @ + 1].verified = db.verified
           /\ [db EXCEPT !.rows = @ + 1].rows = db.rows + 1
           /\ [db EXCEPT !.verified = TRUE] \in DbStates
           /\ [db EXCEPT !.verified = TRUE].rows = db.rows
<1>1. db \in DbStates /\ db.rows \in Nat
  BY DEF TypeOK, DbStates
<1>2. EmptyDb \in DbStates /\ ~EmptyDb.verified /\ EmptyDb.rows = 0
  BY DEF EmptyDb, DbStates
<1>3. ASSUME NEW n \in {"empty", "full"}
      PROVE  /\ [db EXCEPT !.name = n] \in DbStates
             /\ KeyStored(n) \in DbStates
  BY <1>1 DEF DbStates, KeyStored
<1>4. ASSUME NEW n \in {"empty", "full"}
      PROVE  /\ [db EXCEPT !.name = n].verified = db.verified
             /\ KeyStored(n).verified = db.verified
             /\ [db EXCEPT !.name = n].rows = db.rows
             /\ KeyStored(n).rows = db.rows
  BY <1>1 DEF DbStates, KeyStored
<1>5. [db EXCEPT !.rows = @ + 1] \in DbStates
  BY <1>1 DEF DbStates
<1>6. /\ [db EXCEPT !.rows = @ + 1].verified = db.verified
      /\ [db EXCEPT !.rows = @ + 1].rows = db.rows + 1
  BY <1>1 DEF DbStates
<1>7. /\ [db EXCEPT !.verified = TRUE] \in DbStates
      /\ [db EXCEPT !.verified = TRUE].rows = db.rows
  BY <1>1 DEF DbStates
<1> QED
  BY <1>1, <1>2, <1>3, <1>4, <1>5, <1>6, <1>7

(* A send puts its request behind the others, or nothing on a lost         *)
(* connection.                                                             *)
LEMMA SendEffect ==
    ASSUME TypeOK, NEW m \in Requests, Send(m)
    PROVE  /\ c2s' \in Seq(Requests)
           /\ ~Connected => c2s' = c2s
           /\ Connected /\ c2s = <<>> =>
                 Len(c2s') = 1 /\ c2s' # <<>> /\ Head(c2s') = m
<1>1. CASE Connected
  <2>1. c2s' = Append(c2s, m)
    BY <1>1 DEF Send
  <2> QED
    BY <1>1, <2>1, Streams, Appended
<1>2. CASE ~Connected
  BY <1>2, Streams DEF Send
<1> QED
  BY <1>1, <1>2

(* The same for a response. *)
LEMMA ReplyEffect ==
    ASSUME TypeOK, NEW m \in Responses, Reply(m)
    PROVE  /\ s2c' \in Seq(Responses)
           /\ ~Connected => s2c' = s2c
           /\ Connected => /\ Len(s2c') = Len(s2c) + 1
                           /\ s2c' # <<>>
                           /\ \A i \in 1 .. Len(s2c) : s2c'[i] = s2c[i]
                           /\ s2c'[Len(s2c) + 1] = m
           /\ Connected /\ s2c = <<>> => Head(s2c') = m
           /\ Connected /\ s2c # <<>> => Head(s2c') = Head(s2c)
<1>1. CASE Connected
  <2>1. s2c' = Append(s2c, m)
    BY <1>1 DEF Reply
  <2> QED
    BY <1>1, <2>1, Streams, Appended
<1>2. CASE ~Connected
  BY <1>2, Streams DEF Reply
<1> QED
  BY <1>1, <1>2

(* A receive that is served takes the first response from the stream. *)
LEMMA ArrivesEffect ==
    ASSUME TypeOK, NEW n \in Nat, Arrives(n)
    PROVE  /\ s2c # <<>>
           /\ Head(s2c) \in Responses
           /\ s2c' \in Seq(Responses)
           /\ Len(s2c') = Len(s2c) - 1
           /\ Len(s2c) = 1 => s2c' = <<>>
           /\ \A i \in 1 .. Len(s2c') : s2c'[i] = s2c[i + 1]
           /\ PackedSize(Head(s2c).code) >= n
           /\ skew' = PackedSize(Head(s2c).code) - n
           /\ skew' \in Nat
<1>1. s2c # <<>> /\ s2c' = Tail(s2c)
  BY DEF Arrives, Fills, MayFill
<1>2. /\ s2c' \in Seq(Responses)
      /\ Len(s2c') = Len(s2c) - 1
      /\ \A i \in 1 .. Len(s2c') : s2c'[i] = s2c[i + 1]
      /\ Head(s2c) \in Responses
  BY <1>1, Streams, HeadTailProperties
<1>3. PackedSize(Head(s2c).code) \in Nat
  BY <1>2, Sizes DEF Responses, ResponseType
<1>4. /\ PackedSize(Head(s2c).code) >= n
      /\ skew' = PackedSize(Head(s2c).code) - n
  BY <1>3 DEF Arrives, Fills, MayFill
<1>5. skew' \in Nat
  BY <1>3, <1>4
<1>6. Len(s2c) = 1 => s2c' = <<>>
  BY <1>2, Singleton
<1> QED
  BY <1>1, <1>2, <1>4, <1>5, <1>6

(* A receive that is not served empties the stream, and finds the          *)
(* connection lost.                                                        *)
LEMMA HangsUpEffect ==
    ASSUME NEW n, HangsUp(n)
    PROVE  /\ s2c' = <<>>
           /\ s2c' \in Seq(Responses)
           /\ ~Connected
           /\ skew' = skew
  BY DEF HangsUp, Connected

(* A recv of the handler takes the first request, or finds no whole        *)
(* header.                                                                 *)
LEMMA SeesEffect ==
    ASSUME TypeOK, NEW code, Sees(code)
    PROVE  /\ code \in RequestType
           /\ c2s' \in Seq(Requests)
           /\ \/ /\ c2s # <<>>
                 /\ code = Head(c2s).code
                 /\ Len(c2s') = Len(c2s) - 1
                 /\ Len(c2s) <= 1 => c2s' = <<>>
              \/ /\ code = "DEFAULT_REQUEST_TYPE"
                 /\ c2s' = c2s
                 /\ c2s = <<>> => ~Connected
<1>1. CASE /\ c2s # <<>>
           /\ code = Head(c2s).code
           /\ c2s' = Tail(c2s)
  <2>1. /\ Head(c2s) \in Requests
        /\ c2s' \in Seq(Requests)
        /\ Len(c2s') = Len(c2s) - 1
    BY <1>1, Streams, HeadTailProperties
  <2>2. code \in RequestType
    BY <1>1, <2>1 DEF Requests
  <2>3. Len(c2s) <= 1 => c2s' = <<>>
    BY <1>1, <2>1, Streams, Singleton
  <2> QED
    BY <1>1, <2>1, <2>2, <2>3
<1>2. CASE code = "DEFAULT_REQUEST_TYPE" /\ UNCHANGED c2s
  BY <1>2, Streams DEF Sees, Connected, RequestType
<1> QED
  BY <1>1, <1>2 DEF Sees

(* The messages that are sent have the types of the streams. *)
LEMMA Messages ==
    /\ Request("CLIENT_REGISTRATION", Nothing) \in Requests
    /\ Request("CLIENT_PUBLIC_KEY", Nothing) \in Requests
    /\ Request("FILE_CRC_SUCCESS", Nothing) \in Requests
    /\ Request("FILE_CRC_FAILED_RESENDING", Nothing) \in Requests
    /\ Request("FILE_CRC_FAILED_FINISHED", Nothing) \in Requests
    /\ \A data \in Content :
          Request("CLIENT_ENCRYPTED_FILE", data) \in Requests
    /\ \A code, data : /\ Request(code, data).code = code
                       /\ Request(code, data).data = data
    /\ Response("REGISTRATION_SUCCESS", 0) \in Responses
    /\ Response("REGISTRATION_FAILED", 0) \in Responses
    /\ Response("CLIENT_AES_KEY", 0) \in Responses
    /\ Response("REQUEST_RECEIVED", 0) \in Responses
    /\ \A crc \in Nat : Response("LAST_SENT_FILE_CRC", crc) \in Responses
    /\ \A code, crc : /\ Response(code, crc).code = code
                      /\ Response(code, crc).crc = crc
  BY DEF Request, Response, Requests, Responses, RequestType, ResponseType

(* What the request at the head of its stream tells a reading handler      *)
(* about the client: LockStep, read from the handler's side.               *)
LEMMA HandlerView ==
    ASSUME TypeOK, LockStep, Connected, c2s # <<>>, spc \in Reading
    PROVE  /\ s2c = <<>>
           /\ Head(c2s).code = "CLIENT_REGISTRATION" =>
                 spc = "first" /\ cpc = "await_registration"
           /\ Head(c2s).code = "CLIENT_PUBLIC_KEY" =>
                 spc \in {"first", "await_key"} /\ cpc = "await_key"
           /\ Head(c2s).code = "CLIENT_ENCRYPTED_FILE" =>
                 /\ spc = "await_file"
                 /\ cpc \in {"validate", "crc_read"}
                 /\ serverCrc = Unset
           /\ Head(c2s).code \in {"FILE_CRC_SUCCESS", "FILE_CRC_FAILED_RESENDING"} =>
                 /\ spc = "await_confirm"
                 /\ cpc \in {"await_ack", "await_resend"}
           /\ Head(c2s).code = "FILE_CRC_FAILED_FINISHED" =>
                 spc = "await_file" /\ cpc = "await_final"
<1>1. cpc \in ClientPc /\ ~ClientGone
  BY DEF TypeOK, Connected
<1> QED
  BY <1>1, Streams, SMTT(30)
     DEF LockStep, Reading, Acknowledged, OneRequest, OneResponse, ClientGone,
         ClientPc

(* The counters are numbers. *)
LEMMA Counters ==
    ASSUME TypeOK
    PROVE  db.rows \in Nat /\ attempt \in Nat /\ MaxRetries \in Nat
  BY BoundAssumption DEF TypeOK, DbStates

-----------------------------------------------------------------------------
(* The actions of the client keep the invariant. *)

(* initializeClient finds a fresh handler and sends at most the            *)
(* registration.                                                           *)
LEMMA StartInv ==
    ASSUME IInv, Start
    PROVE  IInv'
<1> USE DEF IInv
<1>1. /\ AttemptsLeft' /\ ResponsesFit' /\ Served' /\ SavesOnce'
      /\ SavedIsAccepted' /\ VerifiedIsSaved'
  BY DEF AttemptsLeft, ResponsesFit, Served, SavesOnce, SavedIsAccepted,
         VerifiedIsSaved, InAttempt, Expects, ClientGone, Start, serverVars
<1>2. TypeOK'
  BY SendEffect, Messages DEF TypeOK, ClientPc, Start, fileVars, serverVars
<1>3. LockStep'
  BY SendEffect, Messages
     DEF LockStep, OneRequest, Connected, ClientGone, Start, serverVars
<1>4. RequestsFit'
  <2>1. CASE Connected /\ meInfo = "absent"
    <3>1. c2s = <<>>
      BY <2>1 DEF LockStep, Start
    <3>2. Send(Request("CLIENT_REGISTRATION", Nothing))
      BY <2>1 DEF Start
    <3>3. Len(c2s') = 1 /\ Head(c2s').code = "CLIENT_REGISTRATION"
      BY <2>1, <3>1, <3>2, SendEffect, Messages
    <3> QED
      BY <3>3 DEF RequestsFit
  <2>2. CASE ~(Connected /\ meInfo = "absent")
    <3>1. c2s' = c2s
      BY <2>2, SendEffect, Messages DEF Start
    <3> QED
      BY <3>1 DEF RequestsFit, Start, serverVars
  <2> QED
    BY <2>1, <2>2
<1>5. RowsFit'
  BY SendEffect, Messages
     DEF RowsFit, InAttempt, Connected, ClientGone, LockStep, Start,
         serverVars
<1> QED
  BY <1>1, <1>2, <1>3, <1>4, <1>5

(* The answer to the registration leaves the connection empty. *)
LEMMA AwaitRegistrationInv ==
    ASSUME IInv, AwaitRegistration
    PROVE  IInv'
<1> USE DEF IInv
<1>1. /\ AttemptsLeft' /\ RequestsFit' /\ Served' /\ SavesOnce'
      /\ SavedIsAccepted' /\ VerifiedIsSaved' /\ RowsFit'
  BY DEF AttemptsLeft, RequestsFit, Served, SavesOnce, SavedIsAccepted,
         VerifiedIsSaved, RowsFit, InAttempt, Connected, ClientGone,
         AwaitRegistration, serverVars
<1>2. TypeOK'
  BY Sizes, ArrivesEffect, HangsUpEffect
     DEF TypeOK, ClientPc, AwaitRegistration, fileVars, serverVars
<1>3. LockStep'
  BY Sizes, ArrivesEffect
     DEF LockStep, OneResponse, Connected, ClientGone, AwaitRegistration,
         serverVars
<1>4. ResponsesFit'
  BY Sizes, ArrivesEffect
     DEF ResponsesFit, InAttempt, ClientGone, AwaitRegistration
<1> QED
  BY <1>1, <1>2, <1>3, <1>4

(* Writing me.info touches neither streams nor handler. *)
LEMMA SaveInfoInv ==
    ASSUME IInv, SaveInfo
    PROVE  IInv'
<1> USE DEF IInv
<1>1. /\ TypeOK' /\ AttemptsLeft' /\ LockStep' /\ RequestsFit'
      /\ ResponsesFit' /\ Served' /\ SavesOnce' /\ SavedIsAccepted'
      /\ VerifiedIsSaved' /\ RowsFit'
  BY DEF TypeOK, AttemptsLeft, LockStep, RequestsFit, ResponsesFit, Served,
         SavesOnce, SavedIsAccepted, VerifiedIsSaved, RowsFit, ClientPc,
         InAttempt, Expects, Connected, ClientGone, SaveInfo, fileVars,
         serverVars, netVars
<1> QED
  BY <1>1

(* The public key goes to a handler that waits for a first or a second     *)
(* request.                                                                *)
LEMMA SendPublicKeyInv ==
    ASSUME IInv, SendPublicKey
    PROVE  IInv'
<1> USE DEF IInv
<1>1. /\ AttemptsLeft' /\ ResponsesFit' /\ Served' /\ SavesOnce'
      /\ SavedIsAccepted' /\ VerifiedIsSaved'
  BY DEF AttemptsLeft, ResponsesFit, Served, SavesOnce, SavedIsAccepted,
         VerifiedIsSaved, InAttempt, Expects, ClientGone, SendPublicKey,
         serverVars
<1>2. TypeOK'
  BY SendEffect, Messages
     DEF TypeOK, ClientPc, SendPublicKey, fileVars, serverVars
<1>3. LockStep'
  BY SendEffect, Messages
     DEF LockStep, OneRequest, Connected, ClientGone, SendPublicKey,
         serverVars
<1>4. RequestsFit'
  <2>0. Send(Request("CLIENT_PUBLIC_KEY", Nothing)) /\ spc' = spc
    BY DEF SendPublicKey, serverVars
  <2>1. CASE Connected
    <3>1. c2s = <<>>
      BY <2>1 DEF LockStep, SendPublicKey
    <3>2. Len(c2s') = 1 /\ Head(c2s').code = "CLIENT_PUBLIC_KEY"
      BY <2>0, <2>1, <3>1, SendEffect, Messages
    <3> QED
      BY <3>2 DEF RequestsFit
  <2>2. CASE ~Connected
    <3>1. c2s' = c2s
      BY <2>0, <2>2, SendEffect, Messages
    <3> QED
      BY <3>1 DEF RequestsFit, SendPublicKey, serverVars
  <2> QED
    BY <2>1, <2>2
<1>5. RowsFit'
  BY SendEffect, Messages
     DEF RowsFit, InAttempt, Connected, ClientGone, LockStep, SendPublicKey,
         serverVars
<1> QED
  BY <1>1, <1>2, <1>3, <1>4, <1>5

(* The AES key leaves the connection empty and the handler waiting for a   *)
(* file.                                                                   *)
LEMMA ReceiveSharedSecretInv ==
    ASSUME IInv, ReceiveSharedSecret
    PROVE  IInv'
<1> USE DEF IInv
<1>1. /\ AttemptsLeft' /\ RequestsFit' /\ Served' /\ SavesOnce'
      /\ SavedIsAccepted' /\ VerifiedIsSaved' /\ RowsFit'
  BY DEF AttemptsLeft, RequestsFit, Served, SavesOnce, SavedIsAccepted,
         VerifiedIsSaved, RowsFit, InAttempt, Connected, ClientGone,
         ReceiveSharedSecret, serverVars
<1>2. TypeOK'
  BY Sizes, ArrivesEffect, HangsUpEffect
     DEF TypeOK, ClientPc, ReceiveSharedSecret, fileVars, serverVars
<1>3. LockStep'
  BY Sizes, ArrivesEffect
     DEF LockStep, OneResponse, Connected, ClientGone, ReceiveSharedSecret,
         serverVars
<1>4. ResponsesFit'
  BY Sizes, ArrivesEffect
     DEF ResponsesFit, InAttempt, ClientGone, ReceiveSharedSecret
<1> QED
  BY <1>1, <1>2, <1>3, <1>4

(* An attempt begins, or is spent on a missing file, without a message. *)
LEMMA BeginAttemptInv ==
    ASSUME IInv, BeginAttempt
    PROVE  IInv'
<1> USE DEF IInv
<1>1. /\ AttemptsLeft' /\ LockStep' /\ RequestsFit' /\ ResponsesFit'
      /\ Served' /\ SavesOnce' /\ SavedIsAccepted' /\ VerifiedIsSaved'
  BY DEF AttemptsLeft, LockStep, RequestsFit, ResponsesFit, Served,
         SavesOnce, SavedIsAccepted, VerifiedIsSaved, InAttempt, Expects,
         Connected, ClientGone, BeginAttempt, RetriesLeft, serverVars,
         netVars
<1>2. TypeOK'
  BY SizeAssumption, BoundAssumption
     DEF TypeOK, ClientPc, BeginAttempt, fileVars, serverVars, netVars,
         RetriesLeft
<1>3. RowsFit'
  <2>1. UNCHANGED <<spc, db, c2s>>
    BY DEF BeginAttempt, serverVars, netVars
  <2>2. attempt' \in {attempt, attempt + 1}
    BY DEF BeginAttempt
  <2>3. Connected' =>
           /\ Connected
           /\ cpc' \notin InAttempt \ {"read"} => db.rows <= attempt'
    BY Counters
       DEF BeginAttempt, RowsFit, Connected, ClientGone, InAttempt,
           serverVars, netVars
  <2> QED
    BY <2>1, <2>2, <2>3, Counters DEF RowsFit
<1> QED
  BY <1>1, <1>2, <1>3

(* The file is the only request in the stream, unless the handler has      *)
(* given up.                                                               *)
LEMMA SendEncryptedFileInv ==
    ASSUME IInv, SendEncryptedFile
    PROVE  IInv'
<1> USE DEF IInv
<1>1. /\ AttemptsLeft' /\ ResponsesFit' /\ Served' /\ SavesOnce'
      /\ SavedIsAccepted' /\ VerifiedIsSaved'
  BY DEF AttemptsLeft, ResponsesFit, Served, SavesOnce, SavedIsAccepted,
         VerifiedIsSaved, InAttempt, Expects, ClientGone, SendEncryptedFile,
         serverVars
<1>2. TypeOK'
  <2>1. c2s' \in Seq(Requests)
    <3>1. CASE clientFile = Nothing
      BY <3>1, Streams DEF SendEncryptedFile
    <3>2. CASE clientFile # Nothing
      <4>1. PICK data \in Buffer(measured, clientFile) :
               Send(Request("CLIENT_ENCRYPTED_FILE", data))
        BY <3>2 DEF SendEncryptedFile
      <4>2. data \in Content
        BY <3>2 DEF Buffer, TypeOK
      <4> QED
        BY <4>1, <4>2, SendEffect, Messages
    <3> QED
      BY <3>1, <3>2
  <2>2. attempt' \in 0 .. MaxRetries
    BY BoundAssumption DEF SendEncryptedFile, TypeOK, AttemptsLeft, InAttempt
  <2> QED
    BY <2>1, <2>2
       DEF TypeOK, SendEncryptedFile, ClientPc, fileVars, serverVars
<1>3. LockStep'
  BY SendEffect, Messages
     DEF LockStep, OneRequest, Connected, ClientGone, TypeOK,
         SendEncryptedFile, serverVars, Buffer
<1>4. RequestsFit'
  <2>0. spc' = spc
    BY DEF SendEncryptedFile, serverVars
  <2>1. CASE c2s' = c2s
    BY <2>1 DEF RequestsFit, SendEncryptedFile, serverVars
  <2>2. CASE spc = "final_ack"
    BY <2>0, <2>2 DEF RequestsFit, Reading
  <2>3. CASE c2s' # c2s /\ spc # "final_ack"
    <3>1. PICK data \in Buffer(measured, clientFile) :
             Send(Request("CLIENT_ENCRYPTED_FILE", data))
      BY <2>3 DEF SendEncryptedFile
    <3>2. data \in Content
      BY <2>3 DEF Buffer, SendEncryptedFile, TypeOK
    <3>3. Connected
      BY <2>3, <3>1, <3>2, SendEffect, Messages
    <3>4. c2s = <<>>
      BY <2>3, <3>3 DEF LockStep, SendEncryptedFile
    <3>5. /\ Len(c2s') = 1
          /\ Head(c2s').code = "CLIENT_ENCRYPTED_FILE"
          /\ Head(c2s').data \in Content
      BY <3>1, <3>2, <3>3, <3>4, SendEffect, Messages
    <3> QED
      BY <3>5 DEF RequestsFit
  <2> QED
    BY <2>1, <2>2, <2>3
<1>5. RowsFit'
  <2>1. UNCHANGED <<spc, db>> /\ attempt' \in {attempt, attempt + 1}
    BY DEF SendEncryptedFile, serverVars
  <2>2. Connected' = Connected
    BY DEF SendEncryptedFile, Connected, ClientGone, serverVars
  <2>3. Connected => db.rows <= attempt /\ db.rows < MaxRetries
    BY Counters DEF SendEncryptedFile, RowsFit, AttemptsLeft, InAttempt
  <2>4. c2s' = c2s \/ Connected
    <3>1. CASE clientFile = Nothing
      BY <3>1 DEF SendEncryptedFile
    <3>2. CASE clientFile # Nothing
      <4>1. PICK data \in Buffer(measured, clientFile) :
               Send(Request("CLIENT_ENCRYPTED_FILE", data))
        BY <3>2 DEF SendEncryptedFile
      <4>2. data \in Content
        BY <3>2 DEF Buffer, TypeOK
      <4> QED
        BY <4>1, <4>2, SendEffect, Messages
    <3> QED
      BY <3>1, <3>2
  <2>5. cpc' = "attempt" \/ (cpc' = "validate" /\ attempt' = attempt)
    BY DEF SendEncryptedFile
  <2> QED
    BY <2>1, <2>2, <2>3, <2>4, <2>5, Counters DEF RowsFit
<1> QED
  BY <1>1, <1>2, <1>3, <1>4, <1>5

(* On a live connection the CRC taken is that of the data the handler      *)
(* holds.                                                                  *)
LEMMA GetServerCalculatedCRCInv ==
    ASSUME IInv, GetServerCalculatedCRC
    PROVE  IInv'
<1> USE DEF IInv
<1>1. /\ AttemptsLeft' /\ RequestsFit' /\ Served' /\ SavesOnce'
      /\ SavedIsAccepted' /\ VerifiedIsSaved' /\ RowsFit'
  BY DEF AttemptsLeft, RequestsFit, Served, SavesOnce, SavedIsAccepted,
         VerifiedIsSaved, RowsFit, Connected, ClientGone,
         GetServerCalculatedCRC, serverVars
<1>2. TypeOK'
  <2>1. s2c' \in Seq(Responses) /\ skew' \in Nat
    BY Sizes, ArrivesEffect, HangsUpEffect DEF GetServerCalculatedCRC, TypeOK
  <2>2. s2c # <<>> => /\ Head(s2c).crc \in Nat
                      /\ PartialCrc(Head(s2c).crc) \subseteq Nat
    BY Streams, CrcAssumption DEF Responses, PartialCrc
  <2>3. serverCrc' \in Nat
    BY <2>2, Sizes, ArrivesEffect DEF GetServerCalculatedCRC
  <2> QED
    BY <2>1, <2>3
       DEF TypeOK, GetServerCalculatedCRC, clientVars, fileVars, serverVars
<1>3. LockStep'
  BY Sizes, ArrivesEffect, HangsUpEffect
     DEF LockStep, OneResponse, Connected, ClientGone,
         GetServerCalculatedCRC, serverVars
<1>4. ResponsesFit'
  <2>1. CASE Arrives(Asked("validate"))
    <3>1. /\ PackedSize(Head(s2c).code) >= 286
          /\ s2c # <<>>
          /\ Head(s2c) = s2c[1]
          /\ Len(s2c) \in Nat \ {0}
      BY <2>1, Sizes, ArrivesEffect, Streams
    <3>2. Head(s2c).code # "REQUEST_RECEIVED"
      BY <3>1, Sizes
    <3>3. Len(s2c) = 1 /\ Head(s2c).code = "LAST_SENT_FILE_CRC"
      BY <3>1, <3>2
         DEF ResponsesFit, Expects, GetServerCalculatedCRC, ClientGone
    <3>4. s2c' = <<>> /\ skew' = 0
      BY <2>1, <3>3, Sizes, ArrivesEffect
    <3> QED
      BY <3>4 DEF ResponsesFit
  <2>2. CASE HangsUp(Asked("validate"))
    BY <2>2, HangsUpEffect
       DEF ResponsesFit, GetServerCalculatedCRC, ClientGone
  <2> QED
    BY <2>1, <2>2 DEF GetServerCalculatedCRC
<1> QED
  BY <1>1, <1>2, <1>3, <1>4

(* Measuring the file touches neither streams nor handler. *)
LEMMA MeasureForCRCInv ==
    ASSUME IInv, MeasureForCRC
    PROVE  IInv'
<1> USE DEF IInv
<1>1. /\ AttemptsLeft' /\ LockStep' /\ RequestsFit' /\ ResponsesFit'
      /\ Served' /\ SavesOnce' /\ SavedIsAccepted' /\ VerifiedIsSaved'
      /\ RowsFit'
  BY DEF AttemptsLeft, LockStep, RequestsFit, ResponsesFit, Served,
         SavesOnce, SavedIsAccepted, VerifiedIsSaved, RowsFit, InAttempt,
         Expects, OneRequest, OneResponse, Connected, ClientGone,
         MeasureForCRC, serverVars, netVars
<1>2. TypeOK'
  BY SizeAssumption
     DEF TypeOK, ClientPc, MeasureForCRC, fileVars, serverVars, netVars
<1> QED
  BY <1>1, <1>2

(* Reading the file touches neither streams nor handler. *)
LEMMA CalculateFileCRCInv ==
    ASSUME IInv, CalculateFileCRC
    PROVE  IInv'
<1> USE DEF IInv
<1>1. /\ AttemptsLeft' /\ LockStep' /\ RequestsFit' /\ ResponsesFit'
      /\ Served' /\ SavesOnce' /\ SavedIsAccepted' /\ VerifiedIsSaved'
      /\ RowsFit'
  BY DEF AttemptsLeft, LockStep, RequestsFit, ResponsesFit, Served,
         SavesOnce, SavedIsAccepted, VerifiedIsSaved, RowsFit, InAttempt,
         Expects, OneRequest, OneResponse, Connected, ClientGone,
         CalculateFileCRC, serverVars, netVars
<1>2. TypeOK'
  BY CrcAssumption
     DEF TypeOK, ClientPc, CalculateFileCRC, fileVars, serverVars, netVars,
         Buffer
<1> QED
  BY <1>1, <1>2

(* A client that is killed by a bad read owes nothing more. *)
LEMMA BadReadInv ==
    ASSUME IInv, BadRead
    PROVE  IInv'
<1> USE DEF IInv
<1>1. /\ TypeOK' /\ AttemptsLeft' /\ LockStep' /\ RequestsFit'
      /\ ResponsesFit' /\ Served' /\ SavesOnce' /\ SavedIsAccepted'
      /\ VerifiedIsSaved' /\ RowsFit'
  BY DEF TypeOK, AttemptsLeft, LockStep, RequestsFit, ResponsesFit, Served,
         SavesOnce, SavedIsAccepted, VerifiedIsSaved, RowsFit, ClientPc,
         InAttempt, Connected, ClientGone, BadRead, fileVars, serverVars,
         netVars
<1> QED
  BY <1>1

(* A confirmation is put on the wire only to a handler that holds data     *)
(* with that CRC.                                                          *)
LEMMA ValidateInv ==
    ASSUME IInv, Validate
    PROVE  IInv'
<1> USE DEF IInv
<1>1. AttemptsLeft' /\ ResponsesFit'
  BY DEF AttemptsLeft, ResponsesFit, InAttempt, ClientGone, Validate
<1>2. TypeOK'
  BY SendEffect, Messages
     DEF TypeOK, ClientPc, Validate, fileVars, serverVars
<1>3. LockStep'
  BY SendEffect, Messages
     DEF LockStep, OneRequest, Connected, ClientGone, Validate, serverVars
<1>4. RequestsFit'
  <2>1. CASE Connected
    <3>1. /\ spc = "await_confirm"
          /\ c2s = <<>>
          /\ sData \in Content
          /\ serverCrc = CrcOf[sData]
      BY <2>1 DEF LockStep, Validate
    <3>2. /\ Len(c2s') = 1
          /\ Head(c2s').code # "CLIENT_ENCRYPTED_FILE"
          /\ Head(c2s').code = "FILE_CRC_SUCCESS" =>
                serverCrc = clientCrc /\ accepted' = clientCrc
      BY <2>1, <3>1, SendEffect, Messages DEF Validate
    <3> QED
      BY <3>1, <3>2 DEF RequestsFit, Validate, serverVars
  <2>2. CASE ~Connected
    <3>1. c2s' = c2s /\ accepted' = accepted
      BY <2>2, SendEffect, Messages DEF Validate
    <3> QED
      BY <3>1 DEF RequestsFit, Validate, serverVars
  <2> QED
    BY <2>1, <2>2
<1>5. Served'
  BY DEF Served, ResponsesFit, ClientGone, Validate
<1>6. SavesOnce'
  BY DEF SavesOnce, LockStep, Validate, serverVars
<1>7. SavedIsAccepted'
  BY ContentAssumption
     DEF SavedIsAccepted, SavesOnce, LockStep, Saved, Acknowledged,
         Validate, serverVars
<1>8. VerifiedIsSaved'
  BY DEF VerifiedIsSaved, SavesOnce, LockStep, Saved, Acknowledged,
         Validate, serverVars
<1>9. RowsFit'
  BY SendEffect, Messages
     DEF RowsFit, InAttempt, LockStep, Validate, serverVars
<1> QED
  BY <1>1, <1>2, <1>3, <1>4, <1>5, <1>6, <1>7, <1>8, <1>9

(* An acknowledged client succeeds; one that hangs up has lost its         *)
(* connection.                                                             *)
LEMMA AwaitAckInv ==
    ASSUME IInv, AwaitAck
    PROVE  IInv'
<1> USE DEF IInv
<1>1. AttemptsLeft' /\ SavesOnce' /\ SavedIsAccepted' /\ VerifiedIsSaved'
  BY DEF AttemptsLeft, SavesOnce, SavedIsAccepted, VerifiedIsSaved,
         InAttempt, AwaitAck, serverVars
<1>2. TypeOK'
  BY Sizes, ArrivesEffect, HangsUpEffect, SendEffect, Messages
     DEF TypeOK, ClientPc, AwaitAck, fileVars, serverVars
<1>3. LockStep'
  BY Sizes, ArrivesEffect, HangsUpEffect
     DEF LockStep, OneResponse, Connected, ClientGone, AwaitAck, serverVars
<1>4. RequestsFit'
  BY Sizes, ArrivesEffect, HangsUpEffect, SendEffect, Messages
     DEF RequestsFit, LockStep, OneResponse, AwaitAck, serverVars
<1>5. ResponsesFit'
  BY Sizes, ArrivesEffect, HangsUpEffect
     DEF ResponsesFit, Expects, ClientGone, AwaitAck
<1>6. Served'
  BY Sizes, ArrivesEffect DEF Served, AwaitAck, serverVars
<1>7. RowsFit'
  <2>1. UNCHANGED <<spc, db, attempt>> /\ Connected' => Connected
    BY DEF AwaitAck, serverVars, Connected, ClientGone
  <2>2. c2s' = c2s
    <3>1. CASE Arrives(Asked("await_ack"))
      <4>1. s2c # <<>> /\ Head(s2c) = s2c[1] /\ Len(s2c) \in Nat \ {0}
        BY <3>1, Sizes, ArrivesEffect, Streams
      <4>2. Head(s2c).code = "REQUEST_RECEIVED"
        BY <4>1 DEF ResponsesFit, Expects, AwaitAck, ClientGone
      <4> QED
        BY <3>1, <4>2, HangsUpEffect, SendEffect, Messages DEF AwaitAck
    <3>2. CASE HangsUp(Asked("await_ack"))
      BY <3>2, HangsUpEffect, SendEffect, Messages DEF AwaitAck
    <3> QED
      BY <3>1, <3>2 DEF AwaitAck
  <2>3. Connected' => cpc' \in InAttempt \ {"read"}
    BY DEF AwaitAck, Connected, ClientGone, InAttempt
  <2> QED
    BY <2>1, <2>2, <2>3 DEF RowsFit, AwaitAck, serverVars
<1> QED
  BY <1>1, <1>2, <1>3, <1>4, <1>5, <1>6, <1>7

(* The answer to a resend takes the last message of the attempt from the   *)
(* stream.                                                                 *)
LEMMA AwaitResendInv ==
    ASSUME IInv, AwaitResend
    PROVE  IInv'
<1> USE DEF IInv
<1>1. /\ AttemptsLeft' /\ RequestsFit' /\ Served' /\ SavesOnce'
      /\ SavedIsAccepted' /\ VerifiedIsSaved'
  BY DEF AttemptsLeft, RequestsFit, Served, SavesOnce, SavedIsAccepted,
         VerifiedIsSaved, InAttempt, AwaitResend, serverVars
<1>2. TypeOK'
  <2>1. s2c' \in Seq(Responses) /\ skew' \in Nat
    BY Sizes, ArrivesEffect, HangsUpEffect DEF AwaitResend, TypeOK
  <2>2. attempt' \in 0 .. MaxRetries
    BY BoundAssumption DEF AwaitResend, TypeOK, AttemptsLeft, InAttempt
  <2> QED
    BY <2>1, <2>2 DEF TypeOK, AwaitResend, ClientPc, fileVars, serverVars
<1>3. LockStep'
  BY Sizes, ArrivesEffect, HangsUpEffect
     DEF LockStep, OneResponse, Connected, ClientGone, AwaitResend,
         serverVars
<1>4. ResponsesFit'
  <2>1. CASE Arrives(Asked("await_resend"))
    <3>1. /\ s2c # <<>>
          /\ Len(s2c') = Len(s2c) - 1
          /\ \A i \in 1 .. Len(s2c') : s2c'[i] = s2c[i + 1]
          /\ s2c' \in Seq(Responses)
          /\ skew' = PackedSize(Head(s2c).code) - 7
      BY <2>1, Sizes, ArrivesEffect
    <3>2. /\ Head(s2c).code = "REQUEST_RECEIVED"
          /\ \/ Len(s2c) = 1
             \/ /\ socket = "closed"
                /\ \A i \in 1 .. Len(s2c) : s2c[i].code = "REQUEST_RECEIVED"
      BY <3>1, Streams DEF ResponsesFit, Expects, AwaitResend, ClientGone
    <3>3. skew' = 0
      BY <3>1, <3>2, Sizes
    <3>4. CASE Len(s2c) = 1
      <4>1. s2c' = <<>>
        BY <2>1, <3>4, Sizes, ArrivesEffect
      <4> QED
        BY <3>3, <4>1 DEF ResponsesFit
    <3>5. CASE Len(s2c) # 1
      <4>1. \A i \in 1 .. Len(s2c') : s2c'[i].code = "REQUEST_RECEIVED"
        BY <3>1, <3>2, <3>5, Streams
      <4> QED
        BY <3>2, <3>3, <3>5, <4>1 DEF ResponsesFit, AwaitResend, serverVars
    <3> QED
      BY <3>4, <3>5
  <2>2. CASE HangsUp(Asked("await_resend"))
    BY <2>2, HangsUpEffect DEF ResponsesFit, AwaitResend, ClientGone
  <2> QED
    BY <2>1, <2>2 DEF AwaitResend
<1>5. RowsFit'
  <2>1. UNCHANGED <<spc, db, c2s>>
    BY DEF AwaitResend, serverVars, netVars
  <2>2. attempt' \in {attempt, attempt + 1}
    BY DEF AwaitResend
  <2>3. Connected' =>
           /\ Connected
           /\ cpc' \notin InAttempt \ {"read"} => db.rows <= attempt'
    BY Counters
       DEF AwaitResend, RowsFit, Connected, ClientGone, InAttempt, serverVars
  <2> QED
    BY <2>1, <2>2, <2>3, Counters DEF RowsFit
<1> QED
  BY <1>1, <1>2, <1>3, <1>4, <1>5

(* The last message finds the stream of responses empty. *)
LEMMA FinishInv ==
    ASSUME IInv, Finish
    PROVE  IInv'
<1> USE DEF IInv
<1>1. /\ AttemptsLeft' /\ ResponsesFit' /\ Served' /\ SavesOnce'
      /\ SavedIsAccepted' /\ VerifiedIsSaved'
  BY DEF AttemptsLeft, ResponsesFit, Served, SavesOnce, SavedIsAccepted,
         VerifiedIsSaved, InAttempt, Expects, ClientGone, Finish, serverVars
<1>2. TypeOK'
  BY SendEffect, Messages
     DEF TypeOK, ClientPc, Finish, fileVars, serverVars
<1>3. LockStep'
  BY SendEffect, Messages
     DEF LockStep, OneRequest, Connected, ClientGone, Finish, serverVars
<1>4. RequestsFit'
  <2>0. Send(Request("FILE_CRC_FAILED_FINISHED", Nothing)) /\ spc' = spc
    BY DEF Finish, serverVars
  <2>1. CASE ~Connected
    <3>1. c2s' = c2s
      BY <2>0, <2>1, SendEffect, Messages
    <3> QED
      BY <3>1 DEF RequestsFit, Finish, serverVars
  <2>2. CASE spc = "final_ack"
    BY <2>0, <2>2 DEF RequestsFit, Reading
  <2>3. CASE Connected /\ spc # "final_ack"
    <3>1. c2s = <<>>
      BY <2>3 DEF LockStep, Finish
    <3>2. Len(c2s') = 1 /\ Head(c2s').code = "FILE_CRC_FAILED_FINISHED"
      BY <2>0, <2>3, <3>1, SendEffect, Messages
    <3> QED
      BY <3>2 DEF RequestsFit
  <2> QED
    BY <2>1, <2>2, <2>3
<1>5. RowsFit'
  BY SendEffect, Messages
     DEF RowsFit, InAttempt, Reading, Connected, ClientGone, LockStep,
         Finish, serverVars
<1> QED
  BY <1>1, <1>2, <1>3, <1>4, <1>5

(* The client ends. *)
LEMMA AwaitFinalInv ==
    ASSUME IInv, AwaitFinal
    PROVE  IInv'
<1> USE DEF IInv
<1>1. /\ AttemptsLeft' /\ LockStep' /\ RequestsFit' /\ ResponsesFit'
      /\ Served' /\ SavesOnce' /\ SavedIsAccepted' /\ VerifiedIsSaved'
      /\ RowsFit'
  BY DEF AttemptsLeft, LockStep, RequestsFit, ResponsesFit, Served,
         SavesOnce, SavedIsAccepted, VerifiedIsSaved, RowsFit, InAttempt,
         Connected, ClientGone, AwaitFinal, serverVars
<1>2. TypeOK'
  BY Sizes, ArrivesEffect, HangsUpEffect
     DEF TypeOK, ClientPc, AwaitFinal, fileVars, serverVars
<1> QED
  BY <1>1, <1>2

-----------------------------------------------------------------------------
(* The actions of the handler keep it. *)

(* The registration is answered when nothing else is on the wire. *)
LEMMA RegisterClientInv ==
    ASSUME IInv, RegisterClient
    PROVE  IInv'
<1> USE DEF IInv
<1>1. AttemptsLeft' /\ SavedIsAccepted'
  BY DEF AttemptsLeft, SavedIsAccepted, RegisterClient, clientVars
<1>2. TypeOK'
  <2>1. db' \in DbStates
    BY DbUpdates DEF RegisterClient, TypeOK
  <2>2. c2s' \in Seq(Requests) /\ s2c' \in Seq(Responses)
    BY SeesEffect, ReplyEffect, Messages, Streams, CrcAssumption
       DEF RegisterClient, TypeOK, Requests
  <2>3. spc' \in HandlerPc /\ socket' \in {"open", "closed"}
    BY DEF RegisterClient, Stop, HandlerPc, TypeOK
  <2>4. UNCHANGED <<clientVars, fileVars, sData, disk, linkUp, skew, accepted>>
    BY DEF RegisterClient
  <2> QED
    BY <2>1, <2>2, <2>3, <2>4 DEF TypeOK, clientVars, fileVars
<1>3. LockStep'
  BY SeesEffect, ReplyEffect, Messages
     DEF LockStep, SavesOnce, Reading, Saved, Acknowledged, OneRequest,
         OneResponse, Connected, ClientGone, Unset, TypeOK, InAttempt,
         RegisterClient, clientVars, fileVars, serverVars, netVars, Stop
<1>4. RequestsFit'
  BY SeesEffect DEF RequestsFit, Reading, RegisterClient
<1>5. ResponsesFit'
  <2>1. CASE s2c' = s2c
    BY <2>1
       DEF ResponsesFit, Expects, ClientGone, RegisterClient, Stop, clientVars
  <2>2. CASE s2c' # s2c
    <3>1. PICK code \in {"REGISTRATION_SUCCESS", "REGISTRATION_FAILED"} :
             Reply(Response(code, 0))
      BY <2>2 DEF RegisterClient
    <3>2. Connected
      BY <2>2, <3>1, ReplyEffect, Messages
    <3>3. c2s # <<>> /\ Head(c2s).code = "CLIENT_REGISTRATION"
      BY SeesEffect DEF RegisterClient
    <3>4. cpc = "await_registration" /\ s2c = <<>>
      BY <3>2, <3>3, HandlerView DEF Reading, RegisterClient
    <3>5. Len(s2c') = 1 /\ Head(s2c').code = code
      BY <3>1, <3>2, <3>4, ReplyEffect, Messages, Streams
    <3> QED
      BY <3>4, <3>5
         DEF ResponsesFit, Expects, ClientGone, RegisterClient, clientVars
  <2> QED
    BY <2>1, <2>2
<1>6. Served'
  BY ReplyEffect, Messages
     DEF Served, LockStep, Acknowledged, RegisterClient, clientVars
<1>7. SavesOnce'
  <2>1. db'.verified = db.verified
    BY DbUpdates DEF RegisterClient
  <2>2. spc = "first" /\ spc' \in {"await_key", "stopped"} /\ disk' = disk
    BY DEF RegisterClient, Stop
  <2> QED
    BY <2>1, <2>2 DEF SavesOnce, Saved, Acknowledged
<1>8. VerifiedIsSaved'
  <2>1. db'.verified = db.verified
    BY DbUpdates DEF RegisterClient
  <2>2. disk' = disk /\ accepted' = accepted
    BY DEF RegisterClient
  <2> QED
    BY <2>1, <2>2 DEF VerifiedIsSaved
<1>9. RowsFit'
  <2>1. db'.rows = db.rows /\ db'.verified = db.verified
    BY DbUpdates DEF RegisterClient
  <2>2. c2s' = <<>> \/ c2s' = c2s
    BY Streams, SeesEffect DEF RegisterClient, RequestsFit, Reading
  <2> QED
    BY <2>1, <2>2
       DEF RowsFit, RegisterClient, Stop, Reading, Connected, ClientGone,
           clientVars, InAttempt
<1> QED
  BY <1>1, <1>2, <1>3, <1>4, <1>5, <1>6, <1>7, <1>8, <1>9

(* The public key is answered when nothing else is on the wire. *)
LEMMA SendAesKeyInv ==
    ASSUME IInv, SendAesKey
    PROVE  IInv'
<1> USE DEF IInv
<1>1. AttemptsLeft' /\ SavedIsAccepted'
  BY DEF AttemptsLeft, SavedIsAccepted, SendAesKey, clientVars
<1>2. TypeOK'
  <2>1. db' \in DbStates
    BY DbUpdates DEF SendAesKey, TypeOK
  <2>2. c2s' \in Seq(Requests) /\ s2c' \in Seq(Responses)
    BY SeesEffect, ReplyEffect, Messages, Streams, CrcAssumption
       DEF SendAesKey, TypeOK, Requests
  <2>3. spc' \in HandlerPc /\ socket' \in {"open", "closed"}
    BY DEF SendAesKey, Stop, HandlerPc, TypeOK
  <2>4. UNCHANGED <<clientVars, fileVars, sData, disk, linkUp, skew, accepted>>
    BY DEF SendAesKey
  <2> QED
    BY <2>1, <2>2, <2>3, <2>4 DEF TypeOK, clientVars, fileVars
<1>3. LockStep'
  BY SeesEffect, ReplyEffect, Messages
     DEF LockStep, Acknowledged, OneRequest, OneResponse, Connected,
         ClientGone, Unset, TypeOK, SendAesKey, clientVars, Stop
<1>4. RequestsFit'
  BY SeesEffect DEF RequestsFit, Reading, SendAesKey
<1>5. ResponsesFit'
  <2>1. CASE s2c' = s2c
    BY <2>1
       DEF ResponsesFit, Expects, ClientGone, SendAesKey, Stop, clientVars
  <2>2. CASE s2c' # s2c
    <3>1. Reply(Response("CLIENT_AES_KEY", 0))
      BY <2>2 DEF SendAesKey
    <3>2. Connected
      BY <2>2, <3>1, ReplyEffect, Messages
    <3>3. c2s # <<>> /\ Head(c2s).code = "CLIENT_PUBLIC_KEY"
      BY SeesEffect DEF SendAesKey
    <3>4. cpc = "await_key" /\ s2c = <<>>
      BY <3>2, <3>3, HandlerView DEF Reading, SendAesKey
    <3>5. Len(s2c') = 1 /\ Head(s2c').code = "CLIENT_AES_KEY"
      BY <3>1, <3>2, <3>4, ReplyEffect, Messages, Streams
    <3> QED
      BY <3>4, <3>5
         DEF ResponsesFit, Expects, ClientGone, SendAesKey, clientVars
  <2> QED
    BY <2>1, <2>2
<1>6. Served'
  BY ReplyEffect, Messages
     DEF Served, LockStep, Acknowledged, SendAesKey, clientVars
<1>7. SavesOnce'
  <2>1. db'.verified = db.verified
    BY DbUpdates DEF SendAesKey
  <2>2. /\ spc \in {"first", "await_key"}
        /\ spc' \in {"await_file", "stopped"}
        /\ disk' = disk
    BY DEF SendAesKey, Stop
  <2> QED
    BY <2>1, <2>2 DEF SavesOnce, Saved, Acknowledged
<1>8. VerifiedIsSaved'
  <2>1. db'.verified = db.verified
    BY DbUpdates DEF SendAesKey
  <2>2. disk' = disk /\ accepted' = accepted
    BY DEF SendAesKey
  <2> QED
    BY <2>1, <2>2 DEF VerifiedIsSaved
<1>9. RowsFit'
  <2>1. db'.rows = db.rows /\ db'.verified = db.verified
    BY DbUpdates DEF SendAesKey
  <2>2. c2s' = <<>> \/ c2s' = c2s
    BY Streams, SeesEffect DEF SendAesKey, RequestsFit, Reading
  <2> QED
    BY <2>1, <2>2
       DEF RowsFit, SendAesKey, Stop, Reading, Connected, ClientGone,
           clientVars, InAttempt
<1> QED
  BY <1>1, <1>2, <1>3, <1>4, <1>5, <1>6, <1>7, <1>8, <1>9

(* A handler that rejects a request closes the connection. *)
LEMMA RejectFirstInv ==
    ASSUME IInv, RejectFirst
    PROVE  IInv'
<1> USE DEF IInv
<1>1. /\ AttemptsLeft' /\ LockStep' /\ RequestsFit' /\ ResponsesFit'
      /\ Served' /\ SavesOnce' /\ SavedIsAccepted' /\ VerifiedIsSaved'
      /\ RowsFit'
  BY DEF AttemptsLeft, LockStep, RequestsFit, ResponsesFit, Served,
         SavesOnce, SavedIsAccepted, VerifiedIsSaved, RowsFit, Reading,
         Acknowledged, Saved, Expects, Connected, ClientGone, RejectFirst,
         Stop, clientVars
<1>2. TypeOK'
  BY SeesEffect
     DEF TypeOK, HandlerPc, RejectFirst, Stop, clientVars, fileVars
<1> QED
  BY <1>1, <1>2

(* The handler holds the new data when its CRC goes out, and has a row for *)
(* it.                                                                     *)
LEMMA ReceiveEncryptedFileInv ==
    ASSUME IInv, ReceiveEncryptedFile
    PROVE  IInv'
<1> USE DEF IInv
<1>1. AttemptsLeft' /\ SavedIsAccepted'
  BY DEF AttemptsLeft, SavedIsAccepted, ReceiveEncryptedFile, clientVars
<1>2. TypeOK'
  <2>1. c2s # <<>> /\ Head(c2s).data \in Content /\ c2s' \in Seq(Requests)
    BY SeesEffect DEF ReceiveEncryptedFile, RequestsFit, Reading
  <2>2. db' \in DbStates
    BY DbUpdates DEF ReceiveEncryptedFile, TypeOK
  <2>3. CrcOf[Head(c2s).data] \in Nat
    BY <2>1, CrcAssumption
  <2>4. s2c' \in Seq(Responses)
    BY <2>3, ReplyEffect, Messages, Streams DEF ReceiveEncryptedFile
  <2>5. spc' \in HandlerPc /\ sData' \in Content \cup {Nothing}
    BY <2>1 DEF ReceiveEncryptedFile, HandlerPc, TypeOK
  <2>6. UNCHANGED <<clientVars, fileVars, socket, disk, linkUp, skew, accepted>>
    BY DEF ReceiveEncryptedFile
  <2> QED
    BY <2>1, <2>2, <2>4, <2>5, <2>6 DEF TypeOK, clientVars, fileVars
<1>3. LockStep'
  BY Streams, SeesEffect, ReplyEffect, Messages, CrcAssumption
     DEF LockStep, RequestsFit, Reading, Acknowledged, OneRequest,
         OneResponse, Connected, ClientGone, ReceiveEncryptedFile,
         clientVars
<1>4. RequestsFit'
  BY SeesEffect DEF RequestsFit, Reading, ReceiveEncryptedFile
<1>5. ResponsesFit'
  <2>1. CASE s2c' = s2c
    BY <2>1
       DEF ResponsesFit, Expects, ClientGone, ReceiveEncryptedFile, clientVars
  <2>2. CASE s2c' # s2c
    <3>1. c2s # <<>> /\ Head(c2s).code = "CLIENT_ENCRYPTED_FILE"
      BY SeesEffect DEF ReceiveEncryptedFile
    <3>2. PICK crc \in Nat : Reply(Response("LAST_SENT_FILE_CRC", crc))
      BY <2>2, <3>1, CrcAssumption
         DEF ReceiveEncryptedFile, RequestsFit, Reading
    <3>3. Connected
      BY <2>2, <3>2, ReplyEffect, Messages
    <3>4. /\ cpc \in {"validate", "crc_read"}
          /\ serverCrc = Unset
          /\ s2c = <<>>
      BY <3>1, <3>3, HandlerView DEF Reading, ReceiveEncryptedFile
    <3>5. Len(s2c') = 1 /\ Head(s2c').code = "LAST_SENT_FILE_CRC"
      BY <3>2, <3>3, <3>4, ReplyEffect, Messages, Streams
    <3> QED
      BY <3>4, <3>5
         DEF ResponsesFit, Expects, ClientGone, ReceiveEncryptedFile,
             clientVars
  <2> QED
    BY <2>1, <2>2
<1>6. Served'
  BY SeesEffect, ReplyEffect, Messages, CrcAssumption
     DEF Served, LockStep, RequestsFit, Reading, Acknowledged,
         ReceiveEncryptedFile, clientVars
<1>7. SavesOnce'
  <2>1. db'.verified = db.verified
    BY DbUpdates DEF ReceiveEncryptedFile
  <2>2. /\ spc = "await_file"
        /\ spc' \in {"await_confirm", "final_ack"}
        /\ disk' = disk
    BY DEF ReceiveEncryptedFile, Stop
  <2> QED
    BY <2>1, <2>2 DEF SavesOnce, Saved, Acknowledged
<1>8. VerifiedIsSaved'
  <2>1. db'.verified = db.verified
    BY DbUpdates DEF ReceiveEncryptedFile
  <2>2. disk' = disk /\ accepted' = accepted
    BY DEF ReceiveEncryptedFile
  <2> QED
    BY <2>1, <2>2 DEF VerifiedIsSaved
<1>9. RowsFit'
  <2>1. /\ db'.rows \in {db.rows, db.rows + 1}
        /\ db'.verified = db.verified
        /\ spc' = "await_confirm" => db'.rows = db.rows + 1
    BY DbUpdates DEF ReceiveEncryptedFile
  <2>2. c2s # <<>> /\ Head(c2s).code = "CLIENT_ENCRYPTED_FILE" /\ c2s' = <<>>
    BY Streams, SeesEffect DEF ReceiveEncryptedFile, RequestsFit, Reading
  <2>3. db.rows <= attempt /\ db.rows < MaxRetries
    BY <2>2 DEF RowsFit, Reading, ReceiveEncryptedFile
  <2>4. Connected => cpc \in {"validate", "crc_read"}
    BY <2>2, HandlerView DEF Reading, ReceiveEncryptedFile
  <2>5. Connected' = Connected /\ UNCHANGED <<attempt, cpc>>
    BY DEF ReceiveEncryptedFile, Connected, ClientGone, clientVars
  <2>6. db.rows \in Nat /\ attempt \in Nat /\ MaxRetries \in Nat
    BY BoundAssumption DEF TypeOK, DbStates
  <2>7. spc' \in {"await_confirm", "final_ack"} /\ ~db.verified
    BY DEF ReceiveEncryptedFile, SavesOnce, Saved, Acknowledged
  <2> QED
    BY <2>1, <2>2, <2>3, <2>4, <2>5, <2>6, <2>7 DEF RowsFit, InAttempt
<1> QED
  BY <1>1, <1>2, <1>3, <1>4, <1>5, <1>6, <1>7, <1>8, <1>9

(* A request that is not a file leaves the handler waiting or giving up. *)
LEMMA SkipFileInv ==
    ASSUME IInv, SkipFile
    PROVE  IInv'
<1> USE DEF IInv
<1>1. /\ AttemptsLeft' /\ ResponsesFit' /\ Served' /\ SavesOnce'
      /\ SavedIsAccepted' /\ VerifiedIsSaved'
  BY DEF AttemptsLeft, ResponsesFit, Served, SavesOnce, SavedIsAccepted,
         VerifiedIsSaved, Acknowledged, Saved, Expects, ClientGone,
         SkipFile, After, clientVars
<1>2. TypeOK'
  BY SeesEffect
     DEF TypeOK, HandlerPc, SkipFile, After, clientVars, fileVars
<1>3. LockStep'
  BY SeesEffect
     DEF LockStep, Acknowledged, OneRequest, Connected, ClientGone,
         SkipFile, clientVars, After
<1>4. RequestsFit'
  BY SeesEffect DEF RequestsFit, Reading, SkipFile
<1>5. RowsFit'
  BY SeesEffect
     DEF RowsFit, Reading, Connected, ClientGone, RequestsFit, SkipFile,
         clientVars, After
<1> QED
  BY <1>1, <1>2, <1>3, <1>4, <1>5

(* A confirmation is acknowledged by a handler that holds what was         *)
(* confirmed.                                                              *)
LEMMA ReceiveConfirmationInv ==
    ASSUME IInv, ReceiveConfirmation
    PROVE  IInv'
<1> USE DEF IInv
<1>1. AttemptsLeft' /\ SavedIsAccepted' /\ VerifiedIsSaved'
  BY DEF AttemptsLeft, SavedIsAccepted, VerifiedIsSaved,
         ReceiveConfirmation, clientVars
<1>2. TypeOK'
  BY SeesEffect, ReplyEffect, Messages
     DEF TypeOK, HandlerPc, ReceiveConfirmation, After, AfterConfirmation,
         clientVars, fileVars
<1>3. LockStep'
  BY SeesEffect, ReplyEffect, Messages
     DEF LockStep, Acknowledged, OneRequest, OneResponse, Connected,
         ClientGone, TypeOK, ReceiveConfirmation, clientVars, After,
         AfterConfirmation
<1>4. RequestsFit'
  BY SeesEffect
     DEF RequestsFit, Reading, ReceiveConfirmation, After, AfterConfirmation
<1>5. ResponsesFit'
  <2>1. CASE s2c' = s2c
    BY <2>1
       DEF ResponsesFit, Expects, ClientGone, ReceiveConfirmation, clientVars
  <2>2. CASE s2c' # s2c
    <3>1. Reply(Response("REQUEST_RECEIVED", 0))
      BY <2>2 DEF ReceiveConfirmation
    <3>2. Connected
      BY <2>2, <3>1, ReplyEffect, Messages
    <3>3. c2s # <<>>
      BY <3>2, SeesEffect DEF ReceiveConfirmation
    <3>4. cpc \in {"await_ack", "await_resend"} /\ s2c = <<>>
      BY <3>2, <3>3 DEF LockStep, ReceiveConfirmation, Connected, ClientGone,
                        Acknowledged, ClientPc, TypeOK
    <3>5. Len(s2c') = 1 /\ Head(s2c').code = "REQUEST_RECEIVED"
      BY <3>1, <3>2, <3>4, ReplyEffect, Messages, Streams
    <3> QED
      BY <3>4, <3>5
         DEF ResponsesFit, Expects, ClientGone, ReceiveConfirmation,
             clientVars
  <2> QED
    BY <2>1, <2>2
<1>6. Served'
  BY SeesEffect, ReplyEffect, Messages
     DEF Served, LockStep, RequestsFit, Reading, Acknowledged, OneRequest,
         ReceiveConfirmation, clientVars, After, AfterConfirmation
<1>7. SavesOnce'
  BY SeesEffect
     DEF SavesOnce, Reading, RequestsFit, Saved, Acknowledged,
         ReceiveConfirmation, After, AfterConfirmation
<1>8. RowsFit'
  BY SeesEffect
     DEF RowsFit, Reading, Connected, ClientGone, RequestsFit,
         ReceiveConfirmation, clientVars
<1> QED
  BY <1>1, <1>2, <1>3, <1>4, <1>5, <1>6, <1>7, <1>8

(* What is saved is what was confirmed, and it is saved once. *)
LEMMA SaveFileInv ==
    ASSUME IInv, SaveFile
    PROVE  IInv'
<1> USE DEF IInv
<1>1. /\ TypeOK' /\ AttemptsLeft' /\ LockStep' /\ RequestsFit'
      /\ ResponsesFit' /\ Served' /\ SavesOnce' /\ RowsFit'
  BY DEF TypeOK, AttemptsLeft, LockStep, RequestsFit, ResponsesFit, Served,
         SavesOnce, RowsFit, HandlerPc, Reading, Acknowledged, Saved,
         Expects, OneResponse, Connected, ClientGone, SaveFile, After,
         clientVars, fileVars, netVars
<1>2. SavedIsAccepted'
  BY ContentAssumption DEF SavedIsAccepted, SavesOnce, SaveFile
<1>3. VerifiedIsSaved'
  BY DEF VerifiedIsSaved, SavesOnce, Saved, SaveFile
<1> QED
  BY <1>1, <1>2, <1>3

(* The row is marked after the save. *)
LEMMA SetFileVerifiedInv ==
    ASSUME IInv, SetFileVerified
    PROVE  IInv'
<1> USE DEF IInv
<1>1. /\ AttemptsLeft' /\ LockStep' /\ RequestsFit' /\ ResponsesFit'
      /\ Served' /\ SavesOnce' /\ SavedIsAccepted'
  BY DEF AttemptsLeft, LockStep, RequestsFit, ResponsesFit, Served,
         SavesOnce, SavedIsAccepted, Reading, Acknowledged, Saved, Expects,
         OneResponse, Connected, ClientGone, SetFileVerified, After,
         clientVars, netVars
<1>2. TypeOK'
  <2>1. db' \in DbStates
    BY DbUpdates DEF SetFileVerified, TypeOK
  <2>2. spc' \in HandlerPc
    BY DEF SetFileVerified, After, HandlerPc
  <2>3. UNCHANGED <<clientVars, fileVars, socket, sData, disk, netVars, accepted>>
    BY DEF SetFileVerified
  <2> QED
    BY <2>1, <2>2, <2>3 DEF TypeOK, clientVars, fileVars, netVars
<1>3. VerifiedIsSaved'
  BY DEF VerifiedIsSaved, SavesOnce, SetFileVerified
<1>4. RowsFit'
  <2>1. db'.rows = db.rows /\ db.rows >= 1
    BY DbUpdates DEF SetFileVerified, RowsFit
  <2>2. spc' \notin Reading /\ Connected' = Connected /\ UNCHANGED clientVars
    BY DEF SetFileVerified, After, Reading, Connected, ClientGone, clientVars,
           netVars
  <2> QED
    BY <2>1, <2>2 DEF RowsFit, clientVars
<1> QED
  BY <1>1, <1>2, <1>3, <1>4

(* The last acknowledgement is sent as the connection closes. *)
LEMMA FinalAckInv ==
    ASSUME IInv, FinalAck
    PROVE  IInv'
<1> USE DEF IInv
<1>1. /\ AttemptsLeft' /\ LockStep' /\ RequestsFit' /\ SavesOnce'
      /\ SavedIsAccepted' /\ VerifiedIsSaved' /\ RowsFit'
  BY DEF AttemptsLeft, LockStep, RequestsFit, SavesOnce, SavedIsAccepted,
         VerifiedIsSaved, RowsFit, Reading, Acknowledged, Saved, Connected,
         FinalAck, Stop, clientVars
<1>2. TypeOK'
  BY ReplyEffect, Messages
     DEF TypeOK, HandlerPc, FinalAck, Stop, clientVars, fileVars
<1>3. ResponsesFit'
  <2>1. CASE s2c' = s2c
    BY <2>1 DEF ResponsesFit, Expects, ClientGone, FinalAck, Stop, clientVars
  <2>2. CASE s2c' # s2c
    <3>1. Reply(Response("REQUEST_RECEIVED", 0))
      BY DEF FinalAck
    <3>2. Connected
      BY <2>2, <3>1, ReplyEffect, Messages
    <3>3. /\ cpc \in {"attempt", "await_final"} \cup InAttempt
          /\ s2c = <<>> \/ OneResponse("REQUEST_RECEIVED")
          /\ cpc \in {"validate", "crc_read"} => serverCrc = Unset
      BY <3>2 DEF LockStep, FinalAck, Connected, ClientGone, ClientPc, TypeOK,
                  InAttempt
    <3>4. \A i \in 1 .. Len(s2c') : s2c'[i].code = "REQUEST_RECEIVED"
      BY <3>1, <3>2, <3>3, ReplyEffect, Messages, Streams DEF OneResponse
    <3>5. UNCHANGED <<cpc, serverCrc, skew>> /\ socket' = "closed"
      BY DEF FinalAck, Stop, clientVars
    <3> QED
      BY <3>3, <3>4, <3>5 DEF ResponsesFit, ClientGone
  <2> QED
    BY <2>1, <2>2
<1>4. Served'
  BY ReplyEffect, Messages
     DEF Served, LockStep, Acknowledged, OneResponse, FinalAck, clientVars,
         Stop
<1> QED
  BY <1>1, <1>2, <1>3, <1>4

-----------------------------------------------------------------------------
(* The events outside the two programs keep it. *)

(* The user's file is not part of the invariant. *)
LEMMA TouchFileInv ==
    ASSUME IInv, TouchFile
    PROVE  IInv'
<1> USE DEF IInv
<1>1. /\ AttemptsLeft' /\ LockStep' /\ RequestsFit' /\ ResponsesFit'
      /\ Served' /\ SavesOnce' /\ SavedIsAccepted' /\ VerifiedIsSaved'
      /\ RowsFit'
  BY DEF AttemptsLeft, LockStep, RequestsFit, ResponsesFit, Served,
         SavesOnce, SavedIsAccepted, VerifiedIsSaved, RowsFit, Expects,
         OneRequest, OneResponse, Connected, TouchFile, clientVars,
         serverVars, netVars
<1>2. TypeOK'
  BY BoundAssumption DEF TypeOK, TouchFile, clientVars, serverVars, netVars
<1> QED
  BY <1>1, <1>2

(* A lost connection discharges LockStep; streams that are cut or emptied  *)
(* keep the rest.                                                          *)
LEMMA LinkDownInv ==
    ASSUME IInv, LinkDown
    PROVE  IInv'
<1> USE DEF IInv
<1>1. /\ AttemptsLeft' /\ LockStep' /\ SavesOnce' /\ SavedIsAccepted'
      /\ VerifiedIsSaved'
  BY DEF AttemptsLeft, LockStep, SavesOnce, SavedIsAccepted,
         VerifiedIsSaved, Connected, LinkDown, clientVars, serverVars
<1>2. TypeOK'
  <2>1. c2s' \in Seq(Requests) /\ s2c' \in Seq(Responses)
    <3>1. <<>> \in Seq(Requests) /\ <<>> \in Seq(Responses)
      BY EmptySeq
    <3> QED
      BY <3>1, Streams, CutRequest, CutResponse DEF LinkDown
  <2> QED
    BY <2>1 DEF TypeOK, LinkDown, clientVars, fileVars, serverVars
<1>3. RequestsFit'
  BY Streams, CutRequest DEF RequestsFit, LinkDown, serverVars
<1>4. ResponsesFit'
  BY CutResponse
     DEF ResponsesFit, Expects, ClientGone, TypeOK, LinkDown, clientVars,
         serverVars
<1>5. Served'
  BY CutResponse DEF Served, LinkDown, clientVars, serverVars, TypeOK
<1>6. RowsFit'
  BY CutRequest
     DEF RowsFit, LinkDown, clientVars, serverVars, TypeOK, Connected
<1> QED
  BY <1>1, <1>2, <1>3, <1>4, <1>5, <1>6

(* A client that dies discharges what is said of a live one. *)
LEMMA ClientCrashInv ==
    ASSUME IInv, ClientCrash
    PROVE  IInv'
<1> USE DEF IInv
<1>1. /\ AttemptsLeft' /\ LockStep' /\ ResponsesFit' /\ Served' /\ SavesOnce'
      /\ SavedIsAccepted' /\ VerifiedIsSaved'
  BY DEF AttemptsLeft, LockStep, ResponsesFit, Served, SavesOnce,
         SavedIsAccepted, VerifiedIsSaved, InAttempt, Connected, ClientGone,
         ClientCrash, serverVars
<1>2. TypeOK'
  BY CutRequest DEF TypeOK, ClientPc, ClientCrash, fileVars, serverVars
<1>3. RequestsFit'
  BY Streams, CutRequest DEF RequestsFit, ClientCrash, serverVars
<1>4. RowsFit'
  BY CutRequest
     DEF RowsFit, ClientCrash, serverVars, TypeOK, Connected, ClientGone
<1> QED
  BY <1>1, <1>2, <1>3, <1>4

(* A server that dies closes the connection and has no rows; a torn file   *)
(* is no content.                                                          *)
LEMMA ServerCrashInv ==
    ASSUME IInv, ServerCrash
    PROVE  IInv'
<1> USE DEF IInv
<1>1. /\ AttemptsLeft' /\ LockStep' /\ RequestsFit' /\ ResponsesFit'
      /\ Served' /\ SavesOnce'
  BY DEF AttemptsLeft, LockStep, RequestsFit, ResponsesFit, Served,
         SavesOnce, Reading, Acknowledged, Saved, Expects, Connected,
         ClientGone, ServerCrash, clientVars, netVars
<1>2. TypeOK'
  <2>1. db' \in DbStates
    BY DbUpdates DEF ServerCrash
  <2>2. disk' \in Content \cup {Nothing, Torn}
    BY DEF ServerCrash, TypeOK
  <2>3. spc' \in HandlerPc /\ socket' \in {"open", "closed"}
    BY DEF ServerCrash, HandlerPc
  <2>4. UNCHANGED <<clientVars, fileVars, sData, netVars, accepted>>
    BY DEF ServerCrash
  <2> QED
    BY <2>1, <2>2, <2>3, <2>4 DEF TypeOK, clientVars, fileVars, netVars
<1>3. SavedIsAccepted'
  BY ContentAssumption DEF SavedIsAccepted, ServerCrash
<1>4. VerifiedIsSaved'
  BY DbUpdates DEF VerifiedIsSaved, ServerCrash
<1>5. RowsFit'
  <2>1. db'.rows = 0 /\ ~db'.verified
    BY DbUpdates DEF ServerCrash
  <2>2. spc' = "crashed" /\ ~Connected'
    BY DEF ServerCrash, Connected
  <2>3. ~(spc' \in {"await_confirm", "saving", "verifying"} \/ db'.verified)
    BY <2>1, <2>2
  <2>4. 0 <= attempt' + 1 /\ 0 <= MaxRetries
    BY Counters DEF ServerCrash, clientVars
  <2>5. spc' \notin Reading
    BY <2>2 DEF Reading
  <2> QED
    BY <2>1, <2>2, <2>3, <2>4, <2>5, Zenon DEF RowsFit
<1> QED
  BY <1>1, <1>2, <1>3, <1>4, <1>5

-----------------------------------------------------------------------------
(* The invariant. *)

(* The states that two programs start in satisfy it. *)
LEMMA InitInv ==
    ASSUME Init
    PROVE  IInv
<1>1. db \in DbStates /\ db.rows = 0 /\ ~db.verified
  <2>1. CASE db = EmptyDb
    BY <2>1 DEF EmptyDb, DbStates
  <2>2. CASE db = [EmptyDb EXCEPT !.name = "full", !.key = "full"]
    BY <2>2 DEF EmptyDb, DbStates
  <2> QED
    BY <2>1, <2>2 DEF Init, FoundDb
<1>2. TypeOK
  BY <1>1, BoundAssumption DEF Init, TypeOK, ClientPc, HandlerPc, Unset
<1>3. LockStep /\ RequestsFit /\ ResponsesFit
  BY DEF Init, LockStep, RequestsFit, ResponsesFit, Unset
<1>4. AttemptsLeft /\ Served
  BY DEF Init, AttemptsLeft, InAttempt, Served
<1>5. SavesOnce /\ SavedIsAccepted /\ VerifiedIsSaved
  BY <1>1, ContentAssumption
     DEF Init, SavesOnce, SavedIsAccepted, VerifiedIsSaved
<1>6. RowsFit
  BY <1>1, BoundAssumption DEF Init, RowsFit
<1> QED
  BY <1>2, <1>3, <1>4, <1>5, <1>6 DEF IInv

(* Every step keeps it: one lemma above for each action. *)
LEMMA NextInv ==
    ASSUME IInv, [Next]_vars
    PROVE  IInv'
<1>1. CASE Client
  BY <1>1, StartInv, AwaitRegistrationInv, SaveInfoInv, SendPublicKeyInv,
     ReceiveSharedSecretInv, BeginAttemptInv, SendEncryptedFileInv,
     GetServerCalculatedCRCInv, MeasureForCRCInv, CalculateFileCRCInv,
     BadReadInv, ValidateInv, AwaitAckInv, AwaitResendInv, FinishInv,
     AwaitFinalInv
     DEF Client
<1>2. CASE Handler
  BY <1>2, RegisterClientInv, SendAesKeyInv, RejectFirstInv,
     ReceiveEncryptedFileInv, SkipFileInv, ReceiveConfirmationInv, SaveFileInv,
     SetFileVerifiedInv, FinalAckInv
     DEF Handler
<1>3. CASE Environment
  BY <1>3, TouchFileInv, LinkDownInv, ClientCrashInv, ServerCrashInv
     DEF Environment
<1>4. CASE UNCHANGED vars
  <2>1. UNCHANGED <<cpc, attempt, measured, serverCrc, clientCrc, meInfo,
                    clientFile, edits, spc, socket, sData, disk, db,
                    linkUp, c2s, s2c, skew, accepted>>
    BY <1>4 DEF vars, clientVars, fileVars, serverVars, netVars
  <2>2. TypeOK' /\ AttemptsLeft'
    BY <2>1 DEF IInv, TypeOK, AttemptsLeft
  <2>3. LockStep'
    BY <2>1 DEF IInv, LockStep, Connected, ClientGone, OneRequest, OneResponse
  <2>4. RequestsFit' /\ ResponsesFit' /\ Served'
    BY <2>1 DEF IInv, RequestsFit, ResponsesFit, Served, Expects, ClientGone
  <2>5. SavesOnce' /\ SavedIsAccepted' /\ VerifiedIsSaved' /\ RowsFit'
    BY <2>1 DEF IInv, SavesOnce, SavedIsAccepted, VerifiedIsSaved, RowsFit,
                Connected, ClientGone
  <2> QED
    BY <2>2, <2>3, <2>4, <2>5 DEF IInv
<1> QED
  BY <1>1, <1>2, <1>3, <1>4 DEF Next, Ended

(* The client and the handler stay in step, in every reachable state and   *)
(* for every set of faults.                                                *)
THEOREM Invariance == Spec => []IInv
<1>1. Init => IInv
  BY InitInv
<1>2. IInv /\ [Next]_vars => IInv'
  BY NextInv
<1> QED
  BY <1>1, <1>2, PTL DEF Spec

-----------------------------------------------------------------------------
(* What follows from the invariant in one state. *)

(* The variables have their types; no attempt is made beyond the limit of  *)
(* runClient's loop.                                                       *)
THEOREM TypeCorrect == Spec => []TypeOK
<1>1. IInv => TypeOK
  BY DEF IInv
<1> QED
  BY <1>1, Invariance, PTL

(* The client reads each response at the call site that expects it: the    *)
(* two sides agree on the bytes of every one of them.                      *)
THEOREM StaysInStep == Spec => []InStep
<1>1. IInv => InStep
  <2> SUFFICES ASSUME IInv
               PROVE  InStep
    OBVIOUS
  <2>1. TypeOK /\ ResponsesFit
    BY DEF IInv
  <2>2. skew # 0 => ClientGone
    BY <2>1 DEF ResponsesFit
  <2>3. socket = "open" /\ ~ClientGone /\ s2c # <<>> => Expects(Head(s2c).code)
    BY <2>1 DEF ResponsesFit
  <2> QED
    BY <2>2, <2>3 DEF InStep
<1> QED
  BY <1>1, Invariance, PTL

(* The CRC that handleCRCValidation compares belongs to the data that the  *)
(* handler holds, in every attempt.                                        *)
THEOREM CrcStaysCurrent == Spec => []CrcIsCurrent
<1>1. IInv => CrcIsCurrent
  <2> SUFFICES ASSUME IInv
               PROVE  CrcIsCurrent
    OBVIOUS
  <2>1. LockStep /\ TypeOK
    BY DEF IInv
  <2>2. Connected /\ cpc \in {"validate", "crc_read"} /\ serverCrc # Unset =>
           sData \in Content /\ serverCrc = CrcOf[sData]
    BY <2>1, Streams DEF LockStep, OneResponse
  <2>3. Connected /\ cpc \in {"validate", "crc_read"} /\ s2c # <<>> =>
           sData \in Content /\ Head(s2c).crc = CrcOf[sData]
    BY <2>1, Streams DEF LockStep, OneResponse
  <2> QED
    BY <2>2, <2>3, ContentAssumption DEF CrcIsCurrent
<1> QED
  BY <1>1, Invariance, PTL

(* Nothing is written under server_files that the client has not confirmed.*)
THEOREM OnlyAcceptedIsSaved == Spec => []SavedIsAccepted
<1>1. IInv => SavedIsAccepted
  BY DEF IInv
<1> QED
  BY <1>1, Invariance, PTL

(* A success of runClient was served by a handler that had received the    *)
(* data and its confirmation.                                              *)
THEOREM SuccessIsServed == Spec => []SuccessWasServed
<1>1. IInv => SuccessWasServed
  BY ContentAssumption DEF IInv, Served, SuccessWasServed
<1> QED
  BY <1>1, Invariance, PTL

(* A verified row stands for a complete file with the confirmed CRC. *)
THEOREM VerifiedMeansSaved == Spec => []VerifiedIsSaved
<1>1. IInv => VerifiedIsSaved
  BY DEF IInv
<1> QED
  BY <1>1, Invariance, PTL

(* The rows of a session are bounded by the attempts of its client. *)
THEOREM RowsAreAttempts == Spec => []RowPerAttempt
<1>1. IInv => RowPerAttempt
  BY DEF IInv, RowsFit, RowPerAttempt
<1> QED
  BY <1>1, Invariance, PTL

-----------------------------------------------------------------------------
(* Nobody waits in vain. *)

(* Only a reset cuts a response, or the end of the handler that sends it.  *)
AnswersWhole == linkUp => \A i \in 1 .. Len(s2c) : s2c[i].whole

(* What a step does to the responses. *)
LEMMA AnswerSteps ==
    ASSUME [Next]_vars
    PROVE  /\ linkUp' \in {linkUp, FALSE}
           /\ \/ s2c' \in {s2c, Tail(s2c), <<>>}
              \/ \E code, crc : s2c' = Append(s2c, Response(code, crc))
              \/ ~linkUp'
<1>1. CASE Client
  <2>1. linkUp' = linkUp
    BY <1>1 DEF Client, Start, AwaitRegistration, SaveInfo, SendPublicKey,
       ReceiveSharedSecret, BeginAttempt, SendEncryptedFile, GetServerCalculatedCRC,
       MeasureForCRC, CalculateFileCRC, BadRead, Validate, AwaitAck, AwaitResend,
       Finish, AwaitFinal, netVars
  <2>2. s2c' \in {s2c, Tail(s2c), <<>>}
    BY <1>1 DEF Client, Start, AwaitRegistration, SaveInfo, SendPublicKey,
       ReceiveSharedSecret, BeginAttempt, SendEncryptedFile, GetServerCalculatedCRC,
       MeasureForCRC, CalculateFileCRC, BadRead, Validate, AwaitAck, AwaitResend,
       Finish, AwaitFinal, netVars, Arrives, HangsUp
  <2> QED
    BY <2>1, <2>2
<1>2. CASE Handler
  <2>1. linkUp' = linkUp
    BY <1>2 DEF Handler, RegisterClient, SendAesKey, RejectFirst, ReceiveEncryptedFile,
       SkipFile, ReceiveConfirmation, SaveFile, SetFileVerified, FinalAck, netVars
  <2>2. s2c' = s2c \/ \E code, crc : s2c' = Append(s2c, Response(code, crc))
    BY <1>2 DEF Handler, RegisterClient, SendAesKey, RejectFirst, ReceiveEncryptedFile,
       SkipFile, ReceiveConfirmation, SaveFile, SetFileVerified, FinalAck, netVars, Reply
  <2> QED
    BY <2>1, <2>2
<1>3. CASE Environment
  BY <1>3 DEF Environment, TouchFile, LinkDown, ClientCrash, ServerCrash, netVars
<1>4. CASE UNCHANGED vars
  BY <1>4 DEF vars, netVars
<1> QED
  BY <1>1, <1>2, <1>3, <1>4 DEF Next, Ended

LEMMA AnswersStayWhole ==
    ASSUME TypeOK, AnswersWhole, [Next]_vars
    PROVE  AnswersWhole'
<1> SUFFICES ASSUME linkUp'
             PROVE  \A i \in 1 .. Len(s2c') : s2c'[i].whole
  BY DEF AnswersWhole
<1>1. \A i \in 1 .. Len(s2c) : s2c[i].whole
  BY AnswerSteps DEF AnswersWhole
<1>2. s2c \in Seq(Responses)
  BY DEF TypeOK
<1>3. CASE s2c' = s2c
  BY <1>1, <1>3
<1>4. CASE s2c' = <<>>
  BY <1>4
<1>5. CASE s2c # <<>> /\ s2c' = Tail(s2c)
  <2>1. Len(s2c') = Len(s2c) - 1 /\ \A i \in 1 .. Len(s2c') : s2c'[i] = s2c[i + 1]
    BY <1>2, <1>5, HeadTailProperties
  <2>2. Len(s2c) \in Nat
    BY <1>2
  <2> QED
    BY <1>1, <2>1, <2>2
<1>6. CASE \E code, crc : s2c' = Append(s2c, Response(code, crc))
  <2>1. PICK code, crc : s2c' = Append(s2c, Response(code, crc))
    BY <1>6
  <2>2. Response(code, crc).whole
    BY DEF Response
  <2>3. /\ Len(s2c) \in Nat /\ Len(s2c') = Len(s2c) + 1
        /\ \A i \in 1 .. Len(s2c) : s2c'[i] = s2c[i]
        /\ s2c'[Len(s2c) + 1] = Response(code, crc)
    BY <1>2, <2>1
  <2> QED
    BY <1>1, <2>2, <2>3
<1>7. CASE s2c = <<>> /\ s2c' = Tail(s2c)
  BY <1>7
<1> QED
  BY <1>3, <1>4, <1>5, <1>6, <1>7, AnswerSteps

(* A response that the client expects has all the bytes it asks for. *)
LEMMA ExpectedFills ==
    ASSUME TypeOK, AnswersWhole, linkUp, AwaitsAnswer, s2c # <<>>, Expects(Head(s2c).code)
    PROVE  Fills(Asked(cpc))
<1>1. Head(s2c) = s2c[1] /\ 1 \in 1 .. Len(s2c)
  BY DEF TypeOK
<1>2. Head(s2c).whole
  BY <1>1 DEF AnswersWhole
<1>3. PackedSize(Head(s2c).code) >= Asked(cpc)
  BY Sizes DEF Expects, AwaitsAnswer
<1> QED
  BY <1>2, <1>3 DEF Fills

(* While the connection is up, a client that waits has its answer, or the  *)
(* handler has the request or is at work: neither side has a timeout, and  *)
(* neither needs one against the other.                                    *)
THEOREM WaitsEnd == Spec => []NobodyWaitsInVain
<1>1. Init => AnswersWhole
  BY DEF Init, AnswersWhole
<1>2. IInv /\ AnswersWhole /\ [Next]_vars => AnswersWhole'
  BY AnswersStayWhole DEF IInv
<1>3. IInv /\ AnswersWhole => NobodyWaitsInVain
  <2> SUFFICES ASSUME IInv, AnswersWhole, Connected, AwaitsAnswer
               PROVE  \/ Fills(Asked(cpc))
                      \/ /\ spc \in {"first", "await_key", "await_file", "await_confirm"}
                         /\ c2s # <<>>
                      \/ spc \in {"saving", "verifying", "final_ack"}
    BY DEF NobodyWaitsInVain
  <2>1. TypeOK /\ LockStep /\ ResponsesFit /\ linkUp /\ ~ClientGone /\ socket # "closed"
    BY DEF IInv, Connected
  <2>2. CASE s2c # <<>>
    <3>1. Expects(Head(s2c).code)
      BY <2>1, <2>2 DEF ResponsesFit
    <3> QED
      BY <2>1, <2>2, <3>1, ExpectedFills
  <2>3. CASE s2c = <<>>
    <3>1. Len(s2c) = 0
      BY <2>3
    <3>2. \A code : ~OneResponse(code)
      BY <3>1 DEF OneResponse
    <3>3. \A code : OneRequest(code) => c2s # <<>>
      BY DEF OneRequest
    <3>4. Unset \notin Nat
      BY DEF Unset
    <3>5. sData \in Content => CrcOf[sData] # Unset
      BY <3>4, CrcAssumption
    <3>6. CASE cpc \in {"await_registration", "await_key"}
      BY <2>1, <3>2, <3>3, <3>6 DEF LockStep
    <3>7. CASE cpc \in {"await_ack", "await_resend", "await_final"}
      BY <2>1, <3>2, <3>3, <3>7 DEF LockStep
    <3>8. CASE cpc = "validate" /\ serverCrc = Unset
      BY <2>1, <3>2, <3>3, <3>5, <3>8 DEF LockStep
    <3> QED
      BY <3>6, <3>7, <3>8 DEF AwaitsAnswer
  <2> QED
    BY <2>2, <2>3
<1> QED
  BY <1>1, <1>2, <1>3, Invariance, PTL DEF Spec

-----------------------------------------------------------------------------
(* The session implements the promise of Upload. *)

(* A step that changes neither what is accepted nor what is on the disk    *)
(* reports that the client has given up, or nothing.                       *)
LEMMA QuietStep ==
    ASSUME UNCHANGED <<accepted, disk>>,
           cpc' = cpc \/ (~ClientGone /\ cpc' # "succeeded")
    PROVE  [Promise!Next]_(Promise!vars)
<1>1. outcome' = outcome \/ (outcome = "running" /\ outcome' = "given_up")
  BY DEF outcome, ClientGone
<1> QED
  BY <1>1 DEF Promise!Next, Promise!Report, Promise!vars

(* A step that puts something on the disk puts there what was accepted. *)
LEMMA StoringStep ==
    ASSUME IInv, spc = "saving", disk' \in {disk, sData, Torn},
           UNCHANGED <<accepted, cpc>>
    PROVE  [Promise!Next]_(Promise!vars)
<1>1. /\ sData \in Content
      /\ accepted = CrcOf[sData]
      /\ disk = Nothing
  BY DEF IInv, SavesOnce, Saved
<1>2. accepted # Unset
  BY <1>1, CrcAssumption DEF Unset
<1>3. outcome' = outcome
  BY DEF outcome, ClientGone
<1>4. CASE disk' = disk
  BY <1>3, <1>4 DEF Promise!vars
<1>5. CASE disk' \in {sData, Torn}
  BY <1>1, <1>2, <1>3, <1>5
     DEF Promise!Next, Promise!Store, Promise!None, Unset
<1> QED
  BY <1>4, <1>5

(* A confirmation is one of a content, and the first. *)
LEMMA ConfirmingStep ==
    ASSUME IInv, Validate
    PROVE  [Promise!Next]_(Promise!vars)
<1>1. outcome = "running" /\ outcome' = "running" /\ disk' = disk
  BY DEF Validate, outcome, ClientGone, serverVars
<1>2. CASE Connected /\ serverCrc = clientCrc
  <2>1. accepted = Unset /\ sData \in Content /\ serverCrc = CrcOf[sData]
    BY <1>2 DEF IInv, LockStep, Validate
  <2>2. accepted' = CrcOf[sData]
    BY <1>2, <2>1 DEF Validate
  <2> QED
    BY <1>1, <2>1, <2>2
       DEF Promise!Next, Promise!Confirm, Promise!None, Unset
<1>3. CASE ~(Connected /\ serverCrc = clientCrc)
  BY <1>1, <1>3 DEF Validate, Promise!vars
<1> QED
  BY <1>2, <1>3

(* A success is one of something accepted. *)
LEMMA ReportingStep ==
    ASSUME IInv, AwaitAck
    PROVE  [Promise!Next]_(Promise!vars)
<1>1. UNCHANGED <<accepted, disk>> /\ cpc = "await_ack"
  BY DEF AwaitAck, serverVars
<1>2. CASE cpc' = "succeeded"
  <2>1. Served'
    BY AwaitAckInv DEF IInv
  <2>2. accepted' \in Nat
    BY <1>2, <2>1, CrcAssumption DEF Served
  <2>3. outcome = "running" /\ outcome' = "uploaded"
    BY <1>1, <1>2 DEF outcome, ClientGone
  <2> QED
    BY <1>1, <2>2, <2>3
       DEF Promise!Next, Promise!Report, Promise!None
<1>3. CASE cpc' # "succeeded"
  BY <1>1, <1>3, QuietStep DEF ClientGone
<1> QED
  BY <1>2, <1>3

(* Every step of the session is a step of Upload or changes nothing of it. *)
LEMMA PromiseStep ==
    ASSUME IInv, [Next]_vars
    PROVE  [Promise!Next]_(Promise!vars)
<1>1. CASE Client
  <2>1. CASE Validate
    BY <2>1, ConfirmingStep
  <2>2. CASE AwaitAck
    BY <2>2, ReportingStep
  <2>3. CASE Start \/ AwaitRegistration \/ SaveInfo \/ SendPublicKey
              \/ ReceiveSharedSecret
    <3>1. /\ UNCHANGED <<accepted, disk>>
          /\ ~ClientGone
          /\ cpc' # "succeeded"
      BY <2>3 DEF Start, AwaitRegistration, SaveInfo, SendPublicKey,
                  ReceiveSharedSecret, ClientGone, serverVars
    <3> QED
      BY <3>1, QuietStep
  <2>4. CASE BeginAttempt \/ SendEncryptedFile \/ GetServerCalculatedCRC
              \/ MeasureForCRC \/ CalculateFileCRC \/ BadRead
    <3>1. /\ UNCHANGED <<accepted, disk>>
          /\ ~ClientGone
          /\ cpc' # "succeeded"
      BY <2>4 DEF BeginAttempt, SendEncryptedFile, GetServerCalculatedCRC,
                  MeasureForCRC, CalculateFileCRC, BadRead, ClientGone,
                  serverVars
    <3> QED
      BY <3>1, QuietStep
  <2>5. CASE AwaitResend \/ Finish \/ AwaitFinal
    <3>1. /\ UNCHANGED <<accepted, disk>>
          /\ ~ClientGone
          /\ cpc' # "succeeded"
      BY <2>5 DEF AwaitResend, Finish, AwaitFinal, ClientGone, serverVars
    <3> QED
      BY <3>1, QuietStep
  <2> QED
    BY <1>1, <2>1, <2>2, <2>3, <2>4, <2>5 DEF Client
<1>2. CASE Handler
  <2>1. CASE SaveFile
    BY <2>1, StoringStep DEF SaveFile, clientVars
  <2>2. CASE ~SaveFile
    <3>1. UNCHANGED <<accepted, disk, cpc>>
      BY <1>2, <2>2
         DEF Handler, RegisterClient, SendAesKey, RejectFirst,
             ReceiveEncryptedFile, SkipFile, ReceiveConfirmation,
             SetFileVerified, FinalAck, clientVars
    <3> QED
      BY <3>1, QuietStep
  <2> QED
    BY <2>1, <2>2
<1>3. CASE Environment
  <2>1. CASE TouchFile \/ LinkDown
    BY <2>1, QuietStep DEF TouchFile, LinkDown, clientVars, serverVars
  <2>2. CASE ClientCrash
    BY <2>2, QuietStep DEF ClientCrash, serverVars
  <2>3. CASE ServerCrash
    <3>1. UNCHANGED <<accepted, cpc>>
      BY <2>3 DEF ServerCrash, clientVars
    <3>2. CASE spc = "saving"
      BY <2>3, <3>1, <3>2, StoringStep DEF ServerCrash
    <3>3. CASE spc # "saving"
      BY <2>3, <3>1, <3>3, QuietStep DEF ServerCrash
    <3> QED
      BY <3>2, <3>3
  <2> QED
    BY <1>3, <2>1, <2>2, <2>3 DEF Environment
<1>4. CASE UNCHANGED vars
  BY <1>4, QuietStep DEF vars, clientVars, serverVars
<1> QED
  BY <1>1, <1>2, <1>3, <1>4 DEF Next, Ended

(* Whatever fails, the session does no more and no less than Upload        *)
(* promises: one confirmation, nothing stored that was not confirmed, no   *)
(* success reported of anything else.                                      *)
THEOREM Refinement == Spec => KeepsPromise
<1>1. Init => Promise!Init
  BY DEF Init, Promise!Init, Promise!None, Unset, outcome, ClientGone
<1>2. IInv /\ [Next]_vars => [Promise!Next]_(Promise!vars)
  BY PromiseStep
<1> QED
  BY <1>1, <1>2, Invariance, PTL DEF Spec, KeepsPromise, Promise!Spec

-----------------------------------------------------------------------------
(* The handler keeps to Lifecycle. *)

(* A step of the session that leaves the handler and its socket alone is   *)
(* not seen by Lifecycle.                                                  *)
LEMMA UnseenStep ==
    ASSUME UNCHANGED <<spc, socket>>
    PROVE  UNCHANGED Cycle!vars
  BY DEF Cycle!vars, life

(* A step within the loop of the handler is not seen either, unless it is  *)
(* the one that ends it.                                                   *)
LEMMA LoopStep ==
    ASSUME life = "running", UNCHANGED socket,
           spc' \notin {"stopped", "crashed"}
    PROVE  [Cycle!Next]_(Cycle!vars)
<1>1. life' \in {"running", "done"}
  BY DEF life
<1> QED
  BY <1>1 DEF Cycle!Next, Cycle!Finish, Cycle!vars

(* stop() ends a handler that runs. *)
LEMMA StoppingStep ==
    ASSUME life \in {"running", "done"}, socket' = "closed",
           spc' \in {"stopped", "crashed"}
    PROVE  [Cycle!Next]_(Cycle!vars)
<1>1. life' = "stopped"
  BY DEF life
<1> QED
  BY <1>1 DEF Cycle!Next, Cycle!Stop, Cycle!vars

(* A handler that has been stopped has closed its socket. *)
StoppedIsClosed == life = "stopped" => socket = "closed"

(* The step of a handler stops it, or keeps its socket. *)
LEMMA HandlerStep ==
    ASSUME Handler
    PROVE  [Cycle!Next]_(Cycle!vars)
<1>1. life = "running"
  BY DEF Handler, RegisterClient, SendAesKey, RejectFirst,
         ReceiveEncryptedFile, SkipFile, ReceiveConfirmation, SaveFile,
         SetFileVerified, FinalAck, life
<1>2. CASE RegisterClient \/ SendAesKey \/ RejectFirst \/ FinalAck
  <2>1. Stop \/ (UNCHANGED socket /\ spc' \in {"await_key", "await_file"})
    BY <1>2 DEF RegisterClient, SendAesKey, RejectFirst, FinalAck
  <2> QED
    BY <1>1, <2>1, LoopStep, StoppingStep DEF Stop
<1>3. CASE ReceiveEncryptedFile \/ SkipFile \/ ReceiveConfirmation
             \/ SaveFile \/ SetFileVerified
  <2>1. UNCHANGED socket
    BY <1>3 DEF ReceiveEncryptedFile, SkipFile, ReceiveConfirmation, SaveFile,
                SetFileVerified
  <2>2. spc' \in {"await_confirm", "final_ack", "done", "await_file",
                  "saving", "verifying"}
    BY <1>3 DEF ReceiveEncryptedFile, SkipFile, ReceiveConfirmation, SaveFile,
                SetFileVerified, After, AfterConfirmation
  <2> QED
    BY <1>1, <2>1, <2>2, LoopStep
<1> QED
  BY <1>2, <1>3 DEF Handler

(* Every step of the session is a step of Lifecycle or is not seen by it.  *)
LEMMA LifecycleStep ==
    ASSUME StoppedIsClosed, [Next]_vars
    PROVE  [Cycle!Next]_(Cycle!vars)
<1>1. CASE Handler
  BY <1>1, HandlerStep
<1>2. CASE Client
  <2>1. UNCHANGED <<spc, socket>>
    BY <1>2 DEF Client, Start, AwaitRegistration, SaveInfo, SendPublicKey,
                ReceiveSharedSecret, BeginAttempt, SendEncryptedFile,
                GetServerCalculatedCRC, MeasureForCRC, CalculateFileCRC,
                BadRead, Validate, AwaitAck, AwaitResend, Finish, AwaitFinal,
                serverVars
  <2> QED
    BY <2>1, UnseenStep
<1>3. CASE ServerCrash
  <2>1. spc' = "crashed" /\ socket' = "closed"
    BY <1>3 DEF ServerCrash
  <2>2. CASE life = "stopped"
    BY <2>1, <2>2 DEF StoppedIsClosed, life, Cycle!vars
  <2>3. CASE life # "stopped"
    BY <2>1, <2>3, StoppingStep DEF life
  <2> QED
    BY <2>2, <2>3
<1>4. CASE TouchFile \/ LinkDown \/ ClientCrash
  BY <1>4, UnseenStep DEF TouchFile, LinkDown, ClientCrash, serverVars
<1>5. CASE UNCHANGED vars
  BY <1>5, UnseenStep DEF vars, serverVars
<1> QED
  BY <1>1, <1>2, <1>3, <1>4, <1>5 DEF Next, Environment, Ended

(* The handler of a session, under every fault, is what Server takes it    *)
(* for: it ends once, and its socket is closed by stop() or not at all.    *)
THEOREM HandlerLifecycle == Spec => KeepsLifecycle
<1>1. Init => Cycle!Init /\ StoppedIsClosed
  BY DEF Init, Cycle!Init, life, StoppedIsClosed
<1>2. StoppedIsClosed /\ [Next]_vars => [Cycle!Next]_(Cycle!vars)
  BY LifecycleStep
<1>3. StoppedIsClosed /\ [Cycle!Next]_(Cycle!vars) => StoppedIsClosed'
  BY DEF StoppedIsClosed, Cycle!Next, Cycle!Begin, Cycle!Finish, Cycle!Stop,
         Cycle!Collect, Cycle!vars
<1> QED
  BY <1>1, <1>2, <1>3, PTL DEF Spec, KeepsLifecycle, Cycle!Spec
=============================================================================
