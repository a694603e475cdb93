------------------------------- MODULE Session -------------------------------
(***************************************************************************)
(* One connection between one client program and the server thread that    *)
(* serves it, from the first request to the end of both: registration, the *)
(* key exchange, the upload of one file with its CRC check and retries,    *)
(* and everything that can cut it short.                                   *)
(*                                                                         *)
(*   client   MainClient, FileHandler, EncryptionHandler and               *)
(*            RegistrationHandler; one thread, blocking socket calls       *)
(*   handler  ClientHandler.run(), one thread per connection               *)
(*   network  two byte streams; the client reads a fixed number of bytes   *)
(*            at each call site, so responses carry their width            *)
(*   user     edits or removes the file while the client uploads it        *)
(*            and has a user name: Registration has the others             *)
(*                                                                         *)
(* Faults says which of the events outside the two programs an instance    *)
(* admits; a theorem about Spec holds for every set of them.               *)
(***************************************************************************)
EXTENDS Integers, Sequences, Protocol

CONSTANTS
    Content,      \* what the uploaded file can hold (never empty data)
    CrcOf,        \* the CRC-32 of each content
    SizeOf,       \* the size of each content
    Nothing,      \* no file, no data
    Torn,         \* what a failed or interrupted save leaves on the disk
    MaxRetries,   \* MAX_RETRIES_FILE_RESEND
    MaxEdits,     \* bound: how often the user touches the file
    Faults        \* the events this instance admits

FaultNames ==
    {"edit",        \* the user replaces the content of the file
     "remove",      \* the user removes the file
     "linkDown",    \* the connection is reset, with data lost in flight
     "clientCrash", \* the client process dies
     "serverCrash", \* the server process dies
     "shortRead",   \* recv() returns only a part of a request's header
     "nameTaken",   \* the user name is already in the clients table
     "infoFails",   \* me.info cannot be written
     "dbFails",     \* a statement raises a database error
     "saveFails"}   \* the server's disk refuses the file

ASSUME ContentAssumption ==
    /\ Nothing \notin Content
    /\ Torn \notin Content
    /\ Torn # Nothing
ASSUME CrcAssumption  == CrcOf \in [Content -> Nat]
ASSUME SizeAssumption == SizeOf \in [Content -> Nat \ {0}]
ASSUME BoundAssumption == MaxRetries \in Nat /\ MaxEdits \in Nat
ASSUME FaultAssumption == Faults \subseteq FaultNames

VARIABLES
    \* the client program
    cpc,         \* where it is
    attempt,     \* the loop counter of runClient
    measured,    \* the size it took of the file before reading it
    serverCrc,   \* the CRC it read from the server, 0 if it read none
    clientCrc,   \* the CRC it computed itself, 0 if it found no file
    meInfo,      \* its me.info file
    \* the user's disk
    clientFile,  \* the file to upload
    edits,       \* how often the user has touched it
    \* the server
    spc,         \* where the handler thread is
    socket,      \* its end of the connection, "open" or "closed"
    sData,       \* the decrypted data of the last file it received
    disk,        \* what this session has written under server_files
    db,          \* this session's part of the (uncommitted) database
    \* the network
    linkUp,      \* FALSE once the connection has been reset
    c2s,         \* requests on their way to the handler
    s2c,         \* responses on their way to the client
    skew,        \* bytes of a response that the client left unread
    \* history
    accepted     \* the CRC the client confirmed to the handler, if any

clientVars == <<cpc, attempt, measured, serverCrc, clientCrc, meInfo>>
fileVars   == <<clientFile, edits>>
serverVars == <<spc, socket, sData, disk, db>>
netVars    == <<linkUp, c2s, s2c, skew>>
vars == <<clientVars, fileVars, serverVars, netVars, accepted>>

Unset == -1

ClientPc ==
    {"start", "await_registration", "save_info", "send_key", "await_key",
     "attempt", "read", "validate", "crc_read", "await_ack", "await_resend",
     "await_final", "succeeded", "failed", "crashed"}

HandlerPc ==
    {"first", "await_key", "await_file", "await_confirm", "saving",
     "verifying", "final_ack", "done", "stopped", "crashed"}

(* What a message carries as far as the other side acts on it; one that is *)
(* not whole has been cut somewhere by the end of its stream.              *)
Requests ==
    [code : RequestType, data : Content \cup {Nothing}, whole : BOOLEAN]
Responses == [code : ResponseType, crc : Nat, whole : BOOLEAN]

Request(code, data) == [code |-> code, data |-> data, whole |-> TRUE]
Response(code, crc) == [code |-> code, crc |-> crc, whole |-> TRUE]

(* This client's row of "clients" (an "empty" field comes from a payload   *)
(* that ended early), the rows of "files" that this session has inserted,  *)
(* and whether they are verified.                                          *)
DbStates == [name : {"none", "empty", "full"}, key : {"none", "empty", "full"},
             rows : Nat, verified : BOOLEAN]
EmptyDb  == [name |-> "none", key |-> "none", rows |-> 0, verified |-> FALSE]

(* What the session finds: nothing, or the row of an earlier session that  *)
(* went on to write me.info, unless the server has been restarted since.   *)
FoundDb(info) ==
    {EmptyDb} \cup (IF info = "absent" THEN {}
                    ELSE {[EmptyDb EXCEPT !.name = "full", !.key = "full"]})

ClientGone  == cpc \in {"succeeded", "failed", "crashed"}
HandlerGone == spc \in {"done", "stopped", "crashed"}

(* Both ends are there and nothing is lost between them. *)
Connected == linkUp /\ ~ClientGone /\ socket = "open"

-----------------------------------------------------------------------------
(* The two streams. A send on a lost connection puts nothing on the wire;  *)
(* both sides notice at the latest when they next read.                    *)

Send(m)  == c2s' = IF Connected THEN Append(c2s, m) ELSE c2s
Reply(m) == s2c' = IF Connected THEN Append(s2c, m) ELSE s2c

(* The bytes each call of ClientSocketHandler::receive asks for. *)
Asked(pc) ==
    CASE pc = "await_registration" ->
            ClientHeaderSize + ClientSizeField + CLIENT_ID_FIELD_LENGTH
      [] pc = "await_key" ->
            ClientHeaderSize + ClientSizeField + CLIENT_ID_FIELD_LENGTH
              + ENCRYPTED_SHARED_KEY_LENGTH
      [] pc = "validate" ->
            ClientHeaderSize + ClientSizeField + CLIENT_ID_FIELD_LENGTH
              + FILE_LENGTH_FIELD_LENGTH + FILE_NAME_LENGTH_FIELD_LENGTH
              + CHECKSUM_FIELD_LENGTH
      [] pc = "await_ack" -> ClientHeaderSize
      [] OTHER -> ClientHeaderSize + ClientSizeField

(* The first response in the stream is long enough to fill n bytes, *)
Fills(n) == /\ s2c # <<>>
            /\ Head(s2c).whole
            /\ PackedSize(Head(s2c).code) >= n

(* or it is cut, but perhaps behind its first n bytes;                     *)
MayFill(n) == s2c # <<>> /\ PackedSize(Head(s2c).code) > n

(* read() returns them, and what the response has beyond stays unread.     *)
Arrives(n) == /\ Fills(n) \/ MayFill(n)
              /\ skew = 0
              /\ s2c' = Tail(s2c)
              /\ skew' = PackedSize(Head(s2c).code) - n

(* read() takes what there is, meets the end of the stream and throws. *)
HangsUp(n) == /\ ~Fills(n)
              /\ ~linkUp \/ socket = "closed"
              /\ s2c' = <<>>
              /\ UNCHANGED skew

(* What is found where the CRC of a response should be that ends early: a  *)
(* prefix of its little-endian bytes in a zeroed buffer; or, when the      *)
(* payload size ends early too, anything, of which only the CRCs of files  *)
(* can matter.                                                             *)
PartialCrc(crc) == {0, crc % 256, crc % 65536, crc % 16777216}
                     \cup {CrcOf[c] : c \in Content}

(* The data read into a buffer of n bytes from a file that holds c now: an *)
(* unchanged size gives c, another size a cut c or one with a foreign tail.*)
Buffer(n, c) == IF SizeOf[c] = n THEN {c} ELSE {d \in Content : SizeOf[d] = n}

-----------------------------------------------------------------------------
(* The client program. *)

(* ClientInitializer::initializeClient: me.info decides. *)
Start ==
    /\ cpc = "start"
    /\ \/ /\ meInfo = "present"
          /\ cpc' = "send_key"
          /\ UNCHANGED c2s
       \/ /\ meInfo = "damaged"
          /\ cpc' = "failed"
          /\ UNCHANGED c2s
       \/ /\ meInfo = "absent"
          /\ Send(Request("CLIENT_REGISTRATION", Nothing))
          /\ cpc' \in {"await_registration"}
                        \cup (IF Connected THEN {} ELSE {"failed"})
    /\ UNCHANGED <<attempt, measured, serverCrc, clientCrc, meInfo, fileVars,
                   serverVars, linkUp, s2c, skew, accepted>>

(* RegistrationHandler::registerClient, from its receive on. *)
AwaitRegistration ==
    LET n == Asked("await_registration") IN
    /\ cpc = "await_registration"
    /\ \/ /\ Arrives(n)
          /\ cpc' = IF Head(s2c).code = "REGISTRATION_SUCCESS"
                      THEN "save_info" ELSE "failed"
       \/ /\ HangsUp(n)
          /\ cpc' = "failed"
    /\ UNCHANGED <<attempt, measured, serverCrc, clientCrc, meInfo, fileVars,
                   serverVars, linkUp, c2s, accepted>>

(* The rest of initializeClient: the identity goes to me.info. A file that *)
(* cannot be opened ends the program; a write that fails throws nothing,   *)
(* so the program goes on and leaves a damaged file.                       *)
SaveInfo ==
    /\ cpc = "save_info"
    /\ \/ /\ cpc' = "send_key"
          /\ meInfo' \in {"present"}
                 \cup (IF "infoFails" \in Faults THEN {"damaged"} ELSE {})
       \/ /\ "infoFails" \in Faults
          /\ cpc' = "failed"
          /\ UNCHANGED meInfo
    /\ UNCHANGED <<attempt, measured, serverCrc, clientCrc, fileVars,
                   serverVars, netVars, accepted>>

(* EncryptionHandler::sendPublicKeyToServer. *)
SendPublicKey ==
    /\ cpc = "send_key"
    /\ Send(Request("CLIENT_PUBLIC_KEY", Nothing))
    /\ cpc' \in {"await_key"} \cup (IF Connected THEN {} ELSE {"failed"})
    /\ UNCHANGED <<attempt, measured, serverCrc, clientCrc, meInfo, fileVars,
                   serverVars, linkUp, s2c, skew, accepted>>

(* EncryptionHandler::receiveSharedSecret; main() ends when it fails. *)
ReceiveSharedSecret ==
    LET n == Asked("await_key") IN
    /\ cpc = "await_key"
    /\ \/ /\ Arrives(n)
          /\ cpc' = IF Head(s2c).code = "CLIENT_AES_KEY"
                      THEN "attempt" ELSE "failed"
       \/ /\ HangsUp(n)
          /\ cpc' = "failed"
    /\ UNCHANGED <<attempt, measured, serverCrc, clientCrc, meInfo, fileVars,
                   serverVars, linkUp, c2s, accepted>>

(* Mutants of RetriesLeft: one turn of the loop too many, one too few.     *)
OneRetryMore == attempt <= MaxRetries
OneRetryLess == attempt + 1 < MaxRetries

(* The condition of runClient's loop. *)
RetriesLeft == attempt < MaxRetries

(* One turn of the loop up to validateFileToSend: a missing file costs an  *)
(* attempt and sends nothing.                                              *)
BeginAttempt ==
    /\ cpc = "attempt"
    /\ RetriesLeft
    /\ IF clientFile = Nothing
         THEN /\ attempt' = attempt + 1
              /\ UNCHANGED <<cpc, measured>>
         ELSE /\ measured' = SizeOf[clientFile]
              /\ cpc' = "read"
              /\ UNCHANGED attempt
    /\ UNCHANGED <<serverCrc, clientCrc, meInfo, fileVars, serverVars,
                   netVars, accepted>>

(* sendEncryptedFile: the file is opened again, read, encrypted and sent;  *)
(* whether the send succeeded is not looked at.                            *)
SendEncryptedFile ==
    /\ cpc = "read"
    /\ IF clientFile = Nothing
         THEN /\ cpc' = "attempt"
              /\ attempt' = attempt + 1
              /\ UNCHANGED <<serverCrc, clientCrc, c2s>>
         ELSE /\ \E data \in Buffer(measured, clientFile) :
                    Send(Request("CLIENT_ENCRYPTED_FILE", data))
              /\ cpc' = "validate"
              /\ serverCrc' = Unset
              /\ clientCrc' = Unset
              /\ UNCHANGED attempt
    /\ UNCHANGED <<measured, meInfo, fileVars, serverVars, linkUp, s2c, skew,
                   accepted>>

(* getServerCalculatedCRC: whatever goes wrong, the CRC is 0, or what there*)
(* is of it in the zeroed buffer. The two arguments of handleCRCValidation *)
(* are evaluated in either order.                                          *)
GetServerCalculatedCRC ==
    LET n == Asked("validate") IN
    /\ cpc = "validate"
    /\ serverCrc = Unset
    /\ \/ /\ Arrives(n)
          /\ serverCrc' = IF Head(s2c).code = "LAST_SENT_FILE_CRC"
                            THEN Head(s2c).crc ELSE 0
       \/ /\ HangsUp(n)
          /\ serverCrc' \in
                IF s2c # <<>> /\ Head(s2c).code = "LAST_SENT_FILE_CRC"
                  THEN PartialCrc(Head(s2c).crc) ELSE {0}
    /\ UNCHANGED <<cpc, attempt, measured, clientCrc, meInfo, fileVars,
                   serverVars, linkUp, c2s, accepted>>

(* calculateFileCRC up to validateFileToSend: a missing file has CRC 0. *)
MeasureForCRC ==
    /\ cpc = "validate"
    /\ clientCrc = Unset
    /\ IF clientFile = Nothing
         THEN /\ clientCrc' = 0
              /\ UNCHANGED <<cpc, measured>>
         ELSE /\ measured' = SizeOf[clientFile]
              /\ cpc' = "crc_read"
              /\ UNCHANGED clientCrc
    /\ UNCHANGED <<attempt, serverCrc, meInfo, fileVars, serverVars, netVars,
                   accepted>>

(* The rest of calculateFileCRC: the file is read once more. *)
CalculateFileCRC ==
    /\ cpc = "crc_read"
    /\ clientFile # Nothing
    /\ \E data \in Buffer(measured, clientFile) : clientCrc' = CrcOf[data]
    /\ cpc' = "validate"
    /\ UNCHANGED <<attempt, measured, serverCrc, meInfo, fileVars, serverVars,
                   netVars, accepted>>

(* Undefined behaviour that may end the process: reading past a buffer     *)
(* whose file has shrunk since it was measured, a null buffer whose file   *)
(* has gone, or the missing payload of a CRC response that ends early.     *)
BadRead ==
    /\ \/ cpc = "crc_read" /\ clientFile = Nothing
       \/ /\ cpc \in {"read", "crc_read"}
          /\ clientFile # Nothing
          /\ SizeOf[clientFile] < measured
       \/ /\ cpc = "validate" /\ serverCrc = Unset
          /\ s2c # <<>> /\ Head(s2c).code = "LAST_SENT_FILE_CRC"
          /\ ~Head(s2c).whole
          /\ ~linkUp \/ socket = "closed"
    /\ cpc' = "crashed"
    /\ UNCHANGED <<attempt, measured, serverCrc, clientCrc, meInfo, fileVars,
                   serverVars, netVars, accepted>>

(* handleCRCValidation's comparison, and the message that follows it. *)
Validate ==
    /\ cpc = "validate"
    /\ serverCrc # Unset
    /\ clientCrc # Unset
    /\ IF serverCrc = clientCrc
         THEN /\ Send(Request("FILE_CRC_SUCCESS", Nothing))
              /\ cpc' = "await_ack"
              /\ accepted' = IF Connected THEN clientCrc ELSE accepted
         ELSE /\ Send(Request("FILE_CRC_FAILED_RESENDING", Nothing))
              /\ cpc' = "await_resend"
              /\ UNCHANGED accepted
    /\ UNCHANGED <<attempt, measured, serverCrc, clientCrc, meInfo, fileVars,
                   serverVars, linkUp, s2c, skew>>

(* Mutant of AwaitAck: what receive returned is not looked at. *)
AwaitAckUnchecked ==
    LET n == Asked("await_ack") IN
    /\ cpc = "await_ack"
    /\ Arrives(n) \/ HangsUp(n)
    /\ cpc' = "succeeded"
    /\ UNCHANGED <<attempt, measured, serverCrc, clientCrc, meInfo, fileVars,
                   serverVars, linkUp, c2s, accepted>>

(* The acknowledgement of FILE_CRC_SUCCESS, of which only the header is    *)
(* read. Without it sendFileToServer goes on as after a wrong CRC.         *)
AwaitAck ==
    LET n == Asked("await_ack") IN
    /\ cpc = "await_ack"
    /\ \E answered \in BOOLEAN :
          /\ IF answered THEN Arrives(n) ELSE HangsUp(n)
          /\ IF answered /\ Head(s2c).code = "REQUEST_RECEIVED"
               THEN /\ cpc' = "succeeded"
                    /\ UNCHANGED c2s
               ELSE /\ Send(Request("FILE_CRC_FAILED_RESENDING", Nothing))
                    /\ cpc' = "await_resend"
    /\ UNCHANGED <<attempt, measured, serverCrc, clientCrc, meInfo, fileVars,
                   serverVars, linkUp, accepted>>

(* Mutant of AwaitResend: the answer is left in the socket. *)
AwaitResendUnread ==
    /\ cpc = "await_resend"
    /\ cpc' = "attempt"
    /\ attempt' = attempt + 1
    /\ UNCHANGED <<measured, serverCrc, clientCrc, meInfo, fileVars,
                   serverVars, netVars, accepted>>

(* Mutant of AwaitResend: the attempt is not counted. *)
AwaitResendUncounted ==
    LET n == Asked("await_resend") IN
    /\ cpc = "await_resend"
    /\ Arrives(n) \/ HangsUp(n)
    /\ cpc' = "attempt"
    /\ UNCHANGED <<attempt, measured, serverCrc, clientCrc, meInfo, fileVars,
                   serverVars, linkUp, c2s, accepted>>

(* The answer to FILE_CRC_FAILED_RESENDING: every outcome returns false to *)
(* runClient, which counts the attempt.                                    *)
AwaitResend ==
    LET n == Asked("await_resend") IN
    /\ cpc = "await_resend"
    /\ Arrives(n) \/ HangsUp(n)
    /\ cpc' = "attempt"
    /\ attempt' = attempt + 1
    /\ UNCHANGED <<measured, serverCrc, clientCrc, meInfo, fileVars,
                   serverVars, linkUp, c2s, accepted>>

(* runClient after its loop. *)
Finish ==
    /\ cpc = "attempt"
    /\ ~RetriesLeft
    /\ Send(Request("FILE_CRC_FAILED_FINISHED", Nothing))
    /\ cpc' = "await_final"
    /\ UNCHANGED <<attempt, measured, serverCrc, clientCrc, meInfo, fileVars,
                   serverVars, linkUp, s2c, skew, accepted>>

AwaitFinal ==
    LET n == Asked("await_final") IN
    /\ cpc = "await_final"
    /\ Arrives(n) \/ HangsUp(n)
    /\ cpc' = "failed"
    /\ UNCHANGED <<attempt, measured, serverCrc, clientCrc, meInfo, fileVars,
                   serverVars, linkUp, c2s, accepted>>

Client ==
    \/ Start \/ AwaitRegistration \/ SaveInfo
    \/ SendPublicKey \/ ReceiveSharedSecret
    \/ BeginAttempt \/ SendEncryptedFile
    \/ GetServerCalculatedCRC \/ MeasureForCRC \/ CalculateFileCRC \/ BadRead
    \/ Validate \/ AwaitAck \/ AwaitResend
    \/ Finish \/ AwaitFinal

-----------------------------------------------------------------------------
(* The handler thread. *)

(* One recv() of a header and what ClientRequest makes of it: the code, or *)
(* DEFAULT_REQUEST_TYPE when the stream has ended or has given a part of   *)
(* the header only. What follows a broken header is never looked at again. *)
Sees(code) ==
    \/ /\ c2s # <<>>
       /\ code = Head(c2s).code
       /\ c2s' = Tail(c2s)
    \/ /\ code = "DEFAULT_REQUEST_TYPE"
       /\ IF c2s = <<>> THEN ~linkUp \/ ClientGone
          ELSE "shortRead" \in Faults \/ ~Head(c2s).whole
       /\ UNCHANGED c2s

(* Mutant of Stop: the socket is left to the interpreter. *)
StopUnclosed == /\ spc' = "stopped"
                /\ UNCHANGED socket

(* __handle_client returns False and run() calls stop(). *)
Stop == /\ spc' = "stopped"
        /\ socket' = "closed"

(* __handle_first_message with a registration: the row is inserted under   *)
(* the name that was read (empty when the payload ended early), then       *)
(* last_seen is updated, then the answer is sent; only the insertion's     *)
(* errors are answered, and any exception ends the thread.                 *)
RegisterClient ==
    /\ spc = "first"
    /\ Sees("CLIENT_REGISTRATION")
    /\ LET name == IF Head(c2s).whole THEN "full" ELSE "empty"
       IN  \/ /\ Reply(Response("REGISTRATION_SUCCESS", 0))
              /\ db' = [db EXCEPT !.name = name]
              /\ spc' = "await_key"
              /\ UNCHANGED socket
           \/ /\ ~Connected \/ "dbFails" \in Faults
              /\ db' = [db EXCEPT !.name = name]
              /\ Stop
              /\ UNCHANGED s2c
           \/ /\ {"nameTaken", "dbFails"} \cap Faults # {}
              /\ Reply(Response("REGISTRATION_FAILED", 0))
              /\ Stop
              /\ UNCHANGED db
    /\ UNCHANGED <<clientVars, fileVars, sData, disk, linkUp, skew, accepted>>

(* add_client_key_to_db: an UPDATE that matches no row is no error. *)
KeyStored(key) ==
    IF db.name = "none" THEN db ELSE [db EXCEPT !.key = key]

(* __send_aes_key_to_client, for a first request or after registration:    *)
(* the keys are stored before the public key is used, so an incomplete one *)
(* is stored too and then fails to import.                                 *)
SendAesKey ==
    /\ spc \in {"first", "await_key"}
    /\ Sees("CLIENT_PUBLIC_KEY")
    /\ LET key == IF Head(c2s).whole THEN "full" ELSE "empty"
       IN  \/ /\ key = "full"
              /\ Reply(Response("CLIENT_AES_KEY", 0))
              /\ db' = KeyStored(key)
              /\ spc' = "await_file"
              /\ UNCHANGED socket
           \/ /\ key = "empty" \/ ~Connected \/ "dbFails" \in Faults
              /\ db' \in {KeyStored(key)}
                           \cup (IF "dbFails" \in Faults THEN {db} ELSE {})
              /\ Stop
              /\ UNCHANGED s2c
    /\ UNCHANGED <<clientVars, fileVars, sData, disk, linkUp, skew, accepted>>

(* Any other request in the first two places. *)
RejectFirst ==
    /\ \E code \in RequestType \ {"CLIENT_PUBLIC_KEY"} :
          /\ Sees(code)
          /\ \/ spc = "first" /\ code # "CLIENT_REGISTRATION"
             \/ spc = "await_key"
    /\ Stop
    /\ UNCHANGED <<clientVars, fileVars, sData, disk, db, linkUp, s2c, skew,
                   accepted>>

(* Mutant of After: only a finished client is given up, a request that     *)
(* cannot be parsed is skipped.                                            *)
AfterSkipping(code) ==
    IF code = "FILE_CRC_SUCCESS" THEN "done"
    ELSE IF code = "FILE_CRC_FAILED_FINISHED" THEN "final_ack"
    ELSE "await_file"

(* Another one: only an accepted file ends the loop.                       *)
AfterLooping(code) ==
    IF code = "FILE_CRC_SUCCESS" THEN "done" ELSE "await_file"

(* What the loop of __handle_client does with the code that                *)
(* __receive_encrypted_file returns.                                       *)
After(code) ==
    IF code = "FILE_CRC_SUCCESS" THEN "done"
    ELSE IF code = "FILE_CRC_FAILED_RESENDING" THEN "await_file"
    ELSE "final_ack"

(* __receive_encrypted_file, up to the CRC response: the row of the file   *)
(* is inserted before the data is looked at. A row that is refused and     *)
(* every exception (an incomplete payload, a name that does not decode, a  *)
(* failed send) end the loop.                                              *)
ReceiveEncryptedFile ==
    /\ spc = "await_file"
    /\ Sees("CLIENT_ENCRYPTED_FILE")
    /\ LET file == Head(c2s)
       IN  \/ /\ file.whole
              /\ db' = [db EXCEPT !.rows = @ + 1]
              /\ sData' = file.data
              /\ Reply(Response("LAST_SENT_FILE_CRC", CrcOf[file.data]))
              /\ spc' = "await_confirm"
           \/ /\ file.whole
              /\ ~Connected \/ "dbFails" \in Faults
              /\ db' \in {[db EXCEPT !.rows = @ + 1]}
                           \cup (IF "dbFails" \in Faults THEN {db} ELSE {})
              /\ spc' = "final_ack"
              /\ UNCHANGED <<sData, s2c>>
           \/ /\ ~file.whole
              /\ spc' = "final_ack"
              /\ UNCHANGED <<sData, db, s2c>>
    /\ UNCHANGED <<clientVars, fileVars, socket, disk, linkUp, skew, accepted>>

(* Another request where a file is expected. *)
SkipFile ==
    /\ spc = "await_file"
    /\ \E code \in RequestType \ {"CLIENT_ENCRYPTED_FILE"} :
          /\ Sees(code)
          /\ spc' = After(code)
    /\ UNCHANGED <<clientVars, fileVars, socket, sData, disk, db, linkUp, s2c,
                   skew, accepted>>

(* Mutants of AfterConfirmation: what is not given up is saved; the file   *)
(* is marked before it is saved.                                           *)
SaveAnyway(code) ==
    IF code # "FILE_CRC_FAILED_FINISHED" THEN "saving" ELSE After(code)
VerifyFirst(code) ==
    IF code = "FILE_CRC_SUCCESS" THEN "verifying" ELSE After(code)

(* The test of __handle_file_from_client after its acknowledgement. *)
AfterConfirmation(code) ==
    IF code = "FILE_CRC_SUCCESS" THEN "saving" ELSE After(code)

(* The end of __handle_file_from_client up to the acknowledgement, which   *)
(* goes out whatever was received; a failed send ends the loop.            *)
ReceiveConfirmation ==
    /\ spc = "await_confirm"
    /\ \E code \in RequestType :
          /\ Sees(code)
          /\ \/ /\ Reply(Response("REQUEST_RECEIVED", 0))
                /\ spc' = AfterConfirmation(code)
             \/ /\ ~Connected
                /\ spc' = "final_ack"
                /\ UNCHANGED s2c
    /\ UNCHANGED <<clientVars, fileVars, socket, sData, disk, db, linkUp, skew,
                   accepted>>

(* FileHandler.save_file; when it fails DEFAULT_REQUEST_TYPE is returned.  *)
SaveFile ==
    /\ spc = "saving"
    /\ \/ /\ disk' = sData
          /\ spc' = "verifying"
       \/ /\ "saveFails" \in Faults
          /\ disk' \in {disk, Torn}
          /\ spc' = After("DEFAULT_REQUEST_TYPE")
    /\ UNCHANGED <<clientVars, fileVars, socket, sData, db, netVars, accepted>>

(* ServerDatabase.set_file_verified, the flag and then last_seen. *)
SetFileVerified ==
    /\ spc = "verifying"
    /\ \/ /\ db' = [db EXCEPT !.verified = TRUE]
          /\ spc' = After("FILE_CRC_SUCCESS")
       \/ /\ "dbFails" \in Faults
          /\ db' \in {db, [db EXCEPT !.verified = TRUE]}
          /\ spc' = "final_ack"
    /\ UNCHANGED <<clientVars, fileVars, socket, sData, disk, netVars, accepted>>

(* After the loop: one more acknowledgement, and run() closes the socket.  *)
FinalAck ==
    /\ spc = "final_ack"
    /\ Reply(Response("REQUEST_RECEIVED", 0))
    /\ Stop
    /\ UNCHANGED <<clientVars, fileVars, sData, disk, db, linkUp, c2s, skew,
                   accepted>>

Handler ==
    \/ RegisterClient \/ SendAesKey \/ RejectFirst
    \/ ReceiveEncryptedFile \/ SkipFile
    \/ ReceiveConfirmation \/ SaveFile \/ SetFileVerified
    \/ FinalAck

-----------------------------------------------------------------------------
(* The events outside the two programs. *)

(* The user replaces or removes the file. *)
TouchFile ==
    /\ edits < MaxEdits
    /\ ~ClientGone
    /\ clientFile' \in (IF "edit" \in Faults THEN Content ELSE {})
                         \cup (IF "remove" \in Faults THEN {Nothing} ELSE {})
    /\ clientFile' # clientFile
    /\ edits' = edits + 1
    /\ UNCHANGED <<clientVars, serverVars, netVars, accepted>>

(* A stream that ends inside its last message. *)
CutLast(stream) ==
    IF stream = <<>> THEN <<>>
    ELSE [stream EXCEPT ![Len(stream)].whole = FALSE]

(* The connection is reset: what was in flight arrives, in whole or in     *)
(* part, or is lost.                                                       *)
LinkDown ==
    /\ "linkDown" \in Faults
    /\ linkUp
    /\ linkUp' = FALSE
    /\ c2s' \in {c2s, CutLast(c2s), <<>>}
    /\ s2c' \in {s2c, CutLast(s2c), <<>>}
    /\ UNCHANGED <<clientVars, fileVars, serverVars, skew, accepted>>

(* The client process dies, perhaps in the middle of a write to its socket *)
(* or to me.info, which is empty until it is closed.                       *)
ClientCrash ==
    /\ "clientCrash" \in Faults
    /\ ~ClientGone
    /\ cpc' = "crashed"
    /\ c2s' \in {c2s, CutLast(c2s)}
    /\ meInfo' \in IF cpc = "save_info" THEN {"absent", "damaged", "present"}
                                        ELSE {meInfo}
    /\ UNCHANGED <<attempt, measured, serverCrc, clientCrc, fileVars,
                   serverVars, linkUp, s2c, skew, accepted>>

(* The server process dies: the database transaction, which is never       *)
(* committed, is rolled back, and a save in progress is cut short.         *)
ServerCrash ==
    /\ "serverCrash" \in Faults
    /\ spc # "crashed"
    /\ spc' = "crashed"
    /\ socket' = "closed"
    /\ disk' \in IF spc = "saving" THEN {disk, Torn} ELSE {disk}
    /\ db' = EmptyDb
    /\ UNCHANGED <<clientVars, fileVars, sData, netVars, accepted>>

Environment == TouchFile \/ LinkDown \/ ClientCrash \/ ServerCrash

-----------------------------------------------------------------------------
Init ==
    /\ cpc = "start"
    /\ attempt = 0
    /\ measured = 0
    /\ serverCrc = Unset
    /\ clientCrc = Unset
    /\ meInfo \in {"absent", "present", "damaged"}
    /\ clientFile \in Content \cup {Nothing}
    /\ edits = 0
    /\ spc = "first"
    /\ socket = "open"
    /\ sData = Nothing
    /\ disk = Nothing
    /\ db \in FoundDb(meInfo)
    /\ linkUp = TRUE
    /\ c2s = <<>>
    /\ s2c = <<>>
    /\ skew = 0
    /\ accepted = Unset

(* Both programs have ended: the only state in which nothing can happen.   *)
Ended == /\ ClientGone
         /\ HandlerGone
         /\ UNCHANGED vars

Next == Client \/ Handler \/ Environment \/ Ended

Spec == Init /\ [][Next]_vars

(* Two threads that the operating system schedules, and nothing else: the  *)
(* user and the faults are never bound to happen.                          *)
FairSpec == Spec /\ WF_vars(Client) /\ WF_vars(Handler)

-----------------------------------------------------------------------------
(* Properties. *)

(* Every variable holds what the two programs can hold; the retry counter  *)
(* of runClient never passes its limit.                                    *)
TypeOK ==
    /\ cpc \in ClientPc
    /\ attempt \in 0 .. MaxRetries
    /\ measured \in Nat
    /\ serverCrc \in Nat \cup {Unset}
    /\ clientCrc \in Nat \cup {Unset}
    /\ meInfo \in {"absent", "present", "damaged"}
    /\ clientFile \in Content \cup {Nothing}
    /\ edits \in 0 .. MaxEdits
    /\ spc \in HandlerPc
    /\ socket \in {"open", "closed"}
    /\ sData \in Content \cup {Nothing}
    /\ disk \in Content \cup {Nothing, Torn}
    /\ db \in DbStates
    /\ linkUp \in BOOLEAN
    /\ c2s \in Seq(Requests)
    /\ s2c \in Seq(Responses)
    /\ skew \in Nat
    /\ accepted \in Nat \cup {Unset}

(* Whether the client's next receive can make sense of a response. *)
Expects(code) ==
    \/ /\ cpc = "await_registration"
       /\ code \in {"REGISTRATION_SUCCESS", "REGISTRATION_FAILED"}
    \/ cpc = "await_key" /\ code = "CLIENT_AES_KEY"
    \/ cpc \in {"validate", "crc_read"} /\ code = "LAST_SENT_FILE_CRC"
    \/ /\ cpc \in {"await_ack", "await_resend", "await_final"}
       /\ code = "REQUEST_RECEIVED"

(* The two sides stay in step although the only framing is the number of   *)
(* bytes the client asks for at each call site: while the handler keeps    *)
(* the connection, the response at the head of the stream is the one the   *)
(* client asks for next, and the bytes that handleCRCValidation leaves     *)
(* unread (3 of the 7 are taken) are never in the way of a later receive.  *)
InStep ==
    /\ socket = "open" /\ ~ClientGone /\ s2c # <<>> =>
            Expects(Head(s2c).code)
    /\ skew # 0 => ClientGone

(* The CRC that the client compares is that of the data the handler holds  *)
(* and would save: no answer to an earlier attempt is taken for the answer *)
(* to this one, also when the retries of sendFileToServer and the loop of  *)
(* __handle_client run against each other.                                 *)
CrcIsCurrent ==
    /\ cpc = "validate" /\ serverCrc # Unset /\ Connected =>
            sData # Nothing /\ serverCrc = CrcOf[sData]
    /\ cpc \in {"validate", "crc_read"} /\ s2c # <<>> /\ Connected =>
            sData # Nothing /\ Head(s2c).crc = CrcOf[sData]

(* __handle_file_from_client writes to server_files only data whose CRC    *)
(* the client has confirmed, whatever is cut, lost or read short.          *)
SavedIsAccepted == disk \in Content => accepted = CrcOf[disk]

(* runClient returns true only after the handler has received data with    *)
(* the CRC that the client found in its own file, and has seen the client's*)
(* confirmation of it: a CRC of 0, which both getServerCalculatedCRC and   *)
(* calculateFileCRC use for "none", never makes a success of two failures. *)
SuccessWasServed ==
    cpc = "succeeded" =>
        /\ sData # Nothing
        /\ CrcOf[sData] = clientCrc
        /\ accepted = clientCrc

(* The flag that set_file_verified sets means what it says: the file under *)
(* server_files is complete and is what the client confirmed.              *)
VerifiedIsSaved ==
    db.verified => disk \in Content /\ CrcOf[disk] = accepted

(* register_new_file leaves one row for every attempt that reached the     *)
(* server, also for those whose CRC was wrong: never more rows than        *)
(* attempts, and none is verified that was not registered.                 *)
RowPerAttempt ==
    /\ db.rows <= attempt + 1
    /\ db.rows <= MaxRetries
    /\ db.verified => db.rows >= 1

(* No receive waits for bytes that nobody is going to send, and there is   *)
(* no timeout to end it: a client that waits finds all the bytes it asks   *)
(* for, or the handler has something to read or to do; a client that does  *)
(* not wait goes on by itself, and one whose connection is over finds out. *)
AwaitsAnswer ==
    \/ cpc \in {"await_registration", "await_key", "await_ack", "await_resend",
                "await_final"}
    \/ cpc = "validate" /\ serverCrc = Unset

NobodyWaitsInVain ==
    Connected /\ AwaitsAnswer =>
        \/ Fills(Asked(cpc))
        \/ spc \in {"first", "await_key", "await_file", "await_confirm"} /\ c2s # <<>>
        \/ spc \in {"saving", "verifying", "final_ack"}

(* Whatever is lost, cut or refused, and whoever dies, both programs come  *)
(* to an end: no receive waits for an answer that nobody is going to send. *)
Termination == <>(ClientGone /\ HandlerGone)

(* A file that is replaced while it is uploaded, by one of the same size,  *)
(* costs at most one attempt of runClient for each replacement: with fewer *)
(* replacements than attempts the upload succeeds.                         *)
RetriesAbsorbEdits ==
    meInfo # "damaged" /\ clientFile # Nothing => <>(cpc = "succeeded")

(* What MainClient.cpp:169 says of runClient: it returns true if the file  *)
(* was uploaded successfully; the file is then on the server's disk once   *)
(* the handler has finished.                                               *)
TrueMeansUploaded ==
    cpc = "succeeded" /\ HandlerGone => disk \in Content

(* What the log line of client_handler.py:50 says of a received file: the  *)
(* handler that has finished with it has closed the connection.            *)
FinishedIsClosed == HandlerGone => socket = "closed"

-----------------------------------------------------------------------------
(* What a session promises, whatever happens to it: see Upload. *)

outcome == IF cpc = "succeeded" THEN "uploaded"
           ELSE IF ClientGone THEN "given_up" ELSE "running"

Promise == INSTANCE Upload WITH confirmed <- accepted, stored <- disk

(* The session implements the promise of Upload. *)
KeepsPromise == Promise!Spec

(* What the rest of the server sees of the handler: see Lifecycle. *)
life == IF spc \in {"stopped", "crashed"} THEN "stopped"
        ELSE IF spc = "done" THEN "done" ELSE "running"

Cycle == INSTANCE Lifecycle

(* The handler ends once, and closes its socket at its end exactly when    *)
(* run() has called stop(): the session implements the lifecycle by which  *)
(* Server stands for it.                                                   *)
KeepsLifecycle == Cycle!Spec
=============================================================================
