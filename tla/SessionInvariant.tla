-------------------------- MODULE SessionInvariant --------------------------
(***************************************************************************)
(* Why the properties of Session hold: the inductive invariant that its    *)
(* proofs use and that TLC checks beside them.                             *)
(*                                                                         *)
(* Nothing in the protocol names the request a response belongs to, so     *)
(* everything rests on the two programs moving in turns: LockStep says,    *)
(* for every place of the client, where the handler can be and what is on  *)
(* the wire. It needs a connection; what remains true once that is lost is *)
(* in RequestsFit, ResponsesFit and the parts about what has been saved.   *)
(***************************************************************************)
EXTENDS Session

(* The places where the handler waits for a request, ... *)
Reading == {"first", "await_key", "await_file", "await_confirm"}
(* ... where it can be once it has acknowledged a confirmation, ... *)
Acknowledged == {"saving", "verifying", "final_ack", "done", "stopped", "crashed"}
(* ... and once it has touched the disk. *)
Saved == Acknowledged \ {"saving"}

(* The places of the client inside one attempt. *)
InAttempt == {"read", "validate", "crc_read", "await_ack", "await_resend"}

OneRequest(code)  == Len(c2s) = 1 /\ Head(c2s).code = code
OneResponse(code) == Len(s2c) = 1 /\ Head(s2c).code = code

(* Where the handler is and what is on the wire, for each place of the     *)
(* client. A handler in "final_ack" has given up and will not read again.  *)
LockStep == Connected =>
    /\ cpc = "start" =>
          spc = "first" /\ c2s = <<>> /\ s2c = <<>>
    /\ cpc = "await_registration" =>
          \/ spc = "first" /\ OneRequest("CLIENT_REGISTRATION") /\ s2c = <<>>
          \/ spc = "await_key" /\ c2s = <<>> /\ OneResponse("REGISTRATION_SUCCESS")
    /\ cpc \in {"save_info", "send_key"} =>
          spc \in {"first", "await_key"} /\ c2s = <<>> /\ s2c = <<>>
    /\ cpc = "await_key" =>
          \/ /\ spc \in {"first", "await_key"}
             /\ OneRequest("CLIENT_PUBLIC_KEY") /\ s2c = <<>>
          \/ spc = "await_file" /\ c2s = <<>> /\ OneResponse("CLIENT_AES_KEY")
    /\ cpc \in {"attempt", "read"} =>
          /\ s2c = <<>>
          /\ \/ spc = "await_file" /\ c2s = <<>>
             \/ spc = "final_ack"
    /\ cpc \in {"validate", "crc_read"} =>
          \/ /\ spc = "await_file" /\ serverCrc = Unset
             /\ OneRequest("CLIENT_ENCRYPTED_FILE") /\ s2c = <<>>
          \/ /\ spc = "await_confirm" /\ c2s = <<>> /\ sData \in Content
             /\ \/ /\ serverCrc = Unset /\ OneResponse("LAST_SENT_FILE_CRC")
                   /\ Head(s2c).crc = CrcOf[sData]
                \/ serverCrc = CrcOf[sData] /\ s2c = <<>>
          \/ spc = "final_ack" /\ serverCrc = Unset /\ s2c = <<>>
    /\ cpc = "await_ack" =>
          /\ accepted = clientCrc
          /\ \/ spc = "await_confirm" /\ OneRequest("FILE_CRC_SUCCESS") /\ s2c = <<>>
             \/ spc \in Acknowledged /\ OneResponse("REQUEST_RECEIVED")
    /\ cpc = "await_resend" =>
          \/ spc = "await_confirm" /\ OneRequest("FILE_CRC_FAILED_RESENDING") /\ s2c = <<>>
          \/ spc = "await_file" /\ c2s = <<>> /\ OneResponse("REQUEST_RECEIVED")
          \/ spc = "final_ack" /\ OneResponse("REQUEST_RECEIVED")
    /\ cpc = "await_final" =>
          /\ s2c = <<>>
          /\ \/ spc = "await_file" /\ OneRequest("FILE_CRC_FAILED_FINISHED")
             \/ spc = "final_ack"
    /\ accepted # Unset => cpc = "await_ack"

(* What a reading handler can still find in its stream, connected or not.  *)
RequestsFit == spc \in Reading =>
    /\ Len(c2s) <= 1
    /\ c2s # <<>> /\ Head(c2s).code = "CLIENT_ENCRYPTED_FILE" =>
          Head(c2s).data \in Content
    /\ c2s # <<>> /\ Head(c2s).code = "FILE_CRC_SUCCESS" =>
          /\ spc = "await_confirm"
          /\ sData \in Content
          /\ accepted = CrcOf[sData]

(* What the client can still find in its stream: the answer it asks for,   *)
(* or acknowledgements of a handler that has closed the connection.        *)
ResponsesFit == ~ClientGone =>
    /\ skew = 0
    /\ s2c # <<>> =>
          \/ Len(s2c) = 1 /\ Expects(Head(s2c).code)
          \/ /\ socket = "closed"
             /\ cpc \in {"attempt", "await_final"} \cup InAttempt
             /\ \A i \in 1 .. Len(s2c) : s2c[i].code = "REQUEST_RECEIVED"
    /\ cpc \in {"validate", "crc_read"} /\ serverCrc # Unset => s2c = <<>>

(* A client that is or may be acknowledged has confirmed what the handler  *)
(* holds, and the handler will take no other data.                         *)
Served ==
    cpc = "succeeded" \/ (cpc = "await_ack" /\ s2c # <<>>) =>
        /\ spc \in Acknowledged
        /\ sData \in Content
        /\ CrcOf[sData] = clientCrc
        /\ accepted = clientCrc

(* What the handler saves, and when. *)
SavesOnce ==
    /\ spc \in {"saving", "verifying"} =>
          sData \in Content /\ accepted = CrcOf[sData]
    /\ spc = "verifying" => disk = sData
    /\ disk # Nothing => spc \in Saved
    /\ db.verified => spc \in Saved \ {"verifying"}

AttemptsLeft == cpc \in InAttempt => attempt < MaxRetries

(* The rows of "files" against the attempts of the client: one may be ahead*)
(* while an attempt is under way, none while a request is still to come.   *)
RowsFit ==
    /\ db.rows <= attempt + 1
    /\ db.rows <= MaxRetries
    /\ Connected /\ cpc \notin InAttempt \ {"read"} => db.rows <= attempt
    /\ spc \in Reading /\ c2s # <<>> /\ Head(c2s).code = "CLIENT_ENCRYPTED_FILE" =>
          db.rows <= attempt /\ db.rows < MaxRetries
    /\ spc \in {"await_confirm", "saving", "verifying"} \/ db.verified =>
          db.rows >= 1

(* The inductive invariant. *)
IInv ==
    /\ TypeOK
    /\ AttemptsLeft
    /\ LockStep
    /\ RequestsFit
    /\ ResponsesFit
    /\ Served
    /\ SavesOnce
    /\ SavedIsAccepted
    /\ VerifiedIsSaved
    /\ RowsFit
=============================================================================
