------------------------------ MODULE Protocol ------------------------------
(***************************************************************************)
(* The vocabulary of the wire protocol: the request and response codes and *)
(* the number of bytes of every response, from the two sides' own tables   *)
(* (protocol.py on the server, ClientRequest.h, ServerResponse.h,          *)
(* FileHandler.h and EncryptionHandler.h on the client).                   *)
(*                                                                         *)
(* The two sides agree on no framing but these numbers: the server packs a *)
(* 7-byte header and a payload, the client asks its socket for a number of *)
(* bytes that it computes from its own constants at each call site.        *)
(***************************************************************************)
EXTENDS Naturals

(* The codes of a request, and the value a request has whose header could  *)
(* not be parsed.                                                          *)
RequestType ==
    {"DEFAULT_REQUEST_TYPE", "CLIENT_REGISTRATION", "CLIENT_PUBLIC_KEY",
     "CLIENT_ENCRYPTED_FILE", "FILE_CRC_SUCCESS",
     "FILE_CRC_FAILED_RESENDING", "FILE_CRC_FAILED_FINISHED"}

(* The codes of the responses the server ever packs. *)
ResponseType ==
    {"REGISTRATION_SUCCESS", "REGISTRATION_FAILED", "CLIENT_AES_KEY",
     "LAST_SENT_FILE_CRC", "REQUEST_RECEIVED"}

(* Field lengths, in bytes. *)
PACKET_SIZE == 1024
CLIENT_ID_FIELD_LENGTH == 16
FILE_LENGTH_FIELD_LENGTH == 4
FILE_NAME_LENGTH_FIELD_LENGTH == 255
CHECKSUM_FIELD_LENGTH == 4

(* External: what PKCS1_OAEP makes of a 16-byte key under a 1024-bit RSA   *)
(* key; the client names the same number.                                  *)
ENCRYPTED_SHARED_KEY_LENGTH == 128

(* ServerResponse.size_without_payload(): version, code, payload size. *)
HeaderSize == 1 + 2 + 4

(* The payloads the handler builds: a client id (sixteen zeroes when there *)
(* is none); the id and the encrypted AES key; the id, the size and the    *)
(* name of the file and its CRC.                                           *)
RegistrationPayload == CLIENT_ID_FIELD_LENGTH
AesKeyPayload == CLIENT_ID_FIELD_LENGTH + ENCRYPTED_SHARED_KEY_LENGTH
CrcPayload == CLIENT_ID_FIELD_LENGTH + FILE_LENGTH_FIELD_LENGTH
                + FILE_NAME_LENGTH_FIELD_LENGTH + CHECKSUM_FIELD_LENGTH

PayloadSize(code) ==
    CASE code \in {"REGISTRATION_SUCCESS", "REGISTRATION_FAILED"} ->
            RegistrationPayload
      [] code = "CLIENT_AES_KEY"     -> AesKeyPayload
      [] code = "LAST_SENT_FILE_CRC" -> CrcPayload
      [] OTHER                       -> 0

(* ServerResponse.pack(): the header and the payload, the latter cut so    *)
(* that the whole fits a packet.                                           *)
PackedSize(code) ==
    LET room == PACKET_SIZE - HeaderSize
    IN  HeaderSize
          + (IF PayloadSize(code) < room THEN PayloadSize(code) ELSE room)

(* The client's sizeof(ServerResponseHeader): version and code, packed to  *)
(* one byte, without the payload size.                                     *)
ClientHeaderSize == 1 + 2

(* Mutant of ClientSizeField: a client that takes the header to be all. *)
NoSizeField == 0

(* The payload size behind the header. *)
ClientSizeField == 4
=============================================================================
