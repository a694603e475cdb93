--------------------------------- MODULE Wire ---------------------------------
(***************************************************************************)
(* The bytes of the messages: what the client's code lays out in a buffer, *)
(* and what the server's code takes out of it by slices, and back again    *)
(* for the CRC. The lengths of the fields are constants, and so is the     *)
(* number of values of a byte: what happens at the end of a field and of a *)
(* number does not depend on their size.                                   *)
(*                                                                         *)
(* The header carries the size of the payload, and nothing else of it is   *)
(* looked at here; Session says who sends what and when.                   *)
(***************************************************************************)
EXTENDS Integers, Sequences

CONSTANTS
    Base,        \* how many values a byte has: 256
    SizeLength,  \* bytes of a uint32_t: 4
    IdLength,    \* UUID_LENGTH: 16
    NameLength,  \* USER_NAME_SIZE, FILE_NAME_FIELD_SIZE: 255
    KeyLength,   \* CLIENT_PUBLIC_KEY_FIELD_LENGTH: 160
    PacketSize,  \* PACKET_SIZE: 1024
    HeaderSize,  \* of a response: 7
    RequestSize, \* of a request without its payload: 23
    Id,          \* the id of the client
    Key,         \* its public key
    UserNames,   \* the user names that are tried
    FileNames,   \* the file names
    Data         \* the encrypted files

ASSUME LengthAssumption ==
    /\ Base \in Nat \ {0, 1}
    /\ {SizeLength, IdLength, NameLength, KeyLength} \subseteq Nat \ {0}
    /\ HeaderSize \in Nat /\ RequestSize \in Nat
    /\ PacketSize \in Nat
    /\ HeaderSize + IdLength + 2 * SizeLength + NameLength <= PacketSize
    /\ RequestSize + NameLength + KeyLength <= PacketSize

Byte == 0 .. Base - 1

(* What a byte of a number counts at its place, and the first number that  *)
(* has one byte too many: 2^32.                                            *)
Weight[i \in Nat] == IF i = 0 THEN 1 ELSE Base * Weight[i - 1]
Limit == Weight[SizeLength]

ASSUME ContentAssumption ==
    /\ Id \in [1 .. IdLength -> Byte] /\ Key \in [1 .. KeyLength -> Byte]
    /\ UserNames \cup FileNames \subseteq Seq(Byte \ {0})
    /\ Data \subseteq Seq(Byte)
ASSUME FieldAssumption ==
    /\ IdLength + SizeLength + NameLength + RequestSize < Limit
    /\ PacketSize < Limit

VARIABLES
    stage,    \* how far the message is
    message,  \* what the client was asked to send
    stream,   \* the size in the header of the request, and the bytes behind it
    got,      \* what the handler made of them
    answer    \* a CRC, the bytes of the response, and what the client read

vars == <<stage, message, stream, got, answer>>

-----------------------------------------------------------------------------
(* Fields. *)

(* n as a uint32_t, little-endian: what does not fit is lost. *)
Little(n) ==
    [i \in 1 .. SizeLength |-> ((n % Limit) \div Weight[i - 1]) % Base]
Unpacked(s) == CHOOSE n \in 0 .. Limit - 1 : Little(n) = s

Zeroes(n) == [i \in 1 .. n |-> 0]

(* padStringWithZeroes: a string that is too long stays as it is. *)
Pad(s, n) == IF Len(s) < n THEN s \o Zeroes(n - Len(s)) ELSE s

(* The first n bytes of s: memcpy of a field, struct.pack of a string.     *)
Cut(s, n) == SubSeq(Pad(s, n), 1, n)

(* s[a:b] in Python, which stops at the end of s. *)
Slice(s, a, b) ==
    [i \in 1 .. (IF b < Len(s) THEN b ELSE IF a < Len(s) THEN Len(s) ELSE a) - a
        |-> s[a + i]]

(* rstrip('\x00') *)
Strip(s) == SubSeq(s, 1, CHOOSE n \in 0 .. Len(s) :
                            /\ n > 0 => s[n] # 0
                            /\ \A i \in n + 1 .. Len(s) : s[i] = 0)

-----------------------------------------------------------------------------
(* The client: the payload of each request. *)

Registration(name) == name

PublicKey(name) == Pad(name, NameLength) \o Key

EncryptedFile(name, data) ==
    Id \o Little(Len(data)) \o Cut(name, NameLength) \o data

Payload(m) ==
    CASE m.code = "CLIENT_REGISTRATION"   -> Registration(m.name)
      [] m.code = "CLIENT_PUBLIC_KEY"     -> PublicKey(m.name)
      [] m.code = "CLIENT_ENCRYPTED_FILE" -> EncryptedFile(m.name, m.data)

(* Mutant of Serialize: all of the payload is sent, whatever the header     *)
(* says.                                                                   *)
SerializeAll ==
    /\ stage = "asked"
    /\ stream' = [size  |-> Len(Payload(message)) % Limit,
                  bytes |-> Payload(message)]
    /\ stage' = "sent"
    /\ UNCHANGED <<message, got, answer>>

(* registerClient and sendPublicKeyToServer serialize into a buffer of     *)
(* PACKET_SIZE bytes on the stack, *)
OnStack(m) == m.code \in {"CLIENT_REGISTRATION", "CLIENT_PUBLIC_KEY"}

(* and sendEncryptedFile into one that is allocated for sizeWithPayload, a *)
(* uint32_t.                                                               *)
HasRoom(m, size) ==
    IF OnStack(m) THEN size + RequestSize <= PacketSize
                  ELSE size + RequestSize < Limit

(* ClientRequest and serializeIntoBuffer: payload.size is a uint32_t, and  *)
(* only so many bytes are copied behind the header and sent. When the      *)
(* buffer has no room for them the behaviour is undefined: the client dies *)
(* or, if the buffer was on the stack, sends what it has laid out.         *)
Serialize ==
    LET size == Len(Payload(message)) % Limit IN
    /\ stage = "asked"
    /\ \/ /\ \/ HasRoom(message, size)
             \/ OnStack(message) /\ size + RequestSize < Limit
          /\ stream' = [size |-> size, bytes |-> SubSeq(Payload(message), 1, size)]
          /\ stage' = "sent"
       \/ /\ ~HasRoom(message, size)
          /\ stage' = "failed"
          /\ UNCHANGED stream
    /\ UNCHANGED <<message, got, answer>>

-----------------------------------------------------------------------------
(* The server. *)

ParsedRegistration(p) == [name |-> Slice(p, 0, NameLength)]

ParsedKey(p) == [key |-> Slice(p, NameLength, NameLength + KeyLength)]

(* Mutant of ParsedFile: the name is stripped before the data is looked    *)
(* for behind it.                                                          *)
ParsedFileBehindName(p) ==
    LET name == Strip(Slice(p, IdLength + SizeLength,
                               IdLength + SizeLength + NameLength))
        from == IdLength + SizeLength + Len(name)
        size == Unpacked(Slice(p, IdLength, IdLength + SizeLength))
    IN  [name |-> name, size |-> size, data |-> Slice(p, from, from + size)]

ParsedFile(p) ==
    LET from == IdLength + SizeLength
        size == Unpacked(Slice(p, IdLength, from))
    IN  [name |-> Strip(Slice(p, from, from + NameLength)), size |-> size,
         data |-> Slice(p, from + NameLength, from + NameLength + size)]

(* receive_payload, and what is taken from the payload. A payload that is  *)
(* shorter than the fields of a file raises an exception.                  *)
Parse ==
    LET p == SubSeq(stream.bytes, 1, stream.size) IN
    /\ stage = "sent"
    /\ \/ /\ message.code = "CLIENT_REGISTRATION"
          /\ got' = ParsedRegistration(p)
          /\ stage' = "parsed"
       \/ /\ message.code = "CLIENT_PUBLIC_KEY"
          /\ got' = ParsedKey(p)
          /\ stage' = "parsed"
       \/ /\ message.code = "CLIENT_ENCRYPTED_FILE"
          /\ Len(p) >= IdLength + SizeLength
          /\ got' = ParsedFile(p)
          /\ stage' = "parsed"
       \/ /\ message.code = "CLIENT_ENCRYPTED_FILE"
          /\ Len(p) < IdLength + SizeLength
          /\ stage' = "failed"
          /\ UNCHANGED got
    /\ UNCHANGED <<message, stream, answer>>

(* The payload of the CRC response. *)
CrcPayload(size, name, crc) ==
    Id \o Little(size) \o Cut(name, NameLength) \o Little(crc)

(* ServerResponse.pack: the payload is cut to what a packet has room for.  *)
Packed(payload) ==
    Little(Len(payload)) \o SubSeq(payload, 1,
        IF Len(payload) < PacketSize - HeaderSize
            THEN Len(payload) ELSE PacketSize - HeaderSize)

AnswerCrc ==
    /\ stage = "parsed"
    /\ message.code = "CLIENT_ENCRYPTED_FILE"
    /\ \E crc \in 0 .. Limit - 1 :
          answer' = [answer EXCEPT !.crc = crc,
                                   !.bytes = Packed(CrcPayload(got.size, got.name, crc))]
    /\ stage' = "answered"
    /\ UNCHANGED <<message, stream, got>>

(* Mutant of CrcOffset: the size of the file is not counted. *)
CrcOffsetShort == IdLength + NameLength

(* Where getServerCalculatedCRC looks for the CRC. *)
CrcOffset == IdLength + SizeLength + NameLength

ReadCrc ==
    /\ stage = "answered"
    /\ LET payload == Slice(answer.bytes, SizeLength, Len(answer.bytes))
       IN  answer' = [answer EXCEPT !.read =
               Unpacked(SubSeq(payload, CrcOffset + 1, CrcOffset + SizeLength))]
    /\ stage' = "read"
    /\ UNCHANGED <<message, stream, got>>

-----------------------------------------------------------------------------
Messages ==
    [code : {"CLIENT_REGISTRATION", "CLIENT_PUBLIC_KEY"}, name : UserNames]
    \cup [code : {"CLIENT_ENCRYPTED_FILE"}, name : FileNames, data : Data]

Init ==
    /\ stage = "asked"
    /\ message \in Messages
    /\ stream = [size |-> 0, bytes |-> <<>>]
    /\ got = <<>>
    /\ answer = [crc |-> 0, bytes |-> <<>>, read |-> 0]

Next == Serialize \/ Parse \/ AnswerCrc \/ ReadCrc

Spec == Init /\ [][Next]_vars

-----------------------------------------------------------------------------
(* What must hold. *)

(* The size field and the bytes behind it are what the parser is given, and *)
(* what is read is a number of its size.                                   *)
TypeOK ==
    /\ stage \in {"asked", "sent", "parsed", "failed", "answered", "read"}
    /\ message \in Messages
    /\ stream.size \in 0 .. Limit - 1
    /\ stream.bytes \in Seq(Byte)
    /\ Len(stream.bytes) = stream.size
    /\ answer \in [crc : 0 .. Limit - 1, bytes : Seq(Byte), read : 0 .. Limit - 1]

(* A user name arrives exactly when it fits its field, a key behind every  *)
(* name that fits its field, a file exactly when its request leaves room   *)
(* for the header in a uint32_t. A longer user name is registered without  *)
(* its end, and its end is taken for the key that is behind it, as long as *)
(* the buffer of PACKET_SIZE bytes has room for both. A longer file name   *)
(* is cut, a larger file is lost.                                          *)
Plain == IdLength + SizeLength + NameLength

Fits == HasRoom(message, Len(Payload(message)))

Parsed == stage \in {"parsed", "answered", "read"}

RegistrationArrives ==
    got.name = message.name <=> Len(message.name) <= NameLength

KeyArrives ==
    Fits => got.key = IF Len(message.name) <= NameLength
                        THEN Key
                        ELSE SubSeq(message.name \o Key, NameLength + 1,
                                                         NameLength + KeyLength)

FileArrives ==
    /\ got.data = message.data <=> Fits
    /\ Fits => got.name = IF Len(message.name) <= NameLength
                            THEN message.name
                            ELSE SubSeq(message.name, 1, NameLength)

FittingArrive ==
    /\ stage = "failed" =>
          ~Fits /\ (OnStack(message) => Len(message.name) > NameLength)
    /\ Parsed =>
          /\ message.code = "CLIENT_REGISTRATION"   => RegistrationArrives
          /\ message.code = "CLIENT_PUBLIC_KEY"     => KeyArrives
          /\ message.code = "CLIENT_ENCRYPTED_FILE" => FileArrives

(* The client reads the CRC that the server has packed, for every name,    *)
(* also when the file itself has not arrived.                              *)
CrcArrives == stage = "read" => answer.read = answer.crc
=============================================================================
