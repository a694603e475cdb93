------------------------------ MODULE InfoFiles ------------------------------
(***************************************************************************)
(* The two text files of a client over two of its runs: transfer.info,     *)
(* which the user has written, and me.info, which the first run writes and *)
(* the second one reads. What a run makes of them decides whether it goes  *)
(* on, with which port, user name and id.                                  *)
(*                                                                         *)
(* A file is a sequence of characters. It is read into a buffer of its     *)
(* size and then taken for a C string, so that what lies behind the buffer *)
(* belongs to it up to the next zero.                                      *)
(***************************************************************************)
EXTENDS Integers, Sequences, SequencesExt

CONSTANTS
    Letters,    \* the characters that mean nothing in these files
    Texts,      \* what transfer.info may hold
    Ids,        \* client ids: sequences of bytes, which have two digits
    Key,        \* the private key as text
    Garbage,    \* what may lie behind a buffer, up to the next zero
    PortLimit   \* 2^16

Char == Letters \cup {"0", "1", ":", "\n", "nul"}

ASSUME TextAssumption == Texts \cup Garbage \subseteq Seq(Char)
ASSUME KeyAssumption ==
    /\ Key \in Seq(Char) \ {<<>>}
    /\ \A i \in DOMAIN Key : Key[i] \notin {"\n", "nul"}
ASSUME IdAssumption == Ids \subseteq Seq(0 .. 3)
ASSUME PortAssumption == PortLimit \in Nat \ {0}

VARIABLES
    stage,     \* how far the runs are
    transfer,  \* transfer.info
    info,      \* me.info, <<>> if there is none
    overread,  \* history: whether a line was read on behind a buffer
    port, name,  \* what getTransferInformation has found
    owner,     \* history: the user name that me.info was written for
    id,        \* the id that the server gave out
    idRead     \* the id that was found in me.info

vars == <<stage, transfer, info, overread, port, name, owner, id, idRead>>

-----------------------------------------------------------------------------
(* Text. *)

(* boost::split with one separator: a line begins in front and behind each *)
(* separator, and ends before the next one.                                *)
Begins(s, c) == {1} \cup {i + 1 : i \in {k \in DOMAIN s : s[k] = c}}

End(s, c, i) == CHOOSE j \in i - 1 .. Len(s) :
                   /\ j = Len(s) \/ s[j + 1] = c
                   /\ \A k \in i .. j : s[k] # c

LineAt(s, c, i) == SubSeq(s, i, End(s, c, i))

Split(s, c) ==
    [n \in 1 .. Cardinality(Begins(s, c)) |->
        LineAt(s, c, CHOOSE i \in Begins(s, c) :
                        Cardinality({j \in Begins(s, c) : j < i}) = n - 1)]

(* boost::join of three lines. *)
Join(a, b, c) == a \o <<"\n">> \o b \o <<"\n">> \o c

WithoutEmptyEnd(lines) == IF Last(lines) = <<>> THEN Front(lines) ELSE lines

(* A zero in the file ends the string. *)
CString(s) == Split(s, "nul")[1]

(* Digits, of which there are two here. *)
Digits == <<"0", "1">>
DigitOf(c) == IF c = Digits[1] THEN 0 ELSE 1

(* atoi: the number in front; text that is not a number is 0. *)
Atoi(s) ==
    LET end == CHOOSE n \in 0 .. Len(s) :
                  /\ \A i \in 1 .. n : s[i] \in ToSet(Digits)
                  /\ n < Len(s) => s[n + 1] \notin ToSet(Digits)
    IN  FoldLeft(LAMBDA acc, c : (2 * acc) + DigitOf(c), 0, SubSeq(s, 1, end))

(* Mutant of Hex: a number is written without leading zeroes. *)
HexShort(bytes) ==
    FlattenSeq([i \in DOMAIN bytes |->
        IF bytes[i] < 2
          THEN <<Digits[bytes[i] + 1]>>
          ELSE <<Digits[(bytes[i] \div 2) + 1], Digits[(bytes[i] % 2) + 1]>>])

(* Base64Wrapper::hex and unhex: two digits for each byte. *)
Hex(bytes) ==
    [k \in 1 .. 2 * Len(bytes) |->
        IF k % 2 = 1 THEN Digits[(bytes[(k + 1) \div 2] \div 2) + 1]
                     ELSE Digits[(bytes[k \div 2] % 2) + 1]]

IsHex(s) == Len(s) % 2 = 0 /\ ToSet(s) \subseteq ToSet(Digits)
Unhex(s) == [i \in 1 .. Len(s) \div 2 |->
                (2 * DigitOf(s[(2 * i) - 1])) + DigitOf(s[2 * i])]

-----------------------------------------------------------------------------
(* The client. *)

(* readInformationFile: the lines that are found in a file with g behind   *)
(* its buffer. An empty file has none.                                     *)
LinesRead(file, g) ==
    IF file = <<>> THEN <<>>
    ELSE WithoutEmptyEnd(Split(CString(file \o g), "\n"))

(* getTransferInformation: three lines, the first with an address and a    *)
(* port, which is made a uint16_t whatever it is; and the server must be   *)
(* there.                                                                  *)
GetTransferInformation ==
    /\ stage \in {"first", "second"}
    /\ \E g \in Garbage :
          LET lines == LinesRead(transfer, g) IN
          /\ overread' = (overread \/ lines # LinesRead(transfer, <<>>))
          /\ \/ /\ Len(lines) = 3
                /\ Len(Split(lines[1], ":")) = 2
                /\ port' = Atoi(Split(lines[1], ":")[2]) % PortLimit
                /\ name' = lines[2]
                /\ stage' = IF stage = "first" THEN "connected"
                                              ELSE "reconnected"
             \/ /\ stage' = "refused"  \* the wrong pattern, or no connection
                /\ UNCHANGED <<port, name>>
    /\ UNCHANGED <<transfer, info, owner, id, idRead>>

(* initializeClient after a registration: me.info. *)
SaveInfo ==
    /\ stage = "connected"
    /\ info' = Join(name, Hex(id), Key)
    /\ owner' = name
    /\ stage' = "saved"
    /\ UNCHANGED <<transfer, overread, port, name, id, idRead>>

(* The user starts the client again, with another transfer.info or not. *)
Edit ==
    /\ stage = "saved"
    /\ transfer' \in Texts
    /\ stage' = "second"
    /\ UNCHANGED <<info, overread, port, name, owner, id, idRead>>

(* getClientConnectionInfo: three lines, the first with this user name and *)
(* the second with an id that is not too long. The third is loaded as the  *)
(* private key and compared with nothing: what is not the key may load as  *)
(* well, or its loading throws and ends the run.                           *)
GetClientConnectionInfo ==
    /\ stage = "reconnected"
    /\ \E g \in Garbage :
          LET lines  == LinesRead(info, g)
              usable == /\ Len(lines) = 3
                        /\ lines[1] = name
                        /\ IsHex(lines[2])
                        /\ Len(Unhex(lines[2])) <= Len(id)
          IN  /\ overread' = (overread \/ lines # LinesRead(info, <<>>))
              /\ idRead' = IF usable THEN Unhex(lines[2]) ELSE idRead
              /\ \/ usable /\ stage' = "accepted"
                 \/ ~(usable /\ lines[3] = Key) /\ stage' = "failed"
    /\ UNCHANGED <<transfer, info, port, name, owner, id>>

-----------------------------------------------------------------------------
Init ==
    /\ stage = "first"
    /\ transfer \in Texts
    /\ info = <<>>
    /\ overread = FALSE
    /\ port = 0
    /\ name = <<>>
    /\ owner = <<>>
    /\ id \in Ids
    /\ idRead = <<>>

Next == GetTransferInformation \/ SaveInfo \/ Edit \/ GetClientConnectionInfo

Spec == Init /\ [][Next]_vars

-----------------------------------------------------------------------------
(* What must hold. *)

(* me.info binds its user: a second run is let through only if its         *)
(* transfer.info names the user that me.info was written for, whatever     *)
(* else it holds, and then works with the id that was given to that user.  *)
(* It is refused only for another user, or when readInformationFile has    *)
(* read on behind a buffer.                                                *)
NextRunAccepts ==
    /\ stage = "accepted" => name = owner /\ idRead = id
    /\ stage = "failed" => name # owner \/ overread
=============================================================================
