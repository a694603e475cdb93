-------------------------------- MODULE MCWire --------------------------------
(* Wire on a small scale, for TLC: four values of a byte, numbers of two   *)
(* bytes, names of two, so that a file of nine bytes is one too large for  *)
(* the buffer, one of eleven bytes one too large for the size field, and a *)
(* user name of nine bytes, or of six with a key, one too large for the    *)
(* buffer on the stack.                                                    *)
EXTENDS Wire

CONSTANTS LongestName, LongestData

MCId  == [i \in 1 .. IdLength |-> 1]
MCKey == [i \in 1 .. KeyLength |-> 1 + (i % (Base - 1))]

MCNames == UNION {[1 .. n -> Byte \ {0}] : n \in 1 .. LongestName}
(* User names also of the lengths up to where a payload is too large.      *)
MCUserNames ==
    MCNames \cup {[i \in 1 .. n |-> 1 + (i % (Base - 1))] : n \in 1 .. Limit + 3}

(* All files up to some length, and one of each of the next lengths.       *)
MCData  == UNION {[1 .. n -> Byte] : n \in 1 .. LongestData}
             \cup {[i \in 1 .. LongestData + n |-> i % Base] : n \in 1 .. 12}
=============================================================================
