----------------------------- MODULE MCSession -----------------------------
(* Session on small instances, for TLC. *)
EXTENDS SessionInvariant

CONSTANTS zero, one, big

(* Three contents. The CRC of "zero" is 0, which the client also takes for *)
(* "none"; the CRC of "one" needs two bytes, so that the part of it that a *)
(* broken receive leaves behind is another number; "big" has another size. *)
MCContent == {zero, one, big}
MCCrcOf   == [c \in Content |-> CASE c = zero -> 0
                                  [] c = one  -> 258
                                  [] OTHER    -> 7]
MCSizeOf  == [c \in Content |-> IF c = big THEN 2 ELSE 1]

(* Two contents of one size: no buffer is ever read beyond its end.        *)
MCSameSize == {zero, one}
=============================================================================
