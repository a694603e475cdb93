------------------------------- MODULE Upload -------------------------------
(***************************************************************************)
(* What one session promises to the user, without a word on how: the       *)
(* client confirms a CRC at most once; the server stores nothing but data  *)
(* with the confirmed CRC, and a failed save leaves a torn file at worst;  *)
(* the client reports a success only of what it has confirmed. It does not *)
(* promise that what is reported is stored, nor the other way round.       *)
(***************************************************************************)
EXTENDS Integers

CONSTANTS Content, CrcOf, Nothing, Torn

VARIABLES
    confirmed,   \* the CRC the client has confirmed, -1 for none
    stored,      \* what the server has stored
    outcome      \* "running", "uploaded" or "given_up"

vars == <<confirmed, stored, outcome>>

None == -1

(* The client agrees with the server on the CRC of one content. *)
Confirm ==
    /\ confirmed = None
    /\ outcome = "running"
    /\ confirmed' \in {CrcOf[c] : c \in Content}
    /\ UNCHANGED <<stored, outcome>>

(* The server stores a content with that CRC, before or after the report.  *)
Store ==
    /\ confirmed # None
    /\ stored = Nothing
    /\ stored' \in {c \in Content : CrcOf[c] = confirmed} \cup {Torn}
    /\ UNCHANGED <<confirmed, outcome>>

(* The client tells its user. *)
Report ==
    /\ outcome = "running"
    /\ \/ outcome' = "uploaded" /\ confirmed # None
       \/ outcome' = "given_up"
    /\ UNCHANGED <<confirmed, stored>>

Init ==
    /\ confirmed = None
    /\ stored = Nothing
    /\ outcome = "running"

Next == Confirm \/ Store \/ Report

Spec == Init /\ [][Next]_vars
=============================================================================
