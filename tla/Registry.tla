------------------------------ MODULE Registry ------------------------------
(***************************************************************************)
(* What the clients table promises while the server is up: a name is given *)
(* out once, to an id that was never given out before, and stays with it;  *)
(* only the end of the server takes all names back at once.                *)
(***************************************************************************)
EXTENDS Integers

CONSTANTS Names

VARIABLES
    holder,   \* the id that each name belongs to, 0 for none
    issued    \* how many ids have been drawn

vars == <<holder, issued>>

Claim(n) ==
    /\ holder[n] = 0
    /\ issued' = issued + 1
    /\ holder' = [holder EXCEPT ![n] = issued']

(* An id is drawn and thrown away: the name is not given out. *)
Refuse ==
    /\ issued' = issued + 1
    /\ UNCHANGED holder

Clear ==
    /\ holder' = [n \in Names |-> 0]
    /\ UNCHANGED issued

Init ==
    /\ holder = [n \in Names |-> 0]
    /\ issued = 0

Next == Clear \/ Refuse \/ \E n \in Names : Claim(n)

Spec == Init /\ [][Next]_vars
=============================================================================
