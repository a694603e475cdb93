--------------------------- MODULE MCRegistration ---------------------------
(* Registration on small instances, for TLC. *)
EXTENDS Registration, TLC

(* Users, connections and names are only ever compared with each other. *)
Symmetry ==
    Permutations(Users) \cup Permutations(Conns) \cup Permutations(Names)
=============================================================================
