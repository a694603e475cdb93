------------------------------- MODULE MCStore -------------------------------
(* Store on small instances, for TLC. *)
EXTENDS Store, TLC

(* Handlers, clients and files are only ever compared with each other.     *)
(* For StoreMixes only: the other run has a liveness property.             *)
Symmetry ==
    Permutations(Handlers) \cup Permutations(Clients) \cup Permutations(Files)
=============================================================================
