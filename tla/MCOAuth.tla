-------------------------------- MODULE MCOAuth --------------------------------
(* Finite instances of OAuth for TLC. *)
EXTENDS OAuth, TLC

\* Requests, clients and calls only ever get compared.
Symmetry == Permutations(Requests) \cup Permutations(Clients) \cup Permutations(Calls)
=============================================================================
