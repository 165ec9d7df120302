--------------------------- MODULE MCRemoteWorkers ---------------------------
(* Finite instances of RemoteWorkers for TLC. *)
EXTENDS RemoteWorkersProps

\* Names, tokens, jobs, polls, calls and invites only ever get compared.
Symmetry ==
  Permutations(Names) \cup Permutations(Tokens) \cup Permutations(Jobs)
    \cup Permutations(Polls) \cup Permutations(Calls) \cup Permutations(Invites)
=============================================================================
