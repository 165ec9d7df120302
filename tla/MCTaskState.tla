------------------------------ MODULE MCTaskState ------------------------------
(* Finite instances of TaskState for TLC. *)
EXTENDS TaskState, TLC

\* Tasks, attempts and calls only ever get compared.
Symmetry == Permutations(Tasks) \cup Permutations(Attempts) \cup Permutations(Calls)
=============================================================================
