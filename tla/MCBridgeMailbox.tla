---------------------------- MODULE MCBridgeMailbox ----------------------------
(* Finite instances of BridgeMailbox for TLC. *)
EXTENDS BridgeMailbox, TLC

CONSTANTS
  c1, c2, h1, h2,
  Past   \* messages that were enqueued earlier

\* Two companions in two browser hosts, and two in the same one.
TwoHosts == (c1 :> h1) @@ (c2 :> h2)
OneHost == (c1 :> h1) @@ (c2 :> h1)

Symmetry == Permutations(Messages)

\* A later state: the host refused the messages of Past, one after another,
\* when c1 posted them, and their records are still in the mailbox.
LaterInit ==
  /\ list = SetToSeq(Past)
  /\ status = [m \in Messages |-> IF m \in Past THEN "failed" ELSE "none"]
  /\ target = [m \in Messages |-> None]
  /\ owner = [m \in Messages |-> IF m \in Past THEN c1 ELSE None]
  /\ lease = [m \in Messages |-> "none"]
  /\ comp = [c \in Companions |-> Resting]
  /\ late = {}
  /\ timeouts = 0
  /\ turns = [m \in Messages |-> <<>>]
  /\ beganBy = [m \in Messages |-> IF m \in Past THEN c1 ELSE None]

\* Every message that is still to come is dispatched in the end, if a
\* companion that may take it stays.
Dispatched == \A m \in Messages \ Past : Delivered(m)

LaterSpec == LaterInit /\ [][Next]_vars /\ Fairness
=============================================================================
