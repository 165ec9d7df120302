---------------------------- MODULE HandoffPromise ----------------------------
(***************************************************************************)
(* What the ChatGPT bridge promises the sender of a message, with nothing  *)
(* said about leases, polls or companions: the message crosses into the    *)
(* ChatGPT conversation at most once, only after it has been handed over   *)
(* for good, and is reported sent only when it has crossed.                *)
(***************************************************************************)
EXTENDS Naturals

CONSTANT Messages

VARIABLES
  stage,   \* per message: where it is
  handed,  \* messages that were handed over, even if the host forgot them
  turns    \* per message: how many ChatGPT turns it has started

handoffVars == <<stage, handed, turns>>

HandoffInit ==
  /\ stage = [m \in Messages |-> "none"]
  /\ handed = {}
  /\ turns = [m \in Messages |-> 0]

Accept(m) ==
  /\ stage[m] = "none"
  /\ stage' = [stage EXCEPT ![m] = "queued"]
  /\ UNCHANGED <<handed, turns>>

Hand(m) ==
  /\ stage[m] = "queued"
  /\ stage' = [stage EXCEPT ![m] = "handed"]
  /\ handed' = handed \cup {m}
  /\ UNCHANGED turns

\* A turn may start late, after a failure was reported or the host restarted.
Turn(m) ==
  /\ m \in handed /\ turns[m] = 0
  /\ turns' = [turns EXCEPT ![m] = 1]
  /\ UNCHANGED <<stage, handed>>

Settle(m, outcome) ==
  /\ stage[m] = "handed"
  /\ outcome = "sent" => turns[m] = 1
  /\ stage' = [stage EXCEPT ![m] = outcome]
  /\ UNCHANGED <<handed, turns>>

\* The mailbox lives in memory: a host restart loses what it holds.
LoseAll ==
  /\ stage' = [m \in Messages |-> IF stage[m] = "none" THEN "none" ELSE "lost"]
  /\ UNCHANGED <<handed, turns>>

HandoffNext ==
  \/ \E m \in Messages : Accept(m) \/ Hand(m) \/ Turn(m)
  \/ \E m \in Messages, outcome \in {"sent", "failed"} : Settle(m, outcome)
  \/ LoseAll

HandoffSpec == HandoffInit /\ [][HandoffNext]_handoffVars
=============================================================================
