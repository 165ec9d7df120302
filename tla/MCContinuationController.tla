----------------------- MODULE MCContinuationController -----------------------
(* Finite instances of ContinuationController for TLC. *)
EXTENDS ContinuationController, TLC

CONSTANT h1

\* All tabs in one browser, which a tab may not know yet.
OneHost == [o \in Observers |-> {h1, None}]

\* Bounds: a controller that is off for good does nothing more, and until the
\* first arming the task stays as it was created.
MayAct ==
  /\ state.enabled \/ arms < MaxArms
  /\ arms > 0 \/ \A k \in Tasks : view[k].revision <= 1

\* Once it has been armed for the last time the controller reads of the
\* observers only this, and an observer that it binds later is written first.
Bound == IF arms < MaxArms \/ state.observerId = None THEN obs
         ELSE <<obs[state.observerId].online, obs[state.observerId].type,
                obs[state.observerId].recent>>
\* A message that is over only ever starts its late turn, and of the senders
\* only the DSH GUI is counted.
Over(m) == stage[m] \in {"sent", "failed", "lost"}
Post == [m \in Messages |-> <<IF Over(m) THEN "over" ELSE stage[m], kind[m] = "dsh-gui",
                              m \in handed /\ turns[m] = 0>>]
ReadLater == <<ctlVars, companions, Post, view, chatVars, Bound>>

Symmetry == {p @@ q : p \in Permutations(Messages), q \in Permutations(Observers)}
=============================================================================
