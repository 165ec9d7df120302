------------------------------ MODULE TaskPromise ------------------------------
(***************************************************************************)
(* What the task_state capability promises readers of a task record: a     *)
(* task is created active at revision 1, every accepted mutation raises    *)
(* its revision by exactly one, and a completed task never becomes active  *)
(* or paused again.  The ChatGPT continuation controller relies on nothing *)
(* else when it reads status and revision.                                 *)
(***************************************************************************)
EXTENDS Naturals

CONSTANT Tasks

VARIABLE view   \* per task: the status and revision a reader sees

Statuses == {"active", "paused", "completed"}

ViewTypeOK ==
  view \in [Tasks -> [status : Statuses \cup {"none"}, revision : Nat]]

ViewInit == view = [k \in Tasks |-> [status |-> "none", revision |-> 0]]

Appear(k) ==
  /\ view[k].status = "none"
  /\ view' = [view EXCEPT ![k] = [status |-> "active", revision |-> 1]]

Advance(k, s) ==
  /\ view[k].status # "none"
  /\ view[k].status = "completed" => s = "completed"
  /\ view' = [view EXCEPT ![k] = [status |-> s, revision |-> view[k].revision + 1]]

ViewNext == \E k \in Tasks : Appear(k) \/ \E s \in Statuses : Advance(k, s)

ViewSpec == ViewInit /\ [][ViewNext]_view
=============================================================================
