------------------------------ MODULE JobPromise ------------------------------
(***************************************************************************)
(* What remote_exec promises its caller about one dispatched job, with     *)
(* nothing said about queues, polls, names or timers.  The caller of       *)
(* RemoteWorkerController.dispatch waits until exactly one outcome settles *)
(* its promise; meanwhile the job is handed to at most one worker, once;   *)
(* only a job that was handed out can be answered; and a restart of the    *)
(* controller loses open jobs, it never replays them.                      *)
(***************************************************************************)
CONSTANTS Jobs, Tokens, None

VARIABLES
  caller,   \* per job: what the awaiting tool call has seen so far
  holder    \* per job: the worker token it was handed to, or None

promiseVars == <<caller, holder>>

Outcomes == {"answered", "gaveup", "revoked", "lost"}

PromiseTypeOK ==
  /\ caller \in [Jobs -> {"none", "waiting"} \cup Outcomes]
  /\ holder \in [Jobs -> Tokens \cup {None}]

PromiseInit ==
  /\ caller = [j \in Jobs |-> "none"]
  /\ holder = [j \in Jobs |-> None]

\* A dispatch is accepted; with an already aborted signal the caller has
\* given up before the call returns.
Accept(j) ==
  /\ caller[j] = "none"
  /\ \E s \in {"waiting", "gaveup"} : caller' = [caller EXCEPT ![j] = s]
  /\ UNCHANGED holder

\* The job goes to the worker holding token t: only once, and only while
\* its caller still waits.
Hand(j, t) ==
  /\ caller[j] = "waiting"
  /\ holder[j] = None
  /\ holder' = [holder EXCEPT ![j] = t]
  /\ UNCHANGED caller

\* The waiting callers of the jobs S all see outcome o.
Settle(S, o) ==
  /\ \A j \in S : caller[j] = "waiting"
  /\ o = "answered" => \A j \in S : holder[j] # None
  /\ caller' = [j \in Jobs |-> IF j \in S THEN o ELSE caller[j]]
  /\ UNCHANGED holder

PromiseNext ==
  \/ \E j \in Jobs : Accept(j)
  \/ \E j \in Jobs, t \in Tokens : Hand(j, t)
  \/ \E S \in SUBSET Jobs, o \in Outcomes : Settle(S, o)

PromiseSpec == PromiseInit /\ [][PromiseNext]_promiseVars

\* Every accepted job is settled in the end.
Promised == \A j \in Jobs : (caller[j] = "waiting") ~> (caller[j] \in Outcomes)
=============================================================================
