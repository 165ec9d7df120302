------------------------------ MODULE RemoteAgent ------------------------------
(***************************************************************************)
(* A machine's worker process (run_loop of remote_worker_agent.py) talking *)
(* to the controller of RemoteWorkers over requests that can fail.         *)
(*                                                                         *)
(* The process has one thread for its loop and one for the job it runs.    *)
(* A request of the loop either reaches its handler or not, and the loop   *)
(* either reads the answer or not; in both losses it sees either a         *)
(* connection error, a timeout or a 5xx of the gateway, which it treats    *)
(* alike, or an exception that it does not handle and that ends it: an     *)
(* answer cut short, too large or malformed.  A poll whose connection is   *)
(* gone stays a waiter of the controller.                                  *)
(***************************************************************************)
EXTENDS RemoteWorkersProps

CONSTANTS
  Me,          \* the worker token in the process's identity file
  Endings,     \* how a job may end, of returned/timeouterror
  MaxCrashes,  \* bound: times the process is killed
  MaxMissed    \* bound: grace periods that no heartbeat got through

ASSUME AgentAssumption ==
  /\ Me \in Tokens
  /\ None \notin Jobs
  /\ Endings \subseteq {"returned", "timeouterror"}
  /\ {MaxCrashes, MaxMissed} \subseteq Nat
  /\ "wellformed" \in ResultKinds

VARIABLES
  pc,       \* where the loop is; dropping: it has ended and the job it
            \*   watched has not been told
  awaits,   \* the poll or storage call that serves its request, or None
  job,      \* the job it has received, or None
  work,     \* future: none, running, returned (a value, or raised another
            \*   exception), or timeouterror (raised TimeoutError)
  told,     \* the job's cancel_event is set
  crashes,  \* times killed so far
  missed,   \* grace periods missed so far
  ran       \* history, per job: how often it was started

loopVars == <<pc, awaits, job, work, told, crashes, ran>>
agentVars == <<loopVars, missed>>
linkVars == <<vars, agentVars>>

AgentTypeOK ==
  /\ pc \in {"resting", "resuming", "ready", "polling", "watching", "beating",
             "reporting", "dropping", "stopping", "gone"}
  /\ awaits \in Polls \cup Calls \cup {None}
  /\ job \in Jobs \cup {None}
  /\ work \in {"none", "running"} \cup Endings
  /\ told \in BOOLEAN
  /\ crashes \in 0..MaxCrashes
  /\ missed \in 0..MaxMissed
  /\ ran \in [Jobs -> Nat]
  /\ pc \in {"watching", "beating", "reporting"} \/ work # "none" => job \in Jobs

LinkTypeOK == TypeOK /\ AgentTypeOK

-----------------------------------------------------------------------------
(* The loop *)

\* The handler throws 401 (404 while a rename or a revocation is between its
\* two maps), or 403 for a result of another machine's job.
Unknown == \A n \in Names : ~WorkerForToken(Me, n)
Foreign(n) == pc = "reporting" /\ job \in pending /\ ~Assigned(job, n)
Refuses == NextTask /\ (Unknown \/ \E n \in Names : WorkerForToken(Me, n) /\ Foreign(n))

\* The loop goes on at next, with nothing awaited and no job.
Continue(next) ==
  /\ pc' = next /\ awaits' = None
  /\ job' = None /\ work' = "none" /\ told' = FALSE
  /\ UNCHANGED <<crashes, ran>>

\* No usable answer, and no job: the loop starts over after a sleep, or the
\* exception leaves run_loop.
NoAnswer == Continue("resting") \/ Continue("stopping")

\* The loop goes on at next with the same job.
Keep(next, cancel) ==
  /\ pc' = next
  /\ told' = (told \/ cancel)
  /\ UNCHANGED <<awaits, job, work, crashes, ran>>

\* executor.submit, with a cancel_event of its own.
StartJob(j) ==
  /\ pc' = "watching" /\ awaits' = None
  /\ job' = j /\ work' = "running" /\ told' = FALSE
  /\ ran' = [ran EXCEPT ![j] = @ + 1]
  /\ UNCHANGED crashes

\* resume: the outer loop, at the start and after each sleep.
SendResume(c) ==
  /\ pc = "resting"
  /\ \E n \in Names : Resume(c, Me, n)
  /\ pc' = "resuming" /\ awaits' = c
  /\ UNCHANGED <<job, work, told, crashes, ran>>

\* The handler goes on; when it is through its answer arrives, or is lost, or
\* is an error other than 401 because the storage failed or the record is gone.
ResumeAnswer(c) ==
  /\ pc = "resuming" /\ awaits = c
  /\ StorageStep(c)
  /\ IF call'[c].pc # "idle" THEN UNCHANGED loopVars
     ELSE \/ call[c].pc = "resume_done" /\ Continue("ready")
          \/ NoAnswer

\* The job _takeQueued takes from the queue of object r.
Taken(r) ==
  {j \in Jobs : \E i \in DOMAIN queue[r] :
     queue[r][i] = j /\ Live(j) /\ \A k \in 1..(i - 1) : ~Live(queue[r][k])}

\* Mutant of Deliver: an answer without a job is taken for one.
DeliverAnything(r) ==
  \/ \E j \in Taken(r) : StartJob(j)
  \/ Taken(r) = {} /\ StartJob(None)
  \/ NoAnswer

\* What a poll took is started, if its answer arrives.
Deliver(r) ==
  \/ \E j \in Taken(r) : StartJob(j)
  \/ Taken(r) = {} /\ Continue("ready")
  \/ NoAnswer

SendPoll(p, n) ==
  /\ pc = "ready"
  /\ Poll(p, Me, n)
  /\ IF poll'[p].st = "waiting"
     THEN /\ pc' = "polling" /\ awaits' = p
          /\ UNCHANGED <<job, work, told, crashes, ran>>
     ELSE Deliver(RuntimeFor(n))

PollAnswer(p) ==
  /\ pc = "polling" /\ awaits = p
  /\ PollResume(p)
  /\ IF poll[p].st = "revoked" THEN NoAnswer
     ELSE Deliver(RuntimeFor(poll[p].name))

\* resume or poll fails before its handler ran, or while it waits.
RequestFails ==
  /\ pc \in {"resuming", "ready", "polling"}
  /\ NoAnswer
  /\ UNCHANGED vars

\* future.result(timeout=heartbeat_s) raises concurrent.futures.TimeoutError:
\* the time is up, or, that class being TimeoutError, the job raised it.
WaitTimesOut ==
  /\ pc = "watching" /\ work \in {"running", "timeouterror"}
  /\ Keep("beating", FALSE)
  /\ UNCHANGED vars

\* Mutant of Heeds: the answer to a heartbeat is not looked at.
HeedsNothing(j) == FALSE

\* Mutant of Heeds: every answer to a heartbeat counts.
HeedsAnything(j) == TRUE

\* heartbeat.get("cancelled")
Heeds(j) == CancelSignalled(Me, j)

Beat ==
  /\ pc = "beating"
  /\ \E n \in Names : Heartbeat(Me, n)
  /\ Keep("watching", Heeds(job))

\* The job goes on: with the loop, which handles WorkerHTTPError, URLError,
\* TimeoutError and OSError, or without it after any other exception of
\* post_json, and then nobody sets its cancel_event.
BeatFails ==
  /\ pc = "beating"
  /\ \E next \in {"watching", "dropping"} : Keep(next, FALSE)
  /\ UNCHANGED vars \/ \E n \in Names : Heartbeat(Me, n)

\* future.result returns or raises: the result is put together.
JobReturns ==
  /\ pc = "watching" /\ work = "returned"
  /\ Keep("reporting", FALSE)
  /\ UNCHANGED vars

\* submit_result_with_retry: 200 whether the result is accepted or not.
Submit(n) == ~Foreign(n) /\ SubmitResult(Me, n, job, "wellformed")

Report ==
  /\ pc = "reporting"
  /\ \E n \in Names : Submit(n)
  /\ Continue("ready")

\* No answer: another attempt follows, or after 30 s the error reaches the
\* outer loop, or run_loop ends with result_delivery_failed.
ReportFails ==
  /\ pc = "reporting"
  /\ UNCHANGED vars \/ \E n \in Names : Submit(n)
  /\ \/ UNCHANGED loopVars
     \/ NoAnswer

\* Mutant of AfterRefusal: a refused heartbeat is a server error.
AfterRefusalRetry == IF pc = "beating" THEN Keep("watching", FALSE) ELSE Keep("stopping", TRUE)

\* 401 and 403 raise out of run_loop; during a heartbeat the job is told first.
AfterRefusal == Keep("stopping", pc = "beating")

Refused ==
  /\ pc \in {"resting", "ready", "beating", "reporting"}
  /\ Refuses
  /\ AfterRefusal
  /\ UNCHANGED vars

-----------------------------------------------------------------------------
(* The job and the process *)

\* execute_job: told or past its deadline it fails at its next ensure_live,
\* unless it is over before that.
JobEnds(ending) ==
  /\ work = "running"
  /\ work' = ending
  /\ UNCHANGED <<vars, pc, awaits, job, told, crashes, ran>>

\* shutdown(wait=False) does not wait for the job's thread, but the
\* interpreter does before the process ends.
Exit ==
  /\ pc \in {"dropping", "stopping"} /\ work # "running"
  /\ Continue("gone")
  /\ UNCHANGED vars

Crash ==
  /\ pc # "gone" /\ crashes < MaxCrashes
  /\ pc' = "gone" /\ awaits' = None
  /\ job' = None /\ work' = "none" /\ told' = FALSE
  /\ crashes' = crashes + 1
  /\ UNCHANGED <<vars, ran>>

\* systemd, or its owner, starts it again.
Start ==
  /\ pc = "gone"
  /\ Continue("resting")
  /\ UNCHANGED vars

-----------------------------------------------------------------------------
(* The composition *)

AgentInit ==
  /\ pc = "resting" /\ awaits = None /\ job = None /\ work = "none"
  /\ told = FALSE /\ crashes = 0 /\ missed = 0
  /\ ran = [j \in Jobs |-> 0]

\* The process has an identity file: its token is enrolled.
LinkInit == Init /\ tokens[Me] # None /\ AgentInit

LoopStep ==
  \/ \E c \in Calls : SendResume(c) \/ ResumeAnswer(c)
  \/ \E p \in Polls, n \in Names : SendPoll(p, n)
  \/ \E p \in Polls : PollAnswer(p)
  \/ RequestFails
  \/ WaitTimesOut
  \/ Beat
  \/ BeatFails
  \/ JobReturns
  \/ Report
  \/ ReportFails
  \/ Refused
  \/ Exit

\* The grace timer of a cancelled job is at least two heartbeats long: it ends
\* before the loop has heard only if those heartbeats are lost.
Executing(j) == job = j /\ work = "running"
GraceEnds(j) ==
  /\ EndGrace(j)
  /\ Executing(j) => told
  /\ UNCHANGED agentVars
GraceMissed(j) ==
  /\ EndGrace(j)
  /\ Executing(j) /\ ~told
  /\ missed < MaxMissed
  /\ missed' = missed + 1
  /\ UNCHANGED loopVars

\* Steps of the controller that the loop does not wait for, among them those
\* of requests it has given up on.
ControllerStep ==
  \/ \E c \in Calls, old, new \in Names : Rename(c, old, new)
  \/ \E c \in Calls, n \in Names : Revoke(c, n)
  \/ \E c \in Calls : awaits # c /\ StorageStep(c)
  \/ \E p \in Polls : PollTimeout(p)
  \/ \E p \in Polls : awaits # p /\ PollResume(p)
  \/ \E r \in Rts : GoOffline(r)
  \/ \E j \in Jobs, n \in Names, aborted \in BOOLEAN : Dispatch(j, n, aborted)
  \/ \E j \in Jobs : Abort(j) \/ Expire(j)
  \/ Restart

LinkNext ==
  \/ LoopStep /\ UNCHANGED missed
  \/ \E ending \in Endings : JobEnds(ending) /\ UNCHANGED missed
  \/ (Crash \/ Start) /\ UNCHANGED missed
  \/ ControllerStep /\ UNCHANGED agentVars
  \/ \E j \in Jobs : GraceEnds(j) \/ GraceMissed(j)

LinkSpec == LinkInit /\ [][LinkNext]_linkVars

\* A resolved poll continues, the loop never waits for ever, a request tried
\* again and again is answered in the end, and a job that has been told comes
\* to its next ensure_live.
LinkFairness ==
  /\ \A p \in Polls : WF_vars(PollResume(p))
  /\ WF_linkVars(LoopStep /\ UNCHANGED missed)
  /\ SF_linkVars(Beat /\ UNCHANGED missed)
  /\ SF_linkVars(Refused /\ UNCHANGED missed)
  /\ WF_linkVars(told /\ \E ending \in Endings : JobEnds(ending) /\ UNCHANGED missed)
LinkLiveSpec == LinkSpec /\ LinkFairness

-----------------------------------------------------------------------------
(* Properties *)

\* A job is started at most once, whatever polls, answers and processes are
\* lost, and only a job that was started is answered: "In-flight jobs fail
\* with the controller restart rather than being replayed".
RunsOnce ==
  \A j \in Jobs :
    /\ ran[j] <= 1
    /\ caller[j] = "answered" => ran[j] = 1 /\ ~Executing(j)

\* A job is cancelled only when its caller is gone or the machine is revoked.
Unwanted(j) == caller[j] \in {"gaveup", "revoked"}
StoppedForCause == \A j \in Jobs : Executing(j) /\ told => Unwanted(j) \/ Unknown

\* Both: what remote_exec asked for is done once, and not given up unasked.
WorkDone == RunsOnce /\ StoppedForCause

\* A job under way that is still pending stays assigned to this machine, under
\* whatever name it has by then: the heartbeat (455-463) hears of its
\* cancellation and its result is not refused (submitResult, 465-474).
StaysOurs ==
  job \in pending /\ Quiescent /\ tokens[Me] # None => Assigned(job, tokens[Me])

\* A job the loop has left behind, and that has not been told before: it runs
\* to its own end or its deadline, 620 s at most, without a sign of life.
LeftBehind == pc = "dropping" /\ work = "running" /\ ~told

\* A job that nobody waits for any more does not run on: heartbeats alone stop
\* it, without its deadline, unless the controller forgot it in a restart or
\* after a grace period without a heartbeat, or the loop has left it behind
\* after a heartbeat's answer that it could not read.
UnwantedStops ==
  \A j \in Jobs :
    (Executing(j) /\ Unwanted(j)) ~>
      (~Executing(j) \/ restarts > 0 \/ missed > 0 \/ LeftBehind)

\* The process of a revoked machine stops, in whatever step it learns of it,
\* or it is over but for a job that it has left behind.
RevokedStops == (Me \in revoked) ~> (pc = "gone" \/ LeftBehind)

WorkerObeys == UnwantedStops /\ RevokedStops
=============================================================================
