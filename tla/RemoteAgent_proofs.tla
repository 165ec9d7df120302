--------------------------- MODULE RemoteAgent_proofs ---------------------------
(***************************************************************************)
(* Proofs about the worker process and its controller, for any machines,   *)
(* jobs, polls, calls and bounds.                                          *)
(***************************************************************************)
EXTENDS RemoteAgent, RemoteWorkers_proofs

-----------------------------------------------------------------------------
(* The composition behaves like the controller with some worker *)

LEMMA AgentTypesInit == LinkInit => AgentTypeOK
<1> SUFFICES ASSUME AgentInit PROVE AgentTypeOK
  BY DEF LinkInit
<1>1. 0 \in 0..MaxCrashes /\ 0 \in 0..MaxMissed
  BY AgentAssumption
<1>2. ran \in [Jobs -> Nat]
  BY DEF AgentInit
<1> QED
  BY <1>1, <1>2 DEF AgentInit, AgentTypeOK

\* Each way a step of the loop leaves its variables.
LEMMA LoopTypes ==
  ASSUME AgentTypeOK, UNCHANGED missed,
         \/ \E next \in {"resting", "ready", "stopping", "gone"} : Continue(next)
         \/ \E next \in {"watching", "beating", "reporting", "dropping"}, cancel \in BOOLEAN :
              Keep(next, cancel) /\ pc \in {"watching", "beating", "reporting"}
         \/ \E cancel \in BOOLEAN : Keep("stopping", cancel)
         \/ \E j \in Jobs : StartJob(j)
         \/ UNCHANGED loopVars
  PROVE  AgentTypeOK'
<1>1. ASSUME NEW next \in {"resting", "ready", "stopping", "gone"}, Continue(next)
      PROVE  AgentTypeOK'
  BY <1>1 DEF Continue, AgentTypeOK
<1>2. ASSUME NEW next \in {"watching", "beating", "reporting", "dropping"}, NEW cancel \in BOOLEAN,
             Keep(next, cancel), pc \in {"watching", "beating", "reporting"}
      PROVE  AgentTypeOK'
  BY <1>2 DEF Keep, AgentTypeOK
<1>3. ASSUME NEW cancel \in BOOLEAN, Keep("stopping", cancel)
      PROVE  AgentTypeOK'
  BY <1>3 DEF Keep, AgentTypeOK
<1>4. ASSUME NEW j \in Jobs, StartJob(j) PROVE AgentTypeOK'
  <2>1. ran' \in [Jobs -> Nat]
    BY <1>4 DEF StartJob, AgentTypeOK
  <2> QED
    BY <1>4, <2>1 DEF StartJob, AgentTypeOK
<1>5. ASSUME UNCHANGED loopVars PROVE AgentTypeOK'
  BY <1>5 DEF loopVars, AgentTypeOK
<1> QED
  BY <1>1, <1>2, <1>3, <1>4, <1>5

\* What an answer to a poll does to the loop.
LEMMA DeliverCases ==
  ASSUME NEW r, Deliver(r)
  PROVE  \/ \E j \in Taken(r) : StartJob(j)
         \/ \E next \in {"resting", "ready", "stopping"} : Continue(next)
<1> QED
  BY DEF NoAnswer, Deliver

LEMMA AgentTypesStep == AgentTypeOK /\ [LinkNext]_linkVars => AgentTypeOK'
<1> SUFFICES ASSUME AgentTypeOK, [LinkNext]_linkVars PROVE AgentTypeOK'
  OBVIOUS
<1>d. ASSUME NEW r, Deliver(r), UNCHANGED missed PROVE AgentTypeOK'
  <2>1. Taken(r) \subseteq Jobs
    BY DEF Taken
  <2> QED
    BY <1>d, <2>1, DeliverCases, LoopTypes
<1>1. ASSUME LoopStep, UNCHANGED missed PROVE AgentTypeOK'
  <2>1. ASSUME NEW c \in Calls, SendResume(c) PROVE AgentTypeOK'
    BY <1>1, <2>1 DEF SendResume, AgentTypeOK
  <2>2. ASSUME NEW c \in Calls, ResumeAnswer(c) PROVE AgentTypeOK'
    BY <1>1, <2>2, LoopTypes DEF NoAnswer, ResumeAnswer
  <2>3. ASSUME NEW p \in Polls, NEW n \in Names, SendPoll(p, n) PROVE AgentTypeOK'
    <3>1. CASE poll'[p].st = "waiting"
      BY <1>1, <2>3, <3>1 DEF SendPoll, AgentTypeOK
    <3>2. CASE poll'[p].st # "waiting"
      BY <1>1, <1>d, <2>3, <3>2 DEF SendPoll
    <3> QED
      BY <3>1, <3>2
  <2>4. ASSUME NEW p \in Polls, PollAnswer(p) PROVE AgentTypeOK'
    <3>1. CASE poll[p].st = "revoked"
      BY <1>1, <2>4, <3>1, LoopTypes DEF NoAnswer, PollAnswer
    <3>2. CASE poll[p].st # "revoked"
      BY <1>1, <1>d, <2>4, <3>2 DEF PollAnswer
    <3> QED
      BY <3>1, <3>2
  <2>5. ASSUME RequestFails PROVE AgentTypeOK'
    BY <1>1, <2>5, LoopTypes DEF NoAnswer, RequestFails
  <2>6. ASSUME WaitTimesOut PROVE AgentTypeOK'
    BY <1>1, <2>6, LoopTypes DEF WaitTimesOut
  <2>7. ASSUME Beat PROVE AgentTypeOK'
    <3>1. Heeds(job) \in BOOLEAN
      BY DEF Heeds, CancelSignalled
    <3> QED
      BY <1>1, <2>7, <3>1, LoopTypes DEF Beat
  <2>8. ASSUME BeatFails PROVE AgentTypeOK'
    BY <1>1, <2>8, LoopTypes DEF BeatFails
  <2>9. ASSUME JobReturns PROVE AgentTypeOK'
    BY <1>1, <2>9, LoopTypes DEF JobReturns
  <2>10. ASSUME Report PROVE AgentTypeOK'
    BY <1>1, <2>10, LoopTypes DEF Report
  <2>11. ASSUME ReportFails PROVE AgentTypeOK'
    BY <1>1, <2>11, LoopTypes DEF NoAnswer, ReportFails
  <2>12. ASSUME Refused PROVE AgentTypeOK'
    BY <1>1, <2>12, LoopTypes DEF Refused, AfterRefusal
  <2>13. ASSUME Exit PROVE AgentTypeOK'
    BY <1>1, <2>13, LoopTypes DEF Exit
  <2> QED
    BY <1>1, <2>1, <2>2, <2>3, <2>4, <2>5, <2>6, <2>7, <2>8, <2>9, <2>10, <2>11,
       <2>12, <2>13 DEF LoopStep
<1>2. ASSUME NEW ending \in Endings, JobEnds(ending), UNCHANGED missed
      PROVE  AgentTypeOK'
  BY <1>2 DEF JobEnds, AgentTypeOK
<1>3. ASSUME Crash \/ Start, UNCHANGED missed PROVE AgentTypeOK'
  <2>1. CASE Crash
    <3>1. crashes' \in 0..MaxCrashes
      BY <2>1, AgentAssumption DEF Crash, AgentTypeOK
    <3> QED
      BY <1>3, <2>1, <3>1 DEF Crash, AgentTypeOK
  <2>2. CASE Start
    BY <1>3, <2>2, LoopTypes DEF Start
  <2> QED
    BY <1>3, <2>1, <2>2
<1>4. ASSUME NEW j \in Jobs, GraceEnds(j) PROVE AgentTypeOK'
  BY <1>4 DEF GraceEnds, agentVars, loopVars, AgentTypeOK
<1>5. ASSUME NEW j \in Jobs, GraceMissed(j) PROVE AgentTypeOK'
  BY <1>5, AgentAssumption DEF GraceMissed, loopVars, AgentTypeOK
<1>6. ASSUME UNCHANGED agentVars PROVE AgentTypeOK'
  BY <1>6 DEF agentVars, loopVars, AgentTypeOK
<1> QED
  BY <1>1, <1>2, <1>3, <1>4, <1>5, <1>6 DEF LinkNext, linkVars

\* What the loop and the job do to the controller is a step of RemoteWorkers.
LEMMA LinkIsNext == AgentTypeOK /\ [LinkNext]_linkVars => [Next]_vars
<1> SUFFICES ASSUME AgentTypeOK, [LinkNext]_linkVars PROVE [Next]_vars
  OBVIOUS
<1>m. Me \in Tokens /\ "wellformed" \in ResultKinds
  BY AgentAssumption
<1>1. ASSUME LoopStep PROVE [Next]_vars
  <2>1. ASSUME NEW c \in Calls, SendResume(c) \/ ResumeAnswer(c) PROVE Next
    BY <1>m, <2>1 DEF SendResume, ResumeAnswer, Next
  <2>2. ASSUME NEW p \in Polls, NEW n \in Names, SendPoll(p, n) PROVE Next
    BY <1>m, <2>2 DEF SendPoll, Next
  <2>3. ASSUME NEW p \in Polls, PollAnswer(p) PROVE Next
    BY <2>3 DEF PollAnswer, Next
  <2>4. ASSUME NEW n \in Names, Heartbeat(Me, n) PROVE Next
    BY <1>m, <2>4 DEF Next
  <2>5. ASSUME NEW n \in Names, Submit(n), pc = "reporting" PROVE Next
    <3>1. job \in Jobs
      BY <2>5 DEF AgentTypeOK
    <3>2. JobStep(job)
      BY <1>m, <2>5 DEF Submit, JobStep
    <3> QED
      BY <3>1, <3>2 DEF Next
  <2> QED
    BY <1>1, <2>1, <2>2, <2>3, <2>4, <2>5
    DEF LoopStep, RequestFails, WaitTimesOut, Beat, BeatFails, JobReturns, Report,
        ReportFails, Refused, Exit
<1>2. ASSUME NEW j \in Jobs, GraceEnds(j) \/ GraceMissed(j) PROVE Next
  BY <1>2 DEF GraceEnds, GraceMissed, JobStep, Next
<1>3. ASSUME ControllerStep PROVE Next
  <2>1. ASSUME NEW j \in Jobs,
               (\E n \in Names, aborted \in BOOLEAN : Dispatch(j, n, aborted))
                 \/ Abort(j) \/ Expire(j)
        PROVE  Next
    BY <2>1 DEF JobStep, Next
  <2> QED
    BY <1>3, <2>1 DEF ControllerStep, Next
<1> QED
  BY <1>1, <1>2, <1>3 DEF LinkNext, linkVars, JobEnds, Crash, Start

LEMMA AgentTypeCorrect == LinkSpec => []AgentTypeOK
<1> QED
  BY AgentTypesInit, AgentTypesStep, PTL DEF LinkSpec

\* A controller with the worker process behaves as RemoteWorkers says of a
\* controller with workers that do anything: all its theorems apply.
THEOREM AgentIsAWorker == LinkSpec => Spec
<1>1. LinkInit => Init
  BY DEF LinkInit
<1> QED
  BY <1>1, LinkIsNext, AgentTypeCorrect, PTL DEF LinkSpec, Spec

\* The variables of the process and of the controller keep their types.
THEOREM LinkTypeCorrect == LinkSpec => []LinkTypeOK
<1>1. LinkSpec => []TypeOK
  BY AgentIsAWorker, TypeCorrect, PTL
<1> QED
  BY <1>1, AgentTypeCorrect, PTL DEF LinkTypeOK

-----------------------------------------------------------------------------
(* A job is started at most once *)

\* The controller's side of the invariant, as RemoteWorkers_proofs has it.
HostInv == TypeOK /\ WaitersWait /\ JobInv

LEMMA HostInvHolds == LinkSpec => []HostInv
<1> QED
  BY AgentIsAWorker, TypeCorrect, JobInvHolds, PTL DEF HostInv

\* What makes RunsOnce inductive: a job is started when it is handed out, the
\* job of the loop was started, and its result is sent when it is over.
RunInv ==
  /\ \A j \in Jobs : ran[j] \in {0, 1}
  /\ \A j \in Jobs : ran[j] # 0 => holder[j] # None
  /\ job # None => ran[job] = 1
  /\ pc = "reporting" => work = "returned"
  /\ \A j \in Jobs : caller[j] = "answered" => ran[j] = 1 /\ ~Executing(j)

\* A holder stays, a waiting caller is the only one that changes its mind.
LEMMA HandedStays ==
  ASSUME HostInv, [Next]_vars, NEW j \in Jobs
  PROVE  /\ holder[j] # None => holder'[j] = holder[j]
         /\ caller[j] \notin {"none", "waiting"} => caller'[j] = caller[j]
<1>1. [Promise!PromiseNext]_<<caller, holder>>
  BY PromiseStep DEF HostInv
<1>2. holder \in [Jobs -> Tokens \cup {None}] /\ DOMAIN caller = Jobs
  BY DEF HostInv, TypeOK, HandTypes, CallerTypes
<1>3. ASSUME NEW k \in Jobs, Promise!Accept(k)
      PROVE  /\ holder[j] # None => holder'[j] = holder[j]
             /\ caller[j] \notin {"none", "waiting"} => caller'[j] = caller[j]
  BY <1>2, <1>3 DEF Promise!Accept
<1>4. ASSUME NEW k \in Jobs, NEW t \in Tokens, Promise!Hand(k, t)
      PROVE  /\ holder[j] # None => holder'[j] = holder[j]
             /\ caller[j] \notin {"none", "waiting"} => caller'[j] = caller[j]
  BY <1>2, <1>4 DEF Promise!Hand
<1>5. ASSUME NEW S \in SUBSET Jobs, NEW o \in Promise!Outcomes, Promise!Settle(S, o)
      PROVE  /\ holder[j] # None => holder'[j] = holder[j]
             /\ caller[j] \notin {"none", "waiting"} => caller'[j] = caller[j]
  BY <1>2, <1>5 DEF Promise!Settle
<1> QED
  BY <1>1, <1>3, <1>4, <1>5 DEF Promise!PromiseNext

\* The job _takeQueued returns is the one that becomes claimed; it was given
\* to nobody before.
LEMMA TakenIsHanded ==
  ASSUME HostInv, NEW r \in Rts, NEW t \in Tokens,
         TakeQueued(r, t) \/ NothingQueued(r), NEW j \in Taken(r)
  PROVE  /\ j \in Jobs
         /\ caller[j] = "waiting" /\ holder[j] = None
         /\ holder'[j] = t /\ holder'[j] # None
<1>1. PICK i \in DOMAIN queue[r] :
        queue[r][i] = j /\ Live(j) /\ \A k \in 1..(i - 1) : ~Live(queue[r][k])
  BY DEF Taken
<1>2. TakeQueued(r, t)
  BY <1>1 DEF NothingQueued
<1>3. PICK h \in DOMAIN queue[r] :
        /\ Live(queue[r][h]) /\ \A k \in 1..(h - 1) : ~Live(queue[r][k])
        /\ holder' = [holder EXCEPT ![queue[r][h]] = t]
  BY <1>2 DEF TakeQueued
<1>4. queue[r] \in Seq(Jobs)
  BY DEF HostInv, TypeOK, QueueTypes
<1>5. h = i
  <2>1. h \in Nat /\ i \in Nat /\ h >= 1 /\ i >= 1
    BY <1>4, LenProperties
  <2>2. ~(i < h)
    BY <1>1, <1>3, <2>1
  <2>3. ~(h < i)
    BY <1>1, <1>3, <2>1
  <2> QED
    BY <2>1, <2>2, <2>3
<1>6. j \in Jobs /\ j \notin settled /\ home[j] # 0 /\ j \notin claimed
  <2>1. j \in pending /\ j \notin cancelled
    BY <1>1 DEF Live
  <2> QED
    BY <1>1, <2>1
    DEF HostInv, JobInv, JobBookkeeping, QueueHoldsOpenJobs, TypeOK, PendingTypes
<1>7. holder'[j] = t
  BY <1>1, <1>3, <1>5, <1>6 DEF HostInv, TypeOK, HandTypes
<1> QED
  BY <1>6, <1>7, NoneAssumption DEF HostInv, JobInv, JobBookkeeping

\* Who is answered: only submitResult does it, and to the job it names.
Answers(j) == caller[j] # "answered" /\ caller'[j] = "answered"

LEMMA OnlySubmitAnswers ==
  ASSUME HostInv, AgentTypeOK, [LinkNext]_linkVars, NEW j \in Jobs, Answers(j)
  PROVE  /\ pc = "reporting" /\ j = job /\ UNCHANGED ran
         /\ job' # None => work' = work
<1>t. caller \in [Jobs -> {"none", "waiting", "answered", "gaveup", "revoked", "lost"}]
  BY DEF HostInv, TypeOK, CallerTypes
<1>q. UNCHANGED caller => FALSE
  BY DEF Answers
<1>v. UNCHANGED vars => FALSE
  BY <1>q DEF vars, jobVars
<1>1. ASSUME NEW c \in Calls, StorageStep(c) PROVE FALSE
  <2>1. CASE RevokeDone(c)
    BY <1>t, <2>1 DEF RevokeDone, DropPending, Answers
  <2>2. CASE ~RevokeDone(c)
    BY <1>1, <1>q, <2>2, QuietSteps
  <2> QED
    BY <2>1, <2>2
<1>2. ASSUME NEW p \in Polls, PollResume(p) PROVE FALSE
  BY <1>2, <1>q DEF PollResume, pollFrame
<1>3. ASSUME NEW n \in Names, Heartbeat(Me, n) PROVE FALSE
  BY <1>3, <1>q DEF Heartbeat, jobVars
<1>4. ASSUME NEW k \in Jobs, EndGrace(k) PROVE FALSE
  BY <1>4, <1>q DEF EndGrace
<1>5. ASSUME NEW n \in Names, pc = "reporting", Submit(n) PROVE j = job
  <2>1. job \in Jobs
    BY <1>5 DEF AgentTypeOK
  <2> QED
    BY <1>t, <1>5, <2>1 DEF Submit, SubmitResult, Answers
<1>6. ASSUME ControllerStep PROVE FALSE
  <2>1. ASSUME NEW k \in Jobs, NEW n \in Names, NEW aborted \in BOOLEAN,
               Dispatch(k, n, aborted)
        PROVE  FALSE
    BY <1>t, <2>1 DEF Dispatch, Answers
  <2>2. ASSUME NEW k \in Jobs, Abort(k) \/ Expire(k) PROVE FALSE
    BY <1>t, <2>2 DEF Abort, Expire, Cancel, Answers
  <2>3. ASSUME Restart PROVE FALSE
    BY <1>t, <2>3 DEF Restart, Answers
  <2> QED
    BY <1>6, <1>1, <1>2, <1>q, <2>1, <2>2, <2>3, QuietSteps DEF ControllerStep
<1>7. ASSUME LoopStep
      PROVE  /\ pc = "reporting" /\ j = job /\ UNCHANGED ran
             /\ job' # None => work' = work
  <2>1. ASSUME NEW c \in Calls, SendResume(c) \/ ResumeAnswer(c) PROVE FALSE
    <3>1. Me \in Tokens
      BY AgentAssumption
    <3> QED
      BY <1>1, <1>q, <2>1, <3>1, QuietSteps DEF SendResume, ResumeAnswer
  <2>2. ASSUME NEW p \in Polls, NEW n \in Names, SendPoll(p, n) PROVE FALSE
    BY <1>q, <2>2 DEF SendPoll, Poll, pollFrame
  <2>3. ASSUME NEW p \in Polls, PollAnswer(p) PROVE FALSE
    BY <1>2, <2>3 DEF PollAnswer
  <2>4. ASSUME Beat \/ BeatFails PROVE FALSE
    BY <1>3, <1>v, <2>4 DEF Beat, BeatFails
  <2>5. ASSUME Report \/ ReportFails
        PROVE  /\ pc = "reporting" /\ j = job /\ UNCHANGED ran
               /\ job' # None => work' = work
    BY <1>5, <1>v, <2>5 DEF NoAnswer, Report, ReportFails, Continue, loopVars
  <2> QED
    BY <1>7, <1>v, <2>1, <2>2, <2>3, <2>4, <2>5
    DEF LoopStep, RequestFails, WaitTimesOut, JobReturns, Refused, Exit
<1> QED
  BY <1>4, <1>6, <1>7, <1>v
  DEF LinkNext, linkVars, JobEnds, Crash, Start, GraceEnds, GraceMissed

\* A step that starts no job: what the loop holds it held before, or it lets
\* go of it; a result is put together only from a job that is over.
LEMMA RunInvQuiet ==
  ASSUME HostInv, AgentTypeOK, RunInv, [LinkNext]_linkVars, UNCHANGED ran,
         job' # None => job' = job,
         work' = "running" => work = "running" /\ job' = job,
         pc' = "reporting" => work' = "returned"
  PROVE  RunInv'
<1>1. \A j \in Jobs : holder[j] # None => holder'[j] # None
  BY LinkIsNext, HandedStays
<1>2. ASSUME NEW j \in Jobs, caller'[j] = "answered"
      PROVE  ran'[j] = 1 /\ ~Executing(j)'
  <2>1. CASE caller[j] = "answered"
    BY <2>1 DEF RunInv, Executing
  <2>2. CASE Answers(j)
    <3>1. pc = "reporting" /\ j = job /\ (job' # None => work' = work)
      BY <2>2, OnlySubmitAnswers
    <3>2. job # None /\ work = "returned" /\ ran[j] = 1
      BY <3>1, AgentAssumption DEF RunInv, AgentTypeOK
    <3> QED
      BY <3>1, <3>2 DEF Executing
  <2> QED
    BY <1>2, <2>1, <2>2 DEF Answers
<1> QED
  BY <1>1, <1>2 DEF RunInv

\* The step in which a poll's answer with a job arrives.
LEMMA RunInvStart ==
  ASSUME HostInv, AgentTypeOK, RunInv, [LinkNext]_linkVars, UNCHANGED caller,
         NEW r \in Rts, NEW t \in Tokens, TakeQueued(r, t) \/ NothingQueued(r),
         NEW j \in Taken(r), StartJob(j)
  PROVE  RunInv'
<1>1. j \in Jobs /\ caller[j] = "waiting" /\ holder[j] = None /\ holder'[j] # None
  BY TakenIsHanded
<1>2. \A k \in Jobs : holder[k] # None => holder'[k] # None
  BY LinkIsNext, HandedStays
<1>3. ran[j] = 0 /\ ran \in [Jobs -> Nat]
  BY <1>1 DEF RunInv, AgentTypeOK
<1>4. /\ ran'[j] = 1 /\ \A k \in Jobs \ {j} : ran'[k] = ran[k]
      /\ job' = j /\ pc' = "watching"
  BY <1>1, <1>3 DEF StartJob
<1>5. \A k \in Jobs : ran'[k] \in {0, 1} /\ (ran'[k] # 0 => holder'[k] # None)
  BY <1>1, <1>2, <1>3, <1>4 DEF RunInv
<1>6. \A k \in Jobs : caller'[k] = "answered" => ran'[k] = 1 /\ ~Executing(k)'
  BY <1>1, <1>4 DEF RunInv, Executing
<1> QED
  BY <1>4, <1>5, <1>6 DEF RunInv

LEMMA RunInvStep ==
  HostInv /\ AgentTypeOK /\ RunInv /\ [LinkNext]_linkVars => RunInv'
<1> SUFFICES ASSUME HostInv, AgentTypeOK, RunInv, [LinkNext]_linkVars PROVE RunInv'
  OBVIOUS
<1>c. ASSUME NEW next \in {"resting", "ready", "stopping", "gone"}, Continue(next)
      PROVE  RunInv'
  BY <1>c, RunInvQuiet DEF Continue
<1>k. ASSUME NEW next \in {"watching", "beating", "dropping", "stopping"}, NEW cancel \in BOOLEAN,
             Keep(next, cancel)
      PROVE  RunInv'
  BY <1>k, RunInvQuiet DEF Keep
<1>d. ASSUME NEW r \in Rts, NEW t \in Tokens, TakeQueued(r, t) \/ NothingQueued(r),
             UNCHANGED caller, Deliver(r)
      PROVE  RunInv'
  BY <1>d, <1>c, DeliverCases, RunInvStart
<1>l. ASSUME UNCHANGED loopVars PROVE RunInv'
  BY <1>l, RunInvQuiet DEF loopVars, RunInv
<1>m. ASSUME NEW n \in Names, MarkSeen(n) PROVE RuntimeFor(n) \in Rts
  BY <1>m DEF MarkSeen, Intern
<1>1. ASSUME LoopStep PROVE RunInv'
  <2>1. ASSUME NEW c \in Calls, SendResume(c) PROVE RunInv'
    BY <2>1, RunInvQuiet DEF SendResume
  <2>2. ASSUME NEW c \in Calls, ResumeAnswer(c) PROVE RunInv'
    BY <2>2, <1>c, <1>l DEF NoAnswer, ResumeAnswer
  <2>3. ASSUME NEW p \in Polls, NEW n \in Names, SendPoll(p, n) PROVE RunInv'
    <3>1. CASE poll'[p].st = "waiting"
      BY <2>3, <3>1, RunInvQuiet DEF SendPoll
    <3>2. CASE poll'[p].st # "waiting"
      <4>1. Poll(p, Me, n) /\ Deliver(RuntimeFor(n))
        BY <2>3, <3>2 DEF SendPoll
      <4>2. RuntimeFor(n) \in Rts /\ UNCHANGED caller
        BY <4>1, <1>m DEF Poll, pollFrame
      <4>3. TakeQueued(RuntimeFor(n), Me) \/ NothingQueued(RuntimeFor(n))
        BY <4>1 DEF Poll
      <4> QED
        BY <4>1, <4>2, <4>3, <1>d, AgentAssumption
    <3> QED
      BY <3>1, <3>2
  <2>4. ASSUME NEW p \in Polls, PollAnswer(p) PROVE RunInv'
    <3>1. CASE poll[p].st = "revoked"
      BY <2>4, <3>1, <1>c DEF NoAnswer, PollAnswer
    <3>2. CASE poll[p].st # "revoked"
      <4>1. PollResume(p) /\ Deliver(RuntimeFor(poll[p].name))
        BY <2>4, <3>2 DEF PollAnswer
      <4>2. RuntimeFor(poll[p].name) \in Rts /\ UNCHANGED caller
        BY <4>1 DEF PollResume, pollFrame, MarkSeen, Intern
      <4>3. poll[p].token \in Tokens
        BY <4>1 DEF HostInv, WaitersWait, PollResume
      <4>4. \/ TakeQueued(RuntimeFor(poll[p].name), poll[p].token)
            \/ NothingQueued(RuntimeFor(poll[p].name))
        BY <4>1, <3>2 DEF PollResume
      <4> QED
        BY <4>1, <4>2, <4>3, <4>4, <1>d
    <3> QED
      BY <3>1, <3>2
  <2>5. ASSUME JobReturns PROVE RunInv'
    BY <2>5, RunInvQuiet DEF JobReturns, Keep
  <2>6. ASSUME Beat PROVE RunInv'
    <3>1. Heeds(job) \in BOOLEAN
      BY DEF Heeds, CancelSignalled
    <3> QED
      BY <2>6, <3>1, <1>k DEF Beat
  <2>7. ASSUME RequestFails \/ WaitTimesOut \/ BeatFails \/ Refused PROVE RunInv'
    BY <2>7, <1>c, <1>k DEF NoAnswer, RequestFails, WaitTimesOut, BeatFails, Refused, AfterRefusal
  <2>8. ASSUME Report \/ ReportFails \/ Exit PROVE RunInv'
    BY <2>8, <1>c, <1>l DEF NoAnswer, Report, ReportFails, Exit
  <2> QED
    BY <1>1, <2>1, <2>2, <2>3, <2>4, <2>5, <2>6, <2>7, <2>8 DEF LoopStep
<1>2. ASSUME NEW ending \in Endings, JobEnds(ending) PROVE RunInv'
  <2>1. ending # "running"
    BY AgentAssumption
  <2> QED
    BY <1>2, <2>1, RunInvQuiet DEF JobEnds, RunInv
<1>3. ASSUME Crash \/ Start PROVE RunInv'
  BY <1>3, <1>c, RunInvQuiet DEF Crash, Start
<1> QED
  BY <1>1, <1>2, <1>3, <1>l
  DEF LinkNext, linkVars, agentVars, GraceEnds, GraceMissed

\* Over lost requests and answers, polls that outlive their connection, killed
\* processes and restarts of the controller, the process starts a job at most
\* once, and a caller is answered only for a job that was started and is over:
\* "In-flight jobs fail with the controller restart rather than being replayed".
THEOREM StartedOnce == LinkSpec => []RunsOnce
<1>1. LinkInit => RunInv
  BY DEF LinkInit, Init, AgentInit, RunInv
<1>2. LinkSpec => []RunInv
  BY <1>1, RunInvStep, HostInvHolds, AgentTypeCorrect, PTL DEF LinkSpec
<1>3. RunInv => RunsOnce
  BY DEF RunInv, RunsOnce
<1> QED
  BY <1>2, <1>3, PTL

-----------------------------------------------------------------------------
(* A job is not stopped without a cause *)

\* A job is cancelled for its caller, who has given up.
CancelledGaveUp == \A j \in cancelled : caller[j] = "gaveup"

LEMMA CancelledInit == Init => CancelledGaveUp
<1> QED
  BY DEF Init, CancelledGaveUp

LEMMA CancelledStep == HostInv /\ CancelledGaveUp /\ [Next]_vars => CancelledGaveUp'
<1> SUFFICES ASSUME HostInv, CancelledGaveUp, [Next]_vars, NEW j \in cancelled'
             PROVE  caller'[j] = "gaveup"
  BY DEF CancelledGaveUp
<1>t. /\ cancelled \subseteq Jobs
      /\ caller \in [Jobs -> {"none", "waiting", "answered", "gaveup", "revoked", "lost"}]
  BY DEF HostInv, TypeOK, PendingTypes, CallerTypes
<1>o. CASE j \in cancelled
  BY <1>o, <1>t, HandedStays DEF CancelledGaveUp
<1>n. CASE j \notin cancelled
  <2>q. UNCHANGED cancelled => FALSE
    BY <1>n
  <2>1. ASSUME \/ \E i \in Invites, n \in Names \cup {None} : CreateInvite(i, n)
               \/ \E i \in Invites : ExpireInvite(i)
               \/ \E c \in Calls, i \in Invites, n \in Names, t \in Tokens :
                    Register(c, i, n, t)
               \/ \E c \in Calls, t \in Tokens, n \in Names : Resume(c, t, n)
               \/ \E c \in Calls, old, new \in Names : Rename(c, old, new)
               \/ \E c \in Calls, n \in Names : Revoke(c, n)
        PROVE  FALSE
    BY <2>q, <2>1
    DEF CreateInvite, ExpireInvite, Register, Resume, Rename, Revoke, storageFrame,
        jobVars, pendingVars
  <2>2. ASSUME NEW c \in Calls, StorageStep(c) PROVE FALSE
    BY <2>q, <2>2
    DEF StorageStep, RegisterPut, RegisterDone, ResumeUpdate, ResumeDone, RenamePut,
        RenameDelete, RenameUndo, RenameDone, RevokeDelete, RevokeDone, StorageFails,
        Commit, storageFrame, jobVars, pendingVars
  <2>3. ASSUME NEW p \in Polls, PollTimeout(p) \/ PollResume(p) PROVE FALSE
    BY <2>q, <2>3 DEF PollTimeout, PollResume, pollFrame, jobVars, pendingVars
  <2>4. ASSUME NEW p \in Polls, NEW t \in Tokens, NEW n \in Names, Poll(p, t, n)
        PROVE  FALSE
    BY <2>q, <2>4 DEF Poll, pollFrame, pendingVars
  <2>5. ASSUME \/ \E t \in Tokens, n \in Names : Heartbeat(t, n)
               \/ \E r \in Rts : GoOffline(r)
        PROVE  FALSE
    BY <2>q, <2>5 DEF Heartbeat, GoOffline, jobVars, pendingVars
  <2>6. ASSUME NEW k \in Jobs, NEW n \in Names, NEW aborted \in BOOLEAN,
               Dispatch(k, n, aborted)
        PROVE  caller'[j] = "gaveup"
    BY <1>t, <1>n, <2>6 DEF Dispatch
  <2>7. ASSUME NEW k \in Jobs, Abort(k) \/ Expire(k) PROVE caller'[j] = "gaveup"
    BY <1>t, <1>n, <2>7 DEF Abort, Expire, Cancel
  <2>8. ASSUME NEW k \in Jobs,
               \/ \E t \in Tokens, n \in Names, kind \in ResultKinds :
                    SubmitResult(t, n, k, kind)
               \/ EndGrace(k)
        PROVE  FALSE
    BY <2>q, <2>8 DEF SubmitResult, EndGrace
  <2>9. ASSUME Restart PROVE FALSE
    BY <2>9 DEF Restart
  <2>10. ASSUME UNCHANGED vars PROVE FALSE
    BY <2>q, <2>10 DEF vars, jobVars, pendingVars
  <2> QED
    BY <2>1, <2>2, <2>3, <2>4, <2>5, <2>6, <2>7, <2>8, <2>9, <2>10 DEF Next, JobStep
<1> QED
  BY <1>o, <1>n

\* Without renames a name keeps its token until the machine is revoked, so that
\* a token that is refused once stays refused.
IdInv ==
  /\ \A t \in Tokens, n \in Names : table[n] = t => tokens[t] = n
  /\ \A c \in Calls :
       /\ call[c].pc \in {"idle", "resume_update", "resume_done", "revoke_delete",
                         "revoke_done"}
       /\ call[c].pc = "revoke_delete" =>
            \A n \in Names : table[n] = call[c].token => n = call[c].name
       /\ call[c].pc = "revoke_done" =>
            \A n \in Names : table[n] # call[c].token

LEMMA IdInit == Init => IdInv
<1> SUFFICES ASSUME Init PROVE IdInv
  OBVIOUS
<1>1. \A c \in Calls : call[c].pc = "idle"
  BY DEF Init, NoCall
<1>2. \A t \in Tokens, n \in Names : table[n] = t => tokens[t] = n
  BY DEF Init, Loads
<1> QED
  BY <1>1, <1>2 DEF IdInv

LEMMA IdStep ==
  ASSUME "rename" \notin RegistryOps, TypeOK, AgentTypeOK, IdInv, [LinkNext]_linkVars
  PROVE  IdInv' /\ (Unknown => Unknown')
<1>m. Me \in Tokens /\ None \notin Names \cup Tokens
  BY AgentAssumption, NoneAssumption
<1>t. /\ table \in [Names -> Tokens \cup {None}]
      /\ tokens \in [Tokens -> Names \cup {None}]
      /\ DOMAIN call = Calls
  BY DEF TypeOK, RegistryTypes, CallTypes
<1>q. UNCHANGED <<table, tokens, call>> => IdInv' /\ (Unknown => Unknown')
  BY DEF IdInv, Unknown, WorkerForToken
<1>c. ASSUME NEW c \in Calls, \A d \in Calls \ {c} : call'[d] = call[d],
             call'[c].pc \in {"idle", "resume_update", "resume_done"},
             UNCHANGED <<table, tokens>>
      PROVE  IdInv' /\ (Unknown => Unknown')
  BY <1>c, <1>t DEF IdInv, Unknown, WorkerForToken
<1>n. NoCall.pc = "idle"
  BY DEF NoCall
<1>1. ASSUME NEW c \in Calls, StorageStep(c) PROVE IdInv' /\ (Unknown => Unknown')
  <2>p. call[c].pc \in {"idle", "resume_update", "resume_done", "revoke_delete",
                        "revoke_done"}
    BY DEF IdInv
  <2>1. CASE ResumeUpdate(c) \/ ResumeDone(c) \/ StorageFails(c)
    <3>1. UNCHANGED <<table, tokens>>
      BY <2>1 DEF ResumeUpdate, ResumeDone, StorageFails, registryVars
    <3> DEFINE v == [call[c] EXCEPT !.pc = "resume_done"]
    <3>2. call' = [call EXCEPT ![c] = NoCall] \/ call' = [call EXCEPT ![c] = v]
      BY <2>1, <2>p DEF ResumeUpdate, ResumeDone, StorageFails
    <3>3. v.pc = "resume_done"
      BY DEF TypeOK, CallTypes
    <3> HIDE DEF v
    <3>4. /\ call'[c].pc \in {"idle", "resume_done"}
          /\ \A d \in Calls \ {c} : call'[d] = call[d]
      BY <3>2, <3>3, <1>n, <1>t
    <3> QED
      BY <3>1, <3>4, <1>c
  <2>2. CASE RevokeDelete(c)
    <3> DEFINE k == call[c]
    <3>1. /\ k.pc = "revoke_delete" /\ k.name \in Names /\ k.token \in Tokens
          /\ table' = [table EXCEPT ![k.name] = None] /\ UNCHANGED tokens
          /\ call' = [call EXCEPT ![c] = [@ EXCEPT !.pc = "revoke_done"]]
      BY <2>2 DEF RevokeDelete, Commit, TypeOK, CallTypes
    <3>2. \A n \in Names : table'[n] # None => n # k.name /\ table'[n] = table[n]
      BY <3>1, <1>t
    <3>3. \A t \in Tokens, n \in Names : table'[n] = t => tokens'[t] = n
      BY <3>1, <3>2, <1>m DEF IdInv
    <3>4. \A n \in Names : table'[n] # k.token
      BY <3>1, <3>2, <1>m DEF IdInv
    <3>5. /\ call'[c].pc = "revoke_done" /\ call'[c].token = k.token
          /\ \A d \in Calls \ {c} : call'[d] = call[d]
      BY <3>1, <1>t DEF TypeOK, CallTypes
    <3>6. ASSUME NEW d \in Calls \ {c} PROVE
             /\ call'[d].pc \in {"idle", "resume_update", "resume_done", "revoke_delete",
                         "revoke_done"}
             /\ call'[d].pc = "revoke_delete" =>
                  \A n \in Names : table'[n] = call'[d].token => n = call'[d].name
             /\ call'[d].pc = "revoke_done" =>
                  \A n \in Names : table'[n] # call'[d].token
      <4>1. call'[d] = call[d]
        BY <3>5
      <4>2. call[d].pc \in {"revoke_delete", "revoke_done"} => call[d].token # None
        BY <1>m DEF TypeOK, CallTypes
      <4> QED
        BY <3>2, <4>1, <4>2 DEF IdInv
    <3> HIDE DEF k
    <3>7. IdInv'
      BY <3>3, <3>4, <3>5, <3>6 DEF IdInv
    <3> QED
      BY <3>1, <3>2, <3>7 DEF Unknown, WorkerForToken
  <2>3. CASE RevokeDone(c)
    <3>1. /\ call[c].pc = "revoke_done" /\ call[c].token \in Tokens
          /\ UNCHANGED table
          /\ tokens' = [tokens EXCEPT ![call[c].token] = None]
          /\ call' = [call EXCEPT ![c] = NoCall]
      BY <2>3 DEF RevokeDone, Forget, TypeOK, CallTypes
    <3>2. \A t \in Tokens, n \in Names : table[n] = t => tokens'[t] = n
      BY <3>1, <1>t DEF IdInv
    <3>3. IdInv'
      BY <3>1, <3>2, <1>n, <1>t DEF IdInv
    <3> QED
      BY <3>1, <3>3, <1>m, <1>t DEF Unknown, WorkerForToken
  <2> QED
    BY <1>1, <2>p, <2>1, <2>2, <2>3
    DEF StorageStep, RegisterPut, RegisterDone, RenamePut, RenameDelete, RenameUndo,
        RenameDone, Commit
<1>2. ASSUME NEW c \in Calls, NEW n \in Names, Revoke(c, n)
      PROVE  IdInv' /\ (Unknown => Unknown')
  <2> DEFINE k == [NoCall EXCEPT !.pc = "revoke_delete", !.name = n, !.token = table[n]]
  <2>1. /\ UNCHANGED <<table, tokens>> /\ call' = [call EXCEPT ![c] = k]
        /\ table[n] \in Tokens
    BY <1>2, <1>t DEF Revoke, registryVars
  <2>2. k.pc = "revoke_delete" /\ k.name = n /\ k.token = table[n]
    BY DEF NoCall
  <2>3. \A o \in Names : table[o] = table[n] => o = n
    BY <2>1 DEF IdInv
  <2> HIDE DEF k
  <2> QED
    BY <2>1, <2>2, <2>3, <1>t DEF IdInv, Unknown, WorkerForToken
<1>3. ASSUME NEW c \in Calls, SendResume(c) PROVE IdInv' /\ (Unknown => Unknown')
  <2>1. PICK n \in Names : Resume(c, Me, n)
    BY <1>3 DEF SendResume
  <2> DEFINE v == [NoCall EXCEPT !.pc = "resume_update", !.name = n]
  <2>2. v.pc = "resume_update"
    BY DEF NoCall
  <2>3. call' = [call EXCEPT ![c] = v] /\ UNCHANGED <<table, tokens>>
    BY <2>1 DEF Resume, registryVars
  <2> HIDE DEF v
  <2>4. call'[c].pc = "resume_update" /\ \A d \in Calls \ {c} : call'[d] = call[d]
    BY <2>2, <2>3, <1>t
  <2> QED
    BY <2>3, <2>4, <1>c
<1>4. ASSUME Restart PROVE IdInv' /\ (Unknown => Unknown')
  <2>1. Loadable(table)
    BY <1>t, <1>m DEF IdInv, Loadable
  <2>2. \A t \in Tokens, n \in Names : (tokens'[t] = n) <=> (table[n] = t)
    BY <1>4, <2>1 DEF Restart, LoadWorkers, Loads
  <2>3. UNCHANGED table /\ \A c \in Calls : call'[c].pc = "idle"
    BY <1>4, <1>n DEF Restart
  <2> QED
    BY <2>2, <2>3, <1>m, <1>t DEF IdInv, Unknown, WorkerForToken
<1>5. ASSUME \/ \E p \in Polls : PollTimeout(p) \/ PollResume(p)
             \/ \E p \in Polls, n \in Names : Poll(p, Me, n)
             \/ \E n \in Names : Heartbeat(Me, n)
             \/ \E n \in Names, j \in Jobs : SubmitResult(Me, n, j, "wellformed")
             \/ \E r \in Rts : GoOffline(r)
             \/ \E j \in Jobs, n \in Names, aborted \in BOOLEAN : Dispatch(j, n, aborted)
             \/ \E j \in Jobs : Abort(j) \/ Expire(j) \/ EndGrace(j)
             \/ UNCHANGED vars
      PROVE  UNCHANGED <<table, tokens, call>>
  BY <1>5
  DEF PollTimeout, PollResume, Poll, Heartbeat, SubmitResult, GoOffline, Dispatch, Abort,
      Expire, EndGrace, pollFrame, cancelFrame, protocolFrame, registryVars, vars
<1>6. ASSUME ControllerStep PROVE IdInv' /\ (Unknown => Unknown')
  BY <1>6, <1>1, <1>2, <1>4, <1>5, <1>q DEF ControllerStep, Rename
<1>7. ASSUME LoopStep PROVE IdInv' /\ (Unknown => Unknown')
  <2>1. ASSUME NEW n \in Names, pc = "reporting", Submit(n)
        PROVE  UNCHANGED <<table, tokens, call>>
    BY <2>1, <1>5 DEF Submit, AgentTypeOK
  <2>2. ASSUME NEW c \in Calls, ResumeAnswer(c) PROVE IdInv' /\ (Unknown => Unknown')
    BY <2>2, <1>1 DEF ResumeAnswer
  <2>3. ASSUME NEW p \in Polls, (\E n \in Names : SendPoll(p, n)) \/ PollAnswer(p)
        PROVE  UNCHANGED <<table, tokens, call>>
    BY <2>3, <1>5 DEF SendPoll, PollAnswer
  <2>4. ASSUME Beat \/ BeatFails \/ Report \/ ReportFails
        PROVE  UNCHANGED <<table, tokens, call>>
    BY <2>1, <2>4, <1>5 DEF Beat, BeatFails, Report, ReportFails
  <2>5. ASSUME RequestFails \/ WaitTimesOut \/ JobReturns \/ Refused \/ Exit
        PROVE  UNCHANGED <<table, tokens, call>>
    BY <2>5, <1>5 DEF RequestFails, WaitTimesOut, JobReturns, Refused, Exit
  <2> QED
    BY <1>7, <1>3, <1>q, <2>2, <2>3, <2>4, <2>5 DEF LoopStep
<1> QED
  BY <1>5, <1>6, <1>7, <1>q
  DEF LinkNext, linkVars, JobEnds, Crash, Start, GraceEnds, GraceMissed

\* The loop sets cancel_event only when it learns that the job is cancelled or
\* that its token is refused, and each job has an event of its own.
LEMMA WhyTold ==
  ASSUME AgentTypeOK, [LinkNext]_linkVars, NEW j \in Jobs, Executing(j)', told'
  PROVE  (Executing(j) /\ told) \/ Unknown \/ j \in cancelled
<1>a. None \notin Jobs /\ "running" \notin Endings
  BY AgentAssumption
<1>c. ASSUME NEW next, Continue(next) PROVE FALSE
  BY <1>a, <1>c DEF Continue, Executing
<1>k. ASSUME NEW next, Keep(next, FALSE) PROVE Executing(j) /\ told
  BY <1>k DEF Keep, Executing
<1>l. ASSUME UNCHANGED <<job, work, told>> PROVE Executing(j) /\ told
  BY <1>l DEF Executing
<1>s. ASSUME NEW k, StartJob(k) PROVE FALSE
  BY <1>s DEF StartJob
<1>d. ASSUME NEW r, Deliver(r) PROVE FALSE
  BY <1>d, <1>c, <1>s, DeliverCases
<1>1. ASSUME LoopStep PROVE (Executing(j) /\ told) \/ Unknown \/ j \in cancelled
  <2>1. ASSUME NEW c \in Calls, SendResume(c) \/ ResumeAnswer(c)
        PROVE  Executing(j) /\ told
    BY <2>1, <1>c, <1>l DEF NoAnswer, SendResume, ResumeAnswer, loopVars
  <2>2. ASSUME NEW p \in Polls, (\E n \in Names : SendPoll(p, n)) \/ PollAnswer(p)
        PROVE  Executing(j) /\ told
    BY <2>2, <1>c, <1>d, <1>l DEF NoAnswer, SendPoll, PollAnswer
  <2>3. ASSUME Beat PROVE (Executing(j) /\ told) \/ j \in cancelled
    <3>1. Keep("watching", Heeds(job))
      BY <2>3 DEF Beat
    <3>2. Executing(j) /\ job = j /\ (told \/ Heeds(job))
      BY <3>1 DEF Keep, Executing
    <3> QED
      BY <3>2 DEF Heeds, CancelSignalled
  <2>4. ASSUME Refused PROVE (Executing(j) /\ told) \/ Unknown
    <3>1. Keep("stopping", pc = "beating") /\ Refuses
      BY <2>4 DEF Refused, AfterRefusal
    <3>2. Executing(j) /\ (told \/ pc = "beating")
      BY <3>1 DEF Keep, Executing
    <3> QED
      BY <3>1, <3>2 DEF Refuses, Foreign
  <2>5. ASSUME WaitTimesOut \/ BeatFails \/ JobReturns PROVE Executing(j) /\ told
    BY <2>5, <1>k DEF WaitTimesOut, BeatFails, JobReturns
  <2>6. ASSUME RequestFails \/ Report \/ ReportFails \/ Exit PROVE Executing(j) /\ told
    BY <2>6, <1>c, <1>l DEF NoAnswer, RequestFails, Report, ReportFails, Exit, loopVars
  <2> QED
    BY <1>1, <2>1, <2>2, <2>3, <2>4, <2>5, <2>6 DEF LoopStep
<1>2. ASSUME NEW ending \in Endings, JobEnds(ending) PROVE FALSE
  BY <1>2, <1>a DEF JobEnds, Executing
<1>3. ASSUME Crash \/ Start PROVE FALSE
  BY <1>3, <1>a, <1>c DEF Crash, Start, Executing
<1> QED
  BY <1>1, <1>2, <1>3, <1>l
  DEF LinkNext, linkVars, agentVars, loopVars, GraceEnds, GraceMissed

LEMMA CauseStep ==
  ASSUME "rename" \notin RegistryOps, HostInv, AgentTypeOK, CancelledGaveUp, IdInv,
         StoppedForCause, [LinkNext]_linkVars
  PROVE  StoppedForCause'
<1> SUFFICES ASSUME NEW j \in Jobs, Executing(j)', told'
             PROVE  Unwanted(j)' \/ Unknown'
  BY DEF StoppedForCause
<1>1. Unwanted(j) \/ Unknown
  BY WhyTold DEF StoppedForCause, CancelledGaveUp, Unwanted
<1>2. Unwanted(j) => Unwanted(j)'
  BY LinkIsNext, HandedStays DEF Unwanted
<1> QED
  BY <1>1, <1>2, IdStep DEF HostInv

\* On a controller whose machines are not renamed, what remote_exec asked for is
\* done at most once, and a job that runs is told to stop only when its caller
\* has gone or its machine was revoked.
THEOREM WorkIsDone ==
  ASSUME "rename" \notin RegistryOps PROVE LinkSpec => []WorkDone
<1>1. LinkSpec => []CancelledGaveUp
  BY AgentIsAWorker, HostInvHolds, CancelledInit, CancelledStep, PTL DEF Spec
<1>2. LinkInit => IdInv /\ StoppedForCause
  BY IdInit, AgentAssumption DEF LinkInit, AgentInit, StoppedForCause, Executing
<1>3. HostInv /\ AgentTypeOK /\ CancelledGaveUp /\ IdInv /\ StoppedForCause
        /\ [LinkNext]_linkVars => IdInv' /\ StoppedForCause'
  BY IdStep, CauseStep DEF HostInv
<1>4. LinkSpec => []StoppedForCause
  BY <1>1, <1>2, <1>3, HostInvHolds, AgentTypeCorrect, PTL DEF LinkSpec
<1> QED
  BY <1>4, StartedOnce, PTL DEF WorkDone

-----------------------------------------------------------------------------
(* A job under way stays assigned to the machine that does it *)

\* All polls are this process's, and it holds the job it has.
MineInv ==
  /\ \A p \in Polls : poll[p].st # "idle" => poll[p].token = Me
  /\ job # None => holder[job] = Me

LEMMA PollsMine ==
  ASSUME HostInv, MineInv, [LinkNext]_linkVars, NEW p \in Polls, poll'[p].st # "idle"
  PROVE  poll'[p].token = Me
<1>t. poll \in [Polls -> [st : {"idle", "waiting", "job", "timeout", "revoked"},
                          name : Names \cup {None}, token : Tokens \cup {None},
                          rt : Rts \cup {0}]]
  BY DEF HostInv, TypeOK, WaiterTypes
<1>s. ASSUME poll'[p] = poll[p] \/ poll'[p] = NoPoll
             \/ \E st \in {"job", "timeout", "revoked"} :
                  poll[p].st = "waiting" /\ poll'[p] = [poll[p] EXCEPT !.st = st]
      PROVE  poll'[p].token = Me
  BY <1>s, <1>t DEF MineInv, NoPoll
<1>1. ASSUME NEW c \in Calls, StorageStep(c) PROVE poll'[p].token = Me
  <2>1. CASE RevokeDone(c)
    BY <1>s, <2>1, RevokedPolls DEF HostInv
  <2>2. CASE ~ RevokeDone(c)
    <3>1. UNCHANGED poll
      BY <1>1, <2>2 DEF StorageStep, RegisterPut, RegisterDone, ResumeUpdate, ResumeDone,
        RenamePut, RenameDelete, RenameUndo, RenameDone, RevokeDelete, StorageFails, Commit,
        storageFrame
    <3> QED
      BY <1>s, <3>1
  <2> QED
    BY <2>1, <2>2
<1>2. ASSUME NEW q \in Polls, PollResume(q) \/ PollTimeout(q) PROVE poll'[p].token = Me
  BY <1>2, <1>s, <1>t DEF PollResume, PollTimeout
<1>3. ASSUME UNCHANGED poll PROVE poll'[p].token = Me
  BY <1>3, <1>s
<1>4. ASSUME NEW q \in Polls, NEW n \in Names, SendPoll(q, n) PROVE poll'[p].token = Me
  <2>1. Poll(q, Me, n)
    BY <1>4 DEF SendPoll
  <2>2. poll'[p] = poll[p] \/ poll'[p].token = Me
    BY <1>t, <2>1 DEF Poll
  <2> QED
    BY <1>s, <2>2
<1>5. ASSUME NEW j \in Jobs, NEW n \in Names, NEW aborted \in BOOLEAN, Dispatch(j, n, aborted)
      PROVE  poll'[p].token = Me
  <2>1. WakeWorker(runtime[n]) /\ runtime[n] \in Rts
    BY <1>5 DEF Dispatch, HostInv, TypeOK, RuntimeTypes
  <2> QED
    BY <1>s, <2>1, WokenPoll DEF HostInv
<1>6. CASE Restart
  BY <1>6, <1>s DEF Restart
<1>7. CASE LoopStep
  <2>1. ASSUME NEW c \in Calls, SendResume(c) PROVE UNCHANGED poll
    BY <2>1 DEF SendResume, Resume, storageFrame
  <2>2. ASSUME Beat \/ BeatFails \/ Report \/ ReportFails PROVE UNCHANGED poll
    BY <2>2 DEF Beat, BeatFails, Report, ReportFails, Submit, Heartbeat, SubmitResult, vars
  <2>3. ASSUME RequestFails \/ WaitTimesOut \/ JobReturns \/ Refused \/ Exit
        PROVE  UNCHANGED poll
    BY <2>3 DEF RequestFails, WaitTimesOut, JobReturns, Refused, Exit, vars
  <2> QED
    BY <1>7, <1>1, <1>2, <1>3, <1>4, <2>1, <2>2, <2>3 DEF LoopStep, ResumeAnswer, PollAnswer
<1>8. CASE ControllerStep
  <2>1. ASSUME NEW c \in Calls,
               \/ \E old, new \in Names : Rename(c, old, new)
               \/ \E n \in Names : Revoke(c, n)
        PROVE  UNCHANGED poll
    BY <2>1 DEF Rename, Revoke, storageFrame
  <2>2. ASSUME \/ \E r \in Rts : GoOffline(r)
               \/ \E j \in Jobs : Abort(j) \/ Expire(j)
        PROVE  UNCHANGED poll
    BY <2>2 DEF GoOffline, Abort, Expire, cancelFrame
  <2> QED
    BY <1>8, <1>1, <1>2, <1>3, <1>5, <1>6, <2>1, <2>2 DEF ControllerStep
<1>9. ASSUME \/ \E ending \in Endings : JobEnds(ending)
             \/ Crash \/ Start \/ UNCHANGED linkVars
             \/ \E j \in Jobs : EndGrace(j)
      PROVE  UNCHANGED poll
  BY <1>9 DEF JobEnds, Crash, Start, linkVars, EndGrace, cancelFrame, vars
<1> QED
  BY <1>3, <1>7, <1>8, <1>9 DEF LinkNext, GraceEnds, GraceMissed

\* A job comes to the process by a poll of its own.
LEMMA JobComes ==
  ASSUME HostInv, MineInv, [LinkNext]_linkVars
  PROVE  \/ job' \in {None, job}
         \/ \E r \in Rts : /\ TakeQueued(r, Me) \/ NothingQueued(r)
                           /\ \E j \in Taken(r) : job' = j
<1>d. ASSUME NEW r, Deliver(r) PROVE job' = None \/ \E j \in Taken(r) : job' = j
  BY <1>d, DeliverCases DEF StartJob, Continue
<1>1. ASSUME NEW p \in Polls, NEW n \in Names, SendPoll(p, n)
      PROVE  \/ job' \in {None, job}
             \/ \E r \in Rts : /\ TakeQueued(r, Me) \/ NothingQueued(r)
                               /\ \E j \in Taken(r) : job' = j
  <2>1. /\ RuntimeFor(n) \in Rts
        /\ TakeQueued(RuntimeFor(n), Me) \/ NothingQueued(RuntimeFor(n))
    BY <1>1 DEF SendPoll, Poll, MarkSeen, Intern
  <2>2. UNCHANGED job \/ Deliver(RuntimeFor(n))
    BY <1>1 DEF SendPoll
  <2> QED
    BY <1>d, <2>1, <2>2
<1>2. ASSUME NEW p \in Polls, PollAnswer(p)
      PROVE  \/ job' \in {None, job}
             \/ \E r \in Rts : /\ TakeQueued(r, Me) \/ NothingQueued(r)
                               /\ \E j \in Taken(r) : job' = j
  <2>1. CASE poll[p].st = "revoked"
    BY <1>2, <2>1 DEF NoAnswer, PollAnswer, Continue
  <2>2. CASE poll[p].st # "revoked"
    <3>1. /\ RuntimeFor(poll[p].name) \in Rts /\ Deliver(RuntimeFor(poll[p].name))
          /\ poll[p].st # "idle"
          /\ \/ TakeQueued(RuntimeFor(poll[p].name), poll[p].token)
             \/ NothingQueued(RuntimeFor(poll[p].name))
      BY <1>2, <2>2 DEF PollAnswer, PollResume, MarkSeen, Intern
    <3>2. poll[p].token = Me
      BY <3>1 DEF MineInv
    <3> QED
      BY <1>d, <3>1, <3>2
  <2> QED
    BY <2>1, <2>2
<1>3. ASSUME \/ \E c \in Calls : SendResume(c) \/ ResumeAnswer(c)
             \/ RequestFails \/ WaitTimesOut \/ Beat \/ BeatFails \/ JobReturns
             \/ Report \/ ReportFails \/ Refused \/ Exit
             \/ \E ending \in Endings : JobEnds(ending)
             \/ Crash \/ Start \/ UNCHANGED linkVars \/ UNCHANGED loopVars
      PROVE  job' \in {None, job}
  BY <1>3 DEF SendResume, ResumeAnswer, RequestFails, WaitTimesOut, Beat, BeatFails, JobReturns,
    Report, ReportFails, Refused, AfterRefusal, Exit, JobEnds, Crash, Start, linkVars,
    agentVars, loopVars, NoAnswer, Continue, Keep
<1> QED
  BY <1>1, <1>2, <1>3 DEF LinkNext, LoopStep, agentVars, GraceEnds, GraceMissed

LEMMA MineStep == HostInv /\ AgentTypeOK /\ MineInv /\ [LinkNext]_linkVars => MineInv'
<1> SUFFICES ASSUME HostInv, AgentTypeOK, MineInv, [LinkNext]_linkVars PROVE MineInv'
  OBVIOUS
<1>1. ASSUME job' # None PROVE holder'[job'] = Me
  <2>1. CASE job' = job
    <3>1. job \in Jobs /\ holder[job] = Me /\ Me # None
      BY <1>1, <2>1, AgentAssumption, NoneAssumption DEF MineInv, AgentTypeOK
    <3> QED
      BY <2>1, <3>1, LinkIsNext, HandedStays
  <2>2. CASE \E r \in Rts : /\ TakeQueued(r, Me) \/ NothingQueued(r)
                            /\ \E j \in Taken(r) : job' = j
    BY <2>2, TakenIsHanded, AgentAssumption
  <2> QED
    BY <1>1, <2>1, <2>2, JobComes
<1> QED
  BY <1>1, PollsMine DEF MineInv

\* Where registry calls keep apart, no rename is undone and no poll crosses one:
\* between registry calls the controller never answers 403 to this process
\* for the job it has, and tells it when that job is cancelled.
THEOREM JobsStayOurs ==
  LinkSpec /\ [](CallsApart /\ NothingUndone /\ PollsStay) => []StaysOurs
<1>1. LinkInit => MineInv
  BY DEF LinkInit, Init, AgentInit, NoPoll, MineInv
<1>2. LinkSpec => []MineInv
  BY <1>1, MineStep, HostInvHolds, AgentTypeCorrect, PTL DEF LinkSpec
<1>3. ASSUME HostInv, AnswerInv, HolderInv, MineInv PROVE StaysOurs
  <2> SUFFICES ASSUME job \in pending, Quiescent PROVE tokens[Me] = machine[job]
    BY DEF StaysOurs, Assigned
  <2>1. job # None /\ job \in Jobs
    BY <1>3, AgentAssumption DEF HostInv, TypeOK, PendingTypes
  <2>2. holder[job] = Me /\ Me # None
    BY <1>3, <2>1, AgentAssumption, NoneAssumption DEF MineInv
  <2>3. job \in claimed
    BY <1>3, <2>1, <2>2 DEF HostInv, JobInv, JobBookkeeping
  <2>4. target[job] = Me /\ Belongs(job)
    BY <1>3, <2>2, <2>3 DEF HolderInv, AnswerInv
  <2> QED
    BY <2>4 DEF Belongs, Quiescent
<1> QED
  BY <1>2, <1>3, HostInvHolds, AgentIsAWorker, DeliveryHolds, PTL
=============================================================================
