-------------------------- MODULE RemoteWorkersProps --------------------------
(* What the remote-worker controller must guarantee.  Properties that need *)
(* an instance with one registry call in flight, or without renames, say   *)
(* so; README.md names the runs that check them.                           *)
EXTENDS RemoteWorkers

Running(pc) == \E c \in Calls : call[c].pc = pc
Quiescent == up = "up" /\ \A c \in Calls : call[c].pc = "idle"

-----------------------------------------------------------------------------
(* Jobs: these hold whatever overlaps. *)

\* A dispatched job nobody has claimed is in the queue of the runtime object
\* its dispatch captured, whatever rename or revoke did to the names since:
\* the cancel closure (518-529) and _takeQueued (443-453) rely on it.
UnclaimedIsQueued ==
  \A j \in pending \ claimed : home[j] \in Rts /\ j \in ToSet(queue[home[j]])

\* No queue, reachable or not, holds a job twice, a claimed job, or a job
\* whose caller has cancelled it or timed out: cancellation before the claim
\* removes the queued job.
QueueHoldsOpenJobs ==
  \A r \in Rts : \A i \in DOMAIN queue[r] :
    LET j == queue[r][i] IN
    /\ home[j] = r
    /\ j \notin claimed
    /\ caller[j] \in {"waiting", "revoked"}
    /\ \A k \in DOMAIN queue[r] : queue[r][k] = j => k = i

\* Both: queues and pending objects agree about every job.
QueuesAgree == UnclaimedIsQueued /\ QueueHoldsOpenJobs

\* What makes it inductive, per job: what its pending object says
\* agrees with what its caller and its holder have seen.
JobBookkeeping ==
  \A j \in Jobs :
    /\ j \in pending => home[j] # 0
    /\ j \in pending \cap cancelled => j \in claimed
    /\ j \in pending \cap settled => j \in cancelled
    /\ timer[j] # "off" => home[j] # 0
    /\ home[j] # 0 /\ j \notin settled => caller[j] = "waiting"
    /\ home[j] # 0 /\ j \notin claimed => holder[j] = None
    /\ j \in claimed => holder[j] # None
    /\ caller[j] = "none" =>
         home[j] = 0 /\ holder[j] = None /\ j \notin claimed \cup cancelled \cup settled

\* Exactly the poll requests that wait are in waiter sets, each once, in that
\* of its runtime object; a request in progress carries a token.
WaitersWait ==
  /\ \A r \in Rts : \A i \in DOMAIN waiters[r] :
       LET p == waiters[r][i] IN
       /\ poll[p].st = "waiting" /\ poll[p].rt = r
       /\ \A k \in DOMAIN waiters[r] : waiters[r][k] = p => k = i
  /\ \A p \in Polls : poll[p].st = "waiting" =>
       poll[p].rt \in Rts /\ p \in ToSet(waiters[poll[p].rt])
  /\ \A p \in Polls : poll[p].st # "idle" => poll[p].token \in Tokens

\* A caller that still waits has its expiry timer armed and its pending
\* object in the map, so it will be settled: every job has an expiry.
WaitingJobExpires ==
  \A j \in Jobs : caller[j] = "waiting" =>
    j \in pending /\ j \notin settled /\ timer[j] = "expiry"

\* The controller implements the promise of JobPromise: at most one
\* outcome, at most one hand-over and only while the caller waits, answers
\* only to jobs handed out, nothing replayed after a restart.
Promise == INSTANCE JobPromise
JobPromiseKept == Promise!PromiseSpec

\* One invite enrols at most one worker, although register awaits its put.
InviteUsedOnce ==
  \A s, t \in Tokens : s # t /\ earned[s] # None => earned[s] # earned[t]

\* What makes it inductive: an invite that enrolled a worker has left the map.
EarnedIsSpent ==
  \A t \in Tokens : earned[t] # None => t \in used /\ invite[earned[t]] = "spent"

-----------------------------------------------------------------------------
(* Identities: these need registry calls that keep apart. *)

\* A registry call between its awaits that changes who is who; resume does
\* not.  The names it concerns.
Writes(k) == k.pc \notin {"idle", "resume_update", "resume_done"}
Concerned(k) == {k.name, k.new} \ {None}
Enrolling(k) == k.pc \in {"register_put", "register_done"}
Renaming(k) == k.pc \in {"rename_put", "rename_delete", "rename_undo", "rename_done"}

\* No two such calls concern the same name.  The code does not see to it:
\* register (279-284), rename (359-360) and revoke (381) check before they
\* await, and calls that overlap on a name do break what follows.
CallsApart ==
  \A c, d \in Calls :
    Writes(call[c]) /\ Writes(call[d]) /\ c # d =>
      Concerned(call[c]) \cap Concerned(call[d]) = {}

\* The delete that undoes a rename succeeds; rename ignores its failure (367),
\* which leaves the record under both names.
UndoSucceeds == \A c \in Calls : ~ (call[c].pc = "rename_undo" /\ StorageFails(c))

\* No rename has to be undone after a failed delete.
NothingUndone == \A c \in Calls : call[c].pc # "rename_undo"

\* No poll stays open while its machine gets another name.
PollsStay ==
  \A p \in Polls : poll[p].st \in {"waiting", "job", "timeout"} =>
    tokens[poll[p].token] \in {poll[p].name, None}

\* Between registry calls the tokens map is exactly the one a restart would
\* build from the table: every stored identity is accepted under the name it
\* is stored under and nothing else is accepted, also after a storage
\* failure in the middle of a rename.
IdentityAgreement == Quiescent => Loads(table, tokens)

\* A token whose revocation was reported complete is never accepted again
\* and no record stores it: revocation invalidates future requests.
RevokedStaysOut ==
  \A t \in revoked : tokens[t] = None /\ \A n \in Names : table[n] # t

\* The result a caller receives was submitted by the worker the job was
\* dispatched to, however names moved in between.
AnswerFromTarget ==
  \A j \in Jobs : answerer[j] # None => answerer[j] = target[j]

\* What makes them inductive.  Names no call concerns: the tokens map is what
\* the table says.
NobodyIs(n) == \A t \in Tokens : tokens[t] # n
OnlyIs(n, t) == \A s \in Tokens : tokens[s] = n <=> s = t
Untouched(n) == \A c \in Calls : Writes(call[c]) => n \notin Concerned(call[c])
SettledNames ==
  \A n \in Names : Untouched(n) => \A t \in Tokens : tokens[t] = n <=> table[n] = t

\* Names a call concerns: what table and tokens say between its awaits.
CallFits(k) ==
  LET n == k.name
      m == k.new
      t == k.token IN
  Writes(k) =>
    /\ n \in Names /\ t \in used
    /\ table[n] = IF k.pc \in {"register_put", "rename_done", "revoke_done"}
                  THEN None ELSE t
    /\ IF Enrolling(k) THEN NobodyIs(n) /\ tokens[t] = None /\ t \notin revoked
                       ELSE OnlyIs(n, t)
    /\ IF Renaming(k)
       THEN /\ m \in Names /\ m # n /\ NobodyIs(m)
            /\ table[m] = IF k.pc = "rename_put" THEN None ELSE t
       ELSE m = None

\* Tokens are drawn once.
TokensDrawn ==
  /\ \A t \in Tokens : tokens[t] # None => t \in used
  /\ \A n \in Names : table[n] # None => table[n] \in used
  /\ revoked \subseteq used
  /\ \A c, d \in Calls :
       Enrolling(call[c]) /\ Enrolling(call[d]) /\ c # d => call[c].token # call[d].token

RegistryInv ==
  /\ up = "up" => SettledNames
  /\ up = "failed" => \A c \in Calls : call[c].pc = "idle"
  /\ \A c \in Calls : CallFits(call[c])
  /\ TokensDrawn
  /\ RevokedStaysOut

\* Where a pending job belongs: to the machine that has its name, or that is
\* about to have it.
Belongs(j) ==
  LET n == machine[j]
      t == target[j] IN
  \/ tokens[t] = n
  \/ \E c \in Calls :
       /\ call[c].token = t
       /\ \/ call[c].pc \in {"rename_delete", "rename_done"} /\ call[c].new = n
          \/ call[c].pc = "register_done" /\ call[c].name = n
AnswerInv ==
  /\ \A j \in pending : target[j] \in Tokens /\ machine[j] \in Names /\ Belongs(j)
  /\ \A j \in Jobs : answerer[j] # None => answerer[j] = target[j] /\ caller[j] # "none"

\* Calls and polls in progress carry a name.
Named ==
  /\ \A c \in Calls : call[c].pc # "idle" => call[c].name \in Names
  /\ \A p \in Polls : poll[p].st # "idle" => poll[p].name \in Names

\* Which objects names have, and that they hold jobs of that name.
ObjectInv ==
  /\ \A n \in Names : runtime[n] < nextRt
  /\ \A m, n \in Names : runtime[m] = runtime[n] /\ runtime[m] # 0 => m = n
  /\ \A r \in Rts : r >= nextRt => ToSet(queue[r]) = {}
  /\ \A n \in Names : \A j \in pending :
       runtime[n] # 0 /\ j \in ToSet(queue[runtime[n]]) => machine[j] = n
  /\ \A c \in Calls :
       Renaming(call[c]) => call[c].rt # 0 /\ call[c].rt = runtime[call[c].name]

\* A poll under way: it waits where its name's jobs arrive, and once its token
\* is revoked it no longer waits and its name is nobody's.
PollFits(k) ==
  /\ k.st \in {"waiting", "job", "timeout"} /\ tokens[k.token] = None =>
       k.st # "waiting" /\ NobodyIs(k.name) /\ Untouched(k.name)
  /\ k.st \in {"waiting", "job"} /\ tokens[k.token] # None =>
       k.rt # 0 /\ k.rt = runtime[k.name]
PollInv == \A p \in Polls : PollFits(poll[p])

\* A claimed job is held by the worker it was dispatched to.
HolderInv == \A j \in pending \cap claimed : holder[j] = target[j]

\* While polls wait on an object at most one live job is queued there, and then
\* a poll that was woken for it has yet to resume.
LiveIn(r) == {j \in ToSet(queue[r]) : Live(j)}
Attended(r) ==
  waiters[r] # <<>> => \A j \in LiveIn(r) :
    /\ LiveIn(r) = {j}
    /\ \E p \in Polls : poll[p].st = "job" /\ runtime[poll[p].name] = r
WakeInv == \A r \in Rts : Attended(r)

\* All three: memory, table, what revocation promised and whose results are
\* believed agree about who is who.
IdentitiesAgree == IdentityAgreement /\ RevokedStaysOut /\ AnswerFromTarget

\* No caller is left waiting for a worker whose revocation is complete:
\* revocation settles outstanding work, under whatever name it was dispatched.
RevokeSettles ==
  \A j \in Jobs : caller[j] = "waiting" => target[j] \notin revoked

\* While a cancelled job is still pending, a heartbeat of the worker that
\* holds it says so, also after the machine was renamed.
CancelReachesHolder ==
  \A j \in pending \cap claimed \cap cancelled :
    Quiescent /\ tokens[holder[j]] # None => CancelSignalled(holder[j], j)

\* Every stored registry can be loaded again: after a restart enrolled
\* workers resume with their persistent token.
RestartLoads == up # "failed"

-----------------------------------------------------------------------------
(* Delivery: this also needs names that stay with their worker. *)

\* No live job sits in the queue of a machine while a poll of it waits.
NoLostWakeup ==
  NextTask => \A r \in Rts :
    (\E i \in DOMAIN queue[r] : Live(queue[r][i])) => waiters[r] = <<>>

\* Neither a poll that has work nor the caller of a revoked worker is left
\* waiting.
NobodyForgotten == NoLostWakeup /\ RevokeSettles

-----------------------------------------------------------------------------
(* Progress, under the fairness of timers. *)

\* Every tool call that was accepted is settled.
CallerSettles == Promise!Promised

\* No pending entry stays in the map for ever, cancelled ones included.
PendingDrains == \A j \in Jobs : (j \in pending) ~> (j \notin pending)

\* Both, whatever becomes of workers, answers and callers.
JobsEnd == CallerSettles /\ PendingDrains
=============================================================================
