----------------------------- MODULE RemoteWorkers -----------------------------
(***************************************************************************)
(* The DSH remote-worker controller                                        *)
(* (dsh-remote-worker-plugin/controller.js): enrolment of machines, their  *)
(* durable registry, the in-memory queues and long polls through which     *)
(* jobs reach them, and the promises of the tool calls that wait for the   *)
(* results.                                                                *)
(*                                                                         *)
(* Node runs one handler at a time up to its next await, so every action   *)
(* below is the code between two awaits.  register, rename, revoke and     *)
(* resume await the storage table; such a call occupies a slot of Calls    *)
(* and its steps interleave with everything else.  poll awaits a waiter.   *)
(*                                                                         *)
(* A worker token and its SHA-256 digest determine each other, so a token  *)
(* stands for both; the durable record of a machine is reduced to the      *)
(* digest it stores (workdir, capabilities and info are plain data).       *)
(* Runtime objects {lastSeenMs, queue, waiters} are shared by reference    *)
(* between the runtime map, dispatch closures and renames, so they have    *)
(* identities 1..MaxRuntimes; 0 is no object.                              *)
(***************************************************************************)
EXTENDS Integers, SequencesExt

CONSTANTS
  Names,        \* machine names
  Tokens,       \* worker tokens that enrolment may draw
  Jobs,         \* job ids that dispatch may draw (never reused: UUIDs)
  Polls,        \* poll requests that may be open at a time
  Calls,        \* storage-backed calls that may be in flight at a time
  Invites,      \* invite codes that createInvite may draw
  None,         \* no name, no token
  MaxPending,   \* maxPendingPerMachine
  MaxInvites,   \* MAX_INVITES
  MaxRuntimes,  \* bound: runtime objects created in one process lifetime
  MaxFaults,    \* bound: storage operations that fail
  MaxRestarts,  \* bound: controller restarts
  RegistryOps,  \* calls made on enrolled machines, of rename/revoke/resume
  ResultKinds   \* results workers send, of wellformed/malformed

ASSUME NoneAssumption ==
  None \notin Names \cup Tokens
ASSUME BoundsAssumption ==
  /\ {MaxPending, MaxInvites, MaxRuntimes, MaxFaults, MaxRestarts} \subseteq Nat
  /\ RegistryOps \subseteq {"rename", "revoke", "resume"}
  /\ ResultKinds \subseteq {"wellformed", "malformed"}

VARIABLES
  table,     \* durable: name -> digest of the record stored under it, or None
  tokens,    \* this.tokens: digest -> name, or None
  invite,    \* this.invites: unused, open (in the map) or spent
  bound,     \* the name an invite is bound to, or None
  runtime,   \* this.runtime: name -> runtime object, or 0
  nextRt,    \* next runtime object to be created
  seen,      \* runtime objects whose lastSeenMs is within offlineAfterMs
  queue,     \* runtime object -> its queued jobs
  waiters,   \* runtime object -> its poll waiters, in insertion order
  poll,      \* poll requests: where each is, for which token, name, object
  pending,   \* keys of this.pending
  machine,   \* pending object of a job: machine
  home,      \* the runtime object its dispatch closure captured; 0: no job
  claimed,   \* jobs whose pending object has claimed, cancelled,
  cancelled, \*   callerSettled set
  settled,
  timer,     \* off, expiry (armed by dispatch) or grace (armed on expiry)
  call,      \* storage-backed calls in flight
  up,        \* "up", or "failed" when the registry could not be loaded
  faults,    \* storage failures so far
  restarts,  \* restarts so far
  \* history, read by no action's guard except to draw fresh ids
  caller,    \* per job: what its awaiting tool call has seen
  holder,    \* per job: the token whose poll returned it
  target,    \* per job: the token of the machine it was dispatched to
  answerer,  \* per job: the token whose result settled its caller
  earned,    \* per token: the invite it was issued for, or None
  used,      \* tokens issued so far
  revoked    \* tokens whose revocation has been reported complete

registryVars == <<table, tokens>>
inviteVars   == <<invite, bound, earned, used>>
runtimeVars  == <<runtime, nextRt, seen>>
queueVars    == <<queue, waiters>>
pendingVars  == <<pending, machine, home, cancelled, settled, timer>>
jobVars      == <<pendingVars, claimed, caller, holder, target, answerer>>
hostVars     == <<revoked, up, faults, restarts>>
vars == <<registryVars, inviteVars, runtimeVars, queueVars, poll, jobVars,
          call, hostVars>>
\* What an action of each kind leaves alone.
storageFrame  == <<inviteVars, runtimeVars, queueVars, poll, jobVars, hostVars>>
protocolFrame == <<registryVars, inviteVars, call, hostVars>>
pollFrame     == <<protocolFrame, pendingVars, caller, target, answerer>>
cancelFrame   == <<protocolFrame, runtimeVars, waiters, poll, machine, home,
                   claimed, holder, target, answerer>>

Rts == 1..MaxRuntimes
CallSteps == {"idle", "register_put", "register_done", "rename_put",
              "rename_delete", "rename_undo", "rename_done", "revoke_delete",
              "revoke_done", "resume_update", "resume_done"}
NoCall == [pc |-> "idle", name |-> None, new |-> None, token |-> None, rt |-> 0]
NoPoll == [st |-> "idle", name |-> None, token |-> None, rt |-> 0]

RegistryTypes ==
  /\ table \in [Names -> Tokens \cup {None}]
  /\ tokens \in [Tokens -> Names \cup {None}]
InviteTypes ==
  /\ invite \in [Invites -> {"unused", "open", "spent"}]
  /\ bound \in [Invites -> Names \cup {None}]
  /\ earned \in [Tokens -> Invites \cup {None}]
  /\ used \in SUBSET Tokens
RuntimeTypes ==
  /\ runtime \in [Names -> Rts \cup {0}]
  /\ nextRt \in 1..(MaxRuntimes + 1)
  /\ seen \in SUBSET Rts
QueueTypes ==
  /\ queue \in [Rts -> Seq(Jobs)]
  /\ \A r \in Rts : Len(queue[r]) <= MaxPending
WaiterTypes ==
  /\ waiters \in [Rts -> Seq(Polls)]
  /\ poll \in [Polls -> [st : {"idle", "waiting", "job", "timeout", "revoked"},
                         name : Names \cup {None}, token : Tokens \cup {None},
                         rt : Rts \cup {0}]]
PendingTypes ==
  /\ pending \in SUBSET Jobs
  /\ machine \in [Jobs -> Names \cup {None}]
  /\ home \in [Jobs -> Rts \cup {0}]
  /\ cancelled \in SUBSET Jobs
  /\ settled \in SUBSET Jobs
  /\ timer \in [Jobs -> {"off", "expiry", "grace"}]
HandTypes ==
  /\ claimed \in SUBSET Jobs
  /\ holder \in [Jobs -> Tokens \cup {None}]
CallerTypes ==
  /\ caller \in [Jobs -> {"none", "waiting", "answered", "gaveup", "revoked", "lost"}]
  /\ target \in [Jobs -> Tokens \cup {None}]
  /\ answerer \in [Jobs -> Tokens \cup {None}]
CallTypes ==
  /\ call \in [Calls -> [pc : CallSteps, name : Names \cup {None},
                         new : Names \cup {None}, token : Tokens \cup {None},
                         rt : Rts \cup {0}]]
  /\ \A c \in Calls : call[c].pc \in {"revoke_delete", "revoke_done"} =>
       call[c].name \in Names /\ call[c].token \in Tokens
HostTypes ==
  /\ revoked \in SUBSET Tokens
  /\ up \in {"up", "failed"}
  /\ faults \in 0..MaxFaults
  /\ restarts \in 0..MaxRestarts

TypeOK ==
  /\ RegistryTypes /\ InviteTypes /\ RuntimeTypes /\ QueueTypes /\ WaiterTypes
  /\ PendingTypes /\ HandTypes /\ CallerTypes /\ CallTypes /\ HostTypes

-----------------------------------------------------------------------------
(* Helpers of the controller *)

\* The tokens map _loadWorkers builds from a stored table.
Loads(tab, tok) == \A t \in Tokens, n \in Names : (tok[t] = n) <=> (tab[n] = t)
Loadable(tab) ==
  \A m, n \in Names : (m # n /\ tab[m] # None) => tab[m] # tab[n]

\* The event loop starts a new task (a request, a tool call, an abort, a
\* timer) only once the continuations of the polls resolved by the last one
\* have run.  Continuations of storage calls may be queued before those.
NextTask == up = "up" /\ \A p \in Polls : poll[p].st \in {"idle", "waiting"}

\* _runtimeFor: the object the map holds for n, created when it has none.
RuntimeFor(n) == IF runtime[n] # 0 THEN runtime[n] ELSE nextRt
Intern(n) ==
  /\ RuntimeFor(n) \in Rts
  /\ runtime' = [runtime EXCEPT ![n] = RuntimeFor(n)]
  /\ nextRt' = IF runtime[n] = 0 THEN nextRt + 1 ELSE nextRt

\* _markSeen
MarkSeen(n) == Intern(n) /\ seen' = seen \cup {RuntimeFor(n)}

\* _workerForToken: the token is known and its name has a record.
WorkerForToken(t, n) == tokens[t] = n /\ table[n] # None

Live(j) == j \in pending /\ j \notin cancelled

\* Mutant of TakeQueued: the job stays queued until its result arrives.
TakeQueuedKeeping(r, t) ==
  \E i \in DOMAIN queue[r] :
    LET j == queue[r][i] IN
    /\ Live(j)
    /\ \A k \in 1..(i - 1) : ~ Live(queue[r][k])
    /\ queue' = [queue EXCEPT ![r] = SubSeq(@, i, Len(@))]
    /\ claimed' = claimed \cup {j}
    /\ holder' = [holder EXCEPT ![j] = t]

\* _takeQueued on object r, for the poll of token t: entries before the
\* first one whose pending object is live are dropped, that one is claimed.
TakeQueued(r, t) ==
  \E i \in DOMAIN queue[r] :
    LET j == queue[r][i] IN
    /\ Live(j)
    /\ \A k \in 1..(i - 1) : ~ Live(queue[r][k])
    /\ queue' = [queue EXCEPT ![r] = SubSeq(@, i + 1, Len(@))]
    /\ claimed' = claimed \cup {j}
    /\ holder' = [holder EXCEPT ![j] = t]
NothingQueued(r) ==
  /\ \A i \in DOMAIN queue[r] : ~ Live(queue[r][i])
  /\ queue' = [queue EXCEPT ![r] = <<>>]
  /\ UNCHANGED <<claimed, holder>>

\* Sequence q without its element x, if it has it.
Spliced(q, x) ==
  IF \E i \in DOMAIN q : q[i] = x
  THEN RemoveAt(q, CHOOSE i \in DOMAIN q : q[i] = x) ELSE q

\* The storage operation call c awaits takes effect: v is stored under n
\* (None: n is deleted).  Its continuation is a later step.
Commit(c, pc, next, n, v) ==
  /\ up = "up" /\ call[c].pc = pc
  /\ table' = [table EXCEPT ![n] = v]
  /\ call' = [call EXCEPT ![c] = IF next = "idle" THEN NoCall
                                 ELSE [@ EXCEPT !.pc = next]]
  /\ UNCHANGED <<tokens, storageFrame>>

-----------------------------------------------------------------------------
(* Enrolment and administration *)

\* createInvite: pruned first, bounded, and a bound name must be free.
CreateInvite(i, n) ==
  /\ NextTask
  /\ invite[i] = "unused"
  /\ Cardinality({k \in Invites : invite[k] = "open"}) < MaxInvites
  /\ n # None => table[n] = None
  /\ invite' = [invite EXCEPT ![i] = "open"]
  /\ bound' = [bound EXCEPT ![i] = n]
  /\ UNCHANGED <<registryVars, earned, used, runtimeVars, queueVars, poll, jobVars, call,
                 hostVars>>

\* An invite passes its expiry.  Every reader of the map prunes first, so
\* this is when it leaves the map for all purposes.
ExpireInvite(i) ==
  /\ NextTask
  /\ invite[i] = "open"
  /\ invite' = [invite EXCEPT ![i] = "spent"]
  /\ UNCHANGED <<registryVars, bound, earned, used, runtimeVars, queueVars,
                 poll, jobVars, call, hostVars>>

\* Mutant of Redeem: the invite stays in the map.
RedeemNothing(i) == UNCHANGED invite

\* The invite is consumed before register first awaits.
Redeem(i) == invite' = [invite EXCEPT ![i] = "spent"]

\* register up to its put.  An explicit or bound name must be free, a
\* default one gets a free suffix: either way n has no record.
Register(c, i, n, t) ==
  /\ NextTask
  /\ call[c].pc = "idle"
  /\ invite[i] = "open"
  /\ bound[i] \in {None, n}
  /\ table[n] = None
  /\ t \notin used
  /\ Redeem(i)
  /\ used' = used \cup {t}
  /\ earned' = [earned EXCEPT ![t] = i]
  /\ call' = [call EXCEPT ![c] = [NoCall EXCEPT !.pc = "register_put",
                                                !.name = n, !.token = t]]
  /\ UNCHANGED <<registryVars, bound, runtimeVars, queueVars, poll, jobVars,
                 hostVars>>

RegisterPut(c) ==
  Commit(c, "register_put", "register_done", call[c].name, call[c].token)

\* register after its put: a new runtime object replaces whatever the map
\* held for the name.
RegisterDone(c) ==
  /\ up = "up" /\ call[c].pc = "register_done"
  /\ nextRt \in Rts
  /\ tokens' = [tokens EXCEPT ![call[c].token] = call[c].name]
  /\ runtime' = [runtime EXCEPT ![call[c].name] = nextRt]
  /\ nextRt' = nextRt + 1
  /\ seen' = seen \cup {nextRt}
  /\ call' = [call EXCEPT ![c] = NoCall]
  /\ UNCHANGED <<table, inviteVars, queueVars, poll, jobVars, hostVars>>

\* resume up to its update.
Resume(c, t, n) ==
  /\ NextTask /\ "resume" \in RegistryOps
  /\ call[c].pc = "idle"
  /\ WorkerForToken(t, n)
  /\ call' = [call EXCEPT ![c] = [NoCall EXCEPT !.pc = "resume_update", !.name = n]]
  /\ UNCHANGED <<registryVars, storageFrame>>

\* The update keeps name and digest; it throws when the record is gone.
ResumeUpdate(c) ==
  /\ up = "up" /\ call[c].pc = "resume_update"
  /\ call' = [call EXCEPT ![c] = IF table[call[c].name] = None THEN NoCall
                                 ELSE [@ EXCEPT !.pc = "resume_done"]]
  /\ UNCHANGED <<registryVars, storageFrame>>

ResumeDone(c) ==
  /\ up = "up" /\ call[c].pc = "resume_done"
  /\ MarkSeen(call[c].name)
  /\ call' = [call EXCEPT ![c] = NoCall]
  /\ UNCHANGED <<registryVars, inviteVars, queueVars, poll, jobVars, hostVars>>

\* rename up to its put: the record and the runtime object are captured.
Rename(c, old, new) ==
  /\ NextTask /\ "rename" \in RegistryOps
  /\ call[c].pc = "idle"
  /\ old # new
  /\ table[new] = None
  /\ table[old] # None
  /\ Intern(old)
  /\ call' = [call EXCEPT ![c] = [pc |-> "rename_put", name |-> old, new |-> new,
                                  token |-> table[old], rt |-> RuntimeFor(old)]]
  /\ UNCHANGED <<registryVars, inviteVars, seen, queueVars, poll, jobVars,
                 hostVars>>

RenamePut(c) ==
  Commit(c, "rename_put", "rename_delete", call[c].new, call[c].token)

RenameDelete(c) ==
  Commit(c, "rename_delete", "rename_done", call[c].name, None)

\* Mutant of RenameUndo: the old record is removed.
RenameUndoOld(c) ==
  Commit(c, "rename_undo", "idle", call[c].name, None)

\* The delete failed: the new record is removed again and rename throws.
RenameUndo(c) ==
  Commit(c, "rename_undo", "idle", call[c].new, None)

\* Mutant of Readdress: pending jobs keep the old name.
ReaddressNothing(old, new) == UNCHANGED machine

\* rename after both storage steps: identity, runtime object and pending
\* jobs follow the new name; poll requests do not.
Readdress(old, new) ==
  machine' = [j \in Jobs |-> IF j \in pending /\ machine[j] = old
                             THEN new ELSE machine[j]]

RenameDone(c) ==
  /\ up = "up" /\ call[c].pc = "rename_done"
  /\ tokens' = [tokens EXCEPT ![call[c].token] = call[c].new]
  /\ runtime' = [runtime EXCEPT ![call[c].name] = 0, ![call[c].new] = call[c].rt]
  /\ Readdress(call[c].name, call[c].new)
  /\ call' = [call EXCEPT ![c] = NoCall]
  /\ UNCHANGED <<table, inviteVars, nextRt, seen, queueVars, poll, pending,
                 home, cancelled, settled, timer, claimed, caller, holder,
                 target, answerer, hostVars>>

\* revoke up to its delete.
Revoke(c, n) ==
  /\ NextTask /\ "revoke" \in RegistryOps
  /\ call[c].pc = "idle"
  /\ table[n] # None
  /\ call' = [call EXCEPT ![c] = [NoCall EXCEPT !.pc = "revoke_delete",
                                                !.name = n, !.token = table[n]]]
  /\ UNCHANGED <<registryVars, storageFrame>>

RevokeDelete(c) ==
  Commit(c, "revoke_delete", "revoke_done", call[c].name, None)

\* Mutant of Forget: the digest stays in the tokens map.
ForgetNothing(t) == UNCHANGED tokens

\* Mutant of DropPending: nobody calls reject.
DropSilently(S) ==
  /\ pending' = pending \ S
  /\ timer' = [j \in Jobs |-> IF j \in S THEN "off" ELSE timer[j]]
  /\ settled' = settled \cup S
  /\ UNCHANGED caller

\* revoke after its delete: token and runtime object go, waiting polls are
\* woken with revoked, the pending jobs of the name are rejected.
Forget(t) == tokens' = [tokens EXCEPT ![t] = None]

DropPending(S) ==
  /\ pending' = pending \ S
  /\ timer' = [j \in Jobs |-> IF j \in S THEN "off" ELSE timer[j]]
  /\ settled' = settled \cup S
  /\ caller' = [j \in Jobs |-> IF j \in S \ settled THEN "revoked" ELSE caller[j]]

RevokeDone(c) ==
  LET n == call[c].name
      r == runtime[n]
      woken == IF r = 0 THEN {} ELSE ToSet(waiters[r]) IN
  /\ up = "up" /\ call[c].pc = "revoke_done"
  /\ Forget(call[c].token)
  /\ runtime' = [runtime EXCEPT ![n] = 0]
  /\ waiters' = [q \in Rts |-> IF q = r THEN <<>> ELSE waiters[q]]
  /\ poll' = [p \in Polls |-> IF p \in woken THEN [poll[p] EXCEPT !.st = "revoked"]
                              ELSE poll[p]]
  /\ DropPending({j \in pending : machine[j] = n})
  /\ revoked' = revoked \cup {call[c].token}
  /\ call' = [call EXCEPT ![c] = NoCall]
  /\ UNCHANGED <<table, inviteVars, nextRt, seen, queue, machine, home,
                 cancelled, claimed, holder, target, answerer, up, faults,
                 restarts>>

\* A storage operation fails and leaves the table as it was; every caller
\* but rename's delete just propagates the failure.
StorageFails(c) ==
  /\ up = "up" /\ faults < MaxFaults
  /\ call[c].pc \in {"register_put", "resume_update", "rename_put",
                     "rename_delete", "rename_undo", "revoke_delete"}
  /\ faults' = faults + 1
  /\ call' = [call EXCEPT ![c] = IF @.pc = "rename_delete"
                                 THEN [@ EXCEPT !.pc = "rename_undo"] ELSE NoCall]
  /\ UNCHANGED <<registryVars, inviteVars, runtimeVars, queueVars, poll,
                 jobVars, revoked, up, restarts>>

-----------------------------------------------------------------------------
(* The worker protocol *)

\* poll up to its await: a queued job is returned at once, otherwise the
\* request becomes a waiter of the runtime object.
Poll(p, t, n) ==
  LET r == RuntimeFor(n) IN
  /\ NextTask
  /\ poll[p].st = "idle"
  /\ WorkerForToken(t, n)
  /\ MarkSeen(n)
  /\ \/ TakeQueued(r, t) /\ UNCHANGED <<poll, waiters>>
     \/ /\ NothingQueued(r)
        /\ poll' = [poll EXCEPT ![p] = [st |-> "waiting", name |-> n,
                                        token |-> t, rt |-> r]]
        /\ waiters' = [waiters EXCEPT ![r] = Append(@, p)]
  /\ UNCHANGED pollFrame

\* The poll timer removes the waiter and resolves it.
PollTimeout(p) ==
  /\ NextTask
  /\ poll[p].st = "waiting"
  /\ poll' = [poll EXCEPT ![p].st = "timeout"]
  /\ waiters' = [waiters EXCEPT ![poll[p].rt] = Spliced(@, p)]
  /\ UNCHANGED <<protocolFrame, runtimeVars, queue, jobVars>>

\* poll after its await, with the name captured before it.
PollResume(p) ==
  LET n == poll[p].name IN
  /\ up = "up" /\ poll[p].st \in {"job", "timeout", "revoked"}
  /\ MarkSeen(n)
  /\ IF poll[p].st = "revoked" THEN UNCHANGED <<queue, claimed, holder>>
     ELSE TakeQueued(RuntimeFor(n), poll[p].token) \/ NothingQueued(RuntimeFor(n))
  /\ poll' = [poll EXCEPT ![p] = NoPoll]
  /\ UNCHANGED <<waiters, pollFrame>>

\* heartbeat: marks the worker seen; its answer is CancelSignalled.
Heartbeat(t, n) ==
  /\ NextTask
  /\ WorkerForToken(t, n)
  /\ MarkSeen(n)
  /\ UNCHANGED <<protocolFrame, queueVars, poll, jobVars>>

CancelSignalled(t, j) ==
  j \in pending /\ machine[j] = tokens[t] /\ j \in cancelled

\* Mutants of Assigned and Accepts: the checks are missing.
AssignedToAnybody(j, n) == TRUE
AcceptsLate(j) == TRUE

\* submitResult for a job some poll has handed out.  A result for a job no
\* longer pending is not accepted, one for another machine's job refused.  An
\* error member that is not an object throws after callerSettled is set.
Assigned(j, n) == machine[j] = n

\* The result still counts: the caller has neither cancelled nor timed out.
Accepts(j) == j \notin settled

SubmitResult(t, n, j, kind) ==
  /\ NextTask
  /\ j \in claimed
  /\ WorkerForToken(t, n)
  /\ MarkSeen(n)
  /\ \/ /\ j \in pending /\ Assigned(j, n)
        /\ pending' = pending \ {j}
        /\ timer' = [timer EXCEPT ![j] = "off"]
        /\ settled' = settled \cup {j}
        /\ IF ~ Accepts(j) \/ kind = "malformed" THEN UNCHANGED <<caller, answerer>>
           ELSE /\ caller' = [caller EXCEPT ![j] = "answered"]
                /\ answerer' = [answerer EXCEPT ![j] = t]
     \/ /\ ~ (j \in pending /\ Assigned(j, n))
        /\ UNCHANGED <<pending, timer, settled, caller, answerer>>
  /\ UNCHANGED <<protocolFrame, queueVars, poll, machine, home, cancelled,
                 claimed, holder, target>>

\* offlineAfterMs passes without a request that marks object r seen.
GoOffline(r) ==
  /\ NextTask
  /\ r \in seen
  /\ seen' = seen \ {r}
  /\ UNCHANGED <<protocolFrame, runtime, nextRt, queueVars, poll, jobVars>>

-----------------------------------------------------------------------------
(* Tool calls and their timers *)

\* Mutant of WakeWorker: nobody is woken.
WakeNobody(r) == UNCHANGED <<poll, waiters>>

\* _wakeWorker: the oldest waiter is removed and resolved.
WakeWorker(r) ==
  IF waiters[r] = <<>> THEN UNCHANGED <<poll, waiters>>
  ELSE /\ poll' = [poll EXCEPT ![Head(waiters[r])].st = "job"]
       /\ waiters' = [waiters EXCEPT ![r] = Tail(@)]

\* Mutant of HasRoom: off by one.
HasRoomForOneMore(n, r) ==
  /\ Len(queue[r]) <= MaxPending
  /\ Cardinality({k \in pending \ cancelled : machine[k] = n}) <= MaxPending

\* dispatch to an online machine with room.  With an already aborted signal
\* the job is pushed, a poll is woken, and the job is withdrawn again.
HasRoom(n, r) ==
  /\ Len(queue[r]) < MaxPending
  /\ Cardinality({k \in pending \ cancelled : machine[k] = n}) < MaxPending

Dispatch(j, n, aborted) ==
  LET r == runtime[n] IN
  /\ NextTask
  /\ caller[j] = "none"
  /\ table[n] # None
  /\ r \in seen
  /\ HasRoom(n, r)
  /\ machine' = [machine EXCEPT ![j] = n]
  /\ home' = [home EXCEPT ![j] = r]
  /\ target' = [target EXCEPT ![j] = table[n]]
  /\ WakeWorker(r)
  /\ IF aborted
     THEN /\ cancelled' = cancelled \cup {j}
          /\ settled' = settled \cup {j}
          /\ caller' = [caller EXCEPT ![j] = "gaveup"]
          /\ UNCHANGED <<queue, pending, timer>>
     ELSE /\ queue' = [queue EXCEPT ![r] = Append(@, j)]
          /\ pending' = pending \cup {j}
          /\ timer' = [timer EXCEPT ![j] = "expiry"]
          /\ caller' = [caller EXCEPT ![j] = "waiting"]
          /\ UNCHANGED <<cancelled, settled>>
  /\ UNCHANGED <<protocolFrame, runtimeVars, claimed, holder, answerer>>

\* Mutants of Withdraw: the pending object or the queued job stays.
WithdrawKeepsPending(j) ==
  /\ queue' = [queue EXCEPT ![home[j]] = Spliced(@, j)]
  /\ UNCHANGED pending
WithdrawKeepsQueued(j) ==
  /\ UNCHANGED queue
  /\ pending' = pending \ {j}

\* The cancel closure of a job whose caller is not settled: unclaimed, it
\* leaves queue and pending map; claimed, it stays pending as cancelled.
Withdraw(j) ==
  /\ queue' = [queue EXCEPT ![home[j]] = Spliced(@, j)]
  /\ pending' = pending \ {j}

\* Mutant of Cancel: returns after withdrawing, without the reject.
CancelWithoutReject(j) ==
  /\ cancelled' = cancelled \cup {j}
  /\ settled' = settled \cup {j}
  /\ IF j \in claimed THEN UNCHANGED <<queue, pending>> ELSE Withdraw(j)
  /\ caller' = IF j \in claimed THEN [caller EXCEPT ![j] = "gaveup"] ELSE caller

Cancel(j) ==
  /\ cancelled' = cancelled \cup {j}
  /\ settled' = settled \cup {j}
  /\ caller' = [caller EXCEPT ![j] = "gaveup"]
  /\ IF j \in claimed THEN UNCHANGED <<queue, pending>> ELSE Withdraw(j)

\* The tool call's signal aborts.
Abort(j) ==
  /\ NextTask
  /\ home[j] # 0 /\ j \notin settled
  /\ Cancel(j)
  /\ timer' = IF j \in claimed THEN timer ELSE [timer EXCEPT ![j] = "off"]
  /\ UNCHANGED cancelFrame

\* Mutant of AfterExpiry: no grace timer after an abort.
AfterExpiryUnsettled(j) == IF j \in claimed \ settled THEN "grace" ELSE "off"

\* The expiry timer: cancel, and for a claimed job arm the grace timer.
AfterExpiry(j) == IF j \in claimed THEN "grace" ELSE "off"

Expire(j) ==
  /\ NextTask
  /\ timer[j] = "expiry"
  /\ IF j \in settled THEN UNCHANGED <<queue, pending, cancelled, settled, caller>>
     ELSE Cancel(j)
  /\ timer' = [timer EXCEPT ![j] = AfterExpiry(j)]
  /\ UNCHANGED cancelFrame

\* The grace timer forgets a job that was cancelled after its claim.
EndGrace(j) ==
  /\ NextTask
  /\ timer[j] = "grace"
  /\ timer' = [timer EXCEPT ![j] = "off"]
  /\ pending' = pending \ {j}
  /\ UNCHANGED <<cancelFrame, queue, cancelled, settled, caller>>

-----------------------------------------------------------------------------
(* Restart.  All maps, timers, open requests and calls in flight are gone  *)
(* and _loadWorkers rebuilds tokens from the table, or throws on a digest  *)
(* stored twice.  The empty runtime objects it creates are what            *)
(* _runtimeFor creates on first use, so the map is left empty here.        *)

LoadWorkers ==
  \/ /\ up' = "up"
     /\ tokens' \in {tok \in [Tokens -> Names \cup {None}] : Loads(table, tok)}
  \/ /\ ~ Loadable(table)
     /\ up' = "failed"
     /\ tokens' = [t \in Tokens |-> None]

Restart ==
  /\ up = "up" /\ restarts < MaxRestarts
  /\ restarts' = restarts + 1
  /\ LoadWorkers
  /\ invite' = [i \in Invites |-> IF invite[i] = "open" THEN "spent" ELSE invite[i]]
  /\ runtime' = [n \in Names |-> 0]
  /\ nextRt' = 1
  /\ seen' = {}
  /\ queue' = [r \in Rts |-> <<>>]
  /\ waiters' = [r \in Rts |-> <<>>]
  /\ poll' = [p \in Polls |-> NoPoll]
  /\ pending' = {}
  /\ machine' = [j \in Jobs |-> None]
  /\ home' = [j \in Jobs |-> 0]
  /\ claimed' = {}
  /\ cancelled' = {}
  /\ settled' = {}
  /\ timer' = [j \in Jobs |-> "off"]
  /\ caller' = [j \in Jobs |-> IF caller[j] = "waiting" THEN "lost" ELSE caller[j]]
  /\ call' = [c \in Calls |-> NoCall]
  /\ UNCHANGED <<table, bound, earned, used, holder, target, answerer, revoked,
                 faults>>

-----------------------------------------------------------------------------
\* The plugin starts on any registry an earlier run may have left.
Init ==
  /\ table \in {tab \in [Names -> Tokens \cup {None}] : Loadable(tab)}
  /\ tokens \in {tok \in [Tokens -> Names \cup {None}] : Loads(table, tok)}
  /\ used = {t \in Tokens : tokens[t] # None}
  /\ earned = [t \in Tokens |-> None]
  /\ invite = [i \in Invites |-> "unused"]
  /\ bound = [i \in Invites |-> None]
  /\ runtime = [n \in Names |-> 0]
  /\ nextRt = 1
  /\ seen = {}
  /\ queue = [r \in Rts |-> <<>>]
  /\ waiters = [r \in Rts |-> <<>>]
  /\ poll = [p \in Polls |-> NoPoll]
  /\ pending = {}
  /\ machine = [j \in Jobs |-> None]
  /\ home = [j \in Jobs |-> 0]
  /\ claimed = {}
  /\ cancelled = {}
  /\ settled = {}
  /\ timer = [j \in Jobs |-> "off"]
  /\ call = [c \in Calls |-> NoCall]
  /\ up = "up"
  /\ faults = 0
  /\ restarts = 0
  /\ caller = [j \in Jobs |-> "none"]
  /\ holder = [j \in Jobs |-> None]
  /\ target = [j \in Jobs |-> None]
  /\ answerer = [j \in Jobs |-> None]
  /\ revoked = {}

StorageStep(c) ==
  \/ RegisterPut(c)
  \/ RegisterDone(c)
  \/ ResumeUpdate(c)
  \/ ResumeDone(c)
  \/ RenamePut(c)
  \/ RenameDelete(c)
  \/ RenameUndo(c)
  \/ RenameDone(c)
  \/ RevokeDelete(c)
  \/ RevokeDone(c)
  \/ StorageFails(c)

JobStep(j) ==
  \/ \E n \in Names, aborted \in BOOLEAN : Dispatch(j, n, aborted)
  \/ \E t \in Tokens, n \in Names, kind \in ResultKinds : SubmitResult(t, n, j, kind)
  \/ Abort(j)
  \/ Expire(j)
  \/ EndGrace(j)

Next ==
  \/ \E i \in Invites, n \in Names \cup {None} : CreateInvite(i, n)
  \/ \E i \in Invites : ExpireInvite(i)
  \/ \E c \in Calls, i \in Invites, n \in Names, t \in Tokens : Register(c, i, n, t)
  \/ \E c \in Calls, t \in Tokens, n \in Names : Resume(c, t, n)
  \/ \E c \in Calls, old, new \in Names : Rename(c, old, new)
  \/ \E c \in Calls, n \in Names : Revoke(c, n)
  \/ \E c \in Calls : StorageStep(c)
  \/ \E p \in Polls, t \in Tokens, n \in Names : Poll(p, t, n)
  \/ \E p \in Polls : PollTimeout(p) \/ PollResume(p)
  \/ \E t \in Tokens, n \in Names : Heartbeat(t, n)
  \/ \E r \in Rts : GoOffline(r)
  \/ \E j \in Jobs : JobStep(j)
  \/ Restart

Spec == Init /\ [][Next]_vars

\* Timers fire: a due timer is run by the event loop however often other
\* tasks come first (strong: NextTask is false while a poll is resuming), and
\* a resolved poll's continuation is run.
Fairness ==
  /\ \A j \in Jobs : SF_vars(Expire(j)) /\ SF_vars(EndGrace(j))
  /\ \A p \in Polls : SF_vars(PollTimeout(p)) /\ WF_vars(PollResume(p))
LiveSpec == Spec /\ Fairness
=============================================================================
