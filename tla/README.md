# TLA+ models of the DSH MCP gateway

This directory models the parts of the repository in which several processes,
calls or messages meet: the remote-worker controller and the agent that runs its
jobs, the `task_state` capability, the ChatGPT web bridge and its continuation controller, the
capability agents that run tool calls, the browser sessions with their worker,
and the OAuth server. TLC checks each on small instances; TLAPS proves the main
safety properties for every value of the constants. `PROJECT.json` maps every definition to the source lines it
stands for and lists the runs, the mutants that show that each property can
fail, the hazards and the theorems.

    tlc -workers 2 -config RWJobs.cfg MCRemoteWorkers.tla
    tlapm RemoteWorkers_proofs.tla

## The system

ChatGPT talks to the **gateway** (`src/dsh_mcp_gateway`, Python), which
authenticates it by OAuth and forwards tool calls to the **DSH host** (Node),
where the plugins run. One plugin dispatches jobs to **remote workers** on other
machines, one keeps **task records**, one relays messages from the DSH side into
a ChatGPT conversation in a browser. Node runs one handler at a time up to its
next `await`; everything that can go wrong there happens between two awaits, on
the network, or when a process stops.

| Component | State it keeps | Operations | What is hard about it | What makes it correct |
|---|---|---|---|---|
| Remote worker controller (`dsh-remote-worker-plugin/controller.js`) | durable table name → record; token map; invites; per machine a runtime object with queue and poll waiters; pending jobs with timers | createInvite, register, resume, rename, revoke, poll, heartbeat, submitResult, dispatch (cancel, abort, expiry, grace), load | registry calls await storage and interleave; objects are shared by reference across renames; expiry, abort, revocation and result race; restarts | one outcome per call, every call settles, cancellation reaches the holder, identities agree with what a restart loads, a revoked token stays out |
| Remote worker agent and edge (`remote_worker_agent.py`, `remote_worker_edge.py`) | the job under way, its future and cancel event | resume, poll, execute, heartbeat, submit with retries | lost requests and answers; polls that outlive their connection; cancellation travels in heartbeats only; kills | a job is started once, stopped for a cause only, and stopped when nobody wants it; a revoked process ends |
| Task state (`dsh-task-state-plugin`) | durable records with revision, status, checkpoints | create, update, checkpoint, pause, resume, complete | the revision is checked before and inside an awaited update; retries; clock steps | no lost update, no double application, records always load |
| ChatGPT web bridge: mailbox and companion (`dsh-chatgpt-web-bridge-plugin/index.js`, `chatgpt_web_companion.py`) | message list with claims and leases; per companion the request it awaits | enqueue, poll, begin_send, ack, status; the companion's pump | requests given up on that arrive late; leases that run out; companions that vanish; host restarts | at most one turn per message, in a host it is meant for |
| ChatGPT web bridge: continuation controller (`continuation-controller.js`) | the armed task, conversation, observer, count and last turn key | configure, onObserverEvent | events delivered several times, by several tabs, late; a queue and a task others change | a turn is answered once unless its end is reported late, one message under way, never without progress |
| OAuth server (`oauth.py`) | SQLite: clients, pending requests, codes, tokens; PIN limiter | authorize, approve, deny, exchange, refresh, revoke | concurrent approvals, retried answers, rotation against revocation | one code per approval, one exchange per code, one live token family |
| Capability agents (`dsh-bridge-plugin/index.js`) | map helper session id → entry (promise, leases, stale mark, disposal) | acquire with retries, release, retire, abort, teardown | the preset changes on the way; a disposal under way while others acquire; aborts leave an acquisition running | no agent disposed of under a tool, none composed from an old preset, none forgotten, every acquisition and every lease ends |
| Browser sessions (`dsh-browser-session-plugin`) and worker (`dsh-browser-worker`) | tables of sessions per owner; per connection a profile directory and a Chromium | open, close, closeOwner, closeAll, fence of the sandbox mode; spawn, terminate, clean-up, shutdown | registration after awaited launches; a connection that ends at any time; either side stops | no orphaned Chromium, tables agree, mode kept, a dead browser is noticed |
| Shell sessions | sessions per owner, child processes | open, close, closeOwner | as for browsers | no process outlives its owner |
| Catalogue watcher, tool filter, CLI, deployment scripts | little or none | refresh, publish; upgrade, promote, backup | a failure between two steps | the old state stays usable |

Interactions: the continuation controller reads the task records and the
mailbox, and enqueues into the mailbox; companions and observers (browser
extension, relayed by every open DSH GUI page) report to the plugin by HTTP. The
remote-worker controller is called by tools on one side and by worker agents on
the other.

## Modules

| Module | Role |
|---|---|
| `JobPromise` | abstract: a remote job is handed out at most once, only while its caller waits, and settled at most once |
| `RemoteWorkers`, `RemoteWorkersProps` | the controller; its properties; implements `JobPromise` |
| `RemoteAgent` | the worker process, composed with the controller (it EXTENDS `RemoteWorkersProps`, and its requests are the controller's actions) |
| `TaskPromise` | abstract: status and revision of a task as readers see them |
| `TaskState` | the capability; implements `TaskPromise` |
| `HandoffPromise` | abstract: a bridge message starts at most one ChatGPT turn |
| `BridgeMailbox` | mailbox and companions; implements `HandoffPromise` |
| `ContinuationController` | the controller, composed with `HandoffPromise` and `TaskPromise` for its neighbours |
| `SharedAgents` | abstract: calls borrow an agent of the composition they asked for, one on offer per composition, none ended under a borrower |
| `CapabilityAgents` | the leases of the bridge plugin; implements `SharedAgents` |
| `BrowserWorker` | the worker and the client's end of its connections |
| `BrowserSessions` | the session plugin, composed with `BrowserWorker` (it EXTENDS it, and its steps name the worker's) |
| `GrantPromise` | abstract: an authorization request goes forward through its stages, once through each |
| `OAuth` | the authorization server; implements `GrantPromise` |
| `MC*` | finite instances, symmetry sets and views for TLC |
| `*_proofs` | theorems and proofs |

Definitions named "Mutant of ..." stand next to the definition they alter. They
are used only to show that a property detects the alteration.

### RemoteWorkers

An action is the code between two awaits. A registry call (`register`, `rename`,
`revoke`, `resume`) occupies a slot of `Calls`: `call[c].pc` says which await it
is in, e.g. `Rename` (359-363) → `RenamePut` → `RenameDelete` or `RenameUndo` →
`RenameDone` (370-377). `poll` waits in `waiters` and continues in `PollResume`,
which the event loop runs before the next task (`NextTask`): a resolved promise
continues before any timer or request is handled. `pending`, `claimed`,
`cancelled`, `settled`, `timer` and `home` are the fields of a pending object;
`caller`, `holder`, `target`, `answerer`, `earned`, `used` and `revoked` are
history. Runtime objects have identities because `dispatch` closures and renames
keep references to them. Validation of strings, the job's arguments, timestamps
and the listing are abstracted.

### RemoteAgent

`pc` is where `run_loop` is: `resting` (the outer loop, before `resume`),
`resuming`, `ready` (before a poll), `polling`, `watching` (in `future.result`),
`beating`, `reporting`, `stopping` (an exception leaves the loop; the interpreter
still waits for the job's thread), `dropping` (the same, with a job that was not
told) and `gone`. `work` is the future of the job the
executor runs, `told` its cancel event, `ran` counts how often each job was
started. A request is the controller's own action (`Resume`, `Poll`, `Heartbeat`,
`SubmitResult`) with the process's token, joined with what the loop does on its
answer; an answer that needs an await at the controller is a second action
(`ResumeAnswer`, `PollAnswer`). Each request may also fail: unsent, or served with
its answer lost (`RequestFails`, `BeatFails`, `ReportFails`; `Deliver` loses the
answer that carries a job). The loop handles `WorkerHTTPError`, `URLError`,
`TimeoutError` and `OSError` (643-666) and then goes on or starts over; an answer that is
malformed, too large or cut short raises another exception in `post_json` (138,
179, 181), which leaves `run_loop` (`NoAnswer`, and `dropping` in `BeatFails`). A poll or resume that the loop has given up on goes
on at the controller (`ControllerStep`), since the controller does not watch the
connection. `Refused` is a 4xx answer, which the loop never survives. `Crash` and
`Start` are the process's own. Time is left out but for one bound: the grace
timer is at least two heartbeats long, so it passes an executing, untold job by
(`GraceMissed`) only if those heartbeats were lost, `MaxMissed` times at most.

### TaskState

A mutation that a conversation intends is an *attempt* with a fixed operation,
task and `if_revision`; any number of calls may carry it, because a conversation
whose answer was lost sends the request again. `Send` is the check before the
await, `Update` and `RejectUpdate` the transform that runs inside `table.update`,
`Return` the answer. The text of a record is replaced by `log`, which names the
attempt that wrote each revision. `updatedAt` and checkpoint times are kept,
since code depends on them, and the clock reads any value of `Nows`.

### BridgeMailbox

`list`, `status`, `target`, `owner` and `lease` are the message list. A lease
runs out by itself (`LeaseEnds`) and has an effect only when `poll` or `status`
looks at it (`StatusNow`, `OwnerNow`), as in `releaseExpiredClaims`. A companion
awaits one request at a time (`comp[c]`); `TimesOut` gives up on one, which stays
in `late` and may still be served (`ServeLate`), the `ui/message` that starts a
turn included.

### ContinuationController

`Arm`, `Disable` and `Restart` are `configure` and the loss of memory. An
observer event first updates the observer table (`Arrives`) and then has exactly
one of seven outcomes (`Ignore`, `Drift`, `Degrade`, `Note`, `FailCheck`,
`ReachCap`, `Continue`), in the order of the early returns in `onObserverEvent`.
The mailbox takes steps of `HandoffPromise` and the task records of
`TaskPromise`; since `BridgeMailbox` and `TaskState` implement these (checked and
proved), what is shown here does not depend on their details. Any open GUI page
may deliver any event again, so there is no channel: an event may arrive whenever
what it reports has happened, however late. Each answer is kept in `continued` with
whether the conversation had ended a later turn by then (`late`). Checks that cannot fail in the code are not modelled: the
observer of the event has just been written to the table, so `observer_unhealthy`
and `observer_degraded` (252-255) never stop it; the queue was found empty, so
`enqueue` is not full (283, 173); and the extension always sends a turn key (242).

### CapabilityAgents

A `/call` request goes through `pc` stages, one per await of
`acquireCapabilityAgent`: `stamping` (reading the preset's fingerprint), `lookup`
(`Join` an entry or `Create` one), `waiting` (for the disposal of a stale entry),
`awaiting` (the entry's promise), `checking` and `same` (the fingerprint again,
and then the default preset), `using` (the tool runs), `retiring` and `leaving`
(waiting for a disposal after the lease was dropped). An entry goes through
`listing`, `creating`, `mounted`, `live` and its end; `Retire`, `MaybeDispose`,
`DropLease` and `Abandoned` are the helpers of that name in the plugin, each part
of the action of the caller, as in the code. A call whose signal is aborted
(disconnect, 120 s) goes on to its next `assertActive`. `Resuming` lets a call
whose disposal promise has settled continue before any new request is handled.
`Reject` is the end of the wait for an agent, which is raced with the signal;
disposals are awaited without it (324, 394, 406, 432). An entry object that nobody refers to is used again, so that `Entries` bounds the
entries at a time and not in all.

### BrowserWorker and BrowserSessions

A connection has two ends that close together. `BrowserWorker` has the worker's
part: `ReadSpawn` (the request is checked, mkdir begins: `child` is `making`),
`Spawn` after it, whatever has become of the connection, `Ready`, `ChildExits`, and
the clean-up that any of a closed connection, a terminate line or a shutdown
starts, at any moment: SIGTERM, SIGKILL after a while, remove the profile. `early`
records the connections that were cleaned up while `child` was `making`. `BrowserSessions` is the plugin: `OpenStart` checks limits, name and
mode at once; `Launched` and `Register` are after the awaits; closing removes a
session from the tables first (`Remove`) and disposes of it later (`Terminate`,
`Disposed`). `SetMode` is the plugin's fence: the sandbox mode of an agent changes
only when it has no registered session. Page actions are a session in `using`.
`Crash` stops the host; the worker sees its connections close.

### OAuth

Each method of `OAuthStore` is one SQLite transaction in a thread that its HTTP
request awaits, so a request is a few steps and others run in between: `Post`
loads the pending row, `Decide` follows `get_client`, then comes the transaction
(`Approve`, `Deny`), and `Retell` when the row is gone. A token call is a loader of
the MCP SDK (`PresentCode`, `PresentRefresh`, `PresentRevoked`) and a transaction
that reads the row again (`Exchange`, `Rotate`, `Revoke`). Codes, tokens and grants
are named by the call that drew them. A request sent again is another call with
the same credential. Expiry removes one row at any moment (`Expire`,
`ExpirePending`); `StoreFails` rolls a transaction back; `Restart` cuts all calls
off and forgets the PIN failures.

## Runs

All runs use `-workers 2` and take at most about four minutes.

| Run | Question | Bounds and why they are enough |
|---|---|---|
| `RWJobs` | do queues, pending map, timers and callers agree, and is a job settled at most once, whatever rename, revoke, resume, failure or restart comes in between | 2 jobs and `MaxPending` 1 fill a queue; 2 names and 3 runtime objects allow a rename and a re-creation; 1 storage failure; 1 restart |
| `RWIdentities` | do token map and table agree, does a revoked token stay out, who answers a job | 2 names, 2 tokens, so names can be swapped; 1 registry call at a time (see below); 1 storage failure; well-formed and malformed results |
| `RWLive` | does every caller, pending entry and poll come to an end | 2 polls and 2 jobs on one machine that may be revoked; a restart; no rename |
| `RALive` | is a job started at most once and only a started one answered, is it stopped for a cause only, does an unwanted job stop, does a revoked process end | 2 jobs, so that a cancelled one has a successor; 1 machine, revoked or resumed; 1 poll, which may outlive its request; any number of lost requests and answers; 1 kill, 1 restart of the controller, 1 missed grace period; any answer may be unreadable; no rename (the theorems do not need this for `RunsOnce`) |
| `TSWrites` | lost updates, retries, order of revisions and checkpoints | 4 mutations of 1 task (records do not interact), 2 running at a time, `MAX_CHECKPOINTS` 2 so that trimming happens, a clock with 2 readings so that it can stand still or step back |
| `BMHandoff` | at most one turn per message, right host, one claim per companion | 2 messages, 2 companions in 2 hosts; 1 request given up on, which is what makes two companions compete |
| `BMLive` | a message does not wait for ever while a companion stays; a full mailbox drops settled messages only | 2 companions in one host, either of which may vanish with a claim; it starts from a later state (`LaterInit`), with the records of 3 refused messages in a mailbox of 2, so that the second of 2 new ones makes it trim |
| `CCChain` | one message under way, which turns are answered twice, cap, progress | 2 tabs whose events may not name their browser, 3 messages, 1 conversation with 2 turns, whose ends are reported at any time and again: the fewest with which a turn can be answered twice; 4 task revisions, so that each answer can be earned; caps 0 and 1; 1 turn or message of a person, armed once |
| `CALive` | leases, shared use, up-to-date compositions, no forgotten agent; do acquisitions and leases end, do stale agents go, although the agent service may stall | 2 calls, one of which disposes of what the other leases or waits for; 2 presets; 2 entries, an old one and its successor; the default moves or a file is edited once; teardown; the default at the start is fixed, since presets are only compared. The safety properties are proved for any number of these |
| `BSLive` | orphaned Chromium or profile, tables, sandbox mode, does everything close | 1 open: sessions meet only in the tables and the limits, whose invariants are proved for any number |
| `OAGrants` | one verdict per request, one use per credential, no revoked grant back, stages go forward | 2 requests, 2 clients; 4 calls: every pair of overlapping token calls behind an approval and an exchange; every limit 1, so that each is reached |

`CCChain` stops exploring once the controller is off and cannot be armed again,
and lets the task advance only once before the controller is armed, since arming
takes whatever revision it finds as its base (`MayAct`). It identifies states that differ only in parts of the
observer table that are written again before they are read, or in the way a message
ended (`ReadLater`).
Arming again after a stop, while the first seed is still queued, is beyond its
bound; the theorem `OneAtATime` covers any number of armings.

`CALive` identifies states that differ only in parts of entries and calls that are
written before they are read again (`Relevant` in `MCCapabilityAgents`).

`CHECK_DEADLOCK FALSE` stands in the RW, RA, CC, CA and BS runs because they do end:
the jobs, tokens, calls, opens and armings are bounded, and a controller that
refused to load does nothing more.

### Disagreements with the documents

Four passing runs reach, within their own bounds, what a document or a reader would
rule out. Their properties exempt exactly that, and TLC reports a violation as soon
as the exemption is taken out:

* `CCChain`: `docs/experiments/dsh-gui-chatgpt-web.md:386` has a turn continued only
  if "this turn key has never been continued". The end of turn 1, reported again after
  turn 2 was continued, is continued again once the task has advanced, since only the
  last turn key is remembered (244, 286). `RepeatsAreLate` says what remains: never
  twice in a row, and twice at all only if the end of that turn, or of the one answered
  in between, was reported after a later turn had ended.
* `RALive`: `docs/p7-remote-workers.md:133` has a heartbeat tell the worker to cancel
  "where possible". After a heartbeat answer that is malformed, too large or cut short
  the exception leaves `run_loop` (669) without setting the cancel event; the job runs
  on to its own end or its deadline, and holds the process, which systemd does not
  restart before (`LeftBehind`, in `UnwantedStops` and `RevokedStops`).
* `BSLive`: `README.md:73` of the repository has the worker own "browser
  process-tree/profile cleanup". A connection that closes, or a terminate line that is
  read, while the profile directory is being made (worker `index.js` 240-241) uses up
  the one clean-up (190-195) before there is a child, and the Chromium then spawned
  belongs to nobody (`early`, in `NoOrphan` and `Reclaimed`).
* `CALive`: the teardown (438-449) goes through the map once. An acquisition under way
  may put another entry into the emptied map, where nobody disposes of it (`LeftInMap`,
  in `NoForgottenAgent`).

`RWRenameCrash` is a run in which TLC finds the statement of a document violated:
after a restart between `put(new)` and `delete(old)` in `rename`, one digest stands
under two names, `_loadWorkers` throws, and no worker can resume
(`docs/p7-remote-workers.md:123` says that enrolled workers do).

TLC showed these too, with bounds or constants other than those of the runs:

* A rename that awaits storage while its machine is revoked stores the record
  again and re-registers the token (`RegistryOps` rename and revoke, two calls).
* A poll resumes with the name it read before a rename, and takes a job of the
  machine enrolled under that name since.
* Two storage failures in one rename: the delete of the old record fails and so does
  the delete that undoes the put (367 ignores that). `rename` throws, the record stays
  under both names, and `IdentityAgreement` fails (`MaxFaults` 2).
* A worker answers another machine's job (`AnswerFromTarget` fails; 3 names, 2 tokens,
  2 polls, 1 registry call at a time, 1 failure). X is renamed to Y with two polls
  open; the first to end makes a new runtime object for X. Z is renamed to X: after
  the put, a job is dispatched to X on that object, and the second stale poll, Y's,
  takes it. The delete of Z fails and the rename is undone; Y is renamed back to X,
  and its answer is now accepted, since the pending job says X.
* A job that raises `TimeoutError` itself, as an `OSError` `ETIMEDOUT` of a network
  file system does: `future.result` raises the class the loop waits for (634; one
  class since Python 3.11), so that the loop goes round between `watching` and
  `beating`, without a pause, and the machine takes no other job. The comment at 655
  says that job failures are protocol results. `RALive` includes such jobs
  (`Endings`); `UnwantedStops` speaks of jobs that execute, which this one does not.

And these are visible in the models without contradicting a document:

* When the call that creates a shared agent is aborted, the others that wait for
  the same entry fail with it.
* A retry waits for the disposal of a stale agent, however long that takes
  (`Stalled`): its request is answered at the end of its lifetime, the acquisition
  itself stays.
* Browser limits and free names are checked before the awaits of `open`, so opens
  that overlap may exceed the limits, and of two opens with one name the later
  owns it. An open still under way when its owner is closed registers its session
  afterwards (549), and it stays until the host stops.
* A worker's request that arrives while a rename is between deleting the old record
  and moving the token is answered 404, and the agent stops; systemd starts it again.
* A result that cannot be delivered for 30 s is dropped (574-598): the job was done
  and its caller is told that it timed out.
* A job that ends in a read that never returns (a FIFO) does not come to
  `ensure_live`; the fairness below leaves such jobs out.
* A refresh token that is rotated between the load and the transaction of its own
  revocation is not found: the answer is 200 and the grant lives on.

The faults of the remote-worker controller limit its passing runs.
`IdentitiesAgree` (of which `AnswerFromTarget` is a part) is run with one registry
call at a time; free-name checks and captured records of calls that overlap on a name
break it. It is proved for any number of calls that concern different names (below). `RWLive`
excludes renames, since a poll that crosses one takes the wrong queue; that callers
of a revoked worker are not forgotten also needs that no rename is undone after a
storage failure: a job dispatched to the new name while the rename awaits `delete`
stays under that name, where a revocation of the machine does not find it. A result whose `error` member is not
an object makes `submitResult` throw after it removed the job's timer (480), and
the caller waits for ever; `WaitingJobExpires` and `CallerSettles` are therefore
stated for well-formed results (`ResultKinds`), the only ones the worker agent
sends.

## Fairness

* RemoteWorkers: a poll that was resolved continues (`WF` on `PollResume`), as
  Node runs promise continuations before anything else. Timers fire: `SF` on
  `Expire`, `EndGrace` and `PollTimeout`, since they are disabled while a
  continuation runs and enabled again after it. Nothing is assumed of workers,
  callers or storage: a job settles even if no worker ever polls.
* RemoteAgent: besides, the loop never waits for ever (`WF` on `LoopStep`: every
  request has a timeout); a request sent again and again gets through (`SF` on
  `Beat` and `Refused`, which lost requests disable in between); a job that was told
  comes to its next `ensure_live`. Nothing says that a job ends by itself, that a
  killed process is started again, or that answers to polls arrive.
* BridgeMailbox: timers fire (`WF` on `Pump` and `LeaseEnds`), the host answers,
  a companion that is there reads answers. `LeasesOutlastWork`: from some point on
  a lease of 30 s does not run out between poll and begin_send of a companion at
  work; otherwise two companions could take a message from each other for ever.
  Companions may vanish, and nothing says that a message is accepted by the host.
* CapabilityAgents: preset files are read, tools answer or are given up, and a call
  goes on when what it awaits is there (`WF` on `CallStep`); every call that is not
  over is aborted after 120 s (`WF` on `Abort`; `toolCallLifetime`); a call that waits
  for a disposal continues as soon as it settles (`LookAgain`). Nothing is assumed of
  the agent service: listing, creating and disposing of agents may stall for ever, as
  the comments at 419 and 443 and the tests with `neverDispose` have it. That is why
  `CallSettles` exempts a call that waits for ever for a disposal, the one wait that
  is not raced with the lifetime, and why `StaleGoes` promises that the disposal of a
  stale agent is begun, not that it ends.
* BrowserSessions: launches, CDP connections and page actions end, since each has a
  timeout; making a profile directory ends; both ends of a connection are read; a Chromium that got SIGKILL exits;
  directories are removed. Nothing says that anybody closes a session.

## Proofs

The theorems hold for every value of the constants that satisfies the named
assumptions of the module (sets of any size, any bounds).

**RemoteWorkers_proofs.** `TypeCorrect`, `QueuesCorrect`, `WaitingExpires`,
`PromiseKept`, `InvitesUsedOnce`. The invariant is `TypeOK` with `UnclaimedIsQueued`,
`QueueHoldsOpenJobs` and `JobBookkeeping`, which ties the flags of a pending
object to what caller and holder have seen. `UnclaimedIsQueued` needs the other
two: a job leaves a queue by the cancel closure, which looks in the captured
object, so queues must not hold a job twice or away from its `home`. `WaitersWait`
says that each waiting poll is in exactly one waiter set; `EarnedIsSpent` that an
invite that enrolled a worker has left the map, which is why the await in
`register` does no harm. No restriction on overlapping registry calls is needed.
`WaitingExpires` assumes well-formed results.

The properties about identities need hypotheses, because without them they are
false (above). Each is a state predicate of `RemoteWorkersProps` and stands in the
theorem as `Spec /\ []H => []P`:

| Hypothesis | Says | Without it |
|---|---|---|
| `CallsApart` | no two registry calls between their awaits concern the same name | the checks before the await let two calls take one name |
| `UndoSucceeds` | the delete that undoes a rename does not fail | the record stays under both names |
| `NothingUndone` | no rename is undone | a job dispatched in between belongs to nobody, or to a name that moves |
| `PollsStay` | no poll stays open across a rename of its machine | a poll takes jobs of the name's next owner |

Any number of registry calls on different names may overlap, with each other and
with everything else, fail at any await, and be cut off by a restart.

* `IdentitiesHold` (`CallsApart`, `UndoSucceeds`): `RegistryInv`. Names that no call
  concerns are in the table as in the tokens map (`SettledNames`); for the names of a
  call, `CallFits` says what table and map hold at each of its awaits; `TokensDrawn`
  keeps tokens fresh. A step of a call changes its own names only, and `CallsApart`
  keeps the other calls away from them (`IdentityFrame`).
* `IdentitiesAlwaysAgree`, `RevocationSettles` (`CallsApart`, `NothingUndone`):
  `AnswerInv`. A pending job belongs to the worker it was dispatched to (`Belongs`):
  its machine is the name that worker has, or is about to have when a call in
  flight completes. So a result accepted for a machine comes from its worker, and a
  revocation finds all jobs of its worker under the one name.
* `CancelHeard`, `WakeupsReach`, `NobodyIsForgotten` (the former and `PollsStay`):
  `ObjectInv` (names have different runtime objects, whose queues hold jobs of that
  name), `PollInv` (a poll waits on the object of its name; once its token is revoked
  its name is nobody's until it has resumed), `HolderInv` (a claimed job is held by
  its target) and `WakeInv`. The last is what makes lost wake-ups impossible: while
  polls wait on an object at most one live job is queued there, and then a poll woken
  for it has yet to resume; since the event loop runs that one before the next task
  (`NextTask`), no second job can arrive in between. `WakeInv` is needed because
  between `dispatch` and the resumed poll there *is* a live job beside waiting polls.

**RemoteAgent_proofs.** `AgentIsAWorker`: the composition implements
`RemoteWorkers`, so all of the above holds of it. `LinkTypeCorrect`, `StartedOnce`,
`WorkIsDone`, `JobsStayOurs`. `RunInv` says that a started job has a holder and that the job of the
loop was started; a job taken from a queue has none (`JobBookkeeping`), so it was
not started before, and only a result sent from `reporting`, when the job is over,
answers a caller. `WorkIsDone` assumes that machines are not renamed: then a token
that is refused stays refused (`IdInv`), so that a job told because of it keeps its
cause. `JobsStayOurs` is about renames: under the hypotheses of `CancelHeard`, which
it gets from the controller's invariants, a job the process works at is held by it
(`MineInv`), so it was dispatched to it and is assigned to the name it has now.

**TaskState_proofs.** `TypeCorrect`, `WritesAreSafe` (`NoLostUpdate`),
`RecordsParse`, `PromiseKept`, `AnswersTrue`, `CheckpointsLatest`. The invariant says that the log of a task and its
record agree (`LogMatches`), that writers intended that task (`AuthorsFit`,
`IntentsNameTasks`), and that a call that is writing carries an attempt that fits
(`CallsFit`). The check inside the transform is what makes it inductive; the one
before the await is not used. For the answers, `AnswerInv` adds what a call that was
written has yet to say (`WrittenLogged`) and that every status a record has had is in
the log at its revision (`StatusLogged`). For the checkpoints, `CheckpointInv` adds
that no checkpoint is stamped later than the record's `updatedAt`, which is why a
clock that steps back cannot put two of them out of order.

**BridgeMailbox_proofs.** `PromiseKept` (`HandoffKept`), `TargetsKept`, `TypeCorrect`,
`ClaimsAreSingle`, `TrimmingLosesNothing`. The argument for the first two is a permit:
`begin_send` succeeds at most once per message because `dispatching` is never left
towards `pending`. Its answer is the permit to post, which is with the pump of the
companion that began (`CompFits`), with a request it gave up on (`LateFits`), or spent
on the one turn (`TurnsFit`), never with two of them. `MailFits` adds that a claim is
held by a companion of the right host. `OneClaimEach` is inductive with the facts about
poll: a claim is new only when the companion held none. `ActiveKept` needs
`ListInv`, that the list repeats nothing (`NoRepeats`, a part of `TypeOK`) and holds every message that is not settled;
the work is in the lemmas about `Trimmed`, since filtering is a recursive function of
the list: `FilterProperties` takes the least length at which its result would be wrong
(`LeastNatural`, from the well-foundedness of the naturals), which needs no induction
theorem with an operator parameter. `SelectSeq` cannot be unfolded in this way, so
the module filters with a function of its own, `Filter`.

**ContinuationController_proofs.** `TypeCorrect` (with the cap), `OneAtATime`,
`ContinuationsEarned`, `AnsweredAgainOnlyLate`. An enabled controller is bound (`Armed`);
`Paid` strengthens `Earned` by the revision verified last, which lies between the
count and the task's revision. `AnsweredAgainOnlyLate` needs no
assumption on when events arrive; its invariant `InOrder` says that neighbours in
`continued` differ, that an answer that was not late is of a turn not earlier than any
answered before, and that the last one is the remembered key. If a turn is answered
twice, there is then one in between; if neither that one nor the second answer was
late, the turns do not decrease, so the one in between is the same turn, and
neighbours are equal.

**CapabilityAgents_proofs.** `TypeCorrect`, `UsedAgentsAlwaysFit`,
`AgentsAlwaysAccounted`, `ImplementsShared` and the parts of the first two. In the
invariant, `MapOK` says that the map holds entries of their helper that may still
come or are live; `LeaseOK` that a leased entry is not on its way out; `WaitOK`
that the call that waits for a disposal finds either that disposal still pending or
an entry that nobody disposes of, which is why a waiting call cannot join a dying
entry; `StampOK` and `ComposedOK` order the versions a call and an entry have
seen; `KeptOK` strengthens `OneIdle` to entries about to become idle; `InMapOrEnding`
says of all entries, the teardown or not, what `NoForgottenAgent` promises before it. The lease
counter is proved equal to the number of holders, so `leases = 0` means nobody.

**BrowserSessions_proofs.** `TypeCorrect` (a connection carries at most two
messages), `TablesAlwaysAgree`, `ModeIsKept`, `NoOrphanUnlessEarly`. `ModeKept` rests on
`FencedOK`: the owner of a registered session is fenced, and a fenced owner changes
its mode only without sessions. `NoOrphanUnlessEarly` holds of every interleaving; in
its invariant (`OrphanInv`) a connection whose profile is still made is one that is
not being cleaned up, unless it is in `early`.

**OAuth_proofs.** `TypeCorrect` (with the limits), `NothingIsSpentTwice`,
`ImplementsPromise`. The invariant: what calls have been answered fits where they
are (`CallsOK`); a request that has a code, or was denied, has no pending row, and
its answers name one code (`CodesOK`); the credential of a call that was answered
with tokens has no row any more (`UsesOK`); token rows belong to grants that an
exchange began and nobody revoked, one refresh token each (`RowsOK`). Each is a
relation between a row and the answers given for it, because a row alone does not
tell what was already said. The refinement then has two lemmas per table
operation: the requests it does not concern stay in their stage (`SameStage`), the
one it concerns goes forward (`Forward`).

Every safety property of the passing runs is a theorem. Model-checked only are the
liveness properties (`JobsEnd`, `WorkerObeys`, `Dispatched`, `AllMoveOn`,
`NothingLingers`), which under fairness, as `ENABLED`, are out of the prover's reach.
The four hypotheses above are checked by no run as properties, since the code does
not establish them; the runs `RWIdentities` and `RWLive` meet them, or do without,
by their bounds. The inductive invariants named above were checked by TLC on small
instances before they were proved.

## Not modelled

The shell sessions, the catalogue watcher, the tool filter and the deployment
scripts are next (below). The edge is a proxy without state, present as requests
and answers that get lost. What a job does on its machine, enrolment from the
agent's side and the service files are left out of the agent. The HTTP routes of the
remote-worker plugin, the GUI panel and the CLI hold no protocol state. How the
extension recognises a turn in the ChatGPT page, the companion's connection
handshake, the event log, and the display fields of the companion and observer
tables are left out. The order in which the 32 most recently seen observers are
listed is abstracted to "an online one first". Of the bridge plugin the catalogue
routes and the materialisation of images, of the browser plugin everything done to
a page, and of the OAuth server scopes, PKCE, redirect URIs, body limits and schema
migrations are left out.

## Plan

Done: `RemoteWorkers`, `RemoteAgent`, `TaskState`, `BridgeMailbox`,
`ContinuationController`, `CapabilityAgents`, `BrowserSessions` with
`BrowserWorker`, `OAuth`, each with its proofs, and all but `BrowserSessions` with an
abstract specification.

What is left, in this order:

1. `ShellSessions`: as `BrowserSessions`, without a worker.
2. The catalogue watcher and the tool filter; the upgrade and promotion scripts
   with a failure at each step.

Further theorems: an abstract specification for `BrowserSessions` and its refinement;
the safety half of the progress
properties (what is enabled when something is still to be done).
