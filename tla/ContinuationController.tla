------------------------ MODULE ContinuationController ------------------------
(***************************************************************************)
(* The continuation controller of the ChatGPT web bridge                   *)
(* (continuation-controller.js) with the observer and companion tables it  *)
(* reads (index.js of the same plugin).  Armed with a task and a           *)
(* conversation, it answers each completed ChatGPT turn with one fixed     *)
(* message until the task is done, a check fails or the cap is reached.    *)
(*                                                                         *)
(* Its neighbours appear through what they promise: the mailbox and its    *)
(* companions as HandoffPromise, which BridgeMailbox implements, and the   *)
(* task records as TaskPromise, which TaskState implements.                *)
(*                                                                         *)
(* Observers are ChatGPT tabs with the browser extension.  An event goes   *)
(* through every open DSH GUI page, each of which posts it on its own, so  *)
(* it may arrive any number of times, late and out of order.  No network   *)
(* is needed: an event may arrive whenever what it reports has happened.   *)
(*                                                                         *)
(* The handler of an event runs without a break, after the observer table  *)
(* has been updated from the same event: the observer it comes from is     *)
(* online, and degraded just if the event says so.                         *)
(***************************************************************************)
EXTENDS Integers, Sequences, FiniteSets

CONSTANTS
  Tasks, Messages,
  Conversations,
  Observers,       \* observer instances: one per page load of a ChatGPT tab
  Hosts,           \* browser instances
  HostsNamed,      \* per observer: its browser host; None until the page knows it
  None,            \* no conversation, observer, host or task
  Limits,          \* max_continuations the user may ask for; 0: unlimited
  MaxArms,         \* bound: times the controller is armed
  MaxOthers,       \* bound: turns a person starts and messages from the DSH GUI
  MaxTurns,        \* bound: turns of a conversation
  MaxRevision      \* bound: task revisions

ASSUME NoneAssumption ==
  None \notin Conversations \cup Observers \cup Hosts \cup Tasks
ASSUME HostAssumption == HostsNamed \in [Observers -> SUBSET (Hosts \cup {None})]
ASSUME BoundsAssumption ==
  /\ Limits \subseteq Nat
  /\ {MaxArms, MaxOthers, MaxTurns, MaxRevision} \subseteq Nat

VARIABLES
  state,         \* this.state of the controller
  obs,           \* the observer table
  companions,    \* hosts whose companion was seen within healthTtlMs
  stage, handed, turns,   \* the mailbox: see HandoffPromise
  view,          \* the task records: see TaskPromise
  kind,          \* per message: who enqueued it
  done,          \* per conversation: turns that have ended; their keys are 1..done
  running,       \* conversations with a turn under way
  humanTurns, arms,
  armRevision,   \* history: the task's revision when the controller was armed
  continued      \* history: the turns continued since then, late if their
                 \*   conversation had ended another turn by then

Mailbox == INSTANCE HandoffPromise
TaskRecords == INSTANCE TaskPromise

mailVars == <<stage, handed, turns>>
chatVars == <<done, running, humanTurns>>
ctlVars  == <<state, arms, armRevision, continued>>
vars == <<ctlVars, obs, companions, mailVars, view, kind, chatVars>>

Off == [enabled |-> FALSE, taskId |-> None, observerId |-> None,
        conversationId |-> None, hostId |-> None, continuationCount |-> 0,
        maxContinuations |-> 0, lastTaskRevision |-> 0, lastContinuedTurnKey |-> 0]
Unseen == [online |-> FALSE, conv |-> None, host |-> None, type |-> "none", recent |-> FALSE]
\* All three are handled alike; the extension sends the first.
Trouble == {"bridge_degraded", "error", "blocked"}
EventTypes == {"turn_started", "turn_completed", "other", "bridge_degraded"}

\* Of an observer's last event only a start and trouble matter later.
Lasting(type) == IF type = "turn_started" \/ type \in Trouble THEN type ELSE "none"

ControllerState ==
  [enabled : BOOLEAN, taskId : Tasks \cup {None}, observerId : Observers \cup {None},
   conversationId : Conversations \cup {None}, hostId : Hosts \cup {None},
   continuationCount : Nat, maxContinuations : Nat, lastTaskRevision : Nat,
   lastContinuedTurnKey : Nat]
Observer ==
  [online : BOOLEAN, conv : Conversations \cup {None}, host : Hosts \cup {None},
   type : {"turn_started", "none"} \cup Trouble, recent : BOOLEAN]

\* Includes the cap: the controller never counts past max_continuations.
TypeOK ==
  /\ state \in ControllerState
  /\ state.maxContinuations # 0 => state.continuationCount <= state.maxContinuations
  /\ obs \in [Observers -> Observer]
  /\ companions \in SUBSET Hosts
  /\ stage \in [Messages -> {"none", "queued", "handed", "sent", "failed", "lost"}]
  /\ handed \in SUBSET Messages
  /\ turns \in [Messages -> Nat]
  /\ TaskRecords!ViewTypeOK
  /\ kind \in [Messages -> {"none", "dsh-gui", "auto-seed", "auto-continue"}]
  /\ done \in [Conversations -> Nat]
  /\ running \in SUBSET Conversations
  /\ humanTurns \in Nat /\ arms \in Nat /\ armRevision \in Nat
  /\ continued \in Seq([turn : Nat, late : BOOLEAN])

-----------------------------------------------------------------------------
(* The mailbox and the health checks *)

Outstanding == {m \in Messages : stage[m] \in {"queued", "handed"}}

\* Mutant of QueueEmpty: does not see messages that are being dispatched.
QueueEmptyButDispatching == \A m \in Messages : stage[m] # "queued"
QueueEmpty == Outstanding = {}

Fresh == {m \in Messages : stage[m] = "none"}

\* Ids are random; any fresh one does.
Enqueue(source) ==
  /\ Fresh # {}
  /\ LET m == CHOOSE m \in Fresh : TRUE IN
     /\ Mailbox!Accept(m)
     /\ kind' = [kind EXCEPT ![m] = source]

\* Without a host the companion that was seen last is asked.
CompanionOnline(h) == IF h = None THEN companions # {} ELSE h \in companions

\* touchObserver for a lifecycle event; recent: since the controller was armed.
Touched(o, type, c, h) ==
  [obs EXCEPT ![o] = [online |-> TRUE, type |-> Lasting(type), recent |-> state.enabled,
                      conv |-> IF c = None THEN obs[o].conv ELSE c,
                      host |-> IF h = None THEN obs[o].host ELSE h]]

\* observerHeartbeat: not a lifecycle event.
Heartbeat(o, c, h) ==
  /\ obs' = [Touched(o, obs[o].type, c, h) EXCEPT ![o].recent = obs[o].recent]
  /\ UNCHANGED <<ctlVars, companions, mailVars, view, kind, chatVars>>

GoesQuiet(o) ==
  /\ obs[o].online
  /\ obs' = [obs EXCEPT ![o].online = FALSE]
  /\ UNCHANGED <<ctlVars, companions, mailVars, view, kind, chatVars>>

CompanionChanges(h) ==
  /\ companions' = (companions \ {h}) \cup ({h} \ companions)
  /\ UNCHANGED <<ctlVars, obs, mailVars, view, kind, chatVars>>

-----------------------------------------------------------------------------
(* configure *)

\* observerForConversation: the one seen last.
Watches(o, c) ==
  /\ obs[o].conv = c
  /\ obs[o].online \/ \A p \in Observers : obs[p].conv = c => ~obs[p].online

Arm(k, c, o, limit, start) ==
  /\ arms < MaxArms
  /\ view[k].status = "active"
  /\ Watches(o, c) /\ CompanionOnline(obs[o].host)
  /\ obs[o].online /\ obs[o].type \notin Trouble
  /\ QueueEmpty
  /\ state' = [enabled |-> TRUE, taskId |-> k, observerId |-> o, conversationId |-> c,
               hostId |-> obs[o].host, continuationCount |-> 0,
               maxContinuations |-> limit, lastTaskRevision |-> view[k].revision,
               lastContinuedTurnKey |-> 0]
  /\ arms' = arms + 1
  /\ armRevision' = view[k].revision
  /\ continued' = <<>>
  /\ obs' = [p \in Observers |-> [obs[p] EXCEPT !.recent = FALSE]]
  /\ IF start THEN Enqueue("auto-seed") ELSE UNCHANGED <<mailVars, kind>>
  /\ UNCHANGED <<companions, view, chatVars>>

Stopped(s) == [s EXCEPT !.enabled = FALSE]

\* A message that is queued already stays queued.
Disable ==
  /\ state.enabled
  /\ state' = Stopped(state)
  /\ UNCHANGED <<arms, armRevision, continued, obs, companions, mailVars, view, kind, chatVars>>

-----------------------------------------------------------------------------
(* onObserverEvent *)

\* The keys of the turns that have ended.
Keys(c) == IF c = None THEN {} ELSE 1..done[c]

\* What can be reported: a turn that runs or ran, the end of a turn, and
\* anything else at any time.  c is None on a page without a conversation; k
\* is the key of the turn, 0 where it does not matter.  An end may be reported
\* again and again, and after later turns.
Reportable(type, c, k) ==
  CASE type = "turn_started"   -> k = 0 /\ (c \in running \cup {None} \/ Keys(c) # {})
    [] type = "turn_completed" /\ c # None -> k \in Keys(c)
    [] OTHER -> k = 0

\* An observer of the armed conversation replaces the bound one when that
\* is offline, has reported nothing since arming (and a turn starts here),
\* or is stuck in a turn that ends here.
TakesOver(o, type, h) ==
  LET bound == obs[state.observerId] IN
  /\ state.hostId \in {None, h}
  /\ type \notin Trouble
  /\ \/ ~bound.online
     \/ type = "turn_started" /\ ~bound.recent
     \/ type = "turn_completed" /\ bound.type = "turn_started"

Listens(o, type, c, h) ==
  /\ state.enabled /\ c = state.conversationId
  /\ o = state.observerId \/ TakesOver(o, type, h)

\* Mutant of Advanced: the revision may stand still.
AdvancedOrEqual == view[state.taskId].revision >= state.lastTaskRevision
Advanced == view[state.taskId].revision > state.lastTaskRevision

\* Mutant of CapReached: one too many.
CapReachedLate ==
  state.maxContinuations # 0 /\ state.continuationCount > state.maxContinuations
CapReached ==
  state.maxContinuations # 0 /\ state.continuationCount >= state.maxContinuations

Ready ==
  /\ CompanionOnline(state.hostId) /\ QueueEmpty
  /\ view[state.taskId].status = "active" /\ Advanced

Rebound(o) == [state EXCEPT !.observerId = o]
Verified(s) == [s EXCEPT !.lastTaskRevision = view[s.taskId].revision]

\* Mutant of AfterContinuing: forgets which turn it has answered.
AfterContinuingForgetful(s, k) == [Verified(s) EXCEPT !.continuationCount = @ + 1]
AfterContinuing(s, k) ==
  [Verified(s) EXCEPT !.continuationCount = @ + 1, !.lastContinuedTurnKey = k]

\* Arrival of an event, before the controller sees it.
Arrives(o, type, c, h, k) ==
  /\ Reportable(type, c, k)
  /\ obs' = Touched(o, type, c, h)
  /\ UNCHANGED <<arms, armRevision, companions, view, chatVars>>

Ignore(o, type, c, h, k) ==
  /\ Arrives(o, type, c, h, k)
  /\ ~Listens(o, type, c, h)
  /\ ~(state.enabled /\ o = state.observerId)
  /\ UNCHANGED <<state, continued, mailVars, kind>>

\* The bound observer reports another conversation.
Drift(o, type, c, h, k) ==
  /\ Arrives(o, type, c, h, k)
  /\ state.enabled /\ o = state.observerId /\ c # state.conversationId
  /\ state' = Stopped(state)
  /\ UNCHANGED <<continued, mailVars, kind>>

Degrade(o, type, c, h, k) ==
  /\ Arrives(o, type, c, h, k)
  /\ Listens(o, type, c, h) /\ type \in Trouble
  /\ state' = Stopped(Rebound(o))
  /\ UNCHANGED <<continued, mailVars, kind>>

\* Anything but the end of a turn, or the end of the turn continued last.
Note(o, type, c, h, k) ==
  /\ Arrives(o, type, c, h, k)
  /\ Listens(o, type, c, h) /\ type \notin Trouble
  /\ type = "turn_completed" => k = state.lastContinuedTurnKey
  /\ state' = Rebound(o)
  /\ UNCHANGED <<continued, mailVars, kind>>

NewlyCompleted(o, type, c, h, k) ==
  /\ Arrives(o, type, c, h, k)
  /\ Listens(o, type, c, h) /\ type = "turn_completed"
  /\ k # state.lastContinuedTurnKey

FailCheck(o, type, c, h, k) ==
  /\ NewlyCompleted(o, type, c, h, k)
  /\ ~Ready
  /\ state' = Stopped(Rebound(o))
  /\ UNCHANGED <<continued, mailVars, kind>>

ReachCap(o, type, c, h, k) ==
  /\ NewlyCompleted(o, type, c, h, k)
  /\ Ready /\ CapReached
  /\ state' = Stopped(Verified(Rebound(o)))
  /\ UNCHANGED <<continued, mailVars, kind>>

Continue(o, type, c, h, k) ==
  /\ NewlyCompleted(o, type, c, h, k)
  /\ Ready /\ ~CapReached
  /\ Enqueue("auto-continue")
  /\ state' = AfterContinuing(Rebound(o), k)
  /\ continued' = Append(continued, [turn |-> k, late |-> k < done[c]])

OnObserverEvent(o, type, c, h, k) ==
  \/ Ignore(o, type, c, h, k) \/ Drift(o, type, c, h, k) \/ Degrade(o, type, c, h, k)
  \/ Note(o, type, c, h, k) \/ FailCheck(o, type, c, h, k)
  \/ ReachCap(o, type, c, h, k) \/ Continue(o, type, c, h, k)

-----------------------------------------------------------------------------
(* The environment *)

Others == humanTurns + Cardinality({m \in Messages : kind[m] = "dsh-gui"})

GuiMessage ==
  /\ Others < MaxOthers
  /\ Enqueue("dsh-gui")
  /\ UNCHANGED <<ctlVars, obs, companions, view, chatVars>>

Relay(m) ==
  /\ Mailbox!Hand(m) \/ Mailbox!Settle(m, "sent") \/ Mailbox!Settle(m, "failed")
  /\ UNCHANGED <<ctlVars, obs, companions, view, kind, chatVars>>

\* A message starts a turn in the conversation its companion sits in.
MessageTurn(m, c) ==
  /\ Mailbox!Turn(m) /\ c \notin running
  /\ running' = running \cup {c}
  /\ UNCHANGED <<ctlVars, obs, companions, view, kind, done, humanTurns>>

HumanTurn(c) ==
  /\ Others < MaxOthers /\ c \notin running
  /\ humanTurns' = humanTurns + 1
  /\ running' = running \cup {c}
  /\ UNCHANGED <<ctlVars, obs, companions, mailVars, view, kind, done>>

TurnEnds(c) ==
  /\ c \in running /\ done[c] < MaxTurns
  /\ running' = running \ {c}
  /\ done' = [done EXCEPT ![c] = @ + 1]
  /\ UNCHANGED <<ctlVars, obs, companions, mailVars, view, kind, humanTurns>>

\* Any conversation may write the task, at any time.
TaskWritten(k) ==
  /\ view[k].revision < MaxRevision
  /\ TaskRecords!Appear(k) \/ \E s \in TaskRecords!Statuses : TaskRecords!Advance(k, s)
  /\ UNCHANGED <<ctlVars, obs, companions, mailVars, kind, chatVars>>

\* Everything but the task records is in memory.
Restart ==
  /\ state' = Off
  /\ obs' = [o \in Observers |-> Unseen]
  /\ companions' = {}
  /\ Mailbox!LoseAll
  /\ UNCHANGED <<arms, armRevision, continued, view, kind, chatVars>>

Init ==
  /\ state = Off
  /\ obs = [o \in Observers |-> Unseen]
  /\ companions = {}
  /\ Mailbox!HandoffInit
  /\ TaskRecords!ViewInit
  /\ kind = [m \in Messages |-> "none"]
  /\ done = [c \in Conversations |-> 0]
  /\ running = {}
  /\ humanTurns = 0 /\ arms = 0 /\ armRevision = 0
  /\ continued = <<>>

Next ==
  \/ \E o \in Observers, c \in Conversations \cup {None} :
       \E h \in HostsNamed[o] : Heartbeat(o, c, h)
  \/ \E o \in Observers : GoesQuiet(o)
  \/ \E h \in Hosts : CompanionChanges(h)
  \/ \E k \in Tasks, c \in Conversations, o \in Observers, limit \in Limits,
        start \in BOOLEAN : Arm(k, c, o, limit, start)
  \/ Disable
  \/ \E o \in Observers, type \in EventTypes, c \in Conversations \cup {None} :
       \E h \in HostsNamed[o], k \in 0..MaxTurns : OnObserverEvent(o, type, c, h, k)
  \/ GuiMessage
  \/ \E m \in Messages : Relay(m) \/ \E c \in Conversations : MessageTurn(m, c)
  \/ \E c \in Conversations : HumanTurn(c) \/ TurnEnds(c)
  \/ \E k \in Tasks : TaskWritten(k)
  \/ Restart

Spec == Init /\ [][Next]_vars

-----------------------------------------------------------------------------
(* Properties *)

\* The controller has at most one message under way: it neither answers a
\* turn nor is armed again while a seed or a continuation of it is queued or
\* being dispatched, also across stop and take-over.
OneOutstanding ==
  \A m, n \in Outstanding :
    kind[m] \in {"auto-seed", "auto-continue"} /\ kind[n] \in {"auto-seed", "auto-continue"}
      => m = n

\* "this turn key has never been continued" holds but for late reports: the
\* controller remembers only the turn it answered last.  It never answers a
\* turn twice in a row, and a turn is answered again only when its own end, or
\* that of the turn answered after it, is reported once a later turn has ended,
\* however often and by whichever tabs ends are reported.
RepeatsAreLate ==
  \A i, j \in DOMAIN continued :
    i < j /\ continued[i].turn = continued[j].turn =>
      i + 1 < j /\ (continued[i + 1].late \/ continued[j].late)

\* Every continuation is paid for by a revision of the task since arming: the
\* gate on lastTaskRevision never lets one revision count twice, so a
\* conversation that makes no progress is not driven for ever.
Earned ==
  state.taskId # None =>
    state.continuationCount <= view[state.taskId].revision - armRevision
=============================================================================
