--------------------- MODULE ContinuationController_proofs ---------------------
(***************************************************************************)
(* The continuation controller has one message under way at a time, pays   *)
(* for each continuation with a task revision, never counts past its cap   *)
(* and answers a turn again only after a late report: for any number of    *)
(* tasks, messages, tabs, turns and armings, and any delay of events.      *)
(***************************************************************************)
EXTENDS ContinuationController, SequenceTheorems, TLAPS

Automatic == {"auto-seed", "auto-continue"}
Answer == [turn : Nat, late : BOOLEAN]

\* An enabled controller is bound to a task, a conversation and an observer.
Armed ==
  state.enabled =>
    /\ state.taskId \in Tasks
    /\ state.conversationId \in Conversations
    /\ state.observerId \in Observers

\* A task that does not exist yet has revision 0.
NoneIsZero == \A k \in Tasks : view[k].status = "none" => view[k].revision = 0

\* The count is covered by the revisions up to the one last verified.
Paid ==
  state.taskId # None =>
    /\ state.taskId \in Tasks
    /\ armRevision + state.continuationCount <= state.lastTaskRevision
    /\ state.lastTaskRevision <= view[state.taskId].revision

Inv == TypeOK /\ Armed /\ NoneIsZero /\ Paid /\ OneOutstanding

\* No turn is answered twice in a row, the answer to the latest turn comes
\* after those to all others, and the last one is remembered.
InOrder ==
  /\ \A i, j \in DOMAIN continued :
       j = i + 1 => continued[i].turn # continued[j].turn
  /\ \A i, j \in DOMAIN continued :
       i < j /\ ~continued[j].late => continued[i].turn <= continued[j].turn
  /\ state.enabled =>
       /\ \A i \in DOMAIN continued : continued[i].turn <= done[state.conversationId]
       /\ continued # <<>> =>
            continued[Len(continued)].turn = state.lastContinuedTurnKey

USE DEF Mailbox!Accept, Mailbox!Hand, Mailbox!Turn, Mailbox!Settle, Mailbox!LoseAll

-----------------------------------------------------------------------------
(* The parts of an action *)

MailTyped ==
  /\ stage \in [Messages -> {"none", "queued", "handed", "sent", "failed", "lost"}]
  /\ handed \in SUBSET Messages
  /\ turns \in [Messages -> Nat]
  /\ kind \in [Messages -> {"none", "dsh-gui"} \cup Automatic]

\* enqueue keeps the mailbox well-formed; an automatic message joins only an
\* empty queue.
LEMMA EnqueueFacts ==
  ASSUME MailTyped, OneOutstanding, NEW source \in {"dsh-gui"} \cup Automatic, Enqueue(source),
         source \in Automatic => QueueEmpty
  PROVE  MailTyped' /\ OneOutstanding'
<1>1. PICK m \in Messages : /\ stage[m] = "none"
                            /\ stage' = [stage EXCEPT ![m] = "queued"]
                            /\ handed' = handed /\ turns' = turns
                            /\ kind' = [kind EXCEPT ![m] = source]
  BY DEF Enqueue, Fresh
<1>2. MailTyped'
  BY <1>1 DEF MailTyped, Automatic
<1>3. \A k \in Outstanding' : k = m \/ (k \in Outstanding /\ kind'[k] = kind[k])
  BY <1>1 DEF MailTyped, Outstanding
<1>4. OneOutstanding'
  <2>1. CASE source \in Automatic
    BY <1>3, <2>1 DEF OneOutstanding, QueueEmpty
  <2>2. CASE source \notin Automatic
    <3>1. kind'[m] \notin Automatic
      BY <1>1, <2>2 DEF MailTyped
    <3> QED
      BY <1>3, <3>1 DEF OneOutstanding, Automatic
  <2> QED
    BY <2>1, <2>2
<1> QED
  BY <1>2, <1>4

\* What the companions and ChatGPT do to a message adds nothing to the queue.
LEMMA MailFacts ==
  ASSUME MailTyped, OneOutstanding, kind' = kind,
         \/ \E m \in Messages : \/ Mailbox!Hand(m) \/ Mailbox!Turn(m)
                                \/ Mailbox!Settle(m, "sent") \/ Mailbox!Settle(m, "failed")
         \/ Mailbox!LoseAll
         \/ UNCHANGED mailVars
  PROVE  MailTyped' /\ OneOutstanding'
<1>1. MailTyped' /\ Outstanding' \subseteq Outstanding
  <2>1. CASE Mailbox!LoseAll
    BY <2>1 DEF MailTyped, Outstanding
  <2>2. CASE UNCHANGED mailVars
    BY <2>2 DEF MailTyped, Outstanding, mailVars
  <2>3. ASSUME NEW m \in Messages, Mailbox!Hand(m)
        PROVE  MailTyped' /\ Outstanding' \subseteq Outstanding
    BY <2>3 DEF MailTyped, Outstanding
  <2>4. ASSUME NEW m \in Messages, Mailbox!Turn(m)
        PROVE  MailTyped' /\ Outstanding' \subseteq Outstanding
    BY <2>4 DEF MailTyped, Outstanding
  <2>5. ASSUME NEW m \in Messages, Mailbox!Settle(m, "sent") \/ Mailbox!Settle(m, "failed")
        PROVE  MailTyped' /\ Outstanding' \subseteq Outstanding
    BY <2>5 DEF MailTyped, Outstanding
  <2> QED
    BY <2>1, <2>2, <2>3, <2>4, <2>5
<1> QED
  BY <1>1 DEF OneOutstanding

\* The observer table stays one, whatever is reported.
LEMMA ObserverFacts ==
  ASSUME obs \in [Observers -> Observer], NEW o \in Observers, NEW type \in EventTypes,
         NEW c \in Conversations \cup {None}, NEW h \in HostsNamed[o], state \in ControllerState
  PROVE  Touched(o, type, c, h) \in [Observers -> Observer]
<1>1. h \in Hosts \cup {None}
  BY HostAssumption
<1>2. [online |-> TRUE, type |-> Lasting(type), recent |-> state.enabled,
       conv |-> IF c = None THEN obs[o].conv ELSE c,
       host |-> IF h = None THEN obs[o].host ELSE h] \in Observer
  BY <1>1 DEF Observer, Lasting, ControllerState, Trouble
<1> QED
  BY <1>2 DEF Touched

\* The part of the type invariant that is about the neighbours.
RestTyped ==
  /\ obs \in [Observers -> Observer]
  /\ companions \in SUBSET Hosts
  /\ TaskRecords!ViewTypeOK
  /\ done \in [Conversations -> Nat]
  /\ running \in SUBSET Conversations
  /\ humanTurns \in Nat

\* What the controller itself keeps: all of Inv about its own variables.
Own ==
  /\ state \in ControllerState
  /\ state.maxContinuations # 0 => state.continuationCount <= state.maxContinuations
  /\ arms \in Nat /\ armRevision \in Nat /\ continued \in Seq(Answer)
  /\ Armed /\ Paid

LEMMA Parts ==
  /\ Inv <=> MailTyped /\ RestTyped /\ Own /\ NoneIsZero /\ OneOutstanding
  /\ Inv' <=> MailTyped' /\ RestTyped' /\ Own' /\ NoneIsZero' /\ OneOutstanding'
BY DEF Inv, TypeOK, MailTyped, RestTyped, Own, Automatic, Answer

-----------------------------------------------------------------------------
(* The steps *)

\* A step that leaves the controller alone, and no task at a lower revision.
LEMMA OwnKept ==
  ASSUME Own, UNCHANGED ctlVars,
         \A k \in Tasks : view[k].revision \in Nat /\ view'[k].revision \in Nat
                           /\ view[k].revision <= view'[k].revision
  PROVE  Own'
<1>1. Armed'
  BY DEF Own, Armed, ctlVars
<1>2. Paid'
  BY DEF Own, Paid, ctlVars, ControllerState
<1> QED
  BY <1>1, <1>2 DEF Own, ctlVars

LEMMA EnvironmentStep ==
  ASSUME Inv,
         \/ \E o \in Observers, c \in Conversations \cup {None} :
              \E h \in HostsNamed[o] : Heartbeat(o, c, h)
         \/ \E o \in Observers : GoesQuiet(o)
         \/ \E h \in Hosts : CompanionChanges(h)
         \/ GuiMessage
         \/ \E m \in Messages : Relay(m) \/ \E c \in Conversations : MessageTurn(m, c)
         \/ \E c \in Conversations : HumanTurn(c) \/ TurnEnds(c)
         \/ UNCHANGED vars
  PROVE  Inv'
<1> USE Parts
<1> DEFINE Quiet == UNCHANGED <<ctlVars, view>>
<1>1. ASSUME Quiet PROVE Own' /\ NoneIsZero'
  <2>1. Own'
    BY <1>1, OwnKept DEF RestTyped, TaskRecords!ViewTypeOK
  <2> QED
    BY <1>1, <2>1 DEF NoneIsZero
<1>2. ASSUME NEW o \in Observers, NEW c \in Conversations \cup {None}, NEW h \in HostsNamed[o],
             Heartbeat(o, c, h)
      PROVE  Inv'
  <2>1. h \in Hosts \cup {None}
    BY HostAssumption
  <2>2. [online |-> TRUE, type |-> Lasting(obs[o].type), recent |-> state.enabled,
         conv |-> IF c = None THEN obs[o].conv ELSE c,
         host |-> IF h = None THEN obs[o].host ELSE h] \in Observer
    BY <2>1 DEF RestTyped, Own, Observer, Lasting, ControllerState, Trouble
  <2>3. Touched(o, obs[o].type, c, h) \in [Observers -> Observer]
    BY <2>2 DEF Touched, RestTyped
  <2>4. obs' \in [Observers -> Observer]
    BY <1>2, <2>3 DEF Heartbeat, Observer, RestTyped
  <2>5. RestTyped'
    BY <1>2, <2>4 DEF Heartbeat, RestTyped, chatVars, TaskRecords!ViewTypeOK
  <2>6. MailTyped' /\ OneOutstanding'
    BY <1>2, MailFacts DEF Heartbeat
  <2> QED
    BY <1>1, <1>2, <2>5, <2>6 DEF Heartbeat
<1>3. ASSUME NEW o \in Observers, GoesQuiet(o)
      PROVE  Inv'
  <2>1. obs' \in [Observers -> Observer]
    BY <1>3 DEF GoesQuiet, RestTyped, Observer
  <2>2. RestTyped'
    BY <1>3, <2>1 DEF GoesQuiet, RestTyped, chatVars, TaskRecords!ViewTypeOK
  <2>3. MailTyped' /\ OneOutstanding'
    BY <1>3, MailFacts DEF GoesQuiet
  <2> QED
    BY <1>1, <1>3, <2>2, <2>3 DEF GoesQuiet
<1>4. ASSUME NEW h \in Hosts, CompanionChanges(h)
      PROVE  Inv'
  <2>1. RestTyped'
    BY <1>4 DEF CompanionChanges, RestTyped, chatVars, TaskRecords!ViewTypeOK
  <2>2. MailTyped' /\ OneOutstanding'
    BY <1>4, MailFacts DEF CompanionChanges
  <2> QED
    BY <1>1, <1>4, <2>1, <2>2 DEF CompanionChanges
<1>5. CASE GuiMessage
  <2>1. RestTyped'
    BY <1>5 DEF GuiMessage, RestTyped, chatVars, TaskRecords!ViewTypeOK
  <2>2. MailTyped' /\ OneOutstanding'
    BY <1>5, EnqueueFacts DEF GuiMessage, Automatic
  <2> QED
    BY <1>1, <1>5, <2>1, <2>2 DEF GuiMessage
<1>6. ASSUME NEW m \in Messages, Relay(m)
      PROVE  Inv'
  <2>1. RestTyped'
    BY <1>6 DEF Relay, RestTyped, chatVars, TaskRecords!ViewTypeOK
  <2>2. MailTyped' /\ OneOutstanding'
    BY <1>6, MailFacts DEF Relay
  <2> QED
    BY <1>1, <1>6, <2>1, <2>2 DEF Relay
<1>7. ASSUME NEW m \in Messages, NEW c \in Conversations, MessageTurn(m, c)
      PROVE  Inv'
  <2>1. RestTyped'
    BY <1>7 DEF MessageTurn, RestTyped, TaskRecords!ViewTypeOK
  <2>2. MailTyped' /\ OneOutstanding'
    BY <1>7, MailFacts DEF MessageTurn
  <2> QED
    BY <1>1, <1>7, <2>1, <2>2 DEF MessageTurn
<1>8. ASSUME NEW c \in Conversations, HumanTurn(c) \/ TurnEnds(c)
      PROVE  Inv'
  <2>1. RestTyped'
    BY <1>8 DEF HumanTurn, TurnEnds, RestTyped, TaskRecords!ViewTypeOK
  <2>2. MailTyped' /\ OneOutstanding'
    BY <1>8, MailFacts DEF HumanTurn, TurnEnds
  <2> QED
    BY <1>1, <1>8, <2>1, <2>2 DEF HumanTurn, TurnEnds
<1>9. CASE UNCHANGED vars
  <2>1. RestTyped'
    BY <1>9 DEF vars, RestTyped, chatVars, TaskRecords!ViewTypeOK
  <2>2. MailTyped' /\ OneOutstanding'
    BY <1>9, MailFacts DEF vars
  <2> QED
    BY <1>1, <1>9, <2>1, <2>2 DEF vars
<1> QED
  BY <1>2, <1>3, <1>4, <1>5, <1>6, <1>7, <1>8, <1>9

\* A task record only moves forward.
LEMMA TaskStep ==
  ASSUME Inv, NEW k \in Tasks, TaskWritten(k)
  PROVE  Inv'
<1> USE Parts
<1>1. /\ TaskRecords!ViewTypeOK'
      /\ NoneIsZero'
      /\ \A j \in Tasks : view[j].revision \in Nat /\ view'[j].revision \in Nat
                         /\ view[j].revision <= view'[j].revision
  <2>1. CASE TaskRecords!Appear(k)
    BY <2>1 DEF TaskRecords!Appear, TaskRecords!ViewTypeOK, TaskRecords!Statuses,
                RestTyped, NoneIsZero
  <2>2. ASSUME NEW s \in TaskRecords!Statuses, TaskRecords!Advance(k, s)
        PROVE  /\ TaskRecords!ViewTypeOK'
               /\ NoneIsZero'
               /\ \A j \in Tasks : view[j].revision \in Nat /\ view'[j].revision \in Nat
                                  /\ view[j].revision <= view'[j].revision
    BY <2>2 DEF TaskRecords!Advance, TaskRecords!ViewTypeOK, TaskRecords!Statuses,
                RestTyped, NoneIsZero
  <2> QED
    BY <2>1, <2>2 DEF TaskWritten
<1>2. Own'
  BY <1>1, OwnKept DEF TaskWritten
<1>3. RestTyped'
  BY <1>1 DEF TaskWritten, RestTyped, chatVars
<1>4. MailTyped' /\ OneOutstanding'
  BY MailFacts DEF TaskWritten
<1> QED
  BY <1>1, <1>2, <1>3, <1>4

\* Arming binds the controller and starts the count at the task's revision.
LEMMA ArmStep ==
  ASSUME Inv, NEW k \in Tasks, NEW c \in Conversations, NEW o \in Observers,
         NEW limit \in Limits, NEW start \in BOOLEAN, Arm(k, c, o, limit, start)
  PROVE  Inv'
<1> USE Parts
<1>1. /\ view[k].revision \in Nat
      /\ obs[o] \in Observer
      /\ limit \in Nat
  BY BoundsAssumption DEF RestTyped, TaskRecords!ViewTypeOK
<1>2. Own'
  BY <1>1 DEF Own, Arm, ControllerState, Observer, Armed, Paid
<1>3. RestTyped'
  BY DEF Arm, RestTyped, Observer, TaskRecords!ViewTypeOK, chatVars
<1>4. MailTyped' /\ OneOutstanding'
  BY EnqueueFacts, MailFacts DEF Arm, Automatic
<1> QED
  BY <1>2, <1>3, <1>4 DEF Arm, NoneIsZero

\* Switching off and losing everything but the task records.
LEMMA OffStep ==
  ASSUME Inv, Disable \/ Restart
  PROVE  Inv'
<1> USE Parts
<1>1. CASE Disable
  <2>1. Own'
    BY <1>1 DEF Disable, Own, ControllerState, Armed, Paid, Stopped
  <2>2. RestTyped'
    BY <1>1 DEF Disable, RestTyped, TaskRecords!ViewTypeOK, chatVars
  <2>3. MailTyped' /\ OneOutstanding'
    BY <1>1, MailFacts DEF Disable
  <2> QED
    BY <1>1, <2>1, <2>2, <2>3 DEF Disable, NoneIsZero
<1>2. CASE Restart
  <2>1. Own'
    BY <1>2 DEF Restart, Off, Own, ControllerState, Armed, Paid
  <2>2. RestTyped'
    BY <1>2 DEF Restart, Unseen, RestTyped, Observer, TaskRecords!ViewTypeOK, chatVars
  <2>3. MailTyped' /\ OneOutstanding'
    BY <1>2, MailFacts DEF Restart
  <2> QED
    BY <1>2, <2>1, <2>2, <2>3 DEF Restart, NoneIsZero
<1> QED
  BY <1>1, <1>2

\* The states the handler of an event may leave the controller in, short of a
\* continuation.
LEMMA QuietOutcomes ==
  ASSUME Inv, NEW o \in Observers, NEW s \in ControllerState,
         state' = s, UNCHANGED <<arms, armRevision, continued, view>>,
         state.enabled \/ s = state,
         \/ s \in {state, Stopped(state), Rebound(o), Stopped(Rebound(o))}
         \/ Advanced /\ s = Stopped(Verified(Rebound(o)))
  PROVE  Own'
<1> USE Parts
<1>1. /\ s.taskId = state.taskId /\ s.conversationId = state.conversationId
      /\ s.observerId \in {state.observerId, o}
      /\ s.continuationCount = state.continuationCount
      /\ s.maxContinuations = state.maxContinuations
      /\ s.enabled => state.enabled
  BY DEF Stopped, Rebound, Verified, Own, ControllerState
<1>2. \/ s.lastTaskRevision = state.lastTaskRevision
      \/ /\ state.enabled /\ s.lastTaskRevision = view[state.taskId].revision
         /\ s.lastTaskRevision > state.lastTaskRevision
  BY DEF Stopped, Rebound, Verified, Advanced, Own, ControllerState
<1>3. Armed'
  BY <1>1 DEF Own, Armed
<1>4. Paid'
  BY <1>1, <1>2 DEF Own, Paid, ControllerState, RestTyped, TaskRecords!ViewTypeOK
<1> QED
  BY <1>1, <1>3, <1>4 DEF Own

\* A continuation counts one more, which the verified revision covers.
LEMMA ContinueOutcome ==
  ASSUME Inv, NEW o \in Observers, NEW k \in Nat, NEW late \in BOOLEAN, state.enabled,
         Advanced, ~CapReached, state' = AfterContinuing(Rebound(o), k),
         continued' = Append(continued, [turn |-> k, late |-> late]),
         UNCHANGED <<arms, armRevision, view>>
  PROVE  Own'
<1> USE Parts
<1>1. state.taskId \in Tasks /\ view[state.taskId].revision \in Nat
  BY DEF Own, Armed, RestTyped, TaskRecords!ViewTypeOK
<1>2. /\ state' \in ControllerState
      /\ state'.enabled = state.enabled /\ state'.taskId = state.taskId
      /\ state'.conversationId = state.conversationId /\ state'.observerId = o
      /\ state'.continuationCount = state.continuationCount + 1
      /\ state'.maxContinuations = state.maxContinuations
      /\ state'.lastTaskRevision = view[state.taskId].revision
  <2>1. /\ Rebound(o) \in ControllerState
        /\ Rebound(o) = [state EXCEPT !.observerId = o]
    BY DEF Rebound, Own, ControllerState
  <2>2. /\ Verified(Rebound(o)) \in ControllerState
        /\ Verified(Rebound(o)) = [state EXCEPT !.observerId = o,
                                                !.lastTaskRevision = view[state.taskId].revision]
    BY <1>1, <2>1 DEF Verified, Own, ControllerState
  <2> DEFINE s == Verified(Rebound(o))
  <2>3. /\ s.enabled = state.enabled /\ s.taskId = state.taskId
        /\ s.conversationId = state.conversationId /\ s.observerId = o
        /\ s.maxContinuations = state.maxContinuations
        /\ s.lastTaskRevision = view[state.taskId].revision
        /\ s.continuationCount = state.continuationCount
    BY <2>2 DEF Own, ControllerState
  <2>4. s \in ControllerState /\ s.continuationCount + 1 \in Nat
    <3>1. state.continuationCount \in Nat
      BY DEF Own, ControllerState
    <3> HIDE DEF s
    <3>2. s.continuationCount + 1 \in Nat
      BY <2>3, <3>1
    <3> QED
      BY <2>2, <3>2 DEF s
  <2>5. state' = [s EXCEPT !.continuationCount = s.continuationCount + 1,
                           !.lastContinuedTurnKey = k]
    BY <2>4 DEF AfterContinuing, ControllerState
  <2> HIDE DEF s
  <2>6. state' \in ControllerState
    BY <2>4, <2>5 DEF ControllerState
  <2>7. /\ state'.enabled = s.enabled /\ state'.taskId = s.taskId
        /\ state'.conversationId = s.conversationId /\ state'.observerId = s.observerId
        /\ state'.continuationCount = s.continuationCount + 1
        /\ state'.maxContinuations = s.maxContinuations
        /\ state'.lastTaskRevision = s.lastTaskRevision
    BY <2>4, <2>5 DEF ControllerState
  <2> QED
    BY <2>3, <2>6, <2>7
<1>3. continued' \in Seq(Answer)
  <2>1. [turn |-> k, late |-> late] \in Answer
    BY DEF Answer
  <2> QED
    BY <2>1 DEF Own
<1>4. state'.maxContinuations # 0 => state'.continuationCount <= state'.maxContinuations
  BY <1>2 DEF CapReached, Own, ControllerState
<1>5. Armed'
  BY <1>2 DEF Armed, Own
<1>6. Paid'
  BY <1>1, <1>2 DEF Paid, Own, ControllerState, Advanced
<1> QED
  BY <1>2, <1>3, <1>4, <1>5, <1>6 DEF Own

\* The handler of an event.
LEMMA EventStep ==
  ASSUME Inv, NEW o \in Observers, NEW type \in EventTypes, NEW c \in Conversations \cup {None},
         NEW h \in HostsNamed[o], NEW k \in 0..MaxTurns, OnObserverEvent(o, type, c, h, k)
  PROVE  Inv'
<1> USE Parts
<1>1. k \in Nat
  BY BoundsAssumption
<1>2. Arrives(o, type, c, h, k) /\ NoneIsZero'
  BY DEF OnObserverEvent, Ignore, Drift, Degrade, Note, FailCheck, ReachCap, Continue,
         NewlyCompleted, Arrives, NoneIsZero
<1>3. RestTyped'
  BY <1>2, ObserverFacts DEF Arrives, RestTyped, Own, TaskRecords!ViewTypeOK, chatVars
<1>4. CASE Continue(o, type, c, h, k)
  <2>1. state.enabled /\ Advanced /\ QueueEmpty
    BY <1>4 DEF Continue, NewlyCompleted, Listens, Ready
  <2>2. Own'
    <3>1. /\ continued' = Append(continued, [turn |-> k, late |-> k < done[c]])
          /\ state' = AfterContinuing(Rebound(o), k) /\ ~CapReached
      BY <1>4 DEF Continue
    <3>2. (k < done[c]) \in BOOLEAN
      OBVIOUS
    <3> QED
      BY <1>1, <1>2, <2>1, <3>1, <3>2, ContinueOutcome DEF Arrives
  <2>3. MailTyped' /\ OneOutstanding'
    BY <1>4, <2>1, EnqueueFacts DEF Continue, Automatic
  <2> QED
    BY <1>2, <1>3, <2>2, <2>3
<1>5. CASE ~Continue(o, type, c, h, k)
  <2>1. UNCHANGED <<continued, mailVars, kind>>
    BY <1>5 DEF OnObserverEvent, Ignore, Drift, Degrade, Note, FailCheck, ReachCap
  <2>2. state.enabled \/ state' = state
    BY <1>5 DEF OnObserverEvent, Ignore, Drift, Degrade, Note, FailCheck, ReachCap,
                NewlyCompleted, Listens
  <2>3. \/ state' \in {state, Stopped(state), Rebound(o), Stopped(Rebound(o))}
        \/ Advanced /\ state.enabled /\ state' = Stopped(Verified(Rebound(o)))
    BY <1>5 DEF OnObserverEvent, Ignore, Drift, Degrade, Note, FailCheck, ReachCap,
                NewlyCompleted, Listens, Ready
  <2>4. state.enabled => state.taskId \in Tasks /\ view[state.taskId].revision \in Nat
    BY DEF Own, Armed, RestTyped, TaskRecords!ViewTypeOK
  <2>5. Rebound(o) \in ControllerState /\ Rebound(o).taskId = state.taskId
    BY DEF Rebound, Own, ControllerState
  <2>6. state.enabled => Verified(Rebound(o)) \in ControllerState
    BY <2>4, <2>5 DEF Verified, ControllerState
  <2>7. state' \in ControllerState
    BY <2>3, <2>5, <2>6 DEF Stopped, ControllerState, Own
  <2>8. UNCHANGED <<arms, armRevision, view>>
    BY <1>2 DEF Arrives
  <2>9. Own'
    BY <2>1, <2>2, <2>3, <2>7, <2>8, QuietOutcomes
  <2>10. MailTyped' /\ OneOutstanding'
    BY <2>1, MailFacts
  <2> QED
    BY <1>2, <1>3, <2>9, <2>10
<1> QED
  BY <1>4, <1>5

LEMMA InitInv == Init => Inv
<1> SUFFICES ASSUME Init PROVE Inv
  OBVIOUS
<1> USE DEF Init, Mailbox!HandoffInit, TaskRecords!ViewInit
<1>1. MailTyped /\ OneOutstanding
  BY DEF MailTyped, OneOutstanding, Outstanding
<1>2. RestTyped /\ NoneIsZero
  BY DEF RestTyped, Unseen, Observer, TaskRecords!ViewTypeOK, NoneIsZero
<1>3. Own
  BY DEF Own, Off, ControllerState, Armed, Paid
<1> QED
  BY <1>1, <1>2, <1>3, Parts

LEMMA NextInv == Inv /\ [Next]_vars => Inv'
<1> SUFFICES ASSUME Inv, [Next]_vars PROVE Inv'
  OBVIOUS
<1>1. ASSUME NEW k \in Tasks, NEW c \in Conversations, NEW o \in Observers,
             NEW limit \in Limits, NEW start \in BOOLEAN, Arm(k, c, o, limit, start)
      PROVE  Inv'
  BY <1>1, ArmStep
<1>2. CASE Disable \/ Restart
  BY <1>2, OffStep
<1>3. ASSUME NEW o \in Observers, NEW type \in EventTypes, NEW c \in Conversations \cup {None},
             NEW h \in HostsNamed[o], NEW k \in 0..MaxTurns, OnObserverEvent(o, type, c, h, k)
      PROVE  Inv'
  BY <1>3, EventStep
<1>4. ASSUME NEW k \in Tasks, TaskWritten(k)
      PROVE  Inv'
  BY <1>4, TaskStep
<1> QED
  BY <1>1, <1>2, <1>3, <1>4, EnvironmentStep DEF Next

-----------------------------------------------------------------------------
(* The theorems *)

THEOREM InvCorrect == Spec => []Inv
BY InitInv, NextInv, PTL DEF Spec

\* Type correctness of the controller and its tables, with the cap: it never
\* counts past max_continuations.
THEOREM TypeCorrect == Spec => []TypeOK
<1>1. Inv => TypeOK
  BY DEF Inv
<1> QED
  BY <1>1, InvCorrect, PTL

\* A seed or continuation is sent only when none is under way.
THEOREM OneAtATime == Spec => []OneOutstanding
<1>1. Inv => OneOutstanding
  BY DEF Inv
<1> QED
  BY <1>1, InvCorrect, PTL

\* There are at most as many continuations as task revisions since arming.
THEOREM ContinuationsEarned == Spec => []Earned
<1>1. Inv => Earned
  BY DEF Inv, TypeOK, TaskRecords!ViewTypeOK, ControllerState, Paid, Earned
<1> QED
  BY <1>1, InvCorrect, PTL

\* The answers given so far are well-formed.
LEMMA AnswersTyped ==
  ASSUME Inv
  PROVE  /\ DOMAIN continued = 1..Len(continued) /\ Len(continued) \in Nat
         /\ \A i \in DOMAIN continued : continued[i].turn \in Nat
<1>1. continued \in Seq(Answer)
  BY DEF Inv, TypeOK, Answer
<1>2. DOMAIN continued = 1..Len(continued) /\ Len(continued) \in Nat
  BY <1>1
<1>3. \A i \in DOMAIN continued : continued[i] \in Answer
  BY <1>1
<1> QED
  BY <1>2, <1>3 DEF Answer

\* A step that answers no turn keeps the answered ones in order, as long as
\* the controller stays armed for the same conversation.
LEMMA OrderKept ==
  ASSUME Inv, Inv', InOrder, continued' = continued,
         \A c \in Conversations : done[c] <= done'[c],
         state'.enabled =>
           /\ state.enabled
           /\ state'.conversationId = state.conversationId
           /\ state'.lastContinuedTurnKey = state.lastContinuedTurnKey
  PROVE  InOrder'
<1>1. CASE state'.enabled
  <2>1. /\ state.conversationId \in Conversations
        /\ done[state.conversationId] \in Nat /\ done'[state.conversationId] \in Nat
        /\ state.lastContinuedTurnKey \in Nat
    BY <1>1 DEF Inv, TypeOK, Armed, ControllerState
  <2>2. done[state.conversationId] <= done'[state.conversationId]
    BY <2>1
  <2>3. \A i \in DOMAIN continued : continued[i].turn \in Nat
    BY AnswersTyped
  <2>4. \A i \in DOMAIN continued : continued[i].turn <= done'[state.conversationId]
    <3>1. \A i \in DOMAIN continued : continued[i].turn <= done[state.conversationId]
      BY <1>1 DEF InOrder
    <3> QED
      BY <2>1, <2>2, <2>3, <3>1
  <2>5. /\ \A i \in DOMAIN continued' : continued'[i].turn <= done'[state'.conversationId]
        /\ continued' # <<>> =>
             continued'[Len(continued')].turn = state'.lastContinuedTurnKey
    BY <1>1, <2>4 DEF InOrder
  <2>6. /\ \A i, j \in DOMAIN continued' :
             j = i + 1 => continued'[i].turn # continued'[j].turn
        /\ \A i, j \in DOMAIN continued' :
             i < j /\ ~continued'[j].late => continued'[i].turn <= continued'[j].turn
    BY DEF InOrder
  <2> QED
    BY <2>5, <2>6 DEF InOrder
<1>2. CASE ~state'.enabled
  BY <1>2 DEF InOrder
<1> QED
  BY <1>1, <1>2

\* The answer that is added is not to the turn answered last, and if it is to
\* the latest turn it comes after all others.
LEMMA ContinueOrder ==
  ASSUME Inv, InOrder,
         NEW o \in Observers, NEW type \in EventTypes, NEW c \in Conversations \cup {None},
         NEW h \in HostsNamed[o], NEW k \in 0..MaxTurns, Continue(o, type, c, h, k)
  PROVE  InOrder'
<1>1. state.enabled /\ c = state.conversationId /\ type = "turn_completed"
  BY DEF Continue, NewlyCompleted, Listens
<1>2. c \in Conversations /\ c # None /\ done[c] \in Nat
  BY <1>1, NoneAssumption DEF Inv, Armed, TypeOK
<1>3. k \in 1..done[c] /\ k # state.lastContinuedTurnKey
  BY <1>1, <1>2 DEF Continue, NewlyCompleted, Arrives, Reportable, Keys
<1> DEFINE n == Len(continued)
           new == [turn |-> k, late |-> k < done[c]]
<1>4. continued' = Append(continued, new) /\ continued \in Seq(Answer) /\ done' = done
  BY DEF Continue, NewlyCompleted, Arrives, chatVars, Inv, TypeOK, Answer
<1>5. new \in Answer
  BY <1>2, <1>3 DEF Answer
<1>6. /\ DOMAIN continued = 1..n
      /\ DOMAIN continued' = 1..(n + 1) /\ Len(continued') = n + 1
      /\ continued'[n + 1] = new
      /\ \A i \in 1..n : continued'[i] = continued[i]
      /\ n \in Nat
  BY <1>4, <1>5
<1>7. /\ state'.conversationId = state.conversationId
      /\ state'.lastContinuedTurnKey = k
  <2>1. Rebound(o) \in [enabled : BOOLEAN, taskId : Tasks \cup {None},
                         observerId : Observers \cup {None},
                         conversationId : {state.conversationId}, hostId : Hosts \cup {None},
                         continuationCount : Nat, maxContinuations : Nat,
                         lastTaskRevision : Nat, lastContinuedTurnKey : Nat]
    BY DEF Rebound, Inv, TypeOK, ControllerState
  <2> QED
    BY <2>1 DEF Continue, AfterContinuing, Verified
<1>8. \A i \in 1..n : continued[i] \in Answer /\ continued[i].turn <= done[c]
  BY <1>1, <1>4, <1>6 DEF InOrder
<1>9. new.turn = k /\ (~new.late => k = done[c]) /\ k <= done[c]
  <2>1. new.turn = k /\ new.late = (k < done[c])
    OBVIOUS
  <2>2. ~ (k < done[c]) => k = done[c]
    BY <1>2, <1>3
  <2>3. k <= done[c]
    BY <1>2, <1>3
  <2> QED
    BY <2>1, <2>2, <2>3, Zenon
<1>10. n # 0 => continued[n].turn # k
  BY <1>1, <1>3, <1>4, <1>6 DEF InOrder
<1> HIDE DEF n, new
<1>11. \A i, j \in DOMAIN continued' :
         j = i + 1 => continued'[i].turn # continued'[j].turn
  <2> SUFFICES ASSUME NEW i \in 1..(n + 1), NEW j \in 1..(n + 1), j = i + 1
               PROVE  continued'[i].turn # continued'[j].turn
    BY <1>6
  <2>1. CASE j \in 1..n
    BY <1>6, <2>1 DEF InOrder
  <2>2. CASE j = n + 1
    <3>1. i = n /\ n # 0 /\ i \in 1..n
      BY <1>6, <2>2
    <3> QED
      BY <1>6, <1>9, <1>10, <2>2, <3>1
  <2> QED
    BY <1>6, <2>1, <2>2
<1>12. \A i, j \in DOMAIN continued' :
         i < j /\ ~continued'[j].late => continued'[i].turn <= continued'[j].turn
  <2> SUFFICES ASSUME NEW i \in 1..(n + 1), NEW j \in 1..(n + 1), i < j, ~continued'[j].late
               PROVE  continued'[i].turn <= continued'[j].turn
    BY <1>6
  <2>1. i \in 1..n
    BY <1>6
  <2>2. CASE j \in 1..n
    BY <1>6, <2>1, <2>2 DEF InOrder
  <2>3. CASE j = n + 1
    BY <1>6, <1>8, <1>9, <2>1, <2>3
  <2> QED
    BY <1>6, <2>2, <2>3
<1>13. \A i \in DOMAIN continued' : continued'[i].turn <= done[c]
  BY <1>6, <1>8, <1>9
<1> QED
  BY <1>1, <1>4, <1>6, <1>7, <1>9, <1>11, <1>12, <1>13 DEF InOrder

LEMMA NextInOrder ==
  ASSUME Inv, Inv', InOrder, [Next]_vars
  PROVE  InOrder'
<1> DEFINE Calm == /\ continued' = continued
                   /\ \A c \in Conversations : done[c] <= done'[c]
<1>1. done \in [Conversations -> Nat] /\ state \in ControllerState
  BY DEF Inv, TypeOK
<1>2. ASSUME state' = state, Calm PROVE InOrder'
  BY <1>2, OrderKept
<1>3. ASSUME state'.enabled = FALSE, Calm PROVE InOrder'
  BY <1>3, OrderKept
<1>4. ASSUME NEW o \in Observers, state' = Rebound(o), state.enabled, Calm PROVE InOrder'
  BY <1>1, <1>4, OrderKept DEF Rebound, ControllerState
<1>5. ASSUME NEW k \in Tasks, NEW c \in Conversations, NEW o \in Observers,
             NEW limit \in Limits, NEW start \in BOOLEAN, Arm(k, c, o, limit, start)
      PROVE  InOrder'
  <2>1. /\ continued' = <<>> /\ state'.lastContinuedTurnKey = 0
        /\ state'.conversationId = c /\ done' = done
    BY <1>5 DEF Arm, chatVars
  <2> QED
    BY <1>1, <2>1 DEF InOrder
<1>6. CASE Disable \/ Restart
  <2>1. state'.enabled = FALSE
    BY <1>1, <1>6 DEF Disable, Restart, Off, Stopped, ControllerState
  <2>2. Calm
    BY <1>1, <1>6 DEF Disable, Restart, chatVars
  <2> QED
    BY <1>3, <2>1, <2>2
<1>7. ASSUME NEW o \in Observers, NEW type \in EventTypes, NEW c \in Conversations \cup {None},
             NEW h \in HostsNamed[o], NEW k \in 0..MaxTurns, OnObserverEvent(o, type, c, h, k)
      PROVE  InOrder'
  <2>1. CASE Continue(o, type, c, h, k)
    BY <2>1, ContinueOrder
  <2>2. CASE ~Continue(o, type, c, h, k)
    <3>1. Calm
      BY <1>1, <1>7, <2>2 DEF OnObserverEvent, Ignore, Drift, Degrade, Note, FailCheck, ReachCap,
                              NewlyCompleted, Arrives, chatVars
    <3>2. \/ state' = state
          \/ state' = Stopped(state) \/ state' = Stopped(Rebound(o))
          \/ state' = Stopped(Verified(Rebound(o)))
          \/ state' = Rebound(o) /\ state.enabled
      BY <1>7, <2>2 DEF OnObserverEvent, Ignore, Drift, Degrade, Note, FailCheck, ReachCap,
                        Listens
    <3>3. /\ Stopped(state).enabled = FALSE
          /\ Stopped(Rebound(o)).enabled = FALSE
          /\ Stopped(Verified(Rebound(o))).enabled = FALSE
      BY <1>1 DEF Stopped, Rebound, Verified, ControllerState
    <3> QED
      BY <1>2, <1>3, <1>4, <3>1, <3>2, <3>3
  <2> QED
    BY <2>1, <2>2
<1>8. ASSUME NEW k \in Tasks, TaskWritten(k)
      PROVE  InOrder'
  BY <1>1, <1>2, <1>8 DEF TaskWritten, ctlVars, chatVars
<1>9. CASE \/ \E o \in Observers, c \in Conversations \cup {None} :
                \E h \in HostsNamed[o] : Heartbeat(o, c, h)
           \/ \E o \in Observers : GoesQuiet(o)
           \/ \E h \in Hosts : CompanionChanges(h)
           \/ GuiMessage
           \/ \E m \in Messages : Relay(m) \/ \E c \in Conversations : MessageTurn(m, c)
           \/ \E c \in Conversations : HumanTurn(c)
           \/ UNCHANGED vars
  BY <1>1, <1>2, <1>9 DEF Heartbeat, GoesQuiet, CompanionChanges, GuiMessage, Relay, MessageTurn,
                          HumanTurn, vars, ctlVars, chatVars
<1>10. ASSUME NEW c \in Conversations, TurnEnds(c)
       PROVE  InOrder'
  BY <1>1, <1>2, <1>10 DEF TurnEnds, ctlVars
<1> QED
  BY <1>5, <1>6, <1>7, <1>8, <1>9, <1>10 DEF Next

\* The controller never answers a turn twice in a row, and it answers one again
\* only after a late report, whichever and however many tabs and GUI pages
\* report it and however late they do.
THEOREM AnsweredAgainOnlyLate == Spec => []RepeatsAreLate
<1>1. Init => InOrder
  BY DEF Init, Off, InOrder
<1>2. Inv /\ Inv' /\ InOrder /\ [Next]_vars => InOrder'
  BY NextInOrder
<1>3. Inv /\ InOrder => RepeatsAreLate
  <2> SUFFICES ASSUME Inv, InOrder, NEW i \in DOMAIN continued, NEW j \in DOMAIN continued,
                      i < j, continued[i].turn = continued[j].turn
               PROVE  i + 1 < j /\ (continued[i + 1].late \/ continued[j].late)
    BY DEF RepeatsAreLate
  <2>1. /\ i \in Nat /\ j \in Nat /\ i + 1 \in DOMAIN continued
        /\ \A m \in DOMAIN continued : continued[m].turn \in Nat
    BY AnswersTyped
  <2>2. continued[i].turn # continued[i + 1].turn
    BY <2>1 DEF InOrder
  <2>3. i + 1 < j
    BY <2>1, <2>2
  <2>4. ASSUME ~continued[i + 1].late, ~continued[j].late PROVE FALSE
    <3>1. continued[i].turn <= continued[i + 1].turn
      BY <2>1, <2>4 DEF InOrder
    <3>2. continued[i + 1].turn <= continued[j].turn
      BY <2>1, <2>3, <2>4 DEF InOrder
    <3> QED
      BY <2>1, <2>2, <3>1, <3>2
  <2> QED
    BY <2>3, <2>4
<1> QED
  BY <1>1, <1>2, <1>3, InvCorrect, PTL DEF Spec
=============================================================================
