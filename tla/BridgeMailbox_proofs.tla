-------------------------- MODULE BridgeMailbox_proofs --------------------------
(***************************************************************************)
(* The ChatGPT bridge hands a message over at most once, for any number of *)
(* messages, companions and lost answers.  The argument: only the first    *)
(* begin_send of a message succeeds, because the status it leaves is never *)
(* entered again; the companion it answers holds the one permit to post    *)
(* the message, which is either with its pump, or with a request it gave   *)
(* up on, or spent on the one turn of the message.  The message list is   *)
(* one sequence that enqueue appends to and trimming filters: that         *)
(* filtering keeps what it must, once and in order, is proved by the least *)
(* length for which it does not.                                           *)
(***************************************************************************)
EXTENDS BridgeMailbox, SequenceTheorems, FiniteSetTheorems, WellFoundedInduction, TLAPS

Queued == {"pending", "claimed"}

\* A message that was begun is in no queue any more; a claim is held by a
\* companion that may serve the message, and so was a begun message.
MailFits ==
  \A m \in Messages :
    /\ beganBy[m] # None => status[m] \notin Queued \cup {"none"}
    /\ status[m] = "claimed" => owner[m] \in Companions /\ target[m] \in {None, HostOf[owner[m]]}
    /\ beganBy[m] # None => target[m] \in {None, HostOf[beganBy[m]]}

\* The one turn of a message is started by the companion that began it.
TurnsFit ==
  \A m \in Messages :
    turns[m] # <<>> => beganBy[m] # None /\ turns[m] = <<beganBy[m]>>

\* A pump in state s has the permit to post its message, still unused.
Permits(s) ==
  \/ s.pc = "beginning" /\ s.reply = "ok"
  \/ s.pc = "posting" /\ s.reply = "none"

CompFits(c) ==
  /\ comp[c].reply # "none" => comp[c].pc \in Requests
  /\ comp[c].pc \in {"beginning", "posting", "acking"} => comp[c].msg \in Messages
  /\ comp[c].pc \in {"beginning", "posting"} => comp[c].outcome = "none"
  /\ comp[c].pc = "posting" /\ comp[c].reply = "ok" => turns[comp[c].msg] # <<>>
  /\ comp[c].pc = "acking" /\ comp[c].outcome # "failed" =>
       comp[c].outcome = "sent" /\ turns[comp[c].msg] # <<>>
  /\ Permits(comp[c]) =>
       /\ beganBy[comp[c].msg] = c
       /\ turns[comp[c].msg] = <<>>
       /\ \A r \in late : r.pc = "posting" => r.msg # comp[c].msg

LateFits(r) ==
  /\ r.pc \in {"beginning", "posting", "acking"} => r.msg \in Messages
  /\ r.pc = "acking" /\ r.outcome # "failed" => r.outcome = "sent" /\ turns[r.msg] # <<>>
  /\ r.pc = "posting" =>
       r.outcome = "none" /\ beganBy[r.msg] = r.by /\ turns[r.msg] = <<>>

CompsFit == \A c \in Companions : CompFits(c)
LateOnesFit == \A r \in late : LateFits(r)

Inv == MailFits /\ TurnsFit /\ CompsFit /\ LateOnesFit

-----------------------------------------------------------------------------
(* The mailbox *)

\* Releasing expired claims.
LEMMA NowFacts ==
  ASSUME RecordsOK, MailFits, NEW m \in Messages
  PROVE  /\ StatusNow(m) \in Active \cup Settled \cup {"none", "lost"}
         /\ OwnerNow(m) \in Companions \cup {None}
         /\ LeaseNow(m) \in {"none", "running", "over"}
         /\ status[m] \in Queued <=> StatusNow(m) \in Queued
         /\ status[m] \notin Queued => StatusNow(m) = status[m]
         /\ StatusNow(m) = "claimed" => status[m] = "claimed" /\ OwnerNow(m) = owner[m]
  BY DEF RecordsOK, StatusNow, OwnerNow, LeaseNow, Expired, Queued, Active

\* poll moves messages only between pending and claimed, and claims for a
\* companion that may serve them.
LEMMA PollFacts ==
  ASSUME RecordsOK, MailFits, NEW c \in Companions, NEW k \in Messages \cup {None}, Poll(c, k)
  PROVE  /\ status' \in [Messages -> Active \cup Settled \cup {"none", "lost"}]
         /\ owner' \in [Messages -> Companions \cup {None}]
         /\ lease' \in [Messages -> {"none", "running", "over"}]
         /\ MailFits'
         /\ \A m \in Messages : /\ status[m] \in Queued <=> status'[m] \in Queued
                                /\ status[m] \notin Queued => status'[m] = status[m]
<1> DEFINE mine == {m \in Messages : InList(m) /\ Owns(c, m)}
           open == {m \in Messages : InList(m) /\ MayTake(c, m)}
<1>1. k # None => k \in mine \cup open
  BY DEF Poll, Finds, IsFirst
<1>2. ASSUME k # None
      PROVE  k \in Messages /\ StatusNow(k) \in Queued /\ target[k] \in {None, HostOf[c]}
  <2>1. k \in Messages
    BY <1>2
  <2>2. CASE k \in mine
    BY <2>1, <2>2, NowFacts DEF Owns, MailFits, Queued
  <2>3. CASE k \in open
    BY <2>1, <2>3 DEF MayTake, Queued
  <2> QED
    BY <1>1, <1>2, <2>1, <2>2, <2>3
<1>3. \A m \in Messages :
        /\ status'[m] = IF m = k THEN "claimed" ELSE StatusNow(m)
        /\ owner'[m] = IF m = k THEN c ELSE OwnerNow(m)
  BY DEF Poll
<1>4. /\ status' \in [Messages -> Active \cup Settled \cup {"none", "lost"}]
      /\ owner' \in [Messages -> Companions \cup {None}]
      /\ lease' \in [Messages -> {"none", "running", "over"}]
  BY NowFacts DEF Poll, Active
<1>5. \A m \in Messages : /\ status[m] \in Queued <=> status'[m] \in Queued
                          /\ status[m] \notin Queued => status'[m] = status[m]
  BY <1>2, <1>3, NowFacts, NoneAssumption DEF Queued
<1>6. MailFits'
  <2> SUFFICES ASSUME NEW m \in Messages
               PROVE  /\ beganBy'[m] # None => status'[m] \notin Queued \cup {"none"}
                      /\ status'[m] = "claimed" =>
                           owner'[m] \in Companions /\ target'[m] \in {None, HostOf[owner'[m]]}
                      /\ beganBy'[m] # None => target'[m] \in {None, HostOf[beganBy'[m]]}
    BY DEF MailFits
  <2>1. target' = target /\ beganBy' = beganBy
    BY DEF Poll
  <2>2. CASE m = k
    BY <1>2, <1>3, <1>5, <2>1, <2>2, NoneAssumption DEF MailFits, Queued
  <2>3. CASE m # k
    BY <1>3, <1>5, <2>1, <2>3, NowFacts DEF MailFits, Queued
  <2> QED
    BY <2>2, <2>3
<1> QED
  BY <1>4, <1>5, <1>6

\* begin_send succeeds for a message nobody has begun.
LEMMA BeginFacts ==
  ASSUME RecordsOK, MailFits, NEW c \in Companions, NEW m \in Messages,
         MayBegin(c, m), BeginSend(c, m)
  PROVE  /\ beganBy[m] = None /\ beganBy'[m] = c
         /\ \A k \in Messages \ {m} : beganBy'[k] = beganBy[k] /\ status'[k] = status[k]
         /\ status[m] \in Queued /\ status'[m] = "dispatching"
         /\ MailFits'
<1>1. /\ beganBy'[m] = c /\ status'[m] = "dispatching"
      /\ \A k \in Messages \ {m} : beganBy'[k] = beganBy[k] /\ status'[k] = status[k]
      /\ target' = target /\ owner' = owner
  BY DEF BeginSend, RecordsOK
<1>2. status[m] = "claimed" /\ owner[m] = c /\ beganBy[m] = None
  BY DEF MayBegin, MailFits, Queued
<1>3. MailFits'
  BY <1>1, <1>2 DEF MailFits, Queued
<1> QED
  BY <1>1, <1>2, <1>3 DEF Queued

LEMMA AckFacts ==
  ASSUME RecordsOK, MailFits, NEW c \in Companions, NEW m \in Messages,
         NEW outcome \in Settled, MayAck(c, m), Ack(m, outcome)
  PROVE  /\ status[m] = "dispatching" /\ status'[m] = outcome
         /\ \A k \in Messages \ {m} : status'[k] = status[k]
         /\ MailFits'
<1>1. /\ status[m] = "dispatching" /\ status'[m] = outcome
      /\ \A k \in Messages \ {m} : status'[k] = status[k]
      /\ UNCHANGED <<target, owner, beganBy>>
  BY DEF Ack, MayAck, RecordsOK
<1> QED
  BY <1>1 DEF MailFits, Queued, Settled

-----------------------------------------------------------------------------
(* The companions.  Each lemma says what one action leaves of RecordsOK and Inv. *)

\* One companion changes, and nothing the other companions rely on.
LEMMA CompChange ==
  ASSUME RecordsOK, NEW c \in Companions, NEW s \in CompState,
         comp' = [comp EXCEPT ![c] = s]
  PROVE  /\ comp' \in [Companions -> CompState] /\ comp'[c] = s
         /\ \A d \in Companions \ {c} : comp'[d] = comp[d]
  BY DEF RecordsOK

LEMMA AnswerFacts ==
  ASSUME RecordsOK, NEW c \in Companions, NEW m \in Messages \cup {None},
         NEW reply \in {"none", "ok", "error"}, Answer(c, m, reply)
  PROVE  /\ comp' \in [Companions -> CompState]
         /\ comp'[c].pc = comp[c].pc /\ comp'[c].msg = m
         /\ comp'[c].outcome = comp[c].outcome /\ comp'[c].reply = reply
         /\ \A d \in Companions \ {c} : comp'[d] = comp[d]
<1>1. PICK s : s = [comp[c] EXCEPT !.msg = m, !.reply = reply]
  OBVIOUS
<1>2. /\ s \in CompState /\ s.pc = comp[c].pc /\ s.msg = m
      /\ s.outcome = comp[c].outcome /\ s.reply = reply
  BY <1>1 DEF RecordsOK, CompState
<1>3. comp' = [comp EXCEPT ![c] = s]
  BY <1>1 DEF Answer
<1> QED
  BY <1>2, <1>3, CompChange

LEMMA RestingFacts ==
  /\ Resting \in CompState /\ Resting.pc = "resting" /\ Resting.reply = "none"
  /\ [Resting EXCEPT !.pc = "gone"] \in CompState
  /\ [Resting EXCEPT !.pc = "gone"].pc = "gone" /\ [Resting EXCEPT !.pc = "gone"].reply = "none"
  BY DEF Resting, CompState

LEMMA RequestFacts ==
  ASSUME NEW pc \in Requests, NEW m \in Messages \cup {None}, NEW o \in Settled \cup {"none"}
  PROVE  /\ Request(pc, m, o) \in CompState
         /\ Request(pc, m, o).pc = pc /\ Request(pc, m, o).msg = m
         /\ Request(pc, m, o).outcome = o /\ Request(pc, m, o).reply = "none"
  BY DEF Request, CompState

\* A step that changes one companion and gives it no permit.
LEMMA PumpStep ==
  ASSUME RecordsOK, Inv, NEW c \in Companions, NEW s \in CompState,
         comp' = [comp EXCEPT ![c] = s],
         UNCHANGED <<storeVars, late, timeouts, turns, beganBy>>,
         s.reply # "none" => s.pc \in Requests,
         s.pc \in {"beginning", "posting", "acking"} => s.msg \in Messages,
         s.pc \in {"beginning", "posting"} => s.outcome = "none",
         s.pc = "posting" /\ s.reply = "ok" => turns[s.msg] # <<>>,
         s.pc = "acking" /\ s.outcome # "failed" => s.outcome = "sent" /\ turns[s.msg] # <<>>,
         Permits(s) => Permits(comp[c]) /\ s.msg = comp[c].msg
  PROVE  RecordsOK' /\ Inv'
<1>1. /\ comp' \in [Companions -> CompState] /\ comp'[c] = s
      /\ \A d \in Companions \ {c} : comp'[d] = comp[d]
  BY CompChange
<1>2. UNCHANGED <<status, target, owner, lease, late, timeouts, turns, beganBy>>
  BY DEF storeVars
<1>3. RecordsOK'
  BY <1>1, <1>2 DEF RecordsOK
<1>4. MailFits' /\ TurnsFit' /\ LateOnesFit'
  BY <1>2 DEF Inv, MailFits, TurnsFit, LateOnesFit, LateFits
<1>5. CompFits(c)'
  BY <1>1, <1>2 DEF Inv, CompsFit, CompFits, Permits
<1>6. ASSUME NEW d \in Companions, d # c
      PROVE  CompFits(d)'
  BY <1>1, <1>2, <1>6 DEF Inv, CompsFit, CompFits, Permits
<1> QED
  BY <1>3, <1>4, <1>5, <1>6 DEF Inv, CompsFit
LEMMA PumpPreserves ==
  ASSUME RecordsOK, Inv, NEW c \in Companions, Pump(c)
  PROVE  RecordsOK' /\ Inv'
<1>1. PICK s : s = Request("polling", None, "none")
  OBVIOUS
<1>2. s \in CompState /\ s.pc = "polling" /\ s.reply = "none"
  BY <1>1, RequestFacts DEF Requests
<1>3. comp' = [comp EXCEPT ![c] = s] /\ UNCHANGED <<storeVars, late, timeouts, turns, beganBy>>
  BY <1>1 DEF Pump
<1> QED
  BY <1>2, <1>3, PumpStep DEF Permits

\* An answer that leaves the mailbox alone: a refusal, or the host's.
LEMMA ErrorPreserves ==
  ASSUME RecordsOK, Inv, NEW c \in Companions, comp[c].pc \in Requests,
         Answer(c, comp[c].msg, "error"),
         UNCHANGED <<storeVars, late, timeouts, turns, beganBy>>
  PROVE  RecordsOK' /\ Inv'
<1>1. PICK s : s = [comp[c] EXCEPT !.msg = comp[c].msg, !.reply = "error"]
  OBVIOUS
<1>2. /\ s \in CompState /\ s.pc = comp[c].pc /\ s.msg = comp[c].msg
      /\ s.outcome = comp[c].outcome /\ s.reply = "error"
  BY <1>1 DEF RecordsOK, CompState
<1>3. comp' = [comp EXCEPT ![c] = s]
  BY <1>1 DEF Answer
<1>4. CompFits(c)
  BY DEF Inv, CompsFit
<1> QED
  BY <1>2, <1>3, <1>4, PumpStep DEF Permits, CompFits

LEMMA ReceivePreserves ==
  ASSUME RecordsOK, Inv, NEW c \in Companions, Receive(c)
  PROVE  RecordsOK' /\ Inv'
<1>1. CompFits(c) /\ comp[c] \in CompState
  BY DEF Inv, CompsFit, RecordsOK
<1>2. comp[c].reply \in {"ok", "error"} /\ comp[c].pc \in Requests
  BY <1>1 DEF Receive, CompFits, CompState
<1>3. UNCHANGED <<storeVars, late, timeouts, turns, beganBy>>
  BY DEF Receive
<1>4. comp[c].msg \in Messages \cup {None}
  BY <1>1 DEF CompState
<1>5. ASSUME comp' = [comp EXCEPT ![c] = Resting]
      PROVE  RecordsOK' /\ Inv'
  BY <1>3, <1>5, RestingFacts, PumpStep DEF Permits
<1>6. CASE comp[c].pc = "polling" /\ comp[c].msg # None
  <2>1. comp' = [comp EXCEPT ![c] = Request("beginning", comp[c].msg, "none")]
    BY <1>6 DEF Receive
  <2>2. PICK s \in CompState : /\ s = Request("beginning", comp[c].msg, "none")
                               /\ s.pc = "beginning" /\ s.msg = comp[c].msg
                               /\ s.outcome = "none" /\ s.reply = "none"
    BY <1>4, RequestFacts DEF Requests
  <2> QED
    BY <1>3, <1>4, <1>6, <2>1, <2>2, PumpStep DEF Permits
<1>7. CASE comp[c].pc = "polling" /\ comp[c].msg = None
  BY <1>5, <1>7 DEF Receive
<1>8. CASE comp[c].pc = "beginning" /\ comp[c].reply = "ok"
  <2>1. comp' = [comp EXCEPT ![c] = Request("posting", comp[c].msg, "none")]
    BY <1>8 DEF Receive
  <2>2. Permits(comp[c]) /\ comp[c].msg \in Messages
    BY <1>1, <1>8 DEF Permits, CompFits
  <2>3. PICK s \in CompState : /\ s = Request("posting", comp[c].msg, "none")
                               /\ s.pc = "posting" /\ s.msg = comp[c].msg
                               /\ s.outcome = "none" /\ s.reply = "none"
    BY <1>4, RequestFacts DEF Requests
  <2> QED
    BY <1>3, <2>1, <2>2, <2>3, PumpStep
<1>9. CASE comp[c].pc = "beginning" /\ comp[c].reply # "ok"
  BY <1>5, <1>9 DEF Receive
<1>10. CASE comp[c].pc = "posting"
  <2>1. PICK o \in Settled : o = IF comp[c].reply = "ok" THEN "sent" ELSE "failed"
    BY DEF Settled
  <2>2. comp' = [comp EXCEPT ![c] = Request("acking", comp[c].msg, o)]
    BY <1>10, <2>1 DEF Receive, AfterPosting
  <2>3. comp[c].msg \in Messages /\ (o # "failed" => o = "sent" /\ turns[comp[c].msg] # <<>>)
    BY <1>1, <1>10, <2>1 DEF CompFits
  <2>4. PICK s \in CompState : /\ s = Request("acking", comp[c].msg, o)
                               /\ s.pc = "acking" /\ s.msg = comp[c].msg
                               /\ s.outcome = o /\ s.reply = "none"
    BY <1>4, RequestFacts DEF Requests
  <2> QED
    BY <1>3, <2>2, <2>3, <2>4, PumpStep DEF Permits
<1>11. CASE comp[c].pc = "acking"
  BY <1>5, <1>11 DEF Receive
<1> QED
  BY <1>2, <1>6, <1>7, <1>8, <1>9, <1>10, <1>11 DEF Requests

\* The pump moves on without an answer; its request may still arrive.
LEMMA AbandonStep ==
  ASSUME RecordsOK, Inv, NEW c \in Companions, NEW s \in CompState,
         comp' = [comp EXCEPT ![c] = s], s.reply = "none",
         \/ s.pc \in {"resting", "gone"}
         \/ s.pc = "acking" /\ s.outcome = "failed" /\ s.msg \in Messages,
         late' = late \cup Abandoned(c),
         timeouts' \in 0..MaxTimeouts,
         UNCHANGED <<storeVars, turns, beganBy>>
  PROVE  RecordsOK' /\ Inv'
<1>1. /\ comp' \in [Companions -> CompState] /\ comp'[c] = s
      /\ \A d \in Companions \ {c} : comp'[d] = comp[d]
  BY CompChange
<1>2. UNCHANGED <<status, target, owner, lease, turns, beganBy>>
  BY DEF storeVars
<1>3. CompFits(c) /\ comp[c] \in CompState
  BY DEF Inv, CompsFit, RecordsOK
<1>4. ASSUME NEW r \in Abandoned(c)
      PROVE  /\ r \in LateRequest /\ LateFits(r)
             /\ r.pc = "posting" => r.by = c /\ r.msg = comp[c].msg /\ Permits(comp[c])
  <2>1. /\ r = [by |-> c, pc |-> comp[c].pc, msg |-> comp[c].msg, outcome |-> comp[c].outcome]
        /\ comp[c].pc \in Requests /\ comp[c].reply = "none"
    BY DEF Abandoned
  <2>2. /\ r \in LateRequest /\ r.by = c /\ r.pc = comp[c].pc
        /\ r.msg = comp[c].msg /\ r.outcome = comp[c].outcome
    BY <1>3, <2>1 DEF LateRequest, CompState
  <2>3. r.pc = "posting" => Permits(comp[c])
    BY <2>1, <2>2 DEF Permits
  <2>4. LateFits(r)
    BY <1>3, <2>2, <2>3 DEF CompFits, LateFits
  <2> QED
    BY <2>2, <2>3, <2>4
<1>5. RecordsOK'
  BY <1>1, <1>2, <1>4 DEF RecordsOK
<1>6. MailFits' /\ TurnsFit'
  BY <1>2 DEF Inv, MailFits, TurnsFit
<1>7. LateOnesFit'
  BY <1>2, <1>4 DEF Inv, LateOnesFit, LateFits
<1>8. CompFits(c)'
  BY <1>1 DEF CompFits, Permits, Requests
<1>9. ASSUME NEW d \in Companions, d # c
      PROVE  CompFits(d)'
  <2>1. CompFits(d) /\ comp'[d] = comp[d]
    BY <1>1, <1>9 DEF Inv, CompsFit
  <2>2. ASSUME Permits(comp[d]), NEW r \in Abandoned(c), r.pc = "posting"
        PROVE  r.msg # comp[d].msg
    BY <1>3, <1>4, <1>9, <2>1, <2>2 DEF CompFits
  <2> QED
    BY <1>2, <2>1, <2>2 DEF CompFits
<1> QED
  BY <1>5, <1>6, <1>7, <1>8, <1>9 DEF Inv, CompsFit

LEMMA TimesOutPreserves ==
  ASSUME RecordsOK, Inv, NEW c \in Companions, TimesOut(c)
  PROVE  RecordsOK' /\ Inv'
<1>1. /\ late' = late \cup Abandoned(c) /\ UNCHANGED <<storeVars, turns, beganBy>>
      /\ timeouts' \in 0..MaxTimeouts
  BY BoundsAssumption DEF TimesOut, RecordsOK
<1>2. CASE comp[c].pc = "posting"
  <2>1. comp' = [comp EXCEPT ![c] = Request("acking", comp[c].msg, "failed")]
    BY <1>2 DEF TimesOut, AfterPosting
  <2>2. comp[c].msg \in Messages
    BY <1>2 DEF Inv, CompsFit, CompFits
  <2>3. PICK s \in CompState : /\ s = Request("acking", comp[c].msg, "failed")
                               /\ s.pc = "acking" /\ s.msg = comp[c].msg
                               /\ s.outcome = "failed" /\ s.reply = "none"
    BY <2>2, RequestFacts DEF Requests, Settled
  <2> QED
    BY <1>1, <2>1, <2>2, <2>3, AbandonStep
<1>3. CASE comp[c].pc # "posting"
  <2>1. comp' = [comp EXCEPT ![c] = Resting]
    BY <1>3 DEF TimesOut
  <2> QED
    BY <1>1, <2>1, RestingFacts, AbandonStep
<1> QED
  BY <1>2, <1>3

LEMMA DisappearPreserves ==
  ASSUME RecordsOK, Inv, NEW c \in Companions, Disappear(c)
  PROVE  RecordsOK' /\ Inv'
<1>1. /\ late' = late \cup Abandoned(c) /\ UNCHANGED <<storeVars, turns, beganBy>>
      /\ timeouts' \in 0..MaxTimeouts
      /\ comp' = [comp EXCEPT ![c] = [Resting EXCEPT !.pc = "gone"]]
  BY DEF Disappear, RecordsOK
<1> QED
  BY <1>1, RestingFacts, AbandonStep

-----------------------------------------------------------------------------
(* Requests that arrive at the mailbox or at ChatGPT, awaited or late. *)

\* Nobody relies on what poll changes.
LEMMA PollArrives ==
  ASSUME RecordsOK, Inv, NEW c \in Companions, NEW k \in Messages \cup {None}, Poll(c, k),
         UNCHANGED <<timeouts, turns>>, late' \subseteq late
  PROVE  /\ comp' \in [Companions -> CompState] => RecordsOK'
         /\ MailFits' /\ TurnsFit' /\ LateOnesFit'
         /\ \A d \in Companions : comp'[d] = comp[d] => CompFits(d)'
<1>1. /\ status' \in [Messages -> Active \cup Settled \cup {"none", "lost"}]
      /\ owner' \in [Messages -> Companions \cup {None}]
      /\ lease' \in [Messages -> {"none", "running", "over"}]
      /\ MailFits' /\ UNCHANGED <<target, beganBy>>
  BY PollFacts DEF Inv, Poll
<1>2. comp' \in [Companions -> CompState] => RecordsOK'
  BY <1>1 DEF RecordsOK
<1>3. TurnsFit' /\ LateOnesFit'
  BY <1>1 DEF Inv, TurnsFit, LateOnesFit, LateFits
<1>4. \A d \in Companions : comp'[d] = comp[d] => CompFits(d)'
  BY <1>1 DEF Inv, CompsFit, CompFits
<1> QED
  BY <1>1, <1>2, <1>3, <1>4

\* The first begin_send of m: nobody holds a permit for m.
LEMMA BeginArrives ==
  ASSUME RecordsOK, Inv, NEW c \in Companions, NEW m \in Messages,
         MayBegin(c, m), BeginSend(c, m),
         UNCHANGED <<timeouts, turns>>, late' \subseteq late
  PROVE  /\ comp' \in [Companions -> CompState] => RecordsOK'
         /\ MailFits' /\ TurnsFit' /\ LateOnesFit'
         /\ \A d \in Companions : comp'[d] = comp[d] => CompFits(d)'
         /\ beganBy'[m] = c /\ turns[m] = <<>>
         /\ \A r \in late : r.pc = "posting" => r.msg # m
<1>1. /\ beganBy[m] = None /\ beganBy'[m] = c /\ MailFits'
      /\ \A k \in Messages \ {m} : beganBy'[k] = beganBy[k] /\ status'[k] = status[k]
  BY BeginFacts DEF Inv
<1>2. ASSUME comp' \in [Companions -> CompState]
      PROVE  RecordsOK'
  BY <1>2 DEF RecordsOK, BeginSend, Active
<1>3. turns[m] = <<>>
  BY <1>1 DEF Inv, TurnsFit
<1>4. ASSUME NEW r \in late, r.pc = "posting"
      PROVE  r.msg # m /\ r.msg \in Messages
  <2>1. r.by # None /\ LateFits(r)
    BY NoneAssumption DEF RecordsOK, LateRequest, Inv, LateOnesFit
  <2> QED
    BY <1>1, <1>4, <2>1 DEF LateFits
<1>5. TurnsFit'
  BY <1>1, <1>3 DEF Inv, TurnsFit
<1>6. LateOnesFit'
  <2> SUFFICES ASSUME NEW r \in late PROVE LateFits(r)'
    BY DEF LateOnesFit
  <2>1. LateFits(r)
    BY DEF Inv, LateOnesFit
  <2> QED
    BY <1>1, <1>4, <2>1 DEF LateFits
<1>7. ASSUME NEW d \in Companions, comp'[d] = comp[d]
      PROVE  CompFits(d)'
  <2>1. CompFits(d) /\ d # None
    BY NoneAssumption DEF Inv, CompsFit
  <2>2. Permits(comp[d]) => comp[d].msg \in Messages \ {m}
    BY <1>1, <2>1 DEF CompFits, Permits
  <2> QED
    BY <1>1, <1>7, <2>1, <2>2 DEF CompFits
<1> QED
  BY <1>1, <1>2, <1>3, <1>4, <1>5, <1>6, <1>7

LEMMA AckArrives ==
  ASSUME RecordsOK, Inv, NEW c \in Companions, NEW m \in Messages, NEW o \in Settled,
         MayAck(c, m), Ack(m, o),
         UNCHANGED <<timeouts, turns>>, late' \subseteq late
  PROVE  /\ comp' \in [Companions -> CompState] => RecordsOK'
         /\ MailFits' /\ TurnsFit' /\ LateOnesFit'
         /\ \A d \in Companions : comp'[d] = comp[d] => CompFits(d)'
<1>1. MailFits' /\ UNCHANGED <<target, owner, beganBy>>
  BY AckFacts DEF Inv, Ack
<1>2. ASSUME comp' \in [Companions -> CompState]
      PROVE  RecordsOK'
  BY <1>1, <1>2 DEF RecordsOK, Ack
<1>3. TurnsFit' /\ LateOnesFit'
  BY <1>1 DEF Inv, TurnsFit, LateOnesFit, LateFits
<1>4. \A d \in Companions : comp'[d] = comp[d] => CompFits(d)'
  BY <1>1 DEF Inv, CompsFit, CompFits
<1> QED
  BY <1>1, <1>2, <1>3, <1>4

\* ChatGPT starts a turn for the one permit of m.
LEMMA TurnStarts ==
  ASSUME RecordsOK, Inv, NEW c \in Companions, NEW m \in Messages,
         beganBy[m] = c, turns[m] = <<>>,
         turns' = [turns EXCEPT ![m] = Append(@, c)],
         UNCHANGED <<storeVars, timeouts, beganBy>>,
         late' \subseteq late, \A r \in late' : r.pc = "posting" => r.msg # m
  PROVE  /\ comp' \in [Companions -> CompState] => RecordsOK'
         /\ MailFits' /\ TurnsFit' /\ LateOnesFit'
         /\ \A d \in Companions :
              comp'[d] = comp[d] /\ ~(Permits(comp[d]) /\ comp[d].msg = m) => CompFits(d)'
         /\ turns'[m] = <<c>>
<1>1. turns'[m] = <<c>> /\ \A k \in Messages \ {m} : turns'[k] = turns[k]
  BY DEF RecordsOK
<1>2. UNCHANGED <<status, target, owner, lease, timeouts, beganBy>>
  BY DEF storeVars
<1>3. turns' \in [Messages -> Seq(Companions)]
  BY AppendProperties DEF RecordsOK
<1>4. ASSUME comp' \in [Companions -> CompState]
      PROVE  RecordsOK'
  BY <1>2, <1>3, <1>4 DEF RecordsOK
<1>5. MailFits' /\ TurnsFit'
  BY <1>1, <1>2, NoneAssumption DEF Inv, MailFits, TurnsFit
<1>6. LateOnesFit'
  <2> SUFFICES ASSUME NEW r \in late' PROVE LateFits(r)'
    BY DEF LateOnesFit
  <2>1. LateFits(r)
    BY DEF Inv, LateOnesFit
  <2> QED
    BY <1>1, <1>2, <2>1 DEF LateFits
<1>7. ASSUME NEW d \in Companions, comp'[d] = comp[d], ~(Permits(comp[d]) /\ comp[d].msg = m)
      PROVE  CompFits(d)'
  <2>1. CompFits(d)
    BY DEF Inv, CompsFit
  <2> QED
    BY <1>1, <1>2, <1>7, <2>1 DEF CompFits, Permits
<1> QED
  BY <1>1, <1>4, <1>5, <1>6, <1>7

LEMMA ServePreserves ==
  ASSUME RecordsOK, Inv, NEW c \in Companions, Serve(c)
  PROVE  RecordsOK' /\ Inv'
<1> PICK m : m = comp[c].msg
  OBVIOUS
<1>1. CompFits(c) /\ comp[c] \in CompState
  BY DEF Inv, CompsFit, RecordsOK
<1>2. UNCHANGED <<late, timeouts, turns>> /\ comp[c].reply = "none"
  BY DEF Serve
<1>3. ASSUME NEW k \in Messages \cup {None}, comp[c].pc = "polling", Poll(c, k), Answer(c, k, "ok")
      PROVE  RecordsOK' /\ Inv'
  <2>1. /\ comp' \in [Companions -> CompState]
        /\ comp'[c].pc = "polling" /\ \A d \in Companions \ {c} : comp'[d] = comp[d]
    BY <1>3, AnswerFacts
  <2>2. /\ RecordsOK' /\ MailFits' /\ TurnsFit' /\ LateOnesFit'
        /\ \A d \in Companions \ {c} : CompFits(d)'
    BY <1>2, <1>3, <2>1, PollArrives
  <2>3. CompFits(c)'
    BY <2>1 DEF CompFits, Permits, Requests
  <2> QED
    BY <2>2, <2>3 DEF Inv, CompsFit
<1>4. ASSUME comp[c].pc = "beginning", MayBegin(c, m), BeginSend(c, m), Answer(c, m, "ok")
      PROVE  RecordsOK' /\ Inv'
  <2>1. m \in Messages
    BY <1>1, <1>4 DEF CompFits
  <2>2. /\ comp' \in [Companions -> CompState]
        /\ comp'[c].pc = "beginning" /\ comp'[c].msg = m /\ comp'[c].reply = "ok"
        /\ comp'[c].outcome = comp[c].outcome
        /\ \A d \in Companions \ {c} : comp'[d] = comp[d]
    BY <1>4, <2>1, AnswerFacts
  <2>3. /\ RecordsOK' /\ MailFits' /\ TurnsFit' /\ LateOnesFit'
        /\ \A d \in Companions \ {c} : CompFits(d)'
        /\ beganBy'[m] = c /\ turns[m] = <<>>
        /\ \A r \in late : r.pc = "posting" => r.msg # m
    BY <1>2, <1>4, <2>1, <2>2, BeginArrives
  <2>4. CompFits(c)'
    BY <1>1, <1>2, <1>4, <2>1, <2>2, <2>3 DEF CompFits, Requests
  <2> QED
    BY <2>3, <2>4 DEF Inv, CompsFit
<1>5. ASSUME comp[c].pc = "acking", MayAck(c, m), Ack(m, comp[c].outcome), Answer(c, m, "ok")
      PROVE  RecordsOK' /\ Inv'
  <2>1. m \in Messages /\ comp[c].outcome \in Settled
    BY <1>1, <1>5 DEF CompFits, Settled
  <2>2. /\ comp' \in [Companions -> CompState]
        /\ comp'[c].pc = "acking" /\ comp'[c].msg = m /\ comp'[c].reply = "ok"
        /\ comp'[c].outcome = comp[c].outcome
        /\ \A d \in Companions \ {c} : comp'[d] = comp[d]
    BY <1>5, <2>1, AnswerFacts
  <2>3. /\ RecordsOK' /\ MailFits' /\ TurnsFit' /\ LateOnesFit'
        /\ \A d \in Companions \ {c} : CompFits(d)'
    BY <1>2, <1>5, <2>1, <2>2, AckArrives
  <2>4. CompFits(c)'
    BY <1>1, <1>2, <1>5, <2>1, <2>2 DEF CompFits, Permits, Requests
  <2> QED
    BY <2>3, <2>4 DEF Inv, CompsFit
<1>6. ASSUME comp[c].pc \in {"beginning", "acking"}, Answer(c, m, "error"),
             UNCHANGED <<storeVars, beganBy>>
      PROVE  RecordsOK' /\ Inv'
  BY <1>2, <1>6, ErrorPreserves DEF Requests
<1> QED
  BY <1>3, <1>4, <1>5, <1>6 DEF Serve

LEMMA HostAcceptsPreserves ==
  ASSUME RecordsOK, Inv, NEW c \in Companions, HostAccepts(c)
  PROVE  RecordsOK' /\ Inv'
<1> PICK m : m = comp[c].msg
  OBVIOUS
<1>1. CompFits(c) /\ comp[c].pc = "posting" /\ comp[c].reply = "none"
  BY DEF Inv, CompsFit, HostAccepts
<1>2. /\ m \in Messages /\ beganBy[m] = c /\ turns[m] = <<>>
      /\ \A r \in late : r.pc = "posting" => r.msg # m
  BY <1>1 DEF CompFits, Permits
<1>3. /\ turns' = [turns EXCEPT ![m] = Append(@, c)] /\ Answer(c, m, "ok")
      /\ UNCHANGED <<storeVars, late, timeouts, beganBy>>
  BY DEF HostAccepts
<1>4. /\ comp' \in [Companions -> CompState]
      /\ comp'[c].pc = "posting" /\ comp'[c].msg = m /\ comp'[c].reply = "ok"
      /\ comp'[c].outcome = comp[c].outcome
      /\ \A d \in Companions \ {c} : comp'[d] = comp[d]
  BY <1>1, <1>2, <1>3, AnswerFacts
<1>5. ASSUME NEW d \in Companions \ {c}
      PROVE  ~(Permits(comp[d]) /\ comp[d].msg = m)
  BY <1>2, <1>5 DEF Inv, CompsFit, CompFits
<1>6. /\ RecordsOK' /\ MailFits' /\ TurnsFit' /\ LateOnesFit'
      /\ \A d \in Companions \ {c} : CompFits(d)'
      /\ turns'[m] = <<c>>
  <2>1. late' \subseteq late /\ \A r \in late' : r.pc = "posting" => r.msg # m
    BY <1>2, <1>3
  <2> QED
    BY <1>2, <1>3, <1>4, <1>5, <2>1, TurnStarts
<1>7. CompFits(c)'
  BY <1>1, <1>2, <1>4, <1>6 DEF CompFits, Permits, Requests
<1> QED
  BY <1>6, <1>7 DEF Inv, CompsFit

LEMMA ServeLatePreserves ==
  ASSUME RecordsOK, Inv, NEW r \in late, ServeLate(r)
  PROVE  RecordsOK' /\ Inv'
<1>1. LateFits(r) /\ r \in LateRequest /\ r.by \in Companions
  BY DEF Inv, LateOnesFit, RecordsOK, LateRequest
<1>2. /\ late' = late \ {r} /\ UNCHANGED <<comp, timeouts>>
      /\ late' \subseteq late /\ comp' \in [Companions -> CompState]
      /\ \A d \in Companions : comp'[d] = comp[d]
  BY DEF ServeLate, RecordsOK
<1>3. ASSUME NEW k \in Messages \cup {None}, Poll(r.by, k), UNCHANGED turns
      PROVE  RecordsOK' /\ Inv'
  BY <1>1, <1>2, <1>3, PollArrives DEF Inv, CompsFit
<1>4. ASSUME r.pc = "beginning", MayBegin(r.by, r.msg), BeginSend(r.by, r.msg), UNCHANGED turns
      PROVE  RecordsOK' /\ Inv'
  <2>1. r.msg \in Messages
    BY <1>1, <1>4 DEF LateFits
  <2> QED
    BY <1>1, <1>2, <1>4, <2>1, BeginArrives DEF Inv, CompsFit
<1>5. ASSUME r.pc = "acking", MayAck(r.by, r.msg), Ack(r.msg, r.outcome), UNCHANGED turns
      PROVE  RecordsOK' /\ Inv'
  <2>1. r.msg \in Messages /\ r.outcome \in Settled
    BY <1>1, <1>5 DEF LateFits, Settled
  <2> QED
    BY <1>1, <1>2, <1>5, <2>1, AckArrives DEF Inv, CompsFit
<1>6. ASSUME r.pc = "posting", turns' = [turns EXCEPT ![r.msg] = Append(@, r.by)],
             UNCHANGED <<storeVars, beganBy>>
      PROVE  RecordsOK' /\ Inv'
  <2>1. r.msg \in Messages /\ beganBy[r.msg] = r.by /\ turns[r.msg] = <<>> /\ r.outcome = "none"
    BY <1>1, <1>6 DEF LateFits
  <2>2. ASSUME NEW q \in late', q.pc = "posting"
        PROVE  q.msg # r.msg
    <3>1. q \in LateRequest /\ LateFits(q) /\ q # r
      BY <1>2 DEF Inv, LateOnesFit, RecordsOK
    <3>2. q.outcome = "none" /\ (q.msg = r.msg => q.by = r.by)
      BY <2>1, <2>2, <3>1 DEF LateFits
    <3> QED
      BY <1>1, <1>6, <2>1, <2>2, <3>1, <3>2 DEF LateRequest
  <2>3. ASSUME NEW d \in Companions
        PROVE  ~(Permits(comp[d]) /\ comp[d].msg = r.msg)
    BY <1>6 DEF Inv, CompsFit, CompFits
  <2> QED
    BY <1>1, <1>2, <1>6, <2>1, <2>2, <2>3, TurnStarts DEF Inv, CompsFit
<1> QED
  BY <1>3, <1>4, <1>5, <1>6 DEF ServeLate

\* Actions that no companion notices.
LEMMA MailOnly ==
  ASSUME RecordsOK, Inv, MailFits',
         status' \in [Messages -> Active \cup Settled \cup {"none", "lost"}],
         target' \in [Messages -> Hosts \cup {None}],
         owner' \in [Messages -> Companions \cup {None}],
         lease' \in [Messages -> {"none", "running", "over"}],
         UNCHANGED <<comp, late, timeouts, turns, beganBy>>
  PROVE  RecordsOK' /\ Inv'
<1>1. RecordsOK'
  BY DEF RecordsOK
<1>2. TurnsFit' /\ LateOnesFit'
  BY DEF Inv, TurnsFit, LateOnesFit, LateFits
<1>3. CompsFit'
  BY DEF Inv, CompsFit, CompFits
<1> QED
  BY <1>1, <1>2, <1>3 DEF Inv

LEMMA MailboxPreserves ==
  ASSUME RecordsOK, Inv,
         \/ \E m \in Messages, h \in Hosts \cup {None} : Enqueue(m, h)
         \/ \E m \in Messages : LeaseEnds(m)
         \/ Status
         \/ Restart
  PROVE  RecordsOK' /\ Inv'
<1>1. ASSUME NEW m \in Messages, NEW h \in Hosts \cup {None}, Enqueue(m, h)
      PROVE  RecordsOK' /\ Inv'
  <2>1. /\ status' \in [Messages -> Active \cup Settled \cup {"none", "lost"}]
        /\ target' \in [Messages -> Hosts \cup {None}]
        /\ status[m] = "none" /\ status'[m] = "pending"
        /\ \A k \in Messages \ {m} : status'[k] = status[k] /\ target'[k] = target[k]
        /\ UNCHANGED <<owner, lease, comp, late, timeouts, turns, beganBy>>
    BY <1>1 DEF Enqueue, RecordsOK, Active
  <2>2. MailFits'
    BY <2>1 DEF Inv, MailFits, Queued
  <2> QED
    BY <2>1, <2>2, MailOnly DEF RecordsOK
<1>2. ASSUME NEW m \in Messages, LeaseEnds(m)
      PROVE  RecordsOK' /\ Inv'
  <2>1. /\ lease' \in [Messages -> {"none", "running", "over"}]
        /\ UNCHANGED <<status, target, owner, comp, late, timeouts, turns, beganBy>>
    BY <1>2 DEF LeaseEnds, RecordsOK
  <2>2. MailFits'
    BY <2>1 DEF Inv, MailFits
  <2> QED
    BY <2>1, <2>2, MailOnly DEF RecordsOK
<1>3. ASSUME Status
      PROVE  RecordsOK' /\ Inv'
  <2>1. UNCHANGED <<target, comp, late, timeouts, turns, beganBy>>
    BY <1>3 DEF Status
  <2>2. \A m \in Messages : status'[m] = StatusNow(m) /\ owner'[m] = OwnerNow(m)
    BY <1>3 DEF Status
  <2>3. /\ status' \in [Messages -> Active \cup Settled \cup {"none", "lost"}]
        /\ owner' \in [Messages -> Companions \cup {None}]
        /\ lease' \in [Messages -> {"none", "running", "over"}]
    BY <1>3, NowFacts DEF Status, Inv
  <2>4. MailFits'
    BY <2>1, <2>2, NowFacts DEF Inv, MailFits, Queued
  <2> QED
    BY <2>1, <2>3, <2>4, MailOnly DEF RecordsOK
<1>4. ASSUME Restart
      PROVE  RecordsOK' /\ Inv'
  <2>1. /\ status' \in [Messages -> Active \cup Settled \cup {"none", "lost"}]
        /\ owner' \in [Messages -> Companions \cup {None}]
        /\ lease' \in [Messages -> {"none", "running", "over"}]
        /\ \A m \in Messages : status'[m] = IF status[m] = "none" THEN "none" ELSE "lost"
        /\ UNCHANGED <<target, comp, late, timeouts, turns, beganBy>>
    BY <1>4 DEF Restart
  <2>2. MailFits'
    BY <2>1 DEF Inv, MailFits, Queued
  <2> QED
    BY <2>1, <2>2, MailOnly DEF RecordsOK
<1> QED
  BY <1>1, <1>2, <1>3, <1>4

LEMMA RefusePreserves ==
  ASSUME RecordsOK, Inv, NEW c \in Companions, HostRefuses(c)
  PROVE  RecordsOK' /\ Inv'
  BY ErrorPreserves DEF HostRefuses, Requests

LEMMA InvHolds == Spec => [](RecordsOK /\ Inv)
<1>1. Init => RecordsOK /\ Inv
  <2> SUFFICES ASSUME Init PROVE RecordsOK /\ Inv
    OBVIOUS
  <2>1. RecordsOK
    BY RestingFacts, BoundsAssumption DEF Init, RecordsOK
  <2>2. \A c \in Companions : comp[c] = Resting
    BY DEF Init
  <2>3. CompsFit
    BY <2>2, RestingFacts DEF CompsFit, CompFits, Permits
  <2> QED
    BY <2>1, <2>3 DEF Init, Inv, MailFits, TurnsFit, LateOnesFit
<1>2. RecordsOK /\ Inv /\ [Next]_vars => (RecordsOK /\ Inv)'
  <2> SUFFICES ASSUME RecordsOK, Inv, [Next]_vars PROVE RecordsOK' /\ Inv'
    OBVIOUS
  <2>1. CASE UNCHANGED vars
    <3>1. UNCHANGED <<status, target, owner, lease, comp, late, timeouts, turns, beganBy>>
      BY <2>1 DEF vars, storeVars
    <3>2. MailFits'
      BY <3>1 DEF Inv, MailFits
    <3> QED
      BY <3>1, <3>2, MailOnly DEF RecordsOK
  <2> QED
    BY <2>1, MailboxPreserves, PumpPreserves, ServePreserves, ReceivePreserves,
      HostAcceptsPreserves, RefusePreserves, TimesOutPreserves, DisappearPreserves,
      ServeLatePreserves DEF Next, CompanionStep
<1> QED
  BY <1>1, <1>2, PTL DEF Spec

-----------------------------------------------------------------------------
(* What follows *)

\* A turn is only ever started through a companion of the target host.
THEOREM TargetsKept == Spec => []TargetRespected
<1>1. RecordsOK /\ Inv => TargetRespected
  <2> SUFFICES ASSUME RecordsOK, Inv, NEW m \in Messages, NEW c \in ToSet(turns[m])
               PROVE  target[m] \in {None, HostOf[c]}
    BY DEF TargetRespected
  <2>1. PICK i \in DOMAIN turns[m] : c = turns[m][i]
    BY DEF ToSet
  <2>2. turns[m] # <<>> /\ turns[m] \in Seq(Companions)
    BY <2>1, EmptySeq DEF RecordsOK
  <2>3. turns[m] = <<beganBy[m]>> /\ beganBy[m] # None
    BY <2>2 DEF Inv, TurnsFit
  <2>4. c = beganBy[m]
    BY <2>1, <2>3
  <2> QED
    BY <2>3, <2>4 DEF Inv, MailFits
<1> QED
  BY <1>1, InvHolds, PTL

\* Stages after a step on one message.
LEMMA StageFacts ==
  ASSUME RecordsOK, NEW m \in Messages
  PROVE  /\ status[m] \in Queued => Stage(m) = "queued"
         /\ status[m] = "dispatching" => Stage(m) = "handed"
         /\ status[m] \in Settled \cup {"none", "lost"} => Stage(m) = status[m]
         /\ status[m] \in Queued \cup {"dispatching"} \cup Settled \cup {"none", "lost"}
  BY DEF RecordsOK, Stage, Queued, Active, Settled

\* Only Stage, beganBy and turns are seen from outside.
Seen ==
  <<[m \in Messages |-> Stage(m)], {m \in Messages : beganBy[m] # None},
    [m \in Messages |-> Len(turns[m])]>>

LEMMA SameStage ==
  ASSUME RecordsOK, RecordsOK', NEW m \in Messages,
         status[m] \in Queued <=> status'[m] \in Queued,
         status[m] \notin Queued => status'[m] = status[m]
  PROVE  Stage(m)' = Stage(m)
  BY DEF RecordsOK, Stage, Queued, Active, Settled

LEMMA UnseenStep ==
  ASSUME RecordsOK, RecordsOK', UNCHANGED <<turns, beganBy>>,
         \A m \in Messages : /\ status[m] \in Queued <=> status'[m] \in Queued
                             /\ status[m] \notin Queued => status'[m] = status[m]
  PROVE  UNCHANGED Seen
<1>1. \A m \in Messages : Stage(m)' = Stage(m)
  BY SameStage
<1> QED
  BY <1>1 DEF Seen

LEMMA PollUnseen ==
  ASSUME RecordsOK, RecordsOK', Inv, NEW c \in Companions, NEW k \in Messages \cup {None},
         Poll(c, k), UNCHANGED turns
  PROVE  UNCHANGED Seen
<1>1. \A m \in Messages : /\ status[m] \in Queued <=> status'[m] \in Queued
                          /\ status[m] \notin Queued => status'[m] = status[m]
  <2>1. MailFits
    BY DEF Inv
  <2> QED
    BY <2>1, PollFacts
<1>2. UNCHANGED <<turns, beganBy>>
  BY DEF Poll
<1> QED
  BY <1>1, <1>2, UnseenStep

LEMMA HandSeen ==
  ASSUME RecordsOK, RecordsOK', Inv, NEW c \in Companions, NEW m \in Messages,
         MayBegin(c, m), BeginSend(c, m), UNCHANGED turns
  PROVE  Handoff!HandoffNext
<1>1. /\ beganBy[m] = None /\ beganBy'[m] = c /\ c # None
      /\ \A k \in Messages \ {m} : beganBy'[k] = beganBy[k] /\ status'[k] = status[k]
      /\ status[m] \in Queued /\ status'[m] = "dispatching"
  BY BeginFacts, NoneAssumption DEF Inv
<1>2. Stage(m) = "queued" /\ Stage(m)' = "handed"
  BY <1>1 DEF Stage, Queued
<1>3. \A k \in Messages \ {m} : Stage(k)' = Stage(k)
  BY <1>1, SameStage
<1>4. {k \in Messages : beganBy'[k] # None} = {k \in Messages : beganBy[k] # None} \cup {m}
  BY <1>1
<1>5. Handoff!Hand(m)
  BY <1>2, <1>3, <1>4 DEF Handoff!Hand
<1> QED
  BY <1>5 DEF Handoff!HandoffNext

LEMMA SettleSeen ==
  ASSUME RecordsOK, RecordsOK', Inv, NEW c \in Companions, NEW m \in Messages,
         NEW o \in Settled, MayAck(c, m), Ack(m, o), UNCHANGED turns,
         o # "failed" => turns[m] # <<>>
  PROVE  Handoff!HandoffNext
<1>1. /\ status[m] = "dispatching" /\ status'[m] = o
      /\ \A k \in Messages \ {m} : status'[k] = status[k]
  BY AckFacts DEF Inv
<1>2. Stage(m) = "handed" /\ Stage(m)' = o
  BY <1>1 DEF Stage, Settled
<1>3. \A k \in Messages \ {m} : Stage(k)' = Stage(k)
  BY <1>1, SameStage
<1>4. o = "sent" => Len(turns[m]) = 1
  <2> SUFFICES ASSUME o = "sent" PROVE Len(turns[m]) = 1
    OBVIOUS
  <2>1. turns[m] = <<beganBy[m]>>
    BY DEF Inv, TurnsFit
  <2> QED
    BY <2>1
<1>5. UNCHANGED beganBy
  BY DEF Ack
<1>6. Handoff!Settle(m, o)
  BY <1>2, <1>3, <1>4, <1>5 DEF Handoff!Settle
<1> QED
  BY <1>6 DEF Handoff!HandoffNext, Settled

LEMMA TurnSeen ==
  ASSUME RecordsOK, RecordsOK', NEW c \in Companions, NEW m \in Messages,
         beganBy[m] = c, turns[m] = <<>>,
         turns' = [turns EXCEPT ![m] = Append(@, c)], UNCHANGED <<storeVars, beganBy>>
  PROVE  Handoff!HandoffNext
<1>1. /\ turns'[m] = <<c>> /\ Len(turns[m]) = 0 /\ Len(turns'[m]) = 1
      /\ \A k \in Messages \ {m} : turns'[k] = turns[k]
  BY DEF RecordsOK
<1>2. beganBy[m] # None
  BY NoneAssumption
<1>3. \A k \in Messages : Stage(k)' = Stage(k)
  BY DEF storeVars, Stage
<1>4. [k \in Messages |-> Len(turns[k])]'
         = [[k \in Messages |-> Len(turns[k])] EXCEPT ![m] = 1]
  <2>1. \A k \in Messages : Len(turns'[k]) = IF k = m THEN 1 ELSE Len(turns[k])
    BY <1>1
  <2> QED
    BY <2>1
<1>5. UNCHANGED {k \in Messages : beganBy[k] # None} /\ UNCHANGED [k \in Messages |-> Stage(k)]
  BY <1>3
<1>6. Handoff!Turn(m)
  BY <1>1, <1>2, <1>4, <1>5 DEF Handoff!Turn
<1> QED
  BY <1>6 DEF Handoff!HandoffNext

\* The mailbox and its companions keep what HandoffPromise says: at most one
\* turn per message, and sent only if there was one.
THEOREM PromiseKept == Spec => HandoffKept
<1>1. Init => Handoff!HandoffInit
  BY DEF Init, Handoff!HandoffInit, Stage
<1>2. RecordsOK /\ Inv /\ [Next]_vars /\ RecordsOK' => [Handoff!HandoffNext]_Seen
  <2> SUFFICES ASSUME RecordsOK, Inv, [Next]_vars, RecordsOK'
               PROVE  Handoff!HandoffNext \/ UNCHANGED Seen
    OBVIOUS
  <2>1. ASSUME NEW m \in Messages, NEW h \in Hosts \cup {None}, Enqueue(m, h)
        PROVE  Handoff!HandoffNext
    <3>1. /\ status[m] = "none" /\ status'[m] = "pending"
          /\ \A k \in Messages \ {m} : status'[k] = status[k]
          /\ UNCHANGED <<turns, beganBy>>
      BY <2>1 DEF Enqueue, RecordsOK
    <3>2. Stage(m) = "none" /\ Stage(m)' = "queued"
      BY <3>1 DEF Stage
    <3>3. \A k \in Messages \ {m} : Stage(k)' = Stage(k)
      BY <3>1, SameStage
    <3>4. Handoff!Accept(m)
      BY <3>1, <3>2, <3>3 DEF Handoff!Accept
    <3> QED
      BY <3>4 DEF Handoff!HandoffNext
  <2>2. ASSUME NEW m \in Messages, LeaseEnds(m)
        PROVE  UNCHANGED Seen
    BY <2>2, UnseenStep DEF LeaseEnds
  <2>3. ASSUME Status
        PROVE  UNCHANGED Seen
    <3>1. \A m \in Messages : /\ status[m] \in Queued <=> status'[m] \in Queued
                              /\ status[m] \notin Queued => status'[m] = status[m]
      BY <2>3, NowFacts DEF Status, Inv
    <3> QED
      BY <2>3, <3>1, UnseenStep DEF Status
  <2>4. ASSUME NEW c \in Companions, Serve(c)
        PROVE  Handoff!HandoffNext \/ UNCHANGED Seen
    <3>1. CompFits(c) /\ UNCHANGED turns
      BY <2>4 DEF Inv, CompsFit, Serve
    <3>2. ASSUME NEW k \in Messages \cup {None}, Poll(c, k)
          PROVE  UNCHANGED Seen
      BY <3>1, <3>2, PollUnseen
    <3>3. ASSUME comp[c].pc = "beginning", MayBegin(c, comp[c].msg), BeginSend(c, comp[c].msg)
          PROVE  Handoff!HandoffNext
      BY <3>1, <3>3, HandSeen DEF CompFits
    <3>4. ASSUME comp[c].pc = "acking", MayAck(c, comp[c].msg),
                 Ack(comp[c].msg, comp[c].outcome)
          PROVE  Handoff!HandoffNext
      <4>1. /\ comp[c].msg \in Messages /\ comp[c].outcome \in Settled
            /\ comp[c].outcome # "failed" => turns[comp[c].msg] # <<>>
        BY <3>1, <3>4 DEF CompFits, Settled
      <4> QED
        BY <3>1, <3>4, <4>1, SettleSeen
    <3>5. ASSUME UNCHANGED <<storeVars, beganBy>>
          PROVE  UNCHANGED Seen
      BY <3>1, <3>5, UnseenStep DEF storeVars
    <3> QED
      BY <2>4, <3>2, <3>3, <3>4, <3>5 DEF Serve
  <2>5. ASSUME NEW c \in Companions, HostAccepts(c)
        PROVE  Handoff!HandoffNext
    <3>1. /\ comp[c].msg \in Messages /\ beganBy[comp[c].msg] = c
          /\ turns[comp[c].msg] = <<>>
      BY <2>5 DEF Inv, CompsFit, CompFits, Permits, HostAccepts
    <3> QED
      BY <2>5, <3>1, TurnSeen DEF HostAccepts
  <2>6. ASSUME NEW c \in Companions,
               Pump(c) \/ Receive(c) \/ HostRefuses(c) \/ TimesOut(c) \/ Disappear(c)
        PROVE  UNCHANGED Seen
    <3>1. UNCHANGED <<status, turns, beganBy>>
      BY <2>6 DEF Pump, Receive, HostRefuses, TimesOut, Disappear, storeVars
    <3> QED
      BY <3>1, UnseenStep
  <2>7. ASSUME NEW r \in late, ServeLate(r)
        PROVE  Handoff!HandoffNext \/ UNCHANGED Seen
    <3>1. LateFits(r) /\ r.by \in Companions
      BY DEF Inv, LateOnesFit, RecordsOK, LateRequest
    <3>2. ASSUME NEW k \in Messages \cup {None}, Poll(r.by, k), UNCHANGED turns
          PROVE  UNCHANGED Seen
      BY <3>1, <3>2, PollUnseen
    <3>3. ASSUME r.pc = "beginning", MayBegin(r.by, r.msg), BeginSend(r.by, r.msg),
                 UNCHANGED turns
          PROVE  Handoff!HandoffNext
      BY <3>1, <3>3, HandSeen DEF LateFits
    <3>4. ASSUME r.pc = "acking", MayAck(r.by, r.msg), Ack(r.msg, r.outcome), UNCHANGED turns
          PROVE  Handoff!HandoffNext
      <4>1. /\ r.msg \in Messages /\ r.outcome \in Settled
            /\ r.outcome # "failed" => turns[r.msg] # <<>>
        BY <3>1, <3>4 DEF LateFits, Settled
      <4> QED
        BY <3>1, <3>4, <4>1, SettleSeen
    <3>5. ASSUME r.pc = "posting", turns' = [turns EXCEPT ![r.msg] = Append(@, r.by)],
                 UNCHANGED <<storeVars, beganBy>>
          PROVE  Handoff!HandoffNext
      BY <3>1, <3>5, TurnSeen DEF LateFits
    <3> QED
      BY <2>7, <3>2, <3>3, <3>4, <3>5 DEF ServeLate
  <2>8. ASSUME Restart
        PROVE  Handoff!HandoffNext
    <3>1. /\ \A m \in Messages : status'[m] = IF status[m] = "none" THEN "none" ELSE "lost"
          /\ UNCHANGED <<turns, beganBy>>
      BY <2>8 DEF Restart
    <3>2. \A m \in Messages : Stage(m)' = IF Stage(m) = "none" THEN "none" ELSE "lost"
      BY <3>1, StageFacts DEF Stage, Queued, Settled
    <3>3. Handoff!LoseAll
      BY <3>1, <3>2 DEF Handoff!LoseAll
    <3> QED
      BY <3>3 DEF Handoff!HandoffNext
  <2>9. CASE UNCHANGED vars
    BY <2>9, UnseenStep DEF vars, storeVars
  <2> QED
    BY <2>1, <2>2, <2>3, <2>4, <2>5, <2>6, <2>7, <2>8, <2>9 DEF Next, CompanionStep
<1> QED
  BY <1>1, <1>2, InvHolds, PTL DEF Spec, HandoffKept, Handoff!HandoffSpec, Seen,
    Handoff!handoffVars

-----------------------------------------------------------------------------
(* Filtering a list *)

\* Induction over the natural numbers, as the existence of least elements.
LEMMA LeastNatural ==
  ASSUME NEW T, T \subseteq Nat, T # {}
  PROVE  \E n \in T : \A m \in T : n <= m
<1> DEFINE R == {p \in Nat \X Nat : p[1] < p[2]}
<1>1. IsWellFoundedOn(R, Nat)
  <2>1. IsWellFoundedOn(OpToRel(<, Nat), Nat)
    BY NatLessThanWellFounded
  <2>2. OpToRel(<, Nat) = R
    BY DEF OpToRel
  <2> QED
    BY <2>1, <2>2
<1> HIDE DEF R
<1>2. PICK n \in T : \A m \in T : <<m, n>> \notin R
  BY <1>1, WFMin
<1>3. ASSUME NEW m \in T PROVE n <= m
  <2>1. m \in Nat /\ n \in Nat
    OBVIOUS
  <2>2. ~(m < n)
    BY <1>2, <2>1 DEF R
  <2> QED
    BY <2>1, <2>2
<1> QED
  BY <1>3

\* The recursive function that filters the first n elements of ms.
Filters(f, ms, S, n) ==
  f = [i \in 0..n |-> IF i = 0 THEN <<>>
                      ELSE IF status[ms[i]] \in S THEN Append(f[i - 1], ms[i]) ELSE f[i - 1]]

LEMMA FilterExists ==
  ASSUME NEW ms, NEW S, NEW n \in Nat
  PROVE  \E f : Filters(f, ms, S, n)
<1> DEFINE T == {m \in Nat : ~ \E f : Filters(f, ms, S, m)}
<1> SUFFICES ASSUME T # {} PROVE FALSE
  OBVIOUS
<1>1. PICK m \in T : \A k \in T : m <= k
  <2> HIDE DEF T
  <2>1. T \subseteq Nat
    BY DEF T
  <2> QED
    BY <2>1, LeastNatural
<1>2. CASE m = 0
  <2> DEFINE f == [i \in 0..0 |-> <<>>]
  <2>1. Filters(f, ms, S, 0)
    BY DEF Filters
  <2> QED
    BY <1>2, <2>1
<1>3. CASE m # 0
  <2>1. m - 1 \in Nat /\ m - 1 \notin T
    BY <1>1, <1>3
  <2>2. PICK g : Filters(g, ms, S, m - 1)
    BY <2>1
  <2> DEFINE last == IF status[ms[m]] \in S THEN Append(g[m - 1], ms[m]) ELSE g[m - 1]
             f == [i \in 0..m |-> IF i = m THEN last ELSE g[i]]
  <2> HIDE DEF last
  <2>3. \A i \in 0..m - 1 : f[i] = g[i]
    BY <2>1
  <2>4. f[m] = last
    BY <2>1
  <2> DEFINE step(i) == IF i = 0 THEN <<>>
                        ELSE IF status[ms[i]] \in S THEN Append(f[i - 1], ms[i]) ELSE f[i - 1]
  <2>5. \A i \in 0..m : f[i] = step(i)
    <3> SUFFICES ASSUME NEW i \in 0..m PROVE f[i] = step(i)
      OBVIOUS
    <3> HIDE DEF f
    <3>1. CASE i = m
      <4>1. m - 1 \in 0..m - 1
        BY <2>1
      <4> QED
        BY <1>3, <2>3, <2>4, <3>1, <4>1 DEF last
    <3>2. CASE i # m
      <4>1. i \in 0..m - 1 /\ (i # 0 => i - 1 \in 0..m - 1)
        BY <2>1, <3>2
      <4>2. g[i] = IF i = 0 THEN <<>>
                   ELSE IF status[ms[i]] \in S THEN Append(g[i - 1], ms[i]) ELSE g[i - 1]
        BY <2>2, <4>1 DEF Filters
      <4> QED
        BY <2>3, <4>1, <4>2
    <3> QED
      BY <3>1, <3>2
  <2>6. f = [i \in 0..m |-> step(i)]
    BY <2>5
  <2>7. Filters(f, ms, S, m)
    BY <2>6 DEF Filters
  <2> QED
    BY <1>1, <2>7
<1> QED
  BY <1>2, <1>3

\* g consists of those of the first n elements of ms whose status is in S.
Sifted(g, ms, S, n) ==
  /\ g \in Seq(Messages) /\ Len(g) <= n
  /\ \A j \in DOMAIN g : \E h \in 1..n : g[j] = ms[h] /\ status[ms[h]] \in S
  /\ \A h \in 1..n : status[ms[h]] \in S => \E j \in DOMAIN g : g[j] = ms[h]
  /\ NoRepeats(ms) => NoRepeats(g)

LEMMA SiftedStep ==
  ASSUME NEW ms \in Seq(Messages), NEW S, NEW n \in 1..Len(ms), NEW g,
         Sifted(g, ms, S, n - 1)
  PROVE  Sifted(IF status[ms[n]] \in S THEN Append(g, ms[n]) ELSE g, ms, S, n)
<1>1. /\ Len(ms) \in Nat /\ n \in Nat \ {0} /\ DOMAIN ms = 1..Len(ms)
      /\ ms[n] \in Messages /\ n \in DOMAIN ms
  BY LenProperties, ElementOfSeq
<1>2. /\ g \in Seq(Messages) /\ Len(g) \in Nat /\ Len(g) <= n - 1 /\ DOMAIN g = 1..Len(g)
      /\ \A j \in DOMAIN g : \E h \in 1..n - 1 : g[j] = ms[h] /\ status[ms[h]] \in S
      /\ \A h \in 1..n - 1 : status[ms[h]] \in S => \E j \in DOMAIN g : g[j] = ms[h]
      /\ NoRepeats(ms) => NoRepeats(g)
  BY LenProperties DEF Sifted
<1>3. \A h \in 1..n : h = n \/ h \in 1..n - 1
  BY <1>1
<1>4. \A h \in 1..n - 1 : h \in 1..n /\ h \in DOMAIN ms /\ h # n
  BY <1>1
<1>5. CASE status[ms[n]] \notin S
  BY <1>1, <1>2, <1>3, <1>4, <1>5 DEF Sifted
<1>6. CASE status[ms[n]] \in S
  <2>1. PICK k : k = Append(g, ms[n])
    OBVIOUS
  <2>2. /\ k \in Seq(Messages) /\ Len(k) = Len(g) + 1 /\ DOMAIN k = 1..Len(g) + 1
        /\ \A j \in 1..Len(g) : k[j] = g[j]
        /\ k[Len(g) + 1] = ms[n]
    <3>1. /\ k \in Seq(Messages) /\ Len(k) = Len(g) + 1
          /\ \A j \in 1..Len(g) : k[j] = g[j]
          /\ k[Len(g) + 1] = ms[n]
      BY <1>1, <1>2, <2>1, AppendProperties
    <3> QED
      BY <3>1, LenProperties
  <2>3. \A j \in DOMAIN k : j \in DOMAIN g \/ j = Len(g) + 1
    BY <1>2, <2>2
  <2>4. Len(k) <= n /\ Len(g) + 1 \in DOMAIN k /\ n \in 1..n /\ DOMAIN g \subseteq DOMAIN k
    BY <1>1, <1>2, <2>2
  <2>5. ASSUME NEW j \in DOMAIN k
        PROVE  \E h \in 1..n : k[j] = ms[h] /\ status[ms[h]] \in S
    <3>1. CASE j \in DOMAIN g
      <4>1. PICK h \in 1..n - 1 : g[j] = ms[h] /\ status[ms[h]] \in S
        BY <1>2, <3>1
      <4>2. k[j] = g[j] /\ h \in 1..n
        BY <1>2, <1>4, <2>2, <3>1
      <4> QED
        BY <4>1, <4>2
    <3>2. CASE j = Len(g) + 1
      BY <1>6, <2>2, <2>4, <3>2
    <3> QED
      BY <2>3, <3>1, <3>2
  <2>6. ASSUME NEW h \in 1..n, status[ms[h]] \in S
        PROVE  \E j \in DOMAIN k : k[j] = ms[h]
    BY <1>2, <1>3, <2>2, <2>4, <2>6
  <2>7. ASSUME NoRepeats(ms) PROVE NoRepeats(k)
    <3>1. \A j \in DOMAIN g : g[j] # ms[n]
      BY <1>1, <1>2, <1>4, <2>7 DEF NoRepeats
    <3> QED
      BY <1>2, <2>2, <2>3, <2>7, <3>1 DEF NoRepeats
  <2> QED
    BY <1>6, <2>1, <2>2, <2>4, <2>5, <2>6, <2>7 DEF Sifted
<1> QED
  BY <1>5, <1>6

\* filter keeps exactly the elements asked for, and repeats none.
LEMMA FilterProperties ==
  ASSUME NEW ms \in Seq(Messages), NEW S
  PROVE  Sifted(Filter(ms, S), ms, S, Len(ms))
<1>1. Len(ms) \in Nat
  BY LenProperties
<1> DEFINE f == CHOOSE f : Filters(f, ms, S, Len(ms))
<1>2. Filters(f, ms, S, Len(ms))
  BY <1>1, FilterExists
<1>3. Filter(ms, S) = f[Len(ms)]
  BY DEF Filter, Filters
<1> HIDE DEF f
<1>4. /\ f[0] = <<>>
      /\ \A n \in 1..Len(ms) :
           f[n] = IF status[ms[n]] \in S THEN Append(f[n - 1], ms[n]) ELSE f[n - 1]
  <2>1. \A i \in 0..Len(ms) :
          f[i] = IF i = 0 THEN <<>>
                 ELSE IF status[ms[i]] \in S THEN Append(f[i - 1], ms[i]) ELSE f[i - 1]
    BY <1>2 DEF Filters
  <2>2. 0 \in 0..Len(ms) /\ \A n \in 1..Len(ms) : n \in 0..Len(ms) /\ n # 0
    BY <1>1
  <2> QED
    BY <2>1, <2>2
<1> DEFINE T == {n \in 0..Len(ms) : ~Sifted(f[n], ms, S, n)}
<1>5. SUFFICES ASSUME T # {} PROVE FALSE
  BY <1>1, <1>3
<1>6. PICK n \in T : \A k \in T : n <= k
  <2>1. T \subseteq Nat
    BY <1>1
  <2> HIDE DEF T
  <2> QED
    BY <1>5, <2>1, LeastNatural
<1>7. CASE n = 0
  <2>1. f[0] \in Seq(Messages) /\ Len(f[0]) = 0 /\ DOMAIN f[0] = {}
    BY <1>4, EmptySeq
  <2>2. Sifted(f[0], ms, S, 0)
    BY <2>1 DEF Sifted, NoRepeats
  <2> QED
    BY <1>6, <1>7, <2>2
<1>8. CASE n # 0
  <2>1. n \in 1..Len(ms) /\ n - 1 \in 0..Len(ms) /\ n - 1 \notin T
    BY <1>1, <1>6, <1>8
  <2>2. Sifted(f[n - 1], ms, S, n - 1)
    BY <2>1
  <2>3. Sifted(f[n], ms, S, n)
    BY <1>4, <2>1, <2>2, SiftedStep
  <2> QED
    BY <1>6, <2>3
<1> QED
  BY <1>7, <1>8

-----------------------------------------------------------------------------
(* The list of the mailbox *)

\* The list repeats no message, holds only messages that were enqueued and
\* all that are active, and is bounded.
ListInv ==
  /\ list \in Seq(Messages)
  /\ NoRepeats(list)
  /\ \A i \in DOMAIN list : status[list[i]] # "none"
  /\ \A m \in Messages : IsActive(m) => InList(m)
  /\ Len(list) <= 2 * MaxQueue

LEMMA ListedFinite ==
  ASSUME NEW ms \in Seq(Messages)
  PROVE  IsFiniteSet({k \in ToSet(ms) : IsActive(k)})
<1>1. Len(ms) \in Nat /\ DOMAIN ms = 1..Len(ms)
  BY LenProperties
<1>2. ms \in Surjection(1..Len(ms), ToSet(ms))
  <2>1. ms \in [1..Len(ms) -> ToSet(ms)] /\ \A k \in ToSet(ms) : \E i \in 1..Len(ms) : ms[i] = k
    BY <1>1, LenProperties DEF ToSet
  <2> QED
    BY <2>1 DEF Surjection
<1>3. IsFiniteSet(ToSet(ms))
  BY <1>1, <1>2, FS_Interval, FS_Surjection
<1>4. {k \in ToSet(ms) : IsActive(k)} \in SUBSET ToSet(ms)
  OBVIOUS
<1> QED
  BY <1>3, <1>4, FS_Subset

\* As many active messages as the filtered list has elements, at least.
LEMMA ActiveCount ==
  ASSUME NEW ms \in Seq(Messages), NoRepeats(ms)
  PROVE  Len(Filter(ms, Active)) <= Cardinality({k \in ToSet(ms) : IsActive(k)})
<1> DEFINE g == Filter(ms, Active)
           A == {k \in ToSet(ms) : IsActive(k)}
<1>1. Sifted(g, ms, Active, Len(ms))
  BY FilterProperties
<1>2. Len(ms) \in Nat /\ DOMAIN ms = 1..Len(ms)
  BY LenProperties
<1> HIDE DEF g
<1>3. /\ g \in Seq(Messages) /\ Len(g) \in Nat /\ DOMAIN g = 1..Len(g) /\ NoRepeats(g)
      /\ \A j \in DOMAIN g : g[j] \in A
  BY <1>1, <1>2, LenProperties DEF Sifted, IsActive, ToSet
<1>5. IsFiniteSet(A)
  BY ListedFinite
<1> HIDE DEF A
<1>6. g \in Injection(1..Len(g), A)
  <2>1. g \in [1..Len(g) -> A]
    BY <1>3, LenProperties
  <2> QED
    BY <1>3, <2>1 DEF Injection, IsInjective, NoRepeats
<1>7. Cardinality(1..Len(g)) <= Cardinality(A)
  BY <1>5, <1>6, FS_Injection
<1>8. Cardinality(1..Len(g)) = Len(g)
  <2>1. PICK n \in Nat : n = Len(g)
    BY <1>3
  <2>2. Cardinality(1..n) = IF 1 > n THEN 0 ELSE n - 1 + 1
    BY FS_Interval
  <2>3. Cardinality(1..n) = n
    BY <2>2
  <2> QED
    BY <2>1, <2>3
<1> QED
  BY <1>7, <1>8 DEF g, A

\* Two sequences that share nothing and repeat nothing repeat nothing
\* together, and together hold the elements of both.
LEMMA ConcatNoRepeats ==
  ASSUME NEW s \in Seq(Messages), NEW t \in Seq(Messages), NoRepeats(s), NoRepeats(t),
         \A i \in DOMAIN s : \A j \in DOMAIN t : s[i] # t[j]
  PROVE  /\ s \o t \in Seq(Messages) /\ Len(s \o t) = Len(s) + Len(t)
         /\ NoRepeats(s \o t)
         /\ \A i \in DOMAIN (s \o t) :
              \/ \E j \in DOMAIN s : (s \o t)[i] = s[j]
              \/ \E j \in DOMAIN t : (s \o t)[i] = t[j]
         /\ \A j \in DOMAIN t : \E i \in DOMAIN (s \o t) : (s \o t)[i] = t[j]
<1> DEFINE n == Len(s)
           m == Len(t)
<1>1. /\ n \in Nat /\ m \in Nat /\ DOMAIN s = 1..n /\ DOMAIN t = 1..m
      /\ s \o t \in Seq(Messages) /\ Len(s \o t) = n + m
      /\ \A i \in 1..n + m : (s \o t)[i] = IF i <= n THEN s[i] ELSE t[i - n]
  BY LenProperties, ConcatProperties
<1>2. PICK u : u = s \o t
  OBVIOUS
<1>3. u \in Seq(Messages) /\ Len(u) = n + m /\ DOMAIN u = 1..n + m
  BY <1>1, <1>2, LenProperties
<1> HIDE DEF n, m
<1>4. \A i \in 1..n + m : \/ i \in 1..n /\ u[i] = s[i]
                          \/ i - n \in 1..m /\ i > n /\ u[i] = t[i - n]
  BY <1>1, <1>2
<1>5. NoRepeats(u)
  <2> SUFFICES ASSUME NEW i \in 1..n + m, NEW j \in 1..n + m, u[i] = u[j] PROVE i = j
    BY <1>3 DEF NoRepeats
  <2>1. CASE i \in 1..n /\ u[i] = s[i] /\ j \in 1..n /\ u[j] = s[j]
    BY <1>1, <2>1 DEF NoRepeats
  <2>2. CASE i \in 1..n /\ u[i] = s[i] /\ j - n \in 1..m /\ u[j] = t[j - n]
    BY <1>1, <2>2
  <2>3. CASE j \in 1..n /\ u[j] = s[j] /\ i - n \in 1..m /\ u[i] = t[i - n]
    BY <1>1, <2>3
  <2>4. CASE i - n \in 1..m /\ u[i] = t[i - n] /\ j - n \in 1..m /\ u[j] = t[j - n]
    <3>1. i - n = j - n
      BY <1>1, <2>4 DEF NoRepeats
    <3> QED
      BY <1>1, <3>1
  <2> QED
    BY <1>4, <2>1, <2>2, <2>3, <2>4
<1>6. \A j \in 1..m : j + n \in 1..n + m /\ u[j + n] = t[j]
  <2> SUFFICES ASSUME NEW j \in 1..m PROVE j + n \in 1..n + m /\ u[j + n] = t[j]
    OBVIOUS
  <2>1. j + n \in 1..n + m /\ ~(j + n <= n) /\ (j + n) - n = j
    BY <1>1
  <2>2. u[j + n] = t[(j + n) - n]
    BY <1>1, <1>2, <2>1
  <2> QED
    BY <2>1, <2>2
<1>7. \A i \in DOMAIN u : (\E j \in DOMAIN s : u[i] = s[j]) \/ (\E j \in DOMAIN t : u[i] = t[j])
  BY <1>1, <1>3, <1>4
<1>8. \A j \in DOMAIN t : \E i \in DOMAIN u : u[i] = t[j]
  BY <1>1, <1>3, <1>6
<1> QED
  BY <1>2, <1>3, <1>5, <1>7, <1>8 DEF n, m

LEMMA AppendNoRepeats ==
  ASSUME NEW s \in Seq(Messages), NEW m \in Messages, NoRepeats(s),
         \A i \in DOMAIN s : s[i] # m
  PROVE  /\ Append(s, m) \in Seq(Messages) /\ Len(Append(s, m)) = Len(s) + 1
         /\ NoRepeats(Append(s, m))
         /\ \A i \in DOMAIN Append(s, m) :
              Append(s, m)[i] = m \/ \E j \in DOMAIN s : Append(s, m)[i] = s[j]
         /\ \A j \in DOMAIN s : \E i \in DOMAIN Append(s, m) : Append(s, m)[i] = s[j]
         /\ \E i \in DOMAIN Append(s, m) : Append(s, m)[i] = m
<1>1. PICK u : u = Append(s, m)
  OBVIOUS
<1>2. /\ Len(s) \in Nat /\ DOMAIN s = 1..Len(s)
      /\ u \in Seq(Messages) /\ Len(u) = Len(s) + 1 /\ DOMAIN u = 1..Len(s) + 1
      /\ \A i \in 1..Len(s) : u[i] = s[i]
      /\ u[Len(s) + 1] = m
  <2>1. /\ u \in Seq(Messages) /\ Len(u) = Len(s) + 1
        /\ \A i \in 1..Len(s) : u[i] = s[i]
        /\ u[Len(s) + 1] = m
    BY <1>1, AppendProperties
  <2> QED
    BY <2>1, LenProperties
<1>3. /\ \A i \in DOMAIN u : i \in DOMAIN s \/ i = Len(s) + 1
      /\ Len(s) + 1 \in DOMAIN u /\ DOMAIN s \subseteq DOMAIN u
  BY <1>2
<1>4. NoRepeats(u)
  BY <1>2, <1>3 DEF NoRepeats
<1> QED
  BY <1>1, <1>2, <1>3, <1>4

\* slice keeps an end of a sequence.
LEMMA SliceNoRepeats ==
  ASSUME NEW s \in Seq(Messages), NoRepeats(s), NEW n \in Nat, n <= Len(s)
  PROVE  LET u == SubSeq(s, Len(s) - n + 1, Len(s)) IN
         /\ u \in Seq(Messages) /\ Len(u) = n /\ NoRepeats(u)
         /\ \A i \in DOMAIN u : \E j \in DOMAIN s : u[i] = s[j]
<1>1. PICK u : u = SubSeq(s, Len(s) - n + 1, Len(s))
  OBVIOUS
<1> DEFINE d == Len(s) - n
<1>2. Len(s) \in Nat /\ DOMAIN s = 1..Len(s) /\ d \in Nat /\ d + n = Len(s)
  BY LenProperties
<1>3. /\ u \in Seq(Messages) /\ Len(u) = n /\ DOMAIN u = 1..n
      /\ \A i \in 1..n : u[i] = s[d + i]
  <2>1. \A i \in d + 1..Len(s) : s[i] \in Messages
    BY <1>2, ElementOfSeq
  <2>2. /\ u \in Seq(Messages)
        /\ Len(u) = IF d + 1 <= Len(s) THEN Len(s) - (d + 1) + 1 ELSE 0
        /\ \A i \in 1..Len(s) - (d + 1) + 1 : u[i] = s[(d + 1) + i - 1]
    <3>1. d + 1 \in Int /\ Len(s) \in Int
      BY <1>2
    <3>2. u = SubSeq(s, d + 1, Len(s))
      BY <1>1
    <3> HIDE DEF d
    <3> QED
      BY <2>1, <3>1, <3>2, SubSeqProperties
  <2> HIDE DEF d
  <2>3. Len(u) = n /\ Len(s) - (d + 1) + 1 = n
    <3>1. ASSUME NEW L \in Nat, d + n = L
          PROVE  L - (d + 1) + 1 = n /\ (IF d + 1 <= L THEN L - (d + 1) + 1 ELSE 0) = n
      BY <1>2, <3>1
    <3> QED
      BY <1>2, <2>2, <3>1
  <2>4. \A i \in 1..n : (d + 1) + i - 1 = d + i
    BY <1>2
  <2> QED
    BY <2>2, <2>3, <2>4, LenProperties
<1> HIDE DEF d
<1>4. \A i \in 1..n : d + i \in 1..Len(s)
  BY <1>2
<1>5. NoRepeats(u)
  <2> SUFFICES ASSUME NEW i \in 1..n, NEW j \in 1..n, u[i] = u[j] PROVE i = j
    BY <1>3 DEF NoRepeats
  <2>1. d + i = d + j
    BY <1>2, <1>3, <1>4 DEF NoRepeats
  <2> QED
    BY <1>2, <2>1
<1> QED
  BY <1>1, <1>2, <1>3, <1>4, <1>5

\* Trimming loses no active message, repeats none and bounds the list.
LEMMA TrimmedProperties ==
  ASSUME RecordsOK, ListInv, NEW m \in Messages, status[m] = "none",
         Cardinality({k \in ToSet(list) : IsActive(k)}) < MaxQueue
  PROVE  LET u == Trimmed(list, m) IN
         /\ u \in Seq(Messages) /\ NoRepeats(u) /\ Len(u) <= 2 * MaxQueue
         /\ \A i \in DOMAIN u : u[i] = m \/ status[u[i]] # "none"
         /\ \A k \in Messages : k = m \/ IsActive(k) => \E i \in DOMAIN u : u[i] = k
<1>1. PICK u : u = Trimmed(list, m)
  OBVIOUS
<1>2. /\ list \in Seq(Messages) /\ NoRepeats(list) /\ Len(list) <= 2 * MaxQueue
      /\ \A i \in DOMAIN list : list[i] # m /\ status[list[i]] # "none"
      /\ \A k \in Messages : IsActive(k) => \E i \in DOMAIN list : list[i] = k
      /\ MaxQueue \in Nat \ {0} /\ Len(list) \in Nat /\ DOMAIN list = 1..Len(list)
  BY BoundsAssumption, LenProperties DEF ListInv, InList, ToSet
<1>3. CASE Len(list) + 1 <= 2 * MaxQueue
  <2>1. u = Append(list, m)
    BY <1>1, <1>3 DEF Trimmed
  <2> QED
    BY <1>1, <1>2, <1>3, <2>1, AppendNoRepeats
<1>4. CASE ~(Len(list) + 1 <= 2 * MaxQueue)
  <2> DEFINE settled == Filter(list, Settled)
             active == Filter(list, Active)
             kept == IF Len(settled) > MaxQueue
                     THEN SubSeq(settled, Len(settled) - MaxQueue + 1, Len(settled))
                     ELSE settled
  <2>1. u = kept \o Append(active, m)
    BY <1>1, <1>4 DEF Trimmed
  <2>2. Sifted(settled, list, Settled, Len(list)) /\ Sifted(active, list, Active, Len(list))
    BY <1>2, FilterProperties
  <2>3. Len(active) < MaxQueue
    <3>1. Len(active) <= Cardinality({k \in ToSet(list) : IsActive(k)})
      BY <1>2, ActiveCount
    <3>2. Len(active) \in Nat
      BY <2>2, LenProperties DEF Sifted
    <3>3. IsFiniteSet({k \in ToSet(list) : IsActive(k)})
      BY <1>2, ListedFinite
    <3>4. Cardinality({k \in ToSet(list) : IsActive(k)}) \in Nat
      BY <3>3, FS_CardinalityType
    <3> QED
      BY <1>2, <3>1, <3>2, <3>4
  <2> HIDE DEF settled, active
  <2>4. /\ settled \in Seq(Messages) /\ NoRepeats(settled) /\ Len(settled) \in Nat
        /\ DOMAIN settled = 1..Len(settled)
        /\ \A i \in DOMAIN settled : \E h \in DOMAIN list : settled[i] = list[h]
        /\ \A i \in DOMAIN settled : status[settled[i]] \in Settled
    BY <1>2, <2>2, LenProperties DEF Sifted
  <2>5. /\ active \in Seq(Messages) /\ NoRepeats(active) /\ Len(active) \in Nat
        /\ \A i \in DOMAIN active : \E h \in DOMAIN list : active[i] = list[h]
        /\ \A i \in DOMAIN active : status[active[i]] \in Active
        /\ \A k \in Messages : IsActive(k) => \E i \in DOMAIN active : active[i] = k
    BY <1>2, <2>2, LenProperties DEF Sifted, IsActive
  <2>6. /\ kept \in Seq(Messages) /\ NoRepeats(kept) /\ Len(kept) <= MaxQueue /\ Len(kept) \in Nat
        /\ \A i \in DOMAIN kept : \E j \in DOMAIN settled : kept[i] = settled[j]
    <3>1. CASE Len(settled) > MaxQueue
      <4>1. MaxQueue \in Nat /\ MaxQueue <= Len(settled)
        BY <1>2, <2>4, <3>1
      <4>2. PICK slice : slice = SubSeq(settled, Len(settled) - MaxQueue + 1, Len(settled))
        OBVIOUS
      <4>3. /\ slice \in Seq(Messages) /\ Len(slice) = MaxQueue /\ NoRepeats(slice)
            /\ \A i \in DOMAIN slice : \E j \in DOMAIN settled : slice[i] = settled[j]
        BY <2>4, <4>1, <4>2, SliceNoRepeats
      <4>4. kept = slice
        BY <3>1, <4>2
      <4> HIDE DEF kept
      <4> QED
        BY <1>2, <4>3, <4>4
    <3>2. CASE ~(Len(settled) > MaxQueue)
      BY <1>2, <2>4, <3>2
    <3> QED
      BY <3>1, <3>2
  <2> HIDE DEF kept
  <2>7. PICK tail : tail = Append(active, m)
    OBVIOUS
  <2>8. /\ tail \in Seq(Messages) /\ Len(tail) = Len(active) + 1 /\ NoRepeats(tail)
        /\ \A i \in DOMAIN tail : tail[i] = m \/ \E j \in DOMAIN active : tail[i] = active[j]
        /\ \A j \in DOMAIN active : \E i \in DOMAIN tail : tail[i] = active[j]
        /\ \E i \in DOMAIN tail : tail[i] = m
    <3>1. \A i \in DOMAIN active : active[i] # m
      BY <1>2, <2>5
    <3> QED
      BY <2>5, <2>7, <3>1, AppendNoRepeats
  <2>9. \A i \in DOMAIN kept : status[kept[i]] \in Settled /\ kept[i] # m
    BY <1>2, <2>4, <2>6
  <2>10. \A j \in DOMAIN tail : tail[j] = m \/ status[tail[j]] \in Active
    BY <2>5, <2>8
  <2>11. \A i \in DOMAIN kept : \A j \in DOMAIN tail : kept[i] # tail[j]
    BY <2>9, <2>10 DEF Settled, Active
  <2>12. /\ u \in Seq(Messages) /\ Len(u) = Len(kept) + Len(tail) /\ NoRepeats(u)
         /\ \A i \in DOMAIN u : \/ \E j \in DOMAIN kept : u[i] = kept[j]
                                \/ \E j \in DOMAIN tail : u[i] = tail[j]
         /\ \A j \in DOMAIN tail : \E i \in DOMAIN u : u[i] = tail[j]
    <3>1. u = kept \o tail
      BY <2>1, <2>7
    <3>2. /\ kept \o tail \in Seq(Messages) /\ Len(kept \o tail) = Len(kept) + Len(tail)
          /\ NoRepeats(kept \o tail)
          /\ \A i \in DOMAIN (kept \o tail) :
               \/ \E j \in DOMAIN kept : (kept \o tail)[i] = kept[j]
               \/ \E j \in DOMAIN tail : (kept \o tail)[i] = tail[j]
          /\ \A j \in DOMAIN tail : \E i \in DOMAIN (kept \o tail) : (kept \o tail)[i] = tail[j]
      <4>1. /\ kept \in Seq(Messages) /\ tail \in Seq(Messages)
            /\ NoRepeats(kept) /\ NoRepeats(tail)
        BY <2>6, <2>8
      <4> QED
        BY <2>11, <4>1, ConcatNoRepeats
    <3> QED
      BY <3>1, <3>2
  <2>13. Len(u) <= 2 * MaxQueue
    BY <1>2, <2>3, <2>5, <2>6, <2>8, <2>12
  <2>14. \A i \in DOMAIN u : u[i] = m \/ status[u[i]] # "none"
    BY <2>9, <2>10, <2>12 DEF Settled, Active
  <2>15. \A k \in Messages : k = m \/ IsActive(k) => \E i \in DOMAIN u : u[i] = k
    BY <2>5, <2>8, <2>12
  <2> QED
    BY <1>1, <2>12, <2>13, <2>14, <2>15
<1> QED
  BY <1>3, <1>4

\* The list and the claims on its messages.
MailInv == ListInv /\ OneClaimEach

\* A step that enqueues nothing, and claims nothing new.
LEMMA QuietMail ==
  ASSUME MailInv, UNCHANGED list,
         \A m \in Messages : /\ IsActive(m)' => IsActive(m)
                             /\ status[m] # "none" => status'[m] # "none"
                             /\ status'[m] = "claimed" => status[m] = "claimed" /\ owner'[m] = owner[m]
  PROVE  MailInv'
<1>1. \A i \in DOMAIN list : list[i] \in Messages
  BY LenProperties, ElementOfSeq DEF MailInv, ListInv
<1>2. ListInv'
  BY <1>1 DEF MailInv, ListInv, NoRepeats, InList
<1>3. OneClaimEach'
  BY DEF MailInv, OneClaimEach
<1> QED
  BY <1>2, <1>3 DEF MailInv

LEMMA PollMail ==
  ASSUME RecordsOK, Inv, MailInv, NEW c \in Companions, NEW k \in Messages \cup {None}, Poll(c, k)
  PROVE  MailInv'
<1> DEFINE mine == {m \in Messages : InList(m) /\ Owns(c, m)}
           open == {m \in Messages : InList(m) /\ MayTake(c, m)}
<1>1. MailFits /\ UNCHANGED list
  BY DEF Inv, Poll
<1>2. \A m \in Messages : /\ status[m] \in Queued <=> status'[m] \in Queued
                          /\ status[m] \notin Queued => status'[m] = status[m]
  BY <1>1, PollFacts
<1>3. ListInv'
  <2>1. \A i \in DOMAIN list : list[i] \in Messages
    BY LenProperties, ElementOfSeq DEF MailInv, ListInv
  <2>2. \A m \in Messages : (IsActive(m)' => IsActive(m)) /\ (status[m] # "none" => status'[m] # "none")
    BY <1>2 DEF IsActive, Queued, Active
  <2> QED
    BY <1>1, <2>1, <2>2 DEF MailInv, ListInv, NoRepeats, InList
<1>4. \A m \in Messages \ {k} : status'[m] = "claimed" =>
        status[m] = "claimed" /\ StatusNow(m) = "claimed" /\ owner'[m] = owner[m] /\ OwnerNow(m) = owner[m]
  <2>1. \A m \in Messages \ {k} : status'[m] = StatusNow(m) /\ owner'[m] = OwnerNow(m)
    BY DEF Poll
  <2> QED
    BY <1>1, <2>1, NowFacts
<1>5. ASSUME k # None, NEW m \in Messages \ {k}, status'[m] = "claimed", owner'[m] = c
      PROVE  FALSE
  <2>1. status[m] = "claimed" /\ StatusNow(m) = "claimed" /\ owner[m] = c /\ OwnerNow(m) = c
    BY <1>4, <1>5
  <2>2. m \in mine
    BY <2>1 DEF MailInv, ListInv, IsActive, Active, Owns
  <2>3. k \in mine
    BY <1>5, <2>2 DEF Poll, Finds, IsFirst
  <2>4. status[k] = "claimed" /\ owner[k] = c
    BY <1>1, <2>3, NowFacts DEF Owns
  <2> QED
    BY <1>5, <2>1, <2>3, <2>4 DEF MailInv, OneClaimEach
<1>6. k # None => k \in Messages /\ owner'[k] = c
  BY DEF Poll
<1>7. OneClaimEach'
  <2> SUFFICES ASSUME NEW m \in Messages, NEW n \in Messages, status'[m] = "claimed",
                      status'[n] = "claimed", owner'[m] = owner'[n], m # n
               PROVE  FALSE
    BY DEF OneClaimEach
  <2>1. CASE m # k /\ n # k
    BY <1>4, <2>1 DEF MailInv, OneClaimEach
  <2>2. CASE m = k \/ n = k
    BY <1>5, <1>6, <2>2, NoneAssumption
  <2> QED
    BY <2>1, <2>2
<1> QED
  BY <1>3, <1>7 DEF MailInv

LEMMA BeginMail ==
  ASSUME RecordsOK, Inv, MailInv, NEW c \in Companions, NEW m \in Messages,
         MayBegin(c, m), BeginSend(c, m)
  PROVE  MailInv'
<1>1. UNCHANGED <<list, owner>> /\ status' = [status EXCEPT ![m] = "dispatching"]
      /\ status[m] = "claimed"
  BY DEF BeginSend, MayBegin
<1> QED
  BY <1>1, QuietMail DEF RecordsOK, IsActive, Active

LEMMA AckMail ==
  ASSUME RecordsOK, MailInv, NEW m \in Messages, NEW o \in Settled, Ack(m, o)
  PROVE  MailInv'
<1>1. UNCHANGED <<list, owner>> /\ status' = [status EXCEPT ![m] = o]
  BY DEF Ack
<1> QED
  BY <1>1, QuietMail DEF RecordsOK, IsActive, Active, Settled

LEMMA MailStep == RecordsOK /\ Inv /\ MailInv /\ [Next]_vars => MailInv'
<1> SUFFICES ASSUME RecordsOK, Inv, MailInv, [Next]_vars PROVE MailInv'
  OBVIOUS
<1>1. ASSUME UNCHANGED <<list, status, owner>> PROVE MailInv'
  BY <1>1, QuietMail DEF IsActive
<1>2. ASSUME NEW m \in Messages, NEW h \in Hosts \cup {None}, Enqueue(m, h) PROVE MailInv'
  <2>1. /\ status[m] = "none" /\ status'[m] = "pending" /\ owner' = owner
        /\ \A k \in Messages \ {m} : status'[k] = status[k]
        /\ Cardinality({k \in ToSet(list) : IsActive(k)}) < MaxQueue
        /\ list' = Trimmed(list, m)
    BY <1>2 DEF Enqueue, RecordsOK
  <2>2. /\ list' \in Seq(Messages) /\ NoRepeats(list') /\ Len(list') <= 2 * MaxQueue
        /\ \A i \in DOMAIN list' : list'[i] = m \/ status[list'[i]] # "none"
        /\ \A k \in Messages : k = m \/ IsActive(k) => \E i \in DOMAIN list' : list'[i] = k
    BY <2>1, TrimmedProperties DEF MailInv
  <2>3. \A i \in DOMAIN list' : list'[i] \in Messages
    BY <2>2, LenProperties, ElementOfSeq
  <2>4. \A k \in Messages : IsActive(k)' => k = m \/ IsActive(k)
    BY <2>1 DEF IsActive
  <2>5. ListInv'
    BY <2>1, <2>2, <2>3, <2>4 DEF ListInv, InList, ToSet, NoRepeats
  <2>6. OneClaimEach'
    BY <2>1 DEF MailInv, OneClaimEach
  <2> QED
    BY <2>5, <2>6 DEF MailInv
<1>3. CASE Status
  <2>1. /\ UNCHANGED list /\ MailFits
        /\ \A m \in Messages : status'[m] = StatusNow(m) /\ owner'[m] = OwnerNow(m)
    BY <1>3 DEF Status, Inv
  <2>2. ASSUME NEW m \in Messages
        PROVE  /\ IsActive(m)' => IsActive(m)
               /\ status[m] # "none" => status'[m] # "none"
               /\ status'[m] = "claimed" => status[m] = "claimed" /\ owner'[m] = owner[m]
    BY <2>1, NowFacts DEF IsActive, Active, Queued
  <2> QED
    BY <2>1, <2>2, QuietMail
<1>4. ASSUME NEW c \in Companions, Serve(c) PROVE MailInv'
  <2>1. CompFits(c)
    BY DEF Inv, CompsFit
  <2>2. ASSUME NEW k \in Messages \cup {None}, Poll(c, k) PROVE MailInv'
    BY <2>2, PollMail
  <2>3. ASSUME comp[c].pc = "beginning", MayBegin(c, comp[c].msg), BeginSend(c, comp[c].msg)
        PROVE  MailInv'
    BY <2>1, <2>3, BeginMail DEF CompFits
  <2>4. ASSUME comp[c].pc = "acking", Ack(comp[c].msg, comp[c].outcome) PROVE MailInv'
    <3>1. comp[c].msg \in Messages /\ comp[c].outcome \in Settled
      BY <2>1, <2>4 DEF CompFits, Settled
    <3> QED
      BY <2>4, <3>1, AckMail
  <2>5. ASSUME UNCHANGED storeVars PROVE MailInv'
    BY <1>1, <2>5 DEF storeVars
  <2> QED
    BY <1>4, <2>2, <2>3, <2>4, <2>5 DEF Serve
<1>5. ASSUME NEW r \in late, ServeLate(r) PROVE MailInv'
  <2>1. LateFits(r) /\ r.by \in Companions
    BY DEF Inv, LateOnesFit, RecordsOK, LateRequest
  <2>2. ASSUME NEW k \in Messages \cup {None}, Poll(r.by, k) PROVE MailInv'
    BY <2>1, <2>2, PollMail
  <2>3. ASSUME r.pc = "beginning", MayBegin(r.by, r.msg), BeginSend(r.by, r.msg) PROVE MailInv'
    BY <2>1, <2>3, BeginMail DEF LateFits
  <2>4. ASSUME r.pc = "acking", Ack(r.msg, r.outcome) PROVE MailInv'
    <3>1. r.msg \in Messages /\ r.outcome \in Settled
      BY <2>1, <2>4 DEF LateFits, Settled
    <3> QED
      BY <2>4, <3>1, AckMail
  <2>5. ASSUME UNCHANGED storeVars PROVE MailInv'
    BY <1>1, <2>5 DEF storeVars
  <2> QED
    BY <1>5, <2>2, <2>3, <2>4, <2>5 DEF ServeLate
<1>6. CASE Restart
  <2>1. /\ list' = <<>>
        /\ \A m \in Messages : status'[m] \in {"none", "lost"}
    BY <1>6 DEF Restart
  <2>2. list' \in Seq(Messages) /\ Len(list') = 0 /\ DOMAIN list' = {}
    BY <2>1, EmptySeq
  <2>3. ListInv'
    BY <2>1, <2>2, BoundsAssumption DEF ListInv, NoRepeats, IsActive, Active
  <2>4. OneClaimEach'
    BY <2>1 DEF OneClaimEach
  <2> QED
    BY <2>3, <2>4 DEF MailInv
<1> QED
  BY <1>1, <1>2, <1>3, <1>4, <1>5, <1>6 DEF Next, CompanionStep, LeaseEnds, Pump, Receive,
    HostAccepts, HostRefuses, TimesOut, Disappear, vars, storeVars

LEMMA MailHolds == Spec => []MailInv
<1>1. Init => MailInv
  <2> SUFFICES ASSUME Init PROVE MailInv
    OBVIOUS
  <2>1. list = <<>> /\ \A m \in Messages : status[m] = "none"
    BY DEF Init
  <2>2. list \in Seq(Messages) /\ Len(list) = 0 /\ DOMAIN list = {}
    BY <2>1, EmptySeq
  <2> QED
    BY <2>1, <2>2, BoundsAssumption DEF MailInv, ListInv, OneClaimEach, NoRepeats, IsActive, Active
<1> QED
  BY <1>1, MailStep, InvHolds, PTL DEF Spec

\* Every component of the state has its type, and the mailbox holds a message once.
THEOREM TypeCorrect == Spec => []TypeOK
<1>1. RecordsOK /\ MailInv => TypeOK
  BY DEF TypeOK, MailInv, ListInv
<1> QED
  BY <1>1, InvHolds, MailHolds, PTL

\* However answers were lost and leases ran out, no companion holds claims
\* on two messages.
THEOREM ClaimsAreSingle == Spec => []OneClaimEach
BY MailHolds, PTL DEF MailInv

\* A message that is waiting, claimed or being sent is in the list exactly
\* once, whatever trimming did, and the list is at most twice MAX_QUEUE long.
THEOREM TrimmingLosesNothing == Spec => []ActiveKept
<1>1. MailInv => ActiveKept
  <2> SUFFICES ASSUME MailInv PROVE ActiveKept
    OBVIOUS
  <2>1. ASSUME NEW m \in Messages, IsActive(m)
        PROVE  Cardinality({i \in DOMAIN list : list[i] = m}) = 1
    <3>1. PICK j \in DOMAIN list : list[j] = m
      BY <2>1 DEF MailInv, ListInv, InList, ToSet
    <3>2. {i \in DOMAIN list : list[i] = m} = {j}
      BY <3>1 DEF MailInv, ListInv, NoRepeats
    <3> QED
      BY <3>2, FS_Singleton
  <2> QED
    BY <2>1 DEF ActiveKept, MailInv, ListInv
<1> QED
  BY <1>1, MailHolds, PTL

=============================================================================
