----------------------------- MODULE BridgeMailbox -----------------------------
(***************************************************************************)
(* The outbound half of the ChatGPT web bridge: the mailbox of the DSH     *)
(* plugin (ChatGPTWebBridgeStore in dsh-chatgpt-web-bridge-plugin) and the *)
(* companions that relay its messages (the script inside                   *)
(* chatgpt_web_companion.py).                                              *)
(*                                                                         *)
(* A companion runs one pump at a time: poll -> begin_send -> ui/message   *)
(* -> ack.  Each is a request it awaits with a timeout; a request it has   *)
(* given up on may still reach the host later.  The mailbox handles one    *)
(* request at a time.  A claim has a lease of CLAIM_TTL_MS, modelled as    *)
(* running or over; it is acted on only when poll or status look at it.    *)
(***************************************************************************)
EXTENDS Integers, SequencesExt, FiniteSets

CONSTANTS
  Messages,    \* message ids that enqueue may draw (random UUIDs)
  Companions,  \* companion instances, each with its own random client id
  Hosts,       \* browser host instances
  HostOf,      \* the validated host id of a companion, fixed once connected
  None,        \* no message, no companion, no target host
  MaxQueue,    \* MAX_QUEUE
  MaxTimeouts  \* bound: requests that companions give up on

ASSUME NoneAssumption == None \notin Messages \cup Companions \cup Hosts
ASSUME HostAssumption == HostOf \in [Companions -> Hosts]
ASSUME BoundsAssumption == MaxQueue \in Nat \ {0} /\ MaxTimeouts \in Nat

VARIABLES
  list,      \* this.messages, in order
  status,    \* per message; "lost": the host that held it restarted
  target,    \* targetHostId
  owner,     \* claimedBy
  lease,     \* of claimExpiresAt: none (null), running, or over
  comp,      \* per companion: what its pump awaits
  late,      \* requests given up on that may still arrive
  timeouts,  \* requests given up on so far
  turns,     \* history, per message: the companions that started a turn
  beganBy    \* history, per message: the companion whose begin_send succeeded

storeVars == <<list, status, target, owner, lease>>
vars == <<storeVars, comp, late, timeouts, turns, beganBy>>

Active == {"pending", "claimed", "dispatching"}
Settled == {"sent", "failed"}
Requests == {"polling", "beginning", "posting", "acking"}
Resting == [pc |-> "resting", msg |-> None, outcome |-> "none", reply |-> "none"]
Request(pc, m, outcome) == [pc |-> pc, msg |-> m, outcome |-> outcome, reply |-> "none"]

CompState == [pc : Requests \cup {"resting", "gone"}, msg : Messages \cup {None},
              outcome : Settled \cup {"none"}, reply : {"none", "ok", "error"}]
LateRequest == [by : Companions, pc : Requests, msg : Messages \cup {None},
                outcome : Settled \cup {"none"}]

RecordsOK ==
  /\ status \in [Messages -> Active \cup Settled \cup {"none", "lost"}]
  /\ target \in [Messages -> Hosts \cup {None}]
  /\ owner \in [Messages -> Companions \cup {None}]
  /\ lease \in [Messages -> {"none", "running", "over"}]
  /\ comp \in [Companions -> CompState]
  /\ late \in SUBSET LateRequest
  /\ timeouts \in 0..MaxTimeouts
  /\ turns \in [Messages -> Seq(Companions)]
  /\ beganBy \in [Messages -> Companions \cup {None}]

\* A message is in the mailbox once: settling, trimming and adding move the
\* records about.
NoRepeats(ms) == \A i, j \in DOMAIN ms : ms[i] = ms[j] => i = j

TypeOK == list \in Seq(Messages) /\ NoRepeats(list) /\ RecordsOK

-----------------------------------------------------------------------------
(* The mailbox *)

InList(m) == m \in ToSet(list)
IsActive(m) == status[m] \in Active

\* The messages of ms whose status is in S, in their order (Array.filter).
Filter(ms, S) ==
  LET f[i \in 0..Len(ms)] ==
        IF i = 0 THEN <<>>
        ELSE IF status[ms[i]] \in S THEN Append(f[i - 1], ms[i]) ELSE f[i - 1]
  IN f[Len(ms)]

\* Mutants of Trimmed: keeps settled messages only; lets one too many in.
TrimmedToSettled(ms, m) ==
  IF Len(ms) + 1 <= 2 * MaxQueue THEN Append(ms, m) ELSE Append(Filter(ms, Settled), m)
TrimmedLate(ms, m) == IF Len(ms) <= 2 * MaxQueue THEN Append(ms, m) ELSE Append(Tail(ms), m)

\* push, then trimSettledMessages: over twice MAX_QUEUE, only the newest
\* MAX_QUEUE settled messages stay, and move in front of the active ones.
Trimmed(ms, m) ==
  IF Len(ms) + 1 <= 2 * MaxQueue THEN Append(ms, m)
  ELSE LET settled == Filter(ms, Settled)
           kept == IF Len(settled) > MaxQueue
                   THEN SubSeq(settled, Len(settled) - MaxQueue + 1, Len(settled))
                   ELSE settled
       IN kept \o Append(Filter(ms, Active), m)

Enqueue(m, h) ==
  /\ status[m] = "none"
  /\ Cardinality({k \in ToSet(list) : IsActive(k)}) < MaxQueue
  /\ list' = Trimmed(list, m)
  /\ status' = [status EXCEPT ![m] = "pending"]
  /\ target' = [target EXCEPT ![m] = h]
  /\ UNCHANGED <<owner, lease, comp, late, timeouts, turns, beganBy>>

LeaseEnds(m) ==
  /\ status[m] = "claimed" /\ lease[m] = "running"
  /\ lease' = [lease EXCEPT ![m] = "over"]
  /\ UNCHANGED <<list, status, target, owner, comp, late, timeouts, turns, beganBy>>

\* Mutants of Expired: dispatching messages expire like claims; only claims
\* of messages for any host expire.
ExpiredInDispatch(m) == \/ status[m] = "claimed" /\ lease[m] = "over"
                        \/ status[m] = "dispatching"
ExpiredUntargeted(m) == status[m] = "claimed" /\ lease[m] = "over" /\ target[m] = None

\* releaseExpiredClaims: which claims it turns back to pending.
Expired(m) == status[m] = "claimed" /\ lease[m] = "over"

StatusNow(m) == IF Expired(m) THEN "pending" ELSE status[m]
OwnerNow(m) == IF Expired(m) THEN None ELSE owner[m]
LeaseNow(m) == IF Expired(m) THEN "none" ELSE lease[m]

\* status(), which the GUI asks for every few seconds.
Status ==
  /\ \E m \in ToSet(list) : Expired(m)
  /\ status' = [m \in Messages |-> StatusNow(m)]
  /\ owner' = [m \in Messages |-> OwnerNow(m)]
  /\ lease' = [m \in Messages |-> LeaseNow(m)]
  /\ UNCHANGED <<list, target, comp, late, timeouts, turns, beganBy>>

\* Mutants: a companion is offered messages for any host; one that has
\* a claimed message may claim another.
MayTakeAny(c, m) == StatusNow(m) = "pending"
OwnsNothing(c, m) == FALSE

MayTake(c, m) == StatusNow(m) = "pending" /\ target[m] \in {None, HostOf[c]}
Owns(c, m) == StatusNow(m) = "claimed" /\ OwnerNow(m) = c

IsFirst(m, S) ==
  \E i \in DOMAIN list :
    list[i] = m /\ m \in S /\ \A j \in 1..(i - 1) : list[j] \notin S

\* What poll finds: the message this client has claimed already, else the
\* first pending one that is not meant for another host.
Finds(c, m) ==
  LET mine == {k \in Messages : InList(k) /\ Owns(c, k)}
      open == {k \in Messages : InList(k) /\ MayTake(c, k)}
  IN IF mine # {} THEN IsFirst(m, mine)
     ELSE IF open # {} THEN IsFirst(m, open) ELSE m = None

\* poll: releases expired claims, then claims the message it found, or
\* renews the claim.
Poll(c, m) ==
  /\ Finds(c, m)
  /\ status' = [k \in Messages |-> IF k = m THEN "claimed" ELSE StatusNow(k)]
  /\ owner' = [k \in Messages |-> IF k = m THEN c ELSE OwnerNow(k)]
  /\ lease' = [k \in Messages |-> IF k = m THEN "running" ELSE LeaseNow(k)]
  /\ UNCHANGED <<list, target, beganBy>>

\* begin_send does not ask whether the lease is over.
MayBegin(c, m) == InList(m) /\ status[m] = "claimed" /\ owner[m] = c

BeginSend(c, m) ==
  /\ status' = [status EXCEPT ![m] = "dispatching"]
  /\ lease' = [lease EXCEPT ![m] = "none"]
  /\ beganBy' = [beganBy EXCEPT ![m] = c]
  /\ UNCHANGED <<list, target, owner>>

MayAck(c, m) == InList(m) /\ status[m] = "dispatching" /\ owner[m] = c

Ack(m, outcome) ==
  /\ status' = [status EXCEPT ![m] = outcome]
  /\ lease' = [lease EXCEPT ![m] = "none"]
  /\ UNCHANGED <<list, target, owner, beganBy>>

-----------------------------------------------------------------------------
(* The companions *)

Pump(c) ==
  /\ comp[c].pc = "resting"
  /\ comp' = [comp EXCEPT ![c] = Request("polling", None, "none")]
  /\ UNCHANGED <<storeVars, late, timeouts, turns, beganBy>>

Answer(c, m, reply) ==
  comp' = [comp EXCEPT ![c] = [@ EXCEPT !.msg = m, !.reply = reply]]

\* The mailbox answers the request a companion awaits.
Serve(c) ==
  LET m == comp[c].msg IN
  /\ comp[c].reply = "none"
  /\ \/ \E k \in Messages \cup {None} :
        /\ comp[c].pc = "polling" /\ Poll(c, k)
        /\ Answer(c, k, "ok")
     \/ /\ comp[c].pc = "beginning" /\ MayBegin(c, m)
        /\ BeginSend(c, m)
        /\ Answer(c, m, "ok")
     \/ /\ comp[c].pc = "acking" /\ MayAck(c, m)
        /\ Ack(m, comp[c].outcome)
        /\ Answer(c, m, "ok")
     \/ /\ \/ comp[c].pc = "beginning" /\ ~MayBegin(c, m)
           \/ comp[c].pc = "acking" /\ ~MayAck(c, m)
        /\ Answer(c, m, "error")
        /\ UNCHANGED <<storeVars, beganBy>>
  /\ UNCHANGED <<late, timeouts, turns>>

\* ChatGPT accepts ui/message and starts a turn, or refuses it.
HostAccepts(c) ==
  /\ comp[c].pc = "posting" /\ comp[c].reply = "none"
  /\ turns' = [turns EXCEPT ![comp[c].msg] = Append(@, c)]
  /\ Answer(c, comp[c].msg, "ok")
  /\ UNCHANGED <<storeVars, late, timeouts, beganBy>>

HostRefuses(c) ==
  /\ comp[c].pc = "posting" /\ comp[c].reply = "none"
  /\ Answer(c, comp[c].msg, "error")
  /\ UNCHANGED <<storeVars, late, timeouts, turns, beganBy>>

\* Mutant of AfterPosting: passes the answer of the host on as it is.
AfterPostingReply(m, reply) == Request("acking", m, reply)

AfterPosting(m, reply) ==
  Request("acking", m, IF reply = "ok" THEN "sent" ELSE "failed")

\* The pump continues with the answer it awaited.
Receive(c) ==
  LET m == comp[c].msg   reply == comp[c].reply IN
  /\ reply # "none"
  /\ comp' = [comp EXCEPT ![c] =
       CASE comp[c].pc = "polling" ->
              IF m = None THEN Resting ELSE Request("beginning", m, "none")
         [] comp[c].pc = "beginning" ->
              IF reply = "ok" THEN Request("posting", m, "none") ELSE Resting
         [] comp[c].pc = "posting" -> AfterPosting(m, reply)
         [] comp[c].pc = "acking" -> Resting]
  /\ UNCHANGED <<storeVars, late, timeouts, turns, beganBy>>

\* A request that has no answer yet stays on its way.
Abandoned(c) ==
  IF comp[c].pc \in Requests /\ comp[c].reply = "none"
  THEN {[by |-> c, pc |-> comp[c].pc, msg |-> comp[c].msg, outcome |-> comp[c].outcome]}
  ELSE {}

\* The companion stops waiting; an answer under way is ignored.  A failed
\* ui/message is acknowledged as failed, any other failure ends the pump.
TimesOut(c) ==
  /\ comp[c].pc \in Requests /\ timeouts < MaxTimeouts
  /\ timeouts' = timeouts + 1
  /\ late' = late \cup Abandoned(c)
  /\ comp' = [comp EXCEPT ![c] = IF comp[c].pc = "posting"
                                 THEN AfterPosting(comp[c].msg, "error") ELSE Resting]
  /\ UNCHANGED <<storeVars, turns, beganBy>>

\* The iframe goes away (pagehide), in whatever step it is.
Disappear(c) ==
  /\ comp[c].pc # "gone"
  /\ late' = late \cup Abandoned(c)
  /\ comp' = [comp EXCEPT ![c] = [Resting EXCEPT !.pc = "gone"]]
  /\ UNCHANGED <<storeVars, timeouts, turns, beganBy>>

\* An abandoned request arrives after all; nobody reads the answer.
ServeLate(r) ==
  /\ r \in late
  /\ late' = late \ {r}
  /\ \/ \E k \in Messages \cup {None} : r.pc = "polling" /\ Poll(r.by, k) /\ UNCHANGED turns
     \/ r.pc = "beginning" /\ MayBegin(r.by, r.msg) /\ BeginSend(r.by, r.msg) /\ UNCHANGED turns
     \/ r.pc = "acking" /\ MayAck(r.by, r.msg) /\ Ack(r.msg, r.outcome) /\ UNCHANGED turns
     \/ /\ r.pc = "posting"
        /\ turns' = [turns EXCEPT ![r.msg] = Append(@, r.by)]
        /\ UNCHANGED <<storeVars, beganBy>>
  /\ UNCHANGED <<comp, timeouts>>

\* The host restarts with an empty mailbox.
Restart ==
  /\ list' = <<>>
  /\ status' = [m \in Messages |-> IF status[m] = "none" THEN "none" ELSE "lost"]
  /\ owner' = [m \in Messages |-> None]
  /\ lease' = [m \in Messages |-> "none"]
  /\ UNCHANGED <<target, comp, late, timeouts, turns, beganBy>>

Init ==
  /\ list = <<>>
  /\ status = [m \in Messages |-> "none"]
  /\ target = [m \in Messages |-> None]
  /\ owner = [m \in Messages |-> None]
  /\ lease = [m \in Messages |-> "none"]
  /\ comp = [c \in Companions |-> Resting]
  /\ late = {}
  /\ timeouts = 0
  /\ turns = [m \in Messages |-> <<>>]
  /\ beganBy = [m \in Messages |-> None]

CompanionStep(c) == Pump(c) \/ Serve(c) \/ Receive(c) \/ HostAccepts(c) \/ HostRefuses(c)

Next ==
  \/ \E m \in Messages, h \in Hosts \cup {None} : Enqueue(m, h)
  \/ \E m \in Messages : LeaseEnds(m)
  \/ Status
  \/ \E c \in Companions : CompanionStep(c) \/ TimesOut(c) \/ Disappear(c)
  \/ \E r \in late : ServeLate(r)
  \/ Restart

Spec == Init /\ [][Next]_vars

-----------------------------------------------------------------------------
(* Fairness *)

Working(c, m) == comp[c].msg = m /\ comp[c].pc \in {"polling", "beginning"}

\* A lease of 30 s outlasts the requests between poll and begin_send, except
\* for finitely many slow ones: a companion at work keeps its claim.
LeasesOutlastWork ==
  <>[][\A m \in Messages :
         lease[m] = "running" /\ lease'[m] = "over" => ~Working(owner[m], m)]_vars

\* Timers fire (pump, lease), the host answers requests, and a companion
\* that is there reads the answers.
Fairness ==
  /\ \A c \in Companions :
       WF_vars(Pump(c)) /\ WF_vars(Serve(c)) /\ WF_vars(Receive(c))
         /\ WF_vars(HostAccepts(c) \/ HostRefuses(c))
  /\ \A m \in Messages : WF_vars(LeaseEnds(m))
  /\ LeasesOutlastWork

LiveSpec == Spec /\ Fairness

-----------------------------------------------------------------------------
(* Properties *)

\* A message that is sent starts at most one ChatGPT turn, and is reported
\* sent only if it did: "a dispatching message never" goes back to the queue.
Stage(m) ==
  CASE status[m] \in {"pending", "claimed"} -> "queued"
    [] status[m] = "dispatching" -> "handed"
    [] OTHER -> status[m]

Handoff == INSTANCE HandoffPromise WITH
  stage <- [m \in Messages |-> Stage(m)],
  handed <- {m \in Messages : beganBy[m] # None},
  turns <- [m \in Messages |-> Len(turns[m])]
HandoffKept == Handoff!HandoffSpec

\* A message with a target host starts its turn only through a companion of
\* that host, however claims expired and were taken over before.
TargetRespected ==
  \A m \in Messages : \A c \in ToSet(turns[m]) : target[m] \in {None, HostOf[c]}

\* Trimming the list loses no message that is still to be delivered or
\* acknowledged, and keeps the list bounded.
ActiveKept ==
  /\ \A m \in Messages : IsActive(m) =>
       Cardinality({i \in DOMAIN list : list[i] = m}) = 1
  /\ Len(list) <= 2 * MaxQueue

\* A companion that lost an answer gets its claimed message again instead of
\* a second one: it never holds two claims.
OneClaimEach ==
  \A m, k \in Messages :
    status[m] = "claimed" /\ status[k] = "claimed" /\ owner[m] = owner[k] => m = k

\* While a companion that may take it stays, a message does not wait for
\* ever, even if another companion claimed it and went away.
MayServe(c, m) == comp[c].pc # "gone" /\ target[m] \in {None, HostOf[c]}
Delivered(m) ==
  \A c \in Companions :
    [](status[m] # "none" => MayServe(c, m))
      => (Stage(m) = "queued" ~> Stage(m) # "queued")
=============================================================================
