------------------------------- MODULE TaskState -------------------------------
(***************************************************************************)
(* The task_state capability (dsh-task-state-plugin): task records in a    *)
(* DSH storage-domain table, written by independent ChatGPT conversations  *)
(* with optimistic if_revision checks.                                     *)
(*                                                                         *)
(* A mutation checks the record it reads from memory, then awaits          *)
(* table.update, whose transform checks again what it is given; other      *)
(* calls run in between.  A conversation that receives no answer (lost     *)
(* response, storage failure, host restart) may send the same request      *)
(* again, also while the first one is still running.  So a mutation that   *)
(* a conversation intends is an attempt with a fixed operation, task and   *)
(* if_revision, and any number of calls may carry it.                      *)
(*                                                                         *)
(* The text fields of a record are replaced by the log, which names the    *)
(* attempt that wrote each revision.  Stamps are milliseconds reduced to   *)
(* small numbers; the clock may step backwards, so each write reads any    *)
(* value of Nows.                                                          *)
(***************************************************************************)
EXTENDS Integers, Sequences

CONSTANTS
  Tasks,           \* task ids that create may draw (random UUIDs)
  Attempts,        \* mutations that conversations intend
  Calls,           \* task_state calls that may run at a time
  None,            \* no task, no attempt
  Nows,            \* readings of Date.now()
  MaxCheckpoints   \* MAX_CHECKPOINTS

ASSUME NoneAssumption == None \notin Tasks \cup Attempts
ASSUME BoundsAssumption == Nows \subseteq Nat \ {0} /\ MaxCheckpoints \in Nat \ {0}

VARIABLES
  table,    \* the tasks table: id -> record, NoTask when absent
  call,     \* running calls
  intent,   \* per attempt: operation, task and if_revision
  answer,   \* per attempt: the first answer its conversation received
  log       \* history, per task: who wrote each revision, and its status

vars == <<table, call, intent, answer, log>>

Target == [pause |-> "paused", resume |-> "active", complete |-> "completed"]
Transitions == DOMAIN Target
Mutations == Transitions \cup {"update", "checkpoint"}
Statuses == {"active", "paused", "completed"}
Answers == {"applied", "unchanged", "conflict", "invalid"}

NoTask == [status |-> "none", revision |-> 0, updatedAt |-> 0, completedAt |-> 0,
           checkpoints |-> <<>>]
NoCall == [pc |-> "idle", by |-> None, id |-> None]
NoIntent == [op |-> "none", id |-> None, base |-> 0]

Checkpoint == [revision : Nat, at : Nat]
Task == [status : Statuses \cup {"none"}, revision : Nat, updatedAt : Nat,
         completedAt : Nat, checkpoints : Seq(Checkpoint)]
Call == [pc : {"idle", "writing", "written"}, by : Attempts \cup {None},
         id : Tasks \cup {None}]

TypeOK ==
  /\ table \in [Tasks -> Task]
  /\ \A k \in Tasks : Len(table[k].checkpoints) <= MaxCheckpoints
  /\ call \in [Calls -> Call]
  /\ intent \in [Attempts -> [op : Mutations \cup {"none", "create"},
                              id : Tasks \cup {None}, base : Nat]]
  /\ answer \in [Attempts -> Answers \cup {"none"}]
  /\ log \in [Tasks -> Seq([by : Attempts, status : Statuses])]

-----------------------------------------------------------------------------
(* The record transforms *)

\* Mutant of Timestamp: without the floor of the previous stamp.
TimestampOfClock(now, previous) == now

\* Never behind the previous stamp, whatever the clock says.
Timestamp(now, previous) == IF now > previous THEN now ELSE previous + 1

\* Mutant of Latest: keeps everything.
Everything(s) == s

\* slice(-MAX_CHECKPOINTS)
Latest(s) ==
  IF Len(s) > MaxCheckpoints THEN SubSeq(s, Len(s) - MaxCheckpoints + 1, Len(s)) ELSE s

NewTask(now) ==
  [status |-> "active", revision |-> 1, updatedAt |-> now, completedAt |-> 0,
   checkpoints |-> <<>>]

Updated(t, now) ==
  [t EXCEPT !.revision = @ + 1, !.updatedAt = Timestamp(now, @)]

\* The entry carries the revision and stamp that the write itself creates.
Checkpointed(t, now) ==
  LET u == Updated(t, now) IN
  [u EXCEPT !.checkpoints = Latest(Append(@, [revision |-> u.revision, at |-> u.updatedAt]))]

\* Mutant of Moved: forgets completedAt.
MovedUnstamped(t, status, now) == [Updated(t, now) EXCEPT !.status = status]

Moved(t, status, now) ==
  LET u == Updated(t, now) IN
  [u EXCEPT !.status = status,
            !.completedAt = IF status = "completed" THEN u.updatedAt ELSE 0]

\* parseStoredTask: what a record must satisfy when the domain opens.
Parses(t) ==
  /\ t.revision >= 1
  /\ (t.status = "completed") <=> (t.completedAt # 0)
  /\ Len(t.checkpoints) <= MaxCheckpoints
  /\ \A i \in DOMAIN t.checkpoints : t.checkpoints[i].revision \in 2..t.revision

Transformed(t, op, now) ==
  CASE op = "update"        -> Updated(t, now)
    [] op = "checkpoint"    -> Checkpointed(t, now)
    [] op \in Transitions   -> Moved(t, Target[op], now)

\* Mutant of Allowed: completed tasks can be paused.
AllowedPause(t, op) == ~(t.status = "completed" /\ op = "resume")

\* A completed task can be neither resumed nor paused.
Allowed(t, op) == ~(t.status = "completed" /\ op \in {"resume", "pause"})

AlreadyThere(t, op) == op \in Transitions /\ t.status = Target[op]

-----------------------------------------------------------------------------
(* Calls *)

\* A conversation decides on a mutation of a task it has just read.
Intend(a, op, k) ==
  /\ intent[a].op = "none"
  /\ table[k].status # "none"
  /\ intent' = [intent EXCEPT ![a] = [op |-> op, id |-> k, base |-> table[k].revision]]
  /\ UNCHANGED <<table, call, answer, log>>

IntendCreate(a) ==
  /\ intent[a].op = "none"
  /\ intent' = [intent EXCEPT ![a].op = "create"]
  /\ UNCHANGED <<table, call, answer, log>>

\* Only the first answer matters to the conversation.
Reply(a, r) == answer' = [answer EXCEPT ![a] = IF @ = "none" THEN r ELSE @]

\* create up to its await: the id is free in the table, and drawn only once.
SendCreate(c, a, k) ==
  /\ call[c].pc = "idle" /\ answer[a] = "none" /\ intent[a].op = "create"
  /\ table[k].status = "none"
  /\ \A d \in Calls : call[d].id # k
  /\ call' = [call EXCEPT ![c] = [pc |-> "writing", by |-> a, id |-> k]]
  /\ UNCHANGED <<table, intent, answer, log>>

\* The table now holds u; the call resumes in a later microtask.
Store(c, k, u) ==
  /\ table' = [table EXCEPT ![k] = u]
  /\ log' = [log EXCEPT ![k] = Append(@, [by |-> call[c].by, status |-> u.status])]
  /\ call' = [call EXCEPT ![c].pc = "written"]
  /\ UNCHANGED <<intent, answer>>

PutCreated(c, now) ==
  LET a == call[c].by   k == call[c].id IN
  /\ call[c].pc = "writing" /\ intent[a].op = "create"
  /\ Store(c, k, NewTask(now))

\* Mutant of HasRevision: does not ask when the call has nothing to write.
HasRevisionToWrite(i) ==
  table[i.id].revision = i.base \/ AlreadyThere(table[i.id], i.op)

HasRevision(i) == table[i.id].revision = i.base

\* update, checkpoint and transition up to their await.  A reply that is
\* lost changes nothing.
Send(c, a) ==
  LET i == intent[a]   t == table[i.id] IN
  /\ call[c].pc = "idle" /\ answer[a] = "none" /\ i.op \in Mutations
  /\ \/ /\ ~HasRevision(i)
        /\ Reply(a, "conflict")
        /\ UNCHANGED call
     \/ /\ HasRevision(i) /\ ~Allowed(t, i.op)
        /\ Reply(a, "invalid")
        /\ UNCHANGED call
     \/ /\ HasRevision(i) /\ Allowed(t, i.op) /\ AlreadyThere(t, i.op)
        /\ Reply(a, "unchanged")
        /\ UNCHANGED call
     \/ /\ HasRevision(i) /\ Allowed(t, i.op) /\ ~AlreadyThere(t, i.op)
        /\ call' = [call EXCEPT ![c] = [pc |-> "writing", by |-> a, id |-> i.id]]
        /\ UNCHANGED answer
  /\ UNCHANGED <<table, intent, log>>

\* Mutant of StillHasRevision: the transform trusts the first check.
StillHasRevisionTrusted(i) == TRUE

\* The transform asserts the revision of the record it is given.
StillHasRevision(i) == table[i.id].revision = i.base

\* table.update runs the transform on the current record and stores it.
Update(c, now) ==
  LET a == call[c].by   i == intent[a]   t == table[i.id] IN
  /\ call[c].pc = "writing" /\ i.op \in Mutations
  /\ StillHasRevision(i) /\ Allowed(t, i.op)
  /\ Store(c, i.id, Transformed(t, i.op, now))

\* The transform throws: nothing is stored.
RejectUpdate(c) ==
  LET a == call[c].by   i == intent[a] IN
  /\ call[c].pc = "writing" /\ i.op \in Mutations
  /\ ~(StillHasRevision(i) /\ Allowed(table[i.id], i.op))
  /\ Reply(a, IF StillHasRevision(i) THEN "invalid" ELSE "conflict")
  /\ call' = [call EXCEPT ![c] = NoCall]
  /\ UNCHANGED <<table, intent, log>>

\* The answer of a finished write reaches its conversation, or is lost.
Return(c) ==
  /\ call[c].pc = "written"
  /\ Reply(call[c].by, "applied") \/ UNCHANGED answer
  /\ call' = [call EXCEPT ![c] = NoCall]
  /\ UNCHANGED <<table, intent, log>>

\* The storage operation fails; the conversation sees no answer it can use.
StorageFails(c) ==
  /\ call[c].pc = "writing"
  /\ call' = [call EXCEPT ![c] = NoCall]
  /\ UNCHANGED <<table, intent, answer, log>>

\* The host restarts: running calls are gone, stored records stay.
Restart ==
  /\ call' = [c \in Calls |-> NoCall]
  /\ UNCHANGED <<table, intent, answer, log>>

Init ==
  /\ table = [k \in Tasks |-> NoTask]
  /\ call = [c \in Calls |-> NoCall]
  /\ intent = [a \in Attempts |-> NoIntent]
  /\ answer = [a \in Attempts |-> "none"]
  /\ log = [k \in Tasks |-> <<>>]

Next ==
  \/ \E a \in Attempts, op \in Mutations, k \in Tasks : Intend(a, op, k)
  \/ \E a \in Attempts : IntendCreate(a)
  \/ \E c \in Calls, a \in Attempts, k \in Tasks : SendCreate(c, a, k)
  \/ \E c \in Calls, a \in Attempts : Send(c, a)
  \/ \E c \in Calls, now \in Nows : PutCreated(c, now) \/ Update(c, now)
  \/ \E c \in Calls : RejectUpdate(c) \/ Return(c) \/ StorageFails(c)
  \/ Restart

Spec == Init /\ [][Next]_vars

-----------------------------------------------------------------------------
(* Properties *)

\* A restarted host can load every stored record: parseStoredTask accepts
\* what the transforms wrote, in whatever order they ran.
StoredTasksParse == \A k \in Tasks : table[k].status # "none" => Parses(table[k])

\* A mutation takes effect at most once, however often its request is sent
\* or runs concurrently with itself: if_revision makes retries safe.
AppliedOnce ==
  \A k \in Tasks : \A r, s \in DOMAIN log[k] :
    r # s => log[k][r].by # log[k][s].by

\* Every revision was written by a mutation that quoted exactly the revision
\* before it: no conversation overwrites a revision it has not seen.
NoLostUpdate ==
  \A k \in Tasks : \A r \in 2..Len(log[k]) :
    intent[log[k][r].by].id = k /\ intent[log[k][r].by].base = r - 1

\* What a conversation is told happened: an applied mutation is the
\* revision after the one it quoted, and a transition reported as already
\* done was done at the revision it quoted.
AnswersAreTrue ==
  \A a \in Attempts :
    LET i == intent[a] IN
    /\ answer[a] = "applied" /\ i.op \in Mutations =>
         i.base + 1 \in DOMAIN log[i.id] /\ log[i.id][i.base + 1].by = a
    /\ answer[a] = "unchanged" =>
         i.base \in DOMAIN log[i.id] /\ log[i.id][i.base].status = Target[i.op]

\* The checkpoint list is the newest part of all checkpoints ever made, in
\* order of revision and of time, although the clock may step back.
CheckpointsAreTheLatest ==
  \A k \in Tasks :
    LET cps == table[k].checkpoints
        made == {r \in DOMAIN log[k] : intent[log[k][r].by].op = "checkpoint"}
        kept == {cps[i].revision : i \in DOMAIN cps}
    IN /\ kept \subseteq made
       /\ \A r \in made \ kept : Len(cps) = MaxCheckpoints /\ \A s \in kept : r < s
       /\ \A i, j \in DOMAIN cps : i < j =>
            cps[i].revision < cps[j].revision /\ cps[i].at < cps[j].at

\* Readers of status and revision see what TaskPromise says.
Promise == INSTANCE TaskPromise WITH
  view <- [k \in Tasks |-> [status |-> table[k].status, revision |-> table[k].revision]]
TaskPromiseKept == Promise!ViewSpec
=============================================================================
