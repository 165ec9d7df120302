---------------------------- MODULE TaskState_proofs ----------------------------
(***************************************************************************)
(* What task_state guarantees for any number of conversations, calls and   *)
(* retries.  The argument: Inv relates every revision of a record to the   *)
(* attempt that wrote it; a write is only stored by a transform that found *)
(* the revision its attempt quoted, so that attempt cannot write again.    *)
(***************************************************************************)
EXTENDS TaskState, SequenceTheorems, TLAPS

\* The log has one entry per revision, and an absent record has neither.
LogMatches ==
  \A k \in Tasks :
    /\ Len(log[k]) = table[k].revision
    /\ (table[k].status = "none") <=> (table[k].revision = 0)

\* The first revision comes from a create, the others from mutations.
AuthorsFit ==
  \A k \in Tasks : \A r \in DOMAIN log[k] :
    IF r = 1 THEN intent[log[k][r].by].op = "create"
             ELSE intent[log[k][r].by].op \in Mutations

\* A mutation names a task that existed when it was intended.
IntentsNameTasks ==
  \A a \in Attempts : intent[a].op \in Mutations =>
    intent[a].id \in Tasks /\ intent[a].base >= 1

\* What a running call carries; the id of a running create is its own.
CallFits(c) ==
  /\ call[c].by \in Attempts /\ call[c].id \in Tasks
  /\ intent[call[c].by].op \in Mutations \cup {"create"}
  /\ call[c].pc = "writing" /\ intent[call[c].by].op = "create" =>
       /\ table[call[c].id].status = "none"
       /\ \A d \in Calls : d # c => call[d].id # call[c].id
CallsFit == \A c \in Calls : call[c].pc # "idle" => CallFits(c)

Inv == LogMatches /\ AuthorsFit /\ IntentsNameTasks /\ CallsFit /\ NoLostUpdate

-----------------------------------------------------------------------------
(* The record transforms *)

LEMMA LatestProperties ==
  ASSUME NEW S, NEW s \in Seq(S)
  PROVE  /\ Latest(s) \in Seq(S)
         /\ Len(Latest(s)) <= MaxCheckpoints
         /\ \A i \in DOMAIN Latest(s) : \E j \in DOMAIN s : Latest(s)[i] = s[j]
<1> DEFINE n == Len(s)
           m == n - MaxCheckpoints + 1
<1>1. n \in Nat /\ MaxCheckpoints \in Nat \ {0}
  BY BoundsAssumption, LenProperties
<1>2. CASE n > MaxCheckpoints
  <2>1. m \in 1..n + 1 /\ m \in 1..n
    BY <1>1, <1>2
  <2>2. /\ SubSeq(s, m, n) \in Seq(S)
        /\ Len(SubSeq(s, m, n)) = IF m <= n THEN n - m + 1 ELSE 0
        /\ \A i \in 1..n - m + 1 : SubSeq(s, m, n)[i] = s[m + i - 1]
    BY <2>1, <1>1, SubSeqProperties
  <2>3. Len(SubSeq(s, m, n)) = MaxCheckpoints /\ DOMAIN SubSeq(s, m, n) = 1..MaxCheckpoints
    BY <2>1, <2>2, <1>1, LenProperties
  <2>4. \A i \in 1..MaxCheckpoints : m + i - 1 \in DOMAIN s /\ SubSeq(s, m, n)[i] = s[m + i - 1]
    BY <2>2, <1>1, <1>2, LenProperties
  <2> QED
    BY <2>2, <2>3, <2>4, <1>1, <1>2 DEF Latest
<1>3. CASE ~(n > MaxCheckpoints)
  BY <1>1, <1>3 DEF Latest
<1> QED
  BY <1>2, <1>3

LEMMA UpdatedProperties ==
  ASSUME NEW t \in Task, NEW now \in Nat \ {0}
  PROVE  LET u == Updated(t, now) IN
         /\ u \in Task
         /\ u.revision = t.revision + 1 /\ u.updatedAt > t.updatedAt /\ u.updatedAt # 0
         /\ u.status = t.status /\ u.completedAt = t.completedAt
         /\ u.checkpoints = t.checkpoints
<1> DEFINE stamp == Timestamp(now, t.updatedAt)
           v == [t EXCEPT !.revision = t.revision + 1]
<1>1. /\ t.revision \in Nat /\ t.updatedAt \in Nat
      /\ stamp \in Nat /\ stamp > t.updatedAt /\ stamp # 0
  BY DEF Task, Timestamp
<1> HIDE DEF stamp
<1>2. /\ v \in Task /\ v.revision = t.revision + 1
      /\ v.status = t.status /\ v.completedAt = t.completedAt
      /\ v.checkpoints = t.checkpoints
  BY <1>1 DEF Task
<1>3. Updated(t, now) = [v EXCEPT !.updatedAt = stamp]
  BY DEF Updated, Task, stamp
<1> HIDE DEF v
<1> QED
  BY <1>1, <1>2, <1>3 DEF Task

\* What every write does to the record it is given.
LEMMA TransformedProperties ==
  ASSUME NEW t \in Task, NEW op \in Mutations, NEW now \in Nat \ {0},
         Len(t.checkpoints) <= MaxCheckpoints
  PROVE  LET u == Transformed(t, op, now) IN
         /\ u \in Task
         /\ Len(u.checkpoints) <= MaxCheckpoints
         /\ u.revision = t.revision + 1 /\ u.updatedAt > t.updatedAt
         /\ u.status = IF op \in Transitions THEN Target[op] ELSE t.status
         /\ op \in Transitions => (u.status = "completed" <=> u.completedAt # 0)
         /\ op \notin Transitions => u.completedAt = t.completedAt
         /\ \A i \in DOMAIN u.checkpoints :
              \/ \E j \in DOMAIN t.checkpoints : u.checkpoints[i] = t.checkpoints[j]
              \/ u.checkpoints[i].revision = u.revision
<1> DEFINE v == Updated(t, now)
           e == [revision |-> v.revision, at |-> v.updatedAt]
           s == Append(t.checkpoints, e)
<1>1. /\ v \in Task
      /\ v.revision = t.revision + 1 /\ v.updatedAt > t.updatedAt /\ v.updatedAt # 0
      /\ v.status = t.status /\ v.completedAt = t.completedAt
      /\ v.checkpoints = t.checkpoints
  BY UpdatedProperties
<1>2. CASE op = "update"
  BY <1>1, <1>2 DEF Transformed, Transitions, Target
<1>3. CASE op = "checkpoint"
  <2> HIDE DEF v
  <2>1. e \in Checkpoint /\ t.checkpoints \in Seq(Checkpoint)
    BY <1>1 DEF Task, Checkpoint
  <2>2. /\ s \in Seq(Checkpoint) /\ Len(s) = Len(t.checkpoints) + 1
        /\ \A j \in 1..Len(t.checkpoints) : s[j] = t.checkpoints[j]
        /\ s[Len(t.checkpoints) + 1] = e
    BY <2>1, AppendProperties
  <2>3. \A j \in DOMAIN s : s[j] = e \/ \E h \in DOMAIN t.checkpoints : s[j] = t.checkpoints[h]
    BY <2>1, <2>2, LenProperties
  <2> HIDE DEF s
  <2>4. /\ Latest(s) \in Seq(Checkpoint) /\ Len(Latest(s)) <= MaxCheckpoints
        /\ \A i \in DOMAIN Latest(s) : \E j \in DOMAIN s : Latest(s)[i] = s[j]
    BY <2>2, LatestProperties
  <2>5. Transformed(t, op, now) = [v EXCEPT !.checkpoints = Latest(s)]
    BY <1>1, <1>3 DEF Transformed, Checkpointed, v, s, Transitions, Target
  <2>6. LET u == [v EXCEPT !.checkpoints = Latest(s)] IN
        /\ u \in Task /\ u.checkpoints = Latest(s) /\ u.revision = v.revision
        /\ u.updatedAt = v.updatedAt /\ u.status = v.status /\ u.completedAt = v.completedAt
    BY <1>1, <2>4 DEF Task
  <2>7. op \notin Transitions
    BY <1>3 DEF Transitions, Target
  <2>8. \A i \in DOMAIN Latest(s) :
          \/ \E j \in DOMAIN t.checkpoints : Latest(s)[i] = t.checkpoints[j]
          \/ Latest(s)[i].revision = v.revision
    BY <2>3, <2>4
  <2> QED
    BY <1>1, <2>4, <2>5, <2>6, <2>7, <2>8
<1>4. CASE op \in Transitions
  <2> HIDE DEF v
  <2>1. Target[op] \in Statuses
    BY <1>4 DEF Transitions, Target, Statuses
  <2>2. Transformed(t, op, now) = [v EXCEPT !.status = Target[op],
          !.completedAt = IF Target[op] = "completed" THEN v.updatedAt ELSE 0]
    BY <1>1, <1>4 DEF Transformed, Moved, v, Transitions, Target
  <2> DEFINE done == IF Target[op] = "completed" THEN v.updatedAt ELSE 0
             w == [v EXCEPT !.status = Target[op]]
  <2>3. done \in Nat /\ (Target[op] = "completed" <=> done # 0)
    BY <1>1 DEF Task
  <2>4. /\ w \in Task /\ w.status = Target[op] /\ w.revision = v.revision
        /\ w.updatedAt = v.updatedAt /\ w.checkpoints = v.checkpoints
    BY <1>1, <2>1 DEF Task
  <2>5. Transformed(t, op, now) = [w EXCEPT !.completedAt = done]
    BY <1>1, <2>2 DEF Task
  <2> HIDE DEF done, w
  <2> QED
    BY <1>1, <1>4, <2>3, <2>4, <2>5 DEF Task
<1> QED
  BY <1>2, <1>3, <1>4 DEF Mutations
-----------------------------------------------------------------------------
(* Types *)

LEMMA TaskTypes ==
  /\ NoTask \in Task /\ Len(NoTask.checkpoints) <= MaxCheckpoints
  /\ \A now \in Nows :
       NewTask(now) \in Task /\ Len(NewTask(now).checkpoints) <= MaxCheckpoints
  /\ NoCall \in Call
  /\ NoIntent \in [op : Mutations \cup {"none", "create"}, id : Tasks \cup {None}, base : Nat]
<1> DEFINE empty == <<>>
<1>1. empty \in Seq(Checkpoint) /\ Len(empty) = 0 /\ MaxCheckpoints \in Nat
  BY EmptySeq, BoundsAssumption
<1>2. Nows \subseteq Nat
  BY BoundsAssumption
<1>3. NoTask \in Task /\ NoTask.checkpoints = empty
  BY <1>1 DEF NoTask, Task
<1>4. ASSUME NEW now \in Nows
      PROVE  NewTask(now) \in Task /\ NewTask(now).checkpoints = empty
  BY <1>1, <1>2, <1>4 DEF NewTask, Task, Statuses
<1> QED
  BY <1>1, <1>3, <1>4 DEF NoCall, Call, NoIntent

LEMMA ReplyTypes ==
  ASSUME TypeOK, NEW a \in Attempts, NEW r \in Answers, Reply(a, r) \/ UNCHANGED answer
  PROVE  answer' \in [Attempts -> Answers \cup {"none"}]
BY DEF TypeOK, Reply

\* What a transform that stores its result has found.
LEMMA UpdateFacts ==
  ASSUME TypeOK, Inv, NEW c \in Calls, NEW now \in Nows, Update(c, now)
  PROVE  LET a == call[c].by  k == intent[a].id
             u == Transformed(table[k], intent[a].op, now) IN
         /\ a \in Attempts /\ k \in Tasks /\ intent[a].op \in Mutations
         /\ now \in Nat \ {0}
         /\ table[k] \in Task /\ Len(table[k].checkpoints) <= MaxCheckpoints
         /\ table[k].status # "none" /\ table[k].revision = intent[a].base
         /\ table[k].revision = Len(log[k])
         /\ Store(c, k, u)
<1> DEFINE a == call[c].by
           k == intent[a].id
<1>1. a \in Attempts /\ k \in Tasks /\ intent[a].op \in Mutations /\ intent[a].base >= 1
  BY DEF Update, Inv, CallsFit, CallFits, IntentsNameTasks
<1>2. table[k].revision = intent[a].base /\ table[k].revision = Len(log[k])
  BY <1>1 DEF Update, StillHasRevision, Inv, LogMatches
<1>3. table[k] \in Task /\ Len(table[k].checkpoints) <= MaxCheckpoints
  BY <1>1 DEF TypeOK
<1>4. table[k].status # "none"
  BY <1>1, <1>2 DEF Inv, LogMatches
<1> QED
  BY <1>1, <1>2, <1>3, <1>4, BoundsAssumption DEF Update

LEMMA TransformedStatus ==
  ASSUME NEW t \in Task, NEW op \in Mutations, NEW now \in Nat \ {0},
         Len(t.checkpoints) <= MaxCheckpoints, t.status # "none"
  PROVE  LET u == Transformed(t, op, now) IN
         /\ u \in Task /\ Len(u.checkpoints) <= MaxCheckpoints
         /\ u.status \in Statuses /\ u.revision = t.revision + 1
<1>1. /\ Transformed(t, op, now) \in Task
      /\ Len(Transformed(t, op, now).checkpoints) <= MaxCheckpoints
      /\ Transformed(t, op, now).revision = t.revision + 1
      /\ Transformed(t, op, now).status =
           IF op \in Transitions THEN Target[op] ELSE t.status
  BY TransformedProperties
<1>2. \A o \in Transitions : Target[o] \in Statuses
  BY DEF Transitions, Target, Statuses
<1> QED
  BY <1>1, <1>2 DEF Task

LEMMA StoreTypes ==
  ASSUME TypeOK, NEW c \in Calls, NEW k \in Tasks, NEW u \in Task,
         Len(u.checkpoints) <= MaxCheckpoints, u.status \in Statuses,
         call[c].by \in Attempts, Store(c, k, u)
  PROVE  TypeOK'
<1> DEFINE E == [by : Attempts, status : Statuses]
           e == [by |-> call[c].by, status |-> u.status]
<1>1. e \in E /\ log[k] \in Seq(E)
  BY DEF TypeOK
<1>2. log' = [log EXCEPT ![k] = Append(@, e)]
  BY DEF Store
<1> HIDE DEF e
<1>3. Append(log[k], e) \in Seq(E)
  BY <1>1, AppendProperties
<1>4. log' \in [Tasks -> Seq(E)]
  BY <1>2, <1>3 DEF TypeOK
<1>5. /\ table' \in [Tasks -> Task]
      /\ \A h \in Tasks : Len(table'[h].checkpoints) <= MaxCheckpoints
  BY DEF Store, TypeOK
<1>6. [call[c] EXCEPT !.pc = "written"] \in Call
  BY DEF TypeOK, Call
<1>7. call' \in [Calls -> Call]
  BY <1>6 DEF Store, TypeOK
<1> QED
  BY <1>4, <1>5, <1>7 DEF Store, TypeOK

LEMMA TypesStep ==
  ASSUME TypeOK, Inv, [Next]_vars
  PROVE  TypeOK'
<1>1. ASSUME NEW a \in Attempts, NEW op \in Mutations, NEW k \in Tasks, Intend(a, op, k)
      PROVE  TypeOK'
  <2>1. table[k].revision \in Nat
    BY DEF TypeOK, Task
  <2> QED
    BY <1>1, <2>1 DEF Intend, TypeOK
<1>2. ASSUME NEW a \in Attempts, IntendCreate(a) PROVE TypeOK'
  BY <1>2 DEF IntendCreate, TypeOK
<1>3. ASSUME NEW c \in Calls, NEW a \in Attempts, NEW k \in Tasks, SendCreate(c, a, k)
      PROVE  TypeOK'
  <2>1. [pc |-> "writing", by |-> a, id |-> k] \in Call
    BY DEF Call
  <2> QED
    BY <1>3, <2>1 DEF SendCreate, TypeOK
<1>4. ASSUME NEW c \in Calls, NEW a \in Attempts, Send(c, a) PROVE TypeOK'
  <2>1. intent[a].id \in Tasks
    BY <1>4 DEF Send, Inv, IntentsNameTasks
  <2>2. answer' \in [Attempts -> Answers \cup {"none"}]
    BY <1>4, ReplyTypes DEF Send, Answers
  <2>3. call' \in [Calls -> Call]
    <3>1. \/ call' = call
          \/ call' = [call EXCEPT ![c] = [pc |-> "writing", by |-> a, id |-> intent[a].id]]
      BY <1>4 DEF Send
    <3>2. [pc |-> "writing", by |-> a, id |-> intent[a].id] \in Call
      BY <2>1 DEF Call
    <3> QED
      BY <3>1, <3>2 DEF TypeOK
  <2> QED
    BY <1>4, <2>2, <2>3 DEF Send, TypeOK
<1>5. ASSUME NEW c \in Calls, NEW now \in Nows, PutCreated(c, now) PROVE TypeOK'
  <2>1. call[c].by \in Attempts /\ call[c].id \in Tasks
    BY <1>5 DEF PutCreated, Inv, CallsFit, CallFits
  <2>2. /\ NewTask(now) \in Task /\ Len(NewTask(now).checkpoints) <= MaxCheckpoints
        /\ NewTask(now).status = "active" /\ "active" \in Statuses
    BY TaskTypes DEF NewTask, Statuses
  <2>3. Store(c, call[c].id, NewTask(now))
    BY <1>5 DEF PutCreated
  <2> QED
    BY <2>1, <2>2, <2>3, StoreTypes
<1>6. ASSUME NEW c \in Calls, NEW now \in Nows, Update(c, now) PROVE TypeOK'
  <2>0. PICK k \in Tasks : k = intent[call[c].by].id
    BY <1>6, UpdateFacts
  <2>1. PICK u : k = intent[call[c].by].id
               /\ u = Transformed(table[k], intent[call[c].by].op, now)
    BY <2>0
  <2>2. /\ intent[call[c].by].op \in Mutations /\ now \in Nat \ {0}
        /\ table[k] \in Task /\ Len(table[k].checkpoints) <= MaxCheckpoints
        /\ table[k].status # "none" /\ call[c].by \in Attempts
        /\ Store(c, k, u)
    BY <1>6, <2>1, UpdateFacts
  <2>3. u \in Task /\ Len(u.checkpoints) <= MaxCheckpoints /\ u.status \in Statuses
    BY <2>1, <2>2, TransformedStatus
  <2> QED
    BY <2>2, <2>3, StoreTypes
<1>7. ASSUME NEW c \in Calls, RejectUpdate(c) PROVE TypeOK'
  <2>1. call[c].by \in Attempts
    BY <1>7 DEF RejectUpdate, Inv, CallsFit, CallFits
  <2>2. answer' \in [Attempts -> Answers \cup {"none"}]
    BY <1>7, <2>1, ReplyTypes DEF RejectUpdate, Answers
  <2> QED
    BY <1>7, <2>2, TaskTypes DEF RejectUpdate, TypeOK
<1>8. ASSUME NEW c \in Calls, Return(c) PROVE TypeOK'
  <2>1. call[c].by \in Attempts
    BY <1>8 DEF Return, Inv, CallsFit, CallFits
  <2>2. answer' \in [Attempts -> Answers \cup {"none"}]
    BY <1>8, <2>1, ReplyTypes DEF Return, Answers
  <2> QED
    BY <1>8, <2>2, TaskTypes DEF Return, TypeOK
<1>9. ASSUME NEW c \in Calls, StorageFails(c) PROVE TypeOK'
  BY <1>9, TaskTypes DEF StorageFails, TypeOK
<1>10. CASE Restart
  BY <1>10, TaskTypes DEF Restart, TypeOK
<1>11. CASE UNCHANGED vars
  BY <1>11 DEF vars, TypeOK
<1> QED
  BY <1>1, <1>2, <1>3, <1>4, <1>5, <1>6, <1>7, <1>8, <1>9, <1>10, <1>11 DEF Next

-----------------------------------------------------------------------------
(* Every revision belongs to the attempt that quoted its predecessor *)

LEMMA StartsRight == Init => TypeOK /\ Inv
<1> SUFFICES ASSUME Init PROVE TypeOK /\ Inv
  OBVIOUS
<1> DEFINE empty == <<>>
<1>1. empty \in Seq([by : Attempts, status : Statuses]) /\ Len(empty) = 0 /\ DOMAIN empty = {}
  BY EmptySeq
<1>2. TypeOK
  BY <1>1, TaskTypes DEF Init, TypeOK
<1>3. Inv
  BY <1>1 DEF Init, Inv, LogMatches, AuthorsFit, IntentsNameTasks, CallsFit,
    NoLostUpdate, NoTask, NoCall, NoIntent, Mutations, Transitions, Target
<1> QED
  BY <1>2, <1>3

\* Steps that intend, answer or drop calls, and write nothing.
LEMMA QuietKeepsInv ==
  ASSUME TypeOK, Inv, UNCHANGED <<table, log>>,
         \A b \in Attempts : intent[b].op # "none" => intent'[b] = intent[b],
         IntentsNameTasks', CallsFit'
  PROVE  Inv'
<1>1. LogMatches'
  BY DEF Inv, LogMatches
<1>2. \A k \in Tasks : \A r \in DOMAIN log[k] :
        log[k][r].by \in Attempts /\ intent'[log[k][r].by] = intent[log[k][r].by]
  <2>1. ASSUME NEW k \in Tasks, NEW r \in DOMAIN log[k]
        PROVE  log[k][r].by \in Attempts /\ intent[log[k][r].by].op # "none"
    <3>1. log[k][r].by \in Attempts
      <4>1. log[k] \in Seq([by : Attempts, status : Statuses]) /\ r \in 1..Len(log[k])
        BY <2>1, LenProperties DEF TypeOK
      <4>2. log[k][r] \in [by : Attempts, status : Statuses]
        BY <4>1, ElementOfSeq
      <4> QED
        BY <4>2
    <3>2. intent[log[k][r].by].op \in Mutations \cup {"create"}
      BY <2>1 DEF Inv, AuthorsFit
    <3> QED
      BY <3>1, <3>2 DEF Mutations, Transitions, Target
  <2> QED
    BY <2>1
<1>3. AuthorsFit'
  BY <1>2 DEF Inv, AuthorsFit
<1>4. NoLostUpdate'
  <2>1. \A k \in Tasks : 2..Len(log[k]) \subseteq DOMAIN log[k]
    BY LenProperties DEF TypeOK
  <2> QED
    BY <1>2, <2>1 DEF Inv, NoLostUpdate
<1> QED
  BY <1>1, <1>3, <1>4 DEF Inv

\* Dropping or advancing a running call disturbs none of the others.
LEMMA CallEnds ==
  ASSUME TypeOK, Inv, NEW c \in Calls, UNCHANGED <<table, log, intent>>,
         call' = [call EXCEPT ![c] = NoCall]
  PROVE  Inv'
<1>1. CallsFit'
  <2> SUFFICES ASSUME NEW d \in Calls, call'[d].pc # "idle"
               PROVE  CallFits(d)'
    BY DEF CallsFit
  <2>1. d # c /\ call'[d] = call[d] /\ CallFits(d)
    BY DEF NoCall, TypeOK, Inv, CallsFit
  <2>2. \A e \in Calls : call'[e].id = call[e].id \/ call'[e].id = None
    BY DEF NoCall, TypeOK
  <2> QED
    BY <2>1, <2>2, NoneAssumption DEF CallFits
<1> QED
  BY <1>1, QuietKeepsInv DEF Inv, IntentsNameTasks

\* A write of record u, by attempt a, of the next revision of task k.
LEMMA WriteKeepsInv ==
  ASSUME TypeOK, TypeOK', Inv, NEW c \in Calls, NEW a \in Attempts, NEW k \in Tasks,
         NEW u \in Task,
         call[c].pc = "writing", a = call[c].by,
         u.revision = table[k].revision + 1, u.status \in Statuses,
         \/ table[k].revision = 0 /\ intent[a].op = "create"
         \/ /\ table[k].revision # 0 /\ intent[a].op \in Mutations
            /\ intent[a].id = k /\ intent[a].base = table[k].revision,
         \A d \in Calls \ {c} : call[d].pc = "writing" /\ intent[call[d].by].op = "create"
                               => call[d].id # k,
         Store(c, k, u)
  PROVE  Inv'
<1>0. /\ table' = [table EXCEPT ![k] = u]
      /\ log' = [log EXCEPT ![k] = Append(@, [by |-> a, status |-> u.status])]
      /\ call' = [call EXCEPT ![c].pc = "written"]
      /\ UNCHANGED intent
  BY DEF Store
<1> DEFINE e == [by |-> a, status |-> u.status]
           E == [by : Attempts, status : Statuses]
           n == table[k].revision
<1>1. e \in E /\ e.by = a /\ log[k] \in Seq(E) /\ Len(log[k]) = n /\ n \in Nat
  BY DEF TypeOK, Inv, LogMatches, Task
<1>2. /\ table'[k] = u /\ log'[k] = Append(log[k], e)
      /\ \A h \in Tasks \ {k} : table'[h] = table[h] /\ log'[h] = log[h]
  BY <1>0 DEF TypeOK
<1> HIDE DEF e, E, n
<1>3. /\ Len(log'[k]) = n + 1 /\ DOMAIN log'[k] = 1..n + 1
      /\ log'[k][n + 1] = e /\ \A r \in 1..n : log'[k][r] = log[k][r]
      /\ DOMAIN log[k] = 1..n
  <2>1. /\ Append(log[k], e) \in Seq(E) /\ Len(Append(log[k], e)) = n + 1
        /\ \A r \in 1..n : Append(log[k], e)[r] = log[k][r]
        /\ Append(log[k], e)[n + 1] = e
    BY <1>1, AppendProperties
  <2> QED
    BY <1>1, <1>2, <2>1, LenProperties
<1>4. LogMatches'
  <2>0. u.revision = n + 1
    BY DEF n
  <2>1. u.status # "none"
    BY DEF Statuses
  <2> QED
    BY <1>1, <1>2, <1>3, <2>0, <2>1 DEF LogMatches, Inv
<1>5. AuthorsFit'
  <2> SUFFICES ASSUME NEW h \in Tasks, NEW r \in DOMAIN log'[h]
               PROVE  IF r = 1 THEN intent[log'[h][r].by].op = "create"
                               ELSE intent[log'[h][r].by].op \in Mutations
    BY <1>0 DEF AuthorsFit
  <2>1. CASE h = k /\ r = n + 1
    BY <1>0, <1>1, <1>3, <2>1 DEF n
  <2>2. CASE ~(h = k /\ r = n + 1)
    BY <1>2, <1>3, <2>2 DEF AuthorsFit, Inv
  <2> QED
    BY <2>1, <2>2
<1>6. NoLostUpdate'
  <2> SUFFICES ASSUME NEW h \in Tasks, NEW r \in 2..Len(log'[h])
               PROVE  /\ intent[log'[h][r].by].id = h
                      /\ intent[log'[h][r].by].base = r - 1
    BY <1>0 DEF NoLostUpdate
  <2>1. CASE h = k /\ r = n + 1
    <3>1. n # 0
      BY <2>1
    <3> QED
      BY <1>0, <1>1, <1>3, <2>1, <3>1 DEF n
  <2>2. CASE h = k /\ r # n + 1
    <3>1. r \in 2..Len(log[k]) /\ log'[k][r] = log[k][r]
      BY <1>1, <1>3, <2>2
    <3> QED
      BY <2>2, <3>1 DEF NoLostUpdate, Inv
  <2>3. CASE h # k
    BY <1>2, <2>3 DEF NoLostUpdate, Inv
  <2> QED
    BY <2>1, <2>2, <2>3
<1>7. CallsFit'
  <2> SUFFICES ASSUME NEW d \in Calls, call'[d].pc # "idle" PROVE CallFits(d)'
    BY DEF CallsFit
  <2>1. \A b \in Calls : call'[b].id = call[b].id /\ call'[b].by = call[b].by
    BY <1>0 DEF TypeOK, Call
  <2>2. CASE d = c
    <3>1. call'[c].pc = "written" /\ CallFits(c)
      BY <1>0 DEF TypeOK, Call, Inv, CallsFit
    <3> QED
      BY <1>0, <2>1, <2>2, <3>1 DEF CallFits
  <2>3. CASE d # c
    <3>1. call'[d] = call[d] /\ CallFits(d)
      BY <1>0, <2>3 DEF TypeOK, Inv, CallsFit
    <3>2. call[d].pc = "writing" /\ intent[call[d].by].op = "create" =>
            table'[call[d].id] = table[call[d].id]
      BY <1>2, <2>3, <3>1 DEF CallFits
    <3> QED
      BY <1>0, <2>1, <3>1, <3>2 DEF CallFits
  <2> QED
    BY <2>2, <2>3
<1> QED
  BY <1>0, <1>4, <1>5, <1>6, <1>7 DEF Inv, IntentsNameTasks

LEMMA CreateKeepsInv ==
  ASSUME TypeOK, TypeOK', Inv, NEW c \in Calls, NEW now \in Nows, PutCreated(c, now)
  PROVE  Inv'
<1>1. CallFits(c) /\ call[c].pc = "writing" /\ intent[call[c].by].op = "create"
  BY DEF PutCreated, Inv, CallsFit
<1>2. PICK a \in Attempts, k \in Tasks : a = call[c].by /\ k = call[c].id
  BY <1>1 DEF CallFits
<1>3. PICK u \in Task : u = NewTask(now)
  BY TaskTypes
<1>4. table[k].status = "none" /\ \A d \in Calls : d # c => call[d].id # k
  BY <1>1, <1>2 DEF CallFits
<1>5. table[k].revision = 0 /\ intent[a].op = "create"
  BY <1>1, <1>2, <1>4 DEF Inv, LogMatches
<1>6. u.revision = table[k].revision + 1 /\ u.status = "active" /\ u.status \in Statuses
  BY <1>3, <1>5 DEF NewTask, Statuses
<1>7. Store(c, k, u)
  BY <1>2, <1>3 DEF PutCreated
<1>8. \A d \in Calls \ {c} : call[d].pc = "writing" /\ intent[call[d].by].op = "create"
                            => call[d].id # k
  BY <1>4
<1> QED
  BY <1>1, <1>2, <1>5, <1>6, <1>7, <1>8, WriteKeepsInv

LEMMA UpdateKeepsInv ==
  ASSUME TypeOK, TypeOK', Inv, NEW c \in Calls, NEW now \in Nows, Update(c, now)
  PROVE  Inv'
<1>1. PICK a \in Attempts, k \in Tasks : a = call[c].by /\ k = intent[a].id
  BY UpdateFacts
<1>2. /\ intent[a].op \in Mutations /\ now \in Nat \ {0}
      /\ table[k] \in Task /\ Len(table[k].checkpoints) <= MaxCheckpoints
      /\ table[k].status # "none" /\ table[k].revision = intent[a].base
  BY <1>1, UpdateFacts
<1>3. PICK u : u = Transformed(table[k], intent[a].op, now)
  OBVIOUS
<1>4. Store(c, k, u)
  BY <1>1, <1>3, UpdateFacts
<1>5. u \in Task /\ u.revision = table[k].revision + 1
  BY <1>2, <1>3, TransformedStatus
<1>6. u.status \in Statuses
  BY <1>2, <1>3, TransformedStatus
<1>7. call[c].pc = "writing"
  BY DEF Update
<1>8. table[k].revision # 0
  BY <1>2 DEF Inv, LogMatches
<1>9. \A d \in Calls \ {c} : call[d].pc = "writing" /\ intent[call[d].by].op = "create"
                            => call[d].id # k
  BY <1>2 DEF Inv, CallsFit, CallFits
<1> QED
  BY <1>1, <1>2, <1>4, <1>5, <1>6, <1>7, <1>8, <1>9, WriteKeepsInv

LEMMA InvStep == TypeOK /\ TypeOK' /\ Inv /\ [Next]_vars => Inv'
<1> SUFFICES ASSUME TypeOK, TypeOK', Inv, [Next]_vars PROVE Inv'
  OBVIOUS
<1>1. ASSUME NEW a \in Attempts, NEW op \in Mutations, NEW k \in Tasks, Intend(a, op, k)
      PROVE  Inv'
  <2>1. /\ UNCHANGED <<table, log, call>> /\ intent[a].op = "none"
        /\ intent' = [intent EXCEPT ![a] = [op |-> op, id |-> k, base |-> table[k].revision]]
    BY <1>1 DEF Intend
  <2>2. \A b \in Attempts : intent[b].op # "none" => intent'[b] = intent[b]
    BY <2>1 DEF TypeOK
  <2>3. table[k].revision >= 1
    BY <1>1 DEF Intend, Inv, LogMatches, TypeOK, Task
  <2>4. IntentsNameTasks'
    BY <2>1, <2>3 DEF Inv, IntentsNameTasks, TypeOK
  <2>5. CallsFit'
    BY <2>1, <2>2 DEF Inv, CallsFit, CallFits, Mutations, Transitions, Target
  <2> QED
    BY <2>1, <2>2, <2>4, <2>5, QuietKeepsInv
<1>2. ASSUME NEW a \in Attempts, IntendCreate(a) PROVE Inv'
  <2>1. /\ UNCHANGED <<table, log, call>> /\ intent[a].op = "none"
        /\ intent' = [intent EXCEPT ![a].op = "create"]
    BY <1>2 DEF IntendCreate
  <2>2. \A b \in Attempts : intent[b].op # "none" => intent'[b] = intent[b]
    BY <2>1 DEF TypeOK
  <2>3. intent'[a].op = "create" /\ \A b \in Attempts \ {a} : intent'[b] = intent[b]
    BY <2>1 DEF TypeOK
  <2>4. IntentsNameTasks'
    BY <2>3 DEF Inv, IntentsNameTasks, Mutations, Transitions, Target
  <2>5. CallsFit'
    BY <2>1, <2>2 DEF Inv, CallsFit, CallFits, Mutations, Transitions, Target
  <2> QED
    BY <2>1, <2>2, <2>4, <2>5, QuietKeepsInv
<1>3. ASSUME NEW c \in Calls, NEW a \in Attempts, NEW k \in Tasks, SendCreate(c, a, k)
      PROVE  Inv'
  <2>1. /\ UNCHANGED <<table, log, intent>> /\ intent[a].op = "create"
        /\ table[k].status = "none" /\ \A d \in Calls : call[d].id # k
        /\ call'[c] = [pc |-> "writing", by |-> a, id |-> k]
        /\ \A d \in Calls \ {c} : call'[d] = call[d]
    BY <1>3 DEF SendCreate, TypeOK
  <2>2. CallsFit'
    <3> SUFFICES ASSUME NEW d \in Calls, call'[d].pc # "idle" PROVE CallFits(d)'
      BY DEF CallsFit
    <3>1. CASE d = c
      BY <2>1, <3>1 DEF CallFits
    <3>2. CASE d # c
      <4>1. CallFits(d)
        BY <2>1, <3>2 DEF Inv, CallsFit
      <4> QED
        BY <2>1, <3>2, <4>1 DEF CallFits
    <3> QED
      BY <3>1, <3>2
  <2> QED
    BY <2>1, <2>2, QuietKeepsInv DEF Inv, IntentsNameTasks
<1>4. ASSUME NEW c \in Calls, NEW a \in Attempts, Send(c, a) PROVE Inv'
  <2>1. UNCHANGED <<table, log, intent>>
    BY <1>4 DEF Send
  <2>2. CASE UNCHANGED call
    BY <2>1, <2>2, QuietKeepsInv DEF Inv, IntentsNameTasks, CallsFit, CallFits
  <2>3. CASE call' = [call EXCEPT ![c] = [pc |-> "writing", by |-> a, id |-> intent[a].id]]
    <3>1. /\ call'[c] = [pc |-> "writing", by |-> a, id |-> intent[a].id]
          /\ \A d \in Calls \ {c} : call'[d] = call[d]
      BY <2>3 DEF TypeOK
    <3>2. /\ intent[a].op \in Mutations /\ intent[a].op # "create"
          /\ intent[a].id \in Tasks /\ table[intent[a].id].status # "none"
      <4>1. intent[a].op \in Mutations /\ intent[a].id \in Tasks /\ intent[a].base >= 1
        BY <1>4 DEF Send, Inv, IntentsNameTasks
      <4>2. UNCHANGED call \/ table[intent[a].id].revision = intent[a].base
        BY <1>4 DEF Send, HasRevision
      <4>3. call[c].pc = "idle" /\ call' # call
        BY <1>4, <2>3 DEF Send, TypeOK
      <4> QED
        BY <4>1, <4>2, <4>3 DEF Inv, LogMatches, Mutations, Transitions, Target
    <3>3. CallsFit'
      <4> SUFFICES ASSUME NEW d \in Calls, call'[d].pc # "idle" PROVE CallFits(d)'
        BY DEF CallsFit
      <4>1. CASE d = c
        BY <2>1, <3>1, <3>2, <4>1 DEF CallFits
      <4>2. CASE d # c
        <5>1. CallFits(d)
          BY <3>1, <4>2 DEF Inv, CallsFit
        <5> QED
          BY <2>1, <3>1, <3>2, <4>2, <5>1 DEF CallFits
      <4> QED
        BY <4>1, <4>2
    <3> QED
      BY <2>1, <3>3, QuietKeepsInv DEF Inv, IntentsNameTasks
  <2> QED
    BY <1>4, <2>2, <2>3 DEF Send
<1>5. ASSUME NEW c \in Calls, NEW now \in Nows, PutCreated(c, now) \/ Update(c, now)
      PROVE  Inv'
  BY <1>5, CreateKeepsInv, UpdateKeepsInv
<1>6. ASSUME NEW c \in Calls, RejectUpdate(c) \/ Return(c) \/ StorageFails(c) PROVE Inv'
  BY <1>6, CallEnds DEF RejectUpdate, Return, StorageFails
<1>7. CASE Restart
  <2>1. CallsFit'
    BY <1>7 DEF Restart, CallsFit, NoCall
  <2> QED
    BY <1>7, <2>1, QuietKeepsInv DEF Restart, Inv, IntentsNameTasks
<1>8. CASE UNCHANGED vars
  BY <1>8, QuietKeepsInv DEF vars, Inv, IntentsNameTasks, CallsFit, CallFits
<1> QED
  BY <1>1, <1>2, <1>3, <1>4, <1>5, <1>6, <1>7, <1>8 DEF Next

LEMMA InvHolds == Spec => [](TypeOK /\ Inv)
<1>1. TypeOK /\ Inv /\ [Next]_vars => TypeOK' /\ Inv'
  BY TypesStep, InvStep
<1> QED
  BY <1>1, StartsRight, PTL DEF Spec

-----------------------------------------------------------------------------
(* Theorems *)

\* Every record, call, attempt and log entry has its type, and no record
\* carries more than MaxCheckpoints checkpoints.
THEOREM TypeCorrect == Spec => []TypeOK
BY InvHolds, PTL

\* Whatever calls overlap, are retried or cut off, each revision was written
\* by a mutation that quoted its predecessor, and no mutation wrote twice.
THEOREM WritesAreSafe == Spec => [](NoLostUpdate /\ AppliedOnce)
<1>1. TypeOK /\ Inv => AppliedOnce
  <2> SUFFICES ASSUME TypeOK, Inv, NEW k \in Tasks, NEW r \in DOMAIN log[k],
                      NEW s \in DOMAIN log[k], log[k][r].by = log[k][s].by
               PROVE  r = s
    BY DEF AppliedOnce
  <2>1. r \in Nat /\ s \in Nat /\ (r # 1 => r \in 2..Len(log[k])) /\ (s # 1 => s \in 2..Len(log[k]))
    BY LenProperties DEF TypeOK
  <2>2. r = 1 <=> s = 1
    BY DEF Inv, AuthorsFit, Mutations, Transitions, Target
  <2>3. CASE r # 1
    <3>1. intent[log[k][r].by].base = r - 1 /\ intent[log[k][s].by].base = s - 1
      BY <2>1, <2>2, <2>3 DEF Inv, NoLostUpdate
    <3> QED
      BY <2>1, <3>1
  <2> QED
    BY <2>2, <2>3
<1> QED
  BY <1>1, InvHolds, PTL DEF Inv

\* A restarted host can load every record, whatever wrote it.
THEOREM RecordsParse == Spec => []StoredTasksParse
<1>1. Init => StoredTasksParse
  BY DEF Init, StoredTasksParse, Parses, NoTask
<1>2. TypeOK /\ Inv /\ StoredTasksParse /\ [Next]_vars => StoredTasksParse'
  <2> SUFFICES ASSUME TypeOK, Inv, StoredTasksParse, [Next]_vars PROVE StoredTasksParse'
    OBVIOUS
  <2>1. ASSUME NEW c \in Calls, NEW now \in Nows, PutCreated(c, now)
        PROVE  StoredTasksParse'
    <3>1. PICK k \in Tasks : table' = [table EXCEPT ![k] = NewTask(now)]
      BY <2>1 DEF PutCreated, Store, Inv, CallsFit, CallFits
    <3>2. /\ table'[k].revision = 1 /\ table'[k].status = "active"
          /\ table'[k].completedAt = 0 /\ table'[k].checkpoints = <<>>
          /\ \A h \in Tasks \ {k} : table'[h] = table[h]
      BY <3>1 DEF TypeOK, NewTask
    <3> QED
      BY <3>2, BoundsAssumption DEF StoredTasksParse, Parses
  <2>2. ASSUME NEW c \in Calls, NEW now \in Nows, Update(c, now)
        PROVE  StoredTasksParse'
    <3>0. PICK k \in Tasks : k = intent[call[c].by].id
      BY <2>2, UpdateFacts
    <3>1. PICK u : k = intent[call[c].by].id
                 /\ u = Transformed(table[k], intent[call[c].by].op, now)
      BY <3>0
    <3>2. PICK op \in Mutations : op = intent[call[c].by].op
      BY <2>2, <3>1, UpdateFacts
    <3>3. /\ now \in Nat \ {0} /\ table[k] \in Task
          /\ Len(table[k].checkpoints) <= MaxCheckpoints
          /\ table[k].status # "none" /\ Store(c, k, u)
      BY <2>2, <3>1, UpdateFacts
    <3>4. table'[k] = u /\ \A h \in Tasks \ {k} : table'[h] = table[h]
      BY <3>3 DEF Store, TypeOK
    <3>10. u = Transformed(table[k], op, now)
      BY <3>1, <3>2
    <3>5. /\ u \in Task /\ Len(u.checkpoints) <= MaxCheckpoints
          /\ u.revision = table[k].revision + 1
          /\ u.status = IF op \in Transitions THEN Target[op] ELSE table[k].status
          /\ op \in Transitions => (u.status = "completed" <=> u.completedAt # 0)
          /\ op \notin Transitions => u.completedAt = table[k].completedAt
          /\ \A i \in DOMAIN u.checkpoints :
               \/ \E j \in DOMAIN table[k].checkpoints : u.checkpoints[i] = table[k].checkpoints[j]
               \/ u.checkpoints[i].revision = u.revision
      BY <3>10, <3>3, TransformedProperties
    <3>6. /\ table[k].revision \in Nat /\ table[k].revision >= 1
          /\ table[k].status = "completed" <=> table[k].completedAt # 0
          /\ \A i \in DOMAIN table[k].checkpoints :
               table[k].checkpoints[i].revision \in 2..table[k].revision
      BY <3>3 DEF StoredTasksParse, Parses, Task
    <3>7. \A i \in DOMAIN u.checkpoints : u.checkpoints[i].revision \in 2..u.revision
      BY <3>5, <3>6
    <3>8. u.status = "completed" <=> u.completedAt # 0
      BY <3>5, <3>6
    <3>9. u.revision >= 1
      BY <3>5, <3>6
    <3> QED
      BY <3>4, <3>5, <3>7, <3>8, <3>9 DEF StoredTasksParse, Parses
  <2>3. UNCHANGED table => StoredTasksParse'
    BY DEF StoredTasksParse, Parses
  <2> QED
    BY <2>1, <2>2, <2>3 DEF Next, Intend, IntendCreate, SendCreate, Send, RejectUpdate,
      Return, StorageFails, Restart, vars
<1> QED
  BY <1>1, <1>2, InvHolds, PTL DEF Spec

\* task_state implements what TaskPromise tells readers of a task.
THEOREM PromiseKept == Spec => TaskPromiseKept
<1> DEFINE shown(t) == [status |-> t.status, revision |-> t.revision]
<1>1. Init => Promise!ViewInit
  BY DEF Init, Promise!ViewInit, NoTask
<1>2. TypeOK /\ Inv /\ [Next]_vars =>
        [Promise!ViewNext]_([k \in Tasks |-> [status |-> table[k].status, revision |-> table[k].revision]])
  <2> SUFFICES ASSUME TypeOK, Inv, [Next]_vars, table' # table
               PROVE  Promise!ViewNext
    OBVIOUS
  <2>1. ASSUME NEW c \in Calls, NEW now \in Nows, PutCreated(c, now)
        PROVE  Promise!ViewNext
    <3>1. PICK k \in Tasks : k = call[c].id /\ table[k].status = "none"
      BY <2>1 DEF PutCreated, Inv, CallsFit, CallFits
    <3>2. table' = [table EXCEPT ![k] = NewTask(now)]
      BY <2>1, <3>1 DEF PutCreated, Store
    <3>3. /\ table'[k].status = "active" /\ table'[k].revision = 1
          /\ \A h \in Tasks \ {k} : table'[h] = table[h]
      BY <3>2 DEF TypeOK, NewTask
    <3>4. Promise!Appear(k)
      BY <3>1, <3>3 DEF Promise!Appear
    <3> QED
      BY <3>4 DEF Promise!ViewNext
  <2>2. ASSUME NEW c \in Calls, NEW now \in Nows, Update(c, now)
        PROVE  Promise!ViewNext
    <3>0. PICK k \in Tasks : k = intent[call[c].by].id
      BY <2>2, UpdateFacts
    <3>1. PICK u : k = intent[call[c].by].id
                 /\ u = Transformed(table[k], intent[call[c].by].op, now)
      BY <3>0
    <3>2. PICK op \in Mutations : op = intent[call[c].by].op
      BY <2>2, <3>1, UpdateFacts
    <3>3. /\ now \in Nat \ {0} /\ table[k] \in Task
          /\ Len(table[k].checkpoints) <= MaxCheckpoints
          /\ table[k].status # "none" /\ Store(c, k, u)
      BY <2>2, <3>1, UpdateFacts
    <3>4. table'[k] = u /\ \A h \in Tasks \ {k} : table'[h] = table[h]
      BY <3>3 DEF Store, TypeOK
    <3>5. u.revision = table[k].revision + 1 /\ u.status \in Statuses
      BY <3>1, <3>2, <3>3, TransformedStatus
    <3>6. table[k].status = "completed" => u.status = "completed"
      <4>1. u.status = IF op \in Transitions THEN Target[op] ELSE table[k].status
        BY <3>1, <3>2, <3>3, TransformedProperties
      <4>2. Allowed(table[k], op)
        BY <2>2, <3>1, <3>2 DEF Update
      <4> QED
        BY <4>1, <4>2 DEF Allowed, Transitions, Target
    <3>7. Promise!Advance(k, u.status)
      BY <3>3, <3>4, <3>5, <3>6 DEF Promise!Advance
    <3> QED
      BY <3>5, <3>7 DEF Promise!ViewNext, Promise!Statuses, Statuses
  <2> QED
    BY <2>1, <2>2 DEF Next, Intend, IntendCreate, SendCreate, Send, RejectUpdate,
      Return, StorageFails, Restart, vars
<1> QED
  BY <1>1, <1>2, InvHolds, PTL DEF Spec, TaskPromiseKept, Promise!ViewSpec

-----------------------------------------------------------------------------
(* What conversations are told *)

\* An answered attempt was intended; one told "unchanged" is a transition.
Answered ==
  \A a \in Attempts :
    /\ answer[a] # "none" => intent[a].op # "none"
    /\ answer[a] = "unchanged" => intent[a].op \in Transitions

\* The last entry of the log shows the status of the record.
StatusLogged ==
  \A k \in Tasks : table[k].revision >= 1 =>
    log[k][table[k].revision].status = table[k].status

\* Revision r of task k was written by attempt a.
WroteRevision(a, k, r) == r \in DOMAIN log[k] /\ log[k][r].by = a

\* A call that has written, and waits to answer, wrote the revision after
\* the one its attempt quoted.
WrittenLogged ==
  \A c \in Calls : call[c].pc = "written" /\ intent[call[c].by].op \in Mutations =>
    LET i == intent[call[c].by] IN WroteRevision(call[c].by, i.id, i.base + 1)

AnswerInv == Answered /\ StatusLogged /\ WrittenLogged /\ AnswersAreTrue

\* Entries of the log are only added, and an intention is never changed.
HistoryKept ==
  /\ \A k \in Tasks : \A r \in DOMAIN log[k] :
       r \in DOMAIN log'[k] /\ log'[k][r] = log[k][r]
  /\ \A a \in Attempts : intent[a].op # "none" => intent'[a] = intent[a]

\* What an answer, once given, says stays true.
LEMMA AnswersStay ==
  ASSUME TypeOK, Inv, AnswerInv, HistoryKept, NEW a \in Attempts
  PROVE  /\ answer[a] = "applied" /\ intent'[a].op \in Mutations =>
              /\ intent'[a].base + 1 \in DOMAIN log'[intent'[a].id]
              /\ log'[intent'[a].id][intent'[a].base + 1].by = a
         /\ answer[a] = "unchanged" =>
              /\ intent'[a].base \in DOMAIN log'[intent'[a].id]
              /\ log'[intent'[a].id][intent'[a].base].status = Target[intent'[a].op]
<1>1. CASE answer[a] = "none"
  BY <1>1
<1>2. CASE answer[a] # "none"
  <2>1. intent'[a] = intent[a]
    BY <1>2 DEF AnswerInv, Answered, HistoryKept
  <2>2. intent[a].op \in Mutations => intent[a].id \in Tasks
    BY DEF Inv, IntentsNameTasks
  <2>3. answer[a] = "unchanged" => intent[a].op \in Mutations
    BY DEF AnswerInv, Answered, Mutations
  <2> DEFINE i == intent[a]
  <2>4. /\ answer[a] = "applied" /\ i.op \in Mutations =>
             i.base + 1 \in DOMAIN log[i.id] /\ log[i.id][i.base + 1].by = a
        /\ answer[a] = "unchanged" =>
             i.base \in DOMAIN log[i.id] /\ log[i.id][i.base].status = Target[i.op]
    BY DEF AnswerInv, AnswersAreTrue
  <2>5. i.id \in Tasks => \A r \in DOMAIN log[i.id] :
          r \in DOMAIN log'[i.id] /\ log'[i.id][r] = log[i.id][r]
    BY DEF HistoryKept
  <2> HIDE DEF i
  <2>6. i.op \in Mutations => i.id \in Tasks
    BY <2>2 DEF i
  <2>7. intent'[a] = i
    BY <2>1 DEF i
  <2>8. answer[a] = "unchanged" => i.op \in Mutations
    BY <2>3 DEF i
  <2> QED
    BY <2>4, <2>5, <2>6, <2>7, <2>8
<1> QED
  BY <1>1, <1>2

\* A stored record is entered in the log of its task, after what is there.
LEMMA StoreLogs ==
  ASSUME TypeOK, Inv, NEW c \in Calls, NEW k \in Tasks, NEW u,
         u.status \in Statuses, call[c].by \in Attempts, Store(c, k, u)
  PROVE  /\ Len(log[k]) = table[k].revision /\ table[k].revision \in Nat
         /\ DOMAIN log[k] = 1..table[k].revision
         /\ DOMAIN log'[k] = 1..table[k].revision + 1
         /\ log'[k][table[k].revision + 1] = [by |-> call[c].by, status |-> u.status]
         /\ \A r \in DOMAIN log[k] : log'[k][r] = log[k][r]
         /\ \A h \in Tasks \ {k} : log'[h] = log[h] /\ table'[h] = table[h]
         /\ table'[k] = u
         /\ HistoryKept
<1> DEFINE E == [by : Attempts, status : Statuses]
           e == [by |-> call[c].by, status |-> u.status]
           n == table[k].revision
<1>1. e \in E /\ log[k] \in Seq(E) /\ Len(log[k]) = n /\ n \in Nat
  BY DEF TypeOK, Inv, LogMatches, Task
<1>2. /\ log'[k] = Append(log[k], e) /\ table'[k] = u
      /\ \A h \in Tasks \ {k} : table'[h] = table[h] /\ log'[h] = log[h]
  BY DEF Store, TypeOK
<1> HIDE DEF e, E, n
<1>3. /\ Append(log[k], e) \in Seq(E) /\ Len(Append(log[k], e)) = n + 1
      /\ \A r \in 1..n : Append(log[k], e)[r] = log[k][r]
      /\ Append(log[k], e)[n + 1] = e
  BY <1>1, AppendProperties
<1>4. DOMAIN log[k] = 1..n /\ DOMAIN log'[k] = 1..n + 1
  BY <1>1, <1>2, <1>3, LenProperties
<1>5. \A r \in 1..n : log'[k][r] = log[k][r]
  BY <1>2, <1>3
<1>6. \A h \in Tasks : \A r \in DOMAIN log[h] : r \in DOMAIN log'[h] /\ log'[h][r] = log[h][r]
  <2>1. \A r \in 1..n : r \in 1..n + 1
    BY <1>1
  <2>2. \A h \in Tasks \ {k} : log'[h] = log[h]
    BY <1>2
  <2> QED
    BY <1>4, <1>5, <2>1, <2>2
<1>7. intent' = intent
  BY DEF Store
<1> QED
  BY <1>1, <1>2, <1>3, <1>4, <1>5, <1>6, <1>7 DEF HistoryKept, e, n

\* A step that writes nothing, and keeps what was intended, keeps AnswerInv
\* when what it answers is true and the calls that have written are the same.
LEMMA QuietAnswers ==
  ASSUME TypeOK, Inv, AnswerInv, UNCHANGED <<table, log>>,
         \A a \in Attempts : intent[a].op # "none" => intent'[a] = intent[a],
         Answered', AnswersAreTrue',
         \A c \in Calls : call'[c].pc = "written" => call'[c] = call[c]
  PROVE  AnswerInv'
<1>1. StatusLogged'
  BY DEF AnswerInv, StatusLogged
<1>2. WrittenLogged'
  <2> SUFFICES ASSUME NEW c \in Calls, call'[c].pc = "written",
                      intent'[call'[c].by].op \in Mutations
               PROVE  WroteRevision(call[c].by, intent[call[c].by].id, intent[call[c].by].base + 1)'
    BY DEF WrittenLogged
  <2>1. call'[c] = call[c] /\ CallFits(c)
    BY DEF Inv, CallsFit
  <2>2. call[c].by \in Attempts /\ intent[call[c].by].op # "none"
    BY <2>1 DEF CallFits, Mutations, Transitions, Target
  <2>3. intent'[call[c].by] = intent[call[c].by]
    BY <2>2
  <2>4. WroteRevision(call[c].by, intent[call[c].by].id, intent[call[c].by].base + 1)
    BY <2>1, <2>3 DEF AnswerInv, WrittenLogged
  <2> QED
    BY <2>1, <2>3, <2>4 DEF WroteRevision
<1> QED
  BY <1>1, <1>2 DEF AnswerInv

\* A conversation hears r now, or had heard something before, or hears
\* nothing: what it knows is true when r is.
LEMMA ReplyAnswers ==
  ASSUME TypeOK, Inv, AnswerInv, NEW a \in Attempts, NEW r \in Answers,
         UNCHANGED <<table, log, intent>>, intent[a].op # "none",
         r = "unchanged" =>
           /\ intent[a].op \in Transitions /\ intent[a].base \in DOMAIN log[intent[a].id]
           /\ log[intent[a].id][intent[a].base].status = Target[intent[a].op],
         r = "applied" /\ intent[a].op \in Mutations =>
           WroteRevision(a, intent[a].id, intent[a].base + 1),
         Reply(a, r) \/ UNCHANGED answer
  PROVE  Answered' /\ AnswersAreTrue'
<1>1. \A b \in Attempts : answer'[b] = answer[b] \/ (b = a /\ answer'[b] = r)
  BY DEF Reply, TypeOK
<1>2. Answered'
  BY <1>1 DEF Answered, AnswerInv
<1>3. AnswersAreTrue'
  BY <1>1 DEF AnswersAreTrue, AnswerInv, WroteRevision
<1> QED
  BY <1>2, <1>3

\* A write enters the revision its call will report.
LEMMA WriteAnswers ==
  ASSUME TypeOK, Inv, AnswerInv, NEW c \in Calls, NEW k \in Tasks, NEW u \in Task,
         u.revision = table[k].revision + 1, u.status \in Statuses,
         call[c].by \in Attempts, Store(c, k, u),
         intent[call[c].by].op \in Mutations =>
           intent[call[c].by].id = k /\ intent[call[c].by].base = table[k].revision
  PROVE  AnswerInv'
<1> DEFINE n == table[k].revision
<1>1. /\ n \in Nat /\ DOMAIN log[k] = 1..n /\ DOMAIN log'[k] = 1..n + 1
      /\ log'[k][n + 1] = [by |-> call[c].by, status |-> u.status]
      /\ \A r \in DOMAIN log[k] : log'[k][r] = log[k][r]
      /\ \A h \in Tasks \ {k} : log'[h] = log[h] /\ table'[h] = table[h]
      /\ table'[k] = u
      /\ HistoryKept
  BY StoreLogs
<1>2. UNCHANGED <<intent, answer>> /\ call' = [call EXCEPT ![c].pc = "written"]
  BY DEF Store
<1>3. Answered'
  BY <1>2 DEF AnswerInv, Answered
<1>4. StatusLogged'
  BY <1>1 DEF AnswerInv, StatusLogged
<1>5. AnswersAreTrue'
  BY <1>1, <1>2, AnswersStay DEF AnswersAreTrue
<1>6. WrittenLogged'
  <2> SUFFICES ASSUME NEW d \in Calls, call'[d].pc = "written",
                      intent[call'[d].by].op \in Mutations
               PROVE  WroteRevision(call[d].by, intent[call[d].by].id, intent[call[d].by].base + 1)'
    BY <1>2 DEF WrittenLogged
  <2>1. CASE d = c
    <3>1. call'[c].by = call[c].by
      BY <1>2 DEF TypeOK, Call
    <3>2. n + 1 \in 1..n + 1
      BY <1>1
    <3> QED
      BY <1>1, <1>2, <2>1, <3>1, <3>2 DEF WroteRevision
  <2>2. CASE d # c
    <3>1. call'[d] = call[d]
      BY <1>2, <2>2 DEF TypeOK
    <3>2. WroteRevision(call[d].by, intent[call[d].by].id, intent[call[d].by].base + 1)
      BY <3>1 DEF AnswerInv, WrittenLogged
    <3>3. call[d].by \in Attempts
      BY <3>1 DEF Inv, CallsFit, CallFits
    <3>4. intent[call[d].by].id \in Tasks
      BY <3>1, <3>3 DEF Inv, IntentsNameTasks
    <3> QED
      BY <1>1, <1>2, <3>1, <3>2, <3>4 DEF WroteRevision, HistoryKept
  <2> QED
    BY <2>1, <2>2
<1> QED
  BY <1>3, <1>4, <1>5, <1>6 DEF AnswerInv

LEMMA AnswerStep == TypeOK /\ TypeOK' /\ Inv /\ AnswerInv /\ [Next]_vars => AnswerInv'
<1> SUFFICES ASSUME TypeOK, TypeOK', Inv, AnswerInv, [Next]_vars PROVE AnswerInv'
  OBVIOUS
<1>1. ASSUME NEW a \in Attempts, intent[a].op = "none", UNCHANGED <<table, call, answer, log>>,
             \A b \in Attempts \ {a} : intent'[b] = intent[b]
      PROVE  AnswerInv'
  <2>1. \A b \in Attempts : intent[b].op # "none" => intent'[b] = intent[b]
    BY <1>1
  <2>2. answer[a] = "none"
    BY <1>1 DEF AnswerInv, Answered
  <2>3. Answered'
    BY <1>1, <2>2 DEF AnswerInv, Answered
  <2>4. AnswersAreTrue'
    BY <1>1, <2>2 DEF AnswerInv, AnswersAreTrue
  <2> QED
    BY <1>1, <2>1, <2>3, <2>4, QuietAnswers
<1>2. ASSUME NEW a \in Attempts, NEW op \in Mutations, NEW k \in Tasks, Intend(a, op, k)
      PROVE  AnswerInv'
  BY <1>1, <1>2 DEF Intend, TypeOK
<1>3. ASSUME NEW a \in Attempts, IntendCreate(a) PROVE AnswerInv'
  BY <1>1, <1>3 DEF IntendCreate, TypeOK
<1>4. ASSUME NEW c \in Calls, NEW a \in Attempts, NEW k \in Tasks, SendCreate(c, a, k)
      PROVE  AnswerInv'
  <2>1. UNCHANGED <<table, intent, answer, log>>
        /\ \A d \in Calls : call'[d].pc = "written" => call'[d] = call[d]
    BY <1>4 DEF SendCreate, TypeOK
  <2> QED
    BY <2>1, QuietAnswers DEF AnswerInv, Answered, AnswersAreTrue
<1>5. ASSUME NEW c \in Calls, NEW a \in Attempts, Send(c, a) PROVE AnswerInv'
  <2>1. /\ UNCHANGED <<table, intent, log>> /\ intent[a].op \in Mutations
        /\ intent[a].op # "none"
        /\ \A d \in Calls : call'[d].pc = "written" => call'[d] = call[d]
    BY <1>5 DEF Send, TypeOK, Mutations, Transitions, Target
  <2>2. PICK r \in {"conflict", "invalid", "unchanged"} :
          /\ Reply(a, r) \/ UNCHANGED answer
          /\ r = "unchanged" => HasRevision(intent[a]) /\ AlreadyThere(table[intent[a].id], intent[a].op)
    BY <1>5 DEF Send
  <2>3. r = "unchanged" =>
          /\ intent[a].op \in Transitions /\ intent[a].base \in DOMAIN log[intent[a].id]
          /\ log[intent[a].id][intent[a].base].status = Target[intent[a].op]
    <3> SUFFICES ASSUME r = "unchanged"
                 PROVE  /\ intent[a].op \in Transitions /\ intent[a].base \in DOMAIN log[intent[a].id]
                        /\ log[intent[a].id][intent[a].base].status = Target[intent[a].op]
      OBVIOUS
    <3>1. PICK k \in Tasks : k = intent[a].id
      BY <2>1 DEF Inv, IntentsNameTasks
    <3>2. /\ intent[a].op \in Transitions /\ table[k].status = Target[intent[a].op]
          /\ table[k].revision = intent[a].base
      BY <2>2, <3>1 DEF HasRevision, AlreadyThere
    <3>3. intent[a].base >= 1 /\ intent[a].base \in Nat /\ Len(log[k]) = table[k].revision
      BY <2>1 DEF Inv, IntentsNameTasks, LogMatches, TypeOK
    <3>4. DOMAIN log[k] = 1..table[k].revision
      BY <3>3, LenProperties DEF TypeOK
    <3>5. log[k][table[k].revision].status = table[k].status
      BY <3>2, <3>3 DEF AnswerInv, StatusLogged
    <3> QED
      BY <3>1, <3>2, <3>3, <3>4, <3>5
  <2>4. Answered' /\ AnswersAreTrue'
    BY <2>1, <2>2, <2>3, ReplyAnswers DEF Answers
  <2> QED
    BY <2>1, <2>4, QuietAnswers
<1>6. ASSUME NEW c \in Calls, NEW now \in Nows, PutCreated(c, now) PROVE AnswerInv'
  <2>1. CallFits(c) /\ call[c].pc = "writing" /\ intent[call[c].by].op = "create"
    BY <1>6 DEF PutCreated, Inv, CallsFit
  <2>2. PICK k \in Tasks : k = call[c].id /\ table[k].status = "none"
    BY <2>1 DEF CallFits
  <2>3. PICK u \in Task : u = NewTask(now)
    BY TaskTypes
  <2>4. table[k].revision = 0 /\ call[c].by \in Attempts
    BY <2>1, <2>2 DEF Inv, LogMatches, CallFits
  <2>5. u.revision = table[k].revision + 1 /\ u.status \in Statuses
    BY <2>3, <2>4 DEF NewTask, Statuses
  <2>6. Store(c, k, u)
    BY <1>6, <2>2, <2>3 DEF PutCreated
  <2>7. intent[call[c].by].op \notin Mutations
    BY <2>1 DEF Mutations, Transitions, Target
  <2> QED
    BY <2>4, <2>5, <2>6, <2>7, WriteAnswers
<1>7. ASSUME NEW c \in Calls, NEW now \in Nows, Update(c, now) PROVE AnswerInv'
  <2>1. PICK a \in Attempts, k \in Tasks : a = call[c].by /\ k = intent[a].id
    BY <1>7, UpdateFacts
  <2>2. /\ intent[a].op \in Mutations /\ now \in Nat \ {0}
        /\ table[k] \in Task /\ Len(table[k].checkpoints) <= MaxCheckpoints
        /\ table[k].status # "none" /\ table[k].revision = intent[a].base
    BY <1>7, <2>1, UpdateFacts
  <2>3. PICK u : u = Transformed(table[k], intent[a].op, now)
    OBVIOUS
  <2>4. Store(c, k, u)
    BY <1>7, <2>1, <2>3, UpdateFacts
  <2>5. u \in Task /\ u.revision = table[k].revision + 1 /\ u.status \in Statuses
    BY <2>2, <2>3, TransformedStatus
  <2> QED
    BY <2>1, <2>2, <2>4, <2>5, WriteAnswers
<1>8. ASSUME NEW c \in Calls, UNCHANGED <<table, intent, log>>, call[c].pc # "idle",
             call' = [call EXCEPT ![c] = NoCall],
             NEW r \in {"conflict", "invalid", "applied"},
             r = "applied" => call[c].pc = "written",
             Reply(call[c].by, r) \/ UNCHANGED answer
      PROVE  AnswerInv'
  <2>1. CallFits(c)
    BY <1>8 DEF Inv, CallsFit
  <2>2. PICK a \in Attempts : a = call[c].by /\ intent[a].op # "none"
    BY <2>1 DEF CallFits, Mutations, Transitions, Target
  <2>3. r = "applied" /\ intent[a].op \in Mutations => WroteRevision(a, intent[a].id, intent[a].base + 1)
    BY <1>8, <2>2 DEF AnswerInv, WrittenLogged
  <2>4. Answered' /\ AnswersAreTrue'
    BY <1>8, <2>2, <2>3, ReplyAnswers DEF Answers
  <2>5. \A d \in Calls : call'[d].pc = "written" => call'[d] = call[d]
    BY <1>8 DEF TypeOK, NoCall
  <2> QED
    BY <1>8, <2>4, <2>5, QuietAnswers
<1>9. ASSUME NEW c \in Calls, RejectUpdate(c) PROVE AnswerInv'
  BY <1>8, <1>9 DEF RejectUpdate
<1>10. ASSUME NEW c \in Calls, Return(c) PROVE AnswerInv'
  BY <1>8, <1>10 DEF Return
<1>11. ASSUME NEW c \in Calls, StorageFails(c) PROVE AnswerInv'
  BY <1>8, <1>11 DEF StorageFails
<1>12. CASE Restart
  <2>1. \A c \in Calls : call'[c].pc # "written"
    BY <1>12 DEF Restart, NoCall
  <2> QED
    BY <1>12, <2>1, QuietAnswers DEF Restart, AnswerInv, Answered, AnswersAreTrue
<1>13. CASE UNCHANGED vars
  BY <1>13, QuietAnswers DEF vars, AnswerInv, Answered, AnswersAreTrue
<1> QED
  BY <1>2, <1>3, <1>4, <1>5, <1>6, <1>7, <1>9, <1>10, <1>11, <1>12, <1>13 DEF Next

\* An "applied" names the revision that the conversation's own mutation
\* wrote, an "unchanged" a revision at which the task had the status asked for.
THEOREM AnswersTrue == Spec => []AnswersAreTrue
<1>1. Init => AnswerInv
  <2> SUFFICES ASSUME Init PROVE AnswerInv
    OBVIOUS
  <2>1. \A k \in Tasks : table[k].revision = 0
    BY DEF Init, NoTask
  <2> QED
    BY <2>1 DEF Init, AnswerInv, Answered, StatusLogged, WrittenLogged, AnswersAreTrue, NoCall
<1>2. AnswerInv => AnswersAreTrue
  BY DEF AnswerInv
<1> QED
  BY <1>1, <1>2, AnswerStep, InvHolds, PTL DEF Spec

-----------------------------------------------------------------------------
(* The checkpoint list *)

\* The list cps is the newest part of the checkpoints made at revisions
\* made, in order, and no entry is stamped later than stamp.
NewestOf(cps, made, stamp) ==
  LET kept == {cps[i].revision : i \in DOMAIN cps} IN
  /\ kept \subseteq made
  /\ \A r \in made \ kept : Len(cps) = MaxCheckpoints /\ \A s \in kept : r < s
  /\ \A i, j \in DOMAIN cps : i < j =>
       cps[i].revision < cps[j].revision /\ cps[i].at < cps[j].at
  /\ \A i \in DOMAIN cps : cps[i].at <= stamp

\* The revisions at which checkpoints of task k were made.
Made(k) == {r \in DOMAIN log[k] : intent[log[k][r].by].op = "checkpoint"}

CheckpointInv ==
  \A k \in Tasks : NewestOf(table[k].checkpoints, Made(k), table[k].updatedAt)

\* A checkpoint is appended; when the list was full its first entry is
\* dropped, and the others move up.
LEMMA CheckpointAppends ==
  ASSUME NEW t \in Task, NEW now \in Nat \ {0}, Len(t.checkpoints) <= MaxCheckpoints
  PROVE  LET u == Transformed(t, "checkpoint", now)
             n == Len(t.checkpoints)
             d == IF n = MaxCheckpoints THEN 1 ELSE 0 IN
         /\ u.updatedAt \in Nat /\ u.updatedAt > t.updatedAt
         /\ u.checkpoints \in Seq(Checkpoint) /\ Len(u.checkpoints) = n + 1 - d
         /\ \A i \in 1..n - d : u.checkpoints[i] = t.checkpoints[i + d]
         /\ u.checkpoints[n + 1 - d] = [revision |-> t.revision + 1, at |-> u.updatedAt]
<1> DEFINE v == Updated(t, now)
           e == [revision |-> v.revision, at |-> v.updatedAt]
           s == Append(t.checkpoints, e)
           n == Len(t.checkpoints)
           d == IF n = MaxCheckpoints THEN 1 ELSE 0
<1>1. /\ v \in Task /\ v.updatedAt \in Nat
      /\ v.revision = t.revision + 1 /\ v.updatedAt > t.updatedAt
      /\ v.checkpoints = t.checkpoints
  BY UpdatedProperties DEF Task
<1> HIDE DEF v
<1>2. e \in Checkpoint /\ t.checkpoints \in Seq(Checkpoint)
  BY <1>1 DEF Task, Checkpoint
<1>3. n \in Nat /\ MaxCheckpoints \in Nat \ {0}
  BY <1>2, BoundsAssumption, LenProperties
<1>4. /\ s \in Seq(Checkpoint) /\ Len(s) = n + 1
      /\ \A j \in 1..n : s[j] = t.checkpoints[j]
      /\ s[n + 1] = e
  BY <1>2, AppendProperties
<1> HIDE DEF s
<1>5. /\ Latest(s) \in Seq(Checkpoint) /\ Len(Latest(s)) = n + 1 - d
      /\ \A i \in 1..n + 1 - d : Latest(s)[i] = s[i + d]
  <2>1. CASE n = MaxCheckpoints
    <3>1. Latest(s) = SubSeq(s, 2, n + 1)
      BY <1>3, <1>4, <2>1 DEF Latest
    <3>2. 2 \in 1..Len(s) + 1 /\ n + 1 \in 1..Len(s)
      BY <1>3, <1>4, <2>1
    <3>3. /\ SubSeq(s, 2, n + 1) \in Seq(Checkpoint)
          /\ Len(SubSeq(s, 2, n + 1)) = IF 2 <= n + 1 THEN (n + 1) - 2 + 1 ELSE 0
          /\ \A i \in 1..(n + 1) - 2 + 1 : SubSeq(s, 2, n + 1)[i] = s[2 + i - 1]
      BY <1>4, <3>2, SubSeqProperties
    <3> QED
      BY <1>3, <2>1, <3>1, <3>3
  <2>2. CASE n # MaxCheckpoints
    BY <1>3, <1>4, <2>2 DEF Latest
  <2> QED
    BY <2>1, <2>2
<1>6. PICK u : u = Transformed(t, "checkpoint", now)
  OBVIOUS
<1>7. u = [v EXCEPT !.checkpoints = Latest(s)]
  BY <1>1, <1>6 DEF Transformed, Checkpointed, v, s, Transitions, Target
<1>8. u.checkpoints = Latest(s) /\ u.updatedAt = v.updatedAt
  BY <1>1, <1>7 DEF Task
<1>9. d \in {0, 1} /\ n + 1 - d \in 1..n + 1 - d /\ (n + 1 - d) + d = n + 1
  BY <1>3
<1>10. \A i \in 1..n - d : i \in 1..n + 1 - d /\ i + d \in 1..n
  BY <1>3
<1>11. e = [revision |-> t.revision + 1, at |-> u.updatedAt]
  BY <1>1, <1>8
<1> HIDE DEF n, d, e
<1>12. /\ \A i \in 1..n - d : u.checkpoints[i] = t.checkpoints[i + d]
       /\ u.checkpoints[n + 1 - d] = e
  BY <1>4, <1>5, <1>8, <1>9, <1>10
<1> QED
  BY <1>1, <1>5, <1>6, <1>8, <1>11, <1>12 DEF n, d

LEMMA CheckpointNewest ==
  ASSUME NEW t \in Task, NEW now \in Nat \ {0}, Len(t.checkpoints) <= MaxCheckpoints,
         NEW made, made \subseteq 1..t.revision,
         NewestOf(t.checkpoints, made, t.updatedAt)
  PROVE  LET u == Transformed(t, "checkpoint", now) IN
         NewestOf(u.checkpoints, made \cup {t.revision + 1}, u.updatedAt)
<1> DEFINE n == Len(t.checkpoints)
           d == IF n = MaxCheckpoints THEN 1 ELSE 0
           m == n + 1 - d
           cps == t.checkpoints
<1>1. PICK u : u = Transformed(t, "checkpoint", now)
  OBVIOUS
<1> DEFINE new == u.checkpoints
<1>2. /\ u.updatedAt \in Nat /\ u.updatedAt > t.updatedAt
      /\ new \in Seq(Checkpoint) /\ Len(new) = m
      /\ \A i \in 1..n - d : new[i] = cps[i + d]
      /\ new[m] = [revision |-> t.revision + 1, at |-> u.updatedAt]
  BY <1>1, CheckpointAppends
<1>3. /\ cps \in Seq(Checkpoint) /\ n \in Nat /\ MaxCheckpoints \in Nat \ {0}
      /\ t.updatedAt \in Nat /\ t.revision \in Nat
      /\ DOMAIN cps = 1..n /\ \A i \in 1..n : cps[i].revision \in Nat /\ cps[i].at \in Nat
  <2>1. cps \in Seq(Checkpoint) /\ t.updatedAt \in Nat /\ t.revision \in Nat
    BY DEF Task
  <2>2. n \in Nat /\ DOMAIN cps = 1..n /\ \A i \in 1..n : cps[i] \in Checkpoint
    BY <2>1, LenProperties, ElementOfSeq
  <2> QED
    BY <2>1, <2>2, BoundsAssumption DEF Checkpoint
<1>4. m \in Nat \ {0} /\ m = (n - d) + 1 /\ d \in {0, 1} /\ n - d \in Nat
  BY <1>3
<1>5. DOMAIN new = 1..m
  BY <1>2, <1>4, LenProperties
<1>12. (n = MaxCheckpoints /\ d = 1 /\ m = n) \/ (n < MaxCheckpoints /\ d = 0 /\ m = n + 1)
  <2> HIDE DEF n
  <2>1. n <= MaxCheckpoints
    BY DEF n
  <2>2. CASE n = MaxCheckpoints
    BY <1>3, <2>2
  <2>3. CASE n # MaxCheckpoints
    BY <1>3, <2>1, <2>3
  <2> QED
    BY <2>2, <2>3
<1> HIDE DEF new, cps, n, d, m
<1>6. /\ \A i \in 1..n : cps[i].revision \in made /\ cps[i].at <= t.updatedAt
                         /\ cps[i].revision <= t.revision
      /\ \A i, j \in 1..n : i < j => cps[i].revision < cps[j].revision /\ cps[i].at < cps[j].at
      /\ \A r \in made : (\A i \in 1..n : cps[i].revision # r) =>
           n = MaxCheckpoints /\ \A i \in 1..n : r < cps[i].revision
  <2> DEFINE kept == {cps[i].revision : i \in 1..n}
  <2>1. /\ kept \subseteq made
        /\ \A r \in made \ kept : n = MaxCheckpoints /\ \A s \in kept : r < s
        /\ \A i, j \in 1..n : i < j => cps[i].revision < cps[j].revision /\ cps[i].at < cps[j].at
        /\ \A i \in 1..n : cps[i].at <= t.updatedAt
    BY <1>3 DEF NewestOf, cps, n
  <2>2. \A i \in 1..n : cps[i].revision \in made /\ cps[i].revision <= t.revision
    BY <1>3, <2>1
  <2>3. ASSUME NEW r \in made, \A i \in 1..n : cps[i].revision # r
        PROVE  n = MaxCheckpoints /\ \A i \in 1..n : r < cps[i].revision
    <3>1. r \notin kept
      BY <2>3
    <3> QED
      BY <2>1, <3>1
  <2> QED
    BY <2>1, <2>2, <2>3
<1>7. \A i \in 1..n - d : i + d \in 1..n
  BY <1>3, <1>12
<1>8. \A i \in 1..m : new[i].revision \in made \cup {t.revision + 1} /\ new[i].at <= u.updatedAt
  <2> SUFFICES ASSUME NEW i \in 1..m
               PROVE  new[i].revision \in made \cup {t.revision + 1} /\ new[i].at <= u.updatedAt
    OBVIOUS
  <2>1. CASE i = m
    BY <1>2, <2>1
  <2>2. CASE i # m
    <3>1. i \in 1..n - d /\ i + d \in 1..n
      BY <1>4, <1>7, <2>2
    <3> QED
      BY <1>2, <1>3, <1>6, <3>1
  <2> QED
    BY <2>1, <2>2
<1>9. \A i, j \in 1..m : i < j => new[i].revision < new[j].revision /\ new[i].at < new[j].at
  <2> SUFFICES ASSUME NEW i \in 1..m, NEW j \in 1..m, i < j
               PROVE  new[i].revision < new[j].revision /\ new[i].at < new[j].at
    OBVIOUS
  <2>1. i \in 1..n - d /\ i + d \in 1..n /\ new[i] = cps[i + d]
    BY <1>2, <1>4, <1>7
  <2>2. CASE j = m
    BY <1>2, <1>3, <1>6, <2>1, <2>2
  <2>3. CASE j # m
    <3>1. j \in 1..n - d /\ j + d \in 1..n /\ new[j] = cps[j + d] /\ i + d < j + d
      BY <1>2, <1>4, <1>7, <2>3
    <3> QED
      BY <1>6, <2>1, <3>1
  <2> QED
    BY <2>2, <2>3
<1>10. \A r \in made \cup {t.revision + 1} : (\A i \in 1..m : new[i].revision # r) =>
         m = MaxCheckpoints /\ \A i \in 1..m : r < new[i].revision
  <2> SUFFICES ASSUME NEW r \in made \cup {t.revision + 1}, \A i \in 1..m : new[i].revision # r
               PROVE  m = MaxCheckpoints /\ \A i \in 1..m : r < new[i].revision
    OBVIOUS
  <2>1. r \in made /\ r \in 1..t.revision
    <3>1. m \in 1..m
      BY <1>4
    <3> QED
      BY <1>2, <3>1
  <2>2. \A i \in 1..n - d : cps[i + d].revision # r
    <3>1. \A i \in 1..n - d : i \in 1..m
      BY <1>3, <1>4
    <3> QED
      BY <1>2, <3>1
  <2>3. n = MaxCheckpoints
    <3> SUFFICES ASSUME n # MaxCheckpoints PROVE FALSE
      OBVIOUS
    <3>1. \A i \in 1..n : cps[i].revision # r
      <4>1. d = 0 /\ n - d = n /\ \A i \in 1..n : i + d = i
        BY <1>3, <1>12
      <4> QED
        BY <2>2, <4>1
    <3> QED
      BY <1>6, <2>1, <3>1
  <2>4. d = 1 /\ m = n /\ 1 \in 1..n
    BY <1>3, <1>12, <2>3
  <2>5. \A i \in 2..n : cps[i].revision # r /\ r < cps[i].revision
    <3> SUFFICES ASSUME NEW i \in 2..n PROVE cps[i].revision # r /\ r < cps[i].revision
      OBVIOUS
    <3>1. i - 1 \in 1..n - 1 /\ (i - 1) + 1 = i /\ i \in 1..n /\ 1 < i
      BY <1>3
    <3>2. cps[i].revision # r
      BY <2>2, <2>4, <3>1
    <3>3. CASE cps[1].revision = r
      BY <1>6, <2>4, <3>1, <3>3
    <3>4. CASE cps[1].revision # r
      <4>1. \A h \in 1..n : cps[h].revision # r
        <5> SUFFICES ASSUME NEW h \in 1..n, h # 1 PROVE cps[h].revision # r
          BY <3>4
        <5>1. h - 1 \in 1..n - 1 /\ (h - 1) + 1 = h
          BY <1>3
        <5> QED
          BY <2>2, <2>4, <5>1
      <4> QED
        BY <1>6, <2>1, <3>1, <4>1
    <3> QED
      BY <3>2, <3>3, <3>4
  <2>6. \A i \in 1..m : r < new[i].revision
    <3> SUFFICES ASSUME NEW i \in 1..m PROVE r < new[i].revision
      OBVIOUS
    <3>1. CASE i = m
      BY <1>2, <1>3, <2>1, <3>1
    <3>2. CASE i # m
      <4>1. i \in 1..n - d /\ i + d \in 2..n /\ new[i] = cps[i + d]
        BY <1>2, <1>4, <2>4, <3>2
      <4> QED
        BY <2>5, <4>1
    <3> QED
      BY <3>1, <3>2
  <2> QED
    BY <2>3, <2>4, <2>6
<1>11. NewestOf(new, made \cup {t.revision + 1}, u.updatedAt)
  BY <1>2, <1>5, <1>8, <1>9, <1>10 DEF NewestOf
<1> QED
  BY <1>1, <1>11 DEF new

\* Authors of entries were intended, so nothing quiet changes what they made.
LEMMA MadeStays ==
  ASSUME TypeOK, Inv, UNCHANGED log,
         \A a \in Attempts : intent[a].op # "none" => intent'[a] = intent[a],
         NEW k \in Tasks
  PROVE  Made(k)' = Made(k)
<1>1. ASSUME NEW r \in DOMAIN log[k] PROVE intent'[log[k][r].by] = intent[log[k][r].by]
  <2>1. log[k] \in Seq([by : Attempts, status : Statuses]) /\ r \in 1..Len(log[k])
    BY <1>1, LenProperties DEF TypeOK
  <2>2. log[k][r] \in [by : Attempts, status : Statuses]
    BY <2>1, ElementOfSeq
  <2>3. intent[log[k][r].by].op \in Mutations \cup {"create"}
    BY <1>1 DEF Inv, AuthorsFit
  <2> QED
    BY <2>2, <2>3 DEF Mutations, Transitions, Target
<1> QED
  BY <1>1 DEF Made

\* What a write of attempt a adds to the checkpoints made.
LEMMA MadeGrows ==
  ASSUME TypeOK, Inv, NEW c \in Calls, NEW k \in Tasks, NEW u,
         u.status \in Statuses, call[c].by \in Attempts, Store(c, k, u)
  PROVE  /\ table[k].revision \in Nat /\ Made(k) \subseteq 1..table[k].revision
         /\ Made(k)' = IF intent[call[c].by].op = "checkpoint"
                       THEN Made(k) \cup {table[k].revision + 1} ELSE Made(k)
         /\ \A h \in Tasks \ {k} : Made(h)' = Made(h)
<1> DEFINE n == table[k].revision
<1>1. /\ n \in Nat /\ DOMAIN log[k] = 1..n /\ DOMAIN log'[k] = 1..n + 1
      /\ log'[k][n + 1].by = call[c].by
      /\ \A r \in 1..n : log'[k][r] = log[k][r]
      /\ \A h \in Tasks \ {k} : log'[h] = log[h]
  <2>1. /\ n \in Nat /\ DOMAIN log[k] = 1..n /\ DOMAIN log'[k] = 1..n + 1
        /\ log'[k][n + 1] = [by |-> call[c].by, status |-> u.status]
        /\ \A r \in DOMAIN log[k] : log'[k][r] = log[k][r]
        /\ \A h \in Tasks \ {k} : log'[h] = log[h]
    BY StoreLogs
  <2> QED
    BY <2>1
<1>2. intent' = intent
  BY DEF Store
<1> HIDE DEF n
<1>3. \A r \in 1..n + 1 : r \in 1..n \/ r = n + 1
  BY <1>1
<1>4. \A r \in 1..n : r \in 1..n + 1
  BY <1>1
<1>5. n + 1 \in 1..n + 1
  BY <1>1
<1>6. Made(k)' = {r \in 1..n + 1 : intent[log'[k][r].by].op = "checkpoint"}
  BY <1>1, <1>2 DEF Made
<1>7. Made(k) = {r \in 1..n : intent[log[k][r].by].op = "checkpoint"}
  BY <1>1 DEF Made
<1>8. \A r : r \in Made(k)' <=> r \in Made(k) \/ (r = n + 1 /\ intent[call[c].by].op = "checkpoint")
  BY <1>1, <1>3, <1>4, <1>5, <1>6, <1>7
<1>9. \A h \in Tasks \ {k} : Made(h)' = Made(h)
  BY <1>1, <1>2 DEF Made
<1>10. Made(k) \subseteq 1..n
  BY <1>7
<1>11. Made(k)' = IF intent[call[c].by].op = "checkpoint" THEN Made(k) \cup {n + 1} ELSE Made(k)
  BY <1>8
<1> QED
  BY <1>1, <1>9, <1>10, <1>11 DEF n

LEMMA CheckpointStep == TypeOK /\ TypeOK' /\ Inv /\ CheckpointInv /\ [Next]_vars => CheckpointInv'
<1> SUFFICES ASSUME TypeOK, TypeOK', Inv, CheckpointInv, [Next]_vars PROVE CheckpointInv'
  OBVIOUS
<1>1. ASSUME UNCHANGED <<table, log>>,
             \A a \in Attempts : intent[a].op # "none" => intent'[a] = intent[a]
      PROVE  CheckpointInv'
  <2>1. \A k \in Tasks : Made(k)' = Made(k)
    BY <1>1, MadeStays
  <2> QED
    BY <1>1, <2>1 DEF CheckpointInv, NewestOf
<1>2. ASSUME NEW c \in Calls, NEW now \in Nows, PutCreated(c, now) PROVE CheckpointInv'
  <2>1. CallFits(c) /\ call[c].pc = "writing" /\ intent[call[c].by].op = "create"
    BY <1>2 DEF PutCreated, Inv, CallsFit
  <2>2. PICK k \in Tasks : k = call[c].id /\ table[k].status = "none"
    BY <2>1 DEF CallFits
  <2>3. PICK u \in Task : u = NewTask(now)
    BY TaskTypes
  <2>4. table[k].revision = 0 /\ call[c].by \in Attempts
    BY <2>1, <2>2 DEF Inv, LogMatches, CallFits
  <2>5. u.status \in Statuses /\ u.checkpoints = <<>> /\ Store(c, k, u)
    BY <1>2, <2>2, <2>3 DEF PutCreated, NewTask, Statuses
  <2>6. /\ Made(k) \subseteq 1..0 /\ Made(k)' = Made(k)
        /\ \A h \in Tasks \ {k} : Made(h)' = Made(h)
    BY <2>1, <2>4, <2>5, MadeGrows
  <2>7. table'[k] = u /\ \A h \in Tasks \ {k} : table'[h] = table[h]
    BY <2>5 DEF Store, TypeOK
  <2>8. NewestOf(u.checkpoints, Made(k)', u.updatedAt)
    <3>1. Made(k)' = {}
      BY <2>6
    <3>2. DOMAIN u.checkpoints = {}
      BY <2>5
    <3> QED
      BY <3>1, <3>2 DEF NewestOf
  <2>9. \A h \in Tasks \ {k} : NewestOf(table[h].checkpoints, Made(h)', table[h].updatedAt)
    BY <2>6 DEF CheckpointInv
  <2>10. \A h \in Tasks : NewestOf(table'[h].checkpoints, Made(h)', table'[h].updatedAt)
    BY <2>7, <2>8, <2>9
  <2> QED
    BY <2>10 DEF CheckpointInv, NewestOf
<1>3. ASSUME NEW c \in Calls, NEW now \in Nows, Update(c, now) PROVE CheckpointInv'
  <2>1. PICK a \in Attempts, k \in Tasks : a = call[c].by /\ k = intent[a].id
    BY <1>3, UpdateFacts
  <2>2. PICK op \in Mutations : op = intent[a].op
    BY <1>3, <2>1, UpdateFacts
  <2>3. /\ now \in Nat \ {0}
        /\ table[k] \in Task /\ Len(table[k].checkpoints) <= MaxCheckpoints
        /\ table[k].status # "none"
    BY <1>3, <2>1, UpdateFacts
  <2>4. PICK u : u = Transformed(table[k], op, now)
    OBVIOUS
  <2>5. Store(c, k, u)
    BY <1>3, <2>1, <2>2, <2>4, UpdateFacts
  <2>6. u \in Task /\ u.status \in Statuses
    BY <2>3, <2>4, TransformedStatus
  <2>7. /\ Made(k) \subseteq 1..table[k].revision
        /\ Made(k)' = IF op = "checkpoint" THEN Made(k) \cup {table[k].revision + 1} ELSE Made(k)
        /\ \A h \in Tasks \ {k} : Made(h)' = Made(h)
    BY <2>1, <2>2, <2>5, <2>6, MadeGrows
  <2>8. table'[k] = u /\ \A h \in Tasks \ {k} : table'[h] = table[h]
    BY <2>5 DEF Store, TypeOK
  <2>9. NewestOf(table[k].checkpoints, Made(k), table[k].updatedAt)
    BY DEF CheckpointInv
  <2>10. NewestOf(u.checkpoints, Made(k)', u.updatedAt)
    <3>1. CASE op = "checkpoint"
      BY <2>3, <2>4, <2>7, <2>9, <3>1, CheckpointNewest
    <3>2. CASE op # "checkpoint"
      <4>1. u.checkpoints = table[k].checkpoints
        <5> DEFINE v == Updated(table[k], now)
        <5>1. v \in Task /\ v.checkpoints = table[k].checkpoints
          BY <2>3, UpdatedProperties
        <5> HIDE DEF v
        <5>2. \A s, t : [v EXCEPT !.status = s, !.completedAt = t].checkpoints = v.checkpoints
          BY <5>1 DEF Task
        <5>3. op = "update" => u = v
          BY <2>4 DEF Transformed, Transitions, Target, v
        <5>4. op \in Transitions => u.checkpoints = v.checkpoints
          BY <2>4, <5>2 DEF Transformed, Moved, Transitions, Target, v
        <5> QED
          BY <3>2, <5>1, <5>3, <5>4 DEF Mutations
      <4>2. u.updatedAt > table[k].updatedAt /\ u.updatedAt \in Nat /\ table[k].updatedAt \in Nat
        BY <2>3, <2>4, <2>6, TransformedProperties DEF Task
      <4>3. \A i \in DOMAIN table[k].checkpoints : table[k].checkpoints[i].at \in Nat
        <5>1. table[k].checkpoints \in Seq(Checkpoint)
          BY <2>3 DEF Task
        <5>2. \A i \in DOMAIN table[k].checkpoints : table[k].checkpoints[i] \in Checkpoint
          BY <5>1, LenProperties, ElementOfSeq
        <5> QED
          BY <5>2 DEF Checkpoint
      <4>4. \A i \in DOMAIN table[k].checkpoints : table[k].checkpoints[i].at <= u.updatedAt
        BY <2>9, <4>2, <4>3 DEF NewestOf
      <4> QED
        BY <2>7, <2>9, <3>2, <4>1, <4>4 DEF NewestOf
    <3> QED
      BY <3>1, <3>2
  <2>11. \A h \in Tasks \ {k} : NewestOf(table[h].checkpoints, Made(h)', table[h].updatedAt)
    BY <2>7 DEF CheckpointInv
  <2>12. \A h \in Tasks : NewestOf(table'[h].checkpoints, Made(h)', table'[h].updatedAt)
    BY <2>8, <2>10, <2>11
  <2> QED
    BY <2>12 DEF CheckpointInv, NewestOf
<1>4. ASSUME NEW a \in Attempts, NEW op \in Mutations, NEW k \in Tasks, Intend(a, op, k)
      PROVE  CheckpointInv'
  BY <1>1, <1>4 DEF Intend, TypeOK
<1>5. ASSUME NEW a \in Attempts, IntendCreate(a) PROVE CheckpointInv'
  BY <1>1, <1>5 DEF IntendCreate, TypeOK
<1> QED
  BY <1>1, <1>2, <1>3, <1>4, <1>5 DEF Next, SendCreate, Send, RejectUpdate, Return,
    StorageFails, Restart, vars

\* Whatever order writes ran in and however the clock stepped, the record
\* lists the newest checkpoints made, in order of revision and of time.
THEOREM CheckpointsLatest == Spec => []CheckpointsAreTheLatest
<1>1. Init => CheckpointInv
  <2> SUFFICES ASSUME Init, NEW k \in Tasks
               PROVE  NewestOf(table[k].checkpoints, Made(k), table[k].updatedAt)
    BY DEF CheckpointInv
  <2>1. DOMAIN table[k].checkpoints = {} /\ Made(k) = {}
    BY DEF Init, NoTask, Made
  <2> QED
    BY <2>1 DEF NewestOf
<1>2. CheckpointInv => CheckpointsAreTheLatest
  BY DEF CheckpointInv, CheckpointsAreTheLatest, NewestOf, Made
<1> QED
  BY <1>1, <1>2, CheckpointStep, InvHolds, PTL DEF Spec

=============================================================================
