------------------------- MODULE RemoteWorkers_proofs -------------------------
(***************************************************************************)
(* Proofs about the remote-worker controller, for any machines, tokens,    *)
(* jobs, polls, calls, invites and bounds.  Jobs, queues and outcomes come  *)
(* first and need nothing of the environment.  Who is who needs registry   *)
(* calls that concern different names (CallsApart), whose results are      *)
(* believed needs renames that are not undone (NothingUndone), and where   *)
(* polls wait needs polls that no rename crosses (PollsStay).              *)
(***************************************************************************)
EXTENDS RemoteWorkersProps, SequenceTheorems, TLAPS

-----------------------------------------------------------------------------
(* Queues *)

\* What shift leaves of a queue, up to and including entry i.
LEMMA ShiftProperties ==
  ASSUME NEW S, NEW q \in Seq(S), NEW i \in DOMAIN q
  PROVE  LET s == SubSeq(q, i + 1, Len(q)) IN
         /\ s \in Seq(S)
         /\ Len(s) = Len(q) - i
         /\ \A k \in 1..Len(s) : s[k] = q[i + k]
<1>1. i \in 1..Len(q) /\ Len(q) \in Nat
  BY LenProperties
<1>2. \A k \in (i + 1)..Len(q) : q[k] \in S
  BY <1>1, ElementOfSeq
<1> QED
  BY <1>1, <1>2, SubSeqProperties

\* Where entry k of a queue without its entry i comes from.
LEMMA RemoveAtProperties ==
  ASSUME NEW S, NEW q \in Seq(S), NEW i \in DOMAIN q
  PROVE  LET s == RemoveAt(q, i) IN
         /\ s \in Seq(S)
         /\ Len(s) = Len(q) - 1
         /\ \A k \in 1..Len(s) : s[k] = IF k < i THEN q[k] ELSE q[k + 1]
<1> DEFINE front == SubSeq(q, 1, i - 1)
           back  == SubSeq(q, i + 1, Len(q))
<1>1. i \in 1..Len(q) /\ Len(q) \in Nat
  BY LenProperties
<1>2. /\ front \in Seq(S)
      /\ Len(front) = i - 1
      /\ \A k \in 1..(i - 1) : front[k] = q[k]
  <2>1. \A k \in 1..(i - 1) : q[k] \in S
    BY <1>1, ElementOfSeq
  <2> QED
    BY <1>1, <2>1, SubSeqProperties
<1>3. /\ back \in Seq(S)
      /\ Len(back) = Len(q) - i
      /\ \A k \in 1..Len(back) : back[k] = q[i + k]
  BY ShiftProperties
<1>4. RemoveAt(q, i) = front \o back
  BY DEF RemoveAt
<1> HIDE DEF front, back
<1>5. /\ front \o back \in Seq(S)
      /\ Len(front \o back) = Len(front) + Len(back)
      /\ \A k \in 1..(Len(front) + Len(back)) :
           (front \o back)[k] = IF k <= Len(front) THEN front[k]
                                ELSE back[k - Len(front)]
  BY <1>2, <1>3, ConcatProperties
<1>6. ASSUME NEW k \in 1..(Len(q) - 1)
      PROVE  (front \o back)[k] = IF k < i THEN q[k] ELSE q[k + 1]
  <2>1. CASE k < i
    <3>1. k \in 1..(i - 1) /\ k <= Len(front) /\ k \in 1..(Len(front) + Len(back))
      BY <1>1, <1>2, <1>3, <2>1
    <3> QED
      BY <1>2, <1>5, <2>1, <3>1
  <2>2. CASE ~ (k < i)
    <3>0. Len(front) = i - 1 /\ Len(back) = Len(q) - i
      BY <1>2, <1>3
    <3>1. ~ (k <= Len(front)) /\ k \in 1..(Len(front) + Len(back))
      BY <1>1, <3>0, <2>2
    <3>2. k - Len(front) \in 1..Len(back)
      BY <1>1, <3>0, <2>2
    <3>3. i + (k - Len(front)) = k + 1
      BY <1>1, <3>0, <2>2
    <3> QED
      BY <1>3, <1>5, <2>2, <3>1, <3>2, <3>3
  <2> QED
    BY <2>1, <2>2
<1>7. Len(front \o back) = Len(q) - 1
  BY <1>1, <1>2, <1>3, <1>5
<1> QED
  BY <1>4, <1>5, <1>6, <1>7

LEMMA SplicedProperties ==
  ASSUME NEW S, NEW q \in Seq(S), NEW x
  PROVE  /\ Spliced(q, x) \in Seq(S)
         /\ Len(Spliced(q, x)) <= Len(q)
         /\ \/ Spliced(q, x) = q /\ \A i \in DOMAIN q : q[i] # x
            \/ \E i \in DOMAIN q :
                 /\ q[i] = x
                 /\ Len(Spliced(q, x)) = Len(q) - 1
                 /\ \A k \in 1..Len(Spliced(q, x)) :
                      Spliced(q, x)[k] = IF k < i THEN q[k] ELSE q[k + 1]
<1>0. Len(q) \in Nat
  BY LenProperties
<1>1. CASE \A i \in DOMAIN q : q[i] # x
  BY <1>0, <1>1 DEF Spliced
<1>2. CASE \E i \in DOMAIN q : q[i] = x
  <2> DEFINE i == CHOOSE k \in DOMAIN q : q[k] = x
  <2>1. i \in DOMAIN q /\ q[i] = x
    BY <1>2
  <2>2. Spliced(q, x) = RemoveAt(q, i)
    BY <1>2 DEF Spliced
  <2> HIDE DEF i
  <2>3. /\ RemoveAt(q, i) \in Seq(S)
        /\ Len(RemoveAt(q, i)) = Len(q) - 1
        /\ \A k \in 1..Len(RemoveAt(q, i)) :
             RemoveAt(q, i)[k] = IF k < i THEN q[k] ELSE q[k + 1]
    BY <2>1, RemoveAtProperties
  <2> QED
    BY <1>0, <2>1, <2>2, <2>3
<1> QED
  BY <1>1, <1>2

\* Splicing x out of a queue without repetitions leaves exactly the other
\* entries, again without repetitions.
NoRepeats(q) == \A i, k \in DOMAIN q : q[i] = q[k] => i = k
LEMMA SplicedEntries ==
  ASSUME NEW S, NEW q \in Seq(S), NEW x, NoRepeats(q)
  PROVE  LET s == Spliced(q, x) IN
         /\ NoRepeats(s)
         /\ \A k \in DOMAIN s : s[k] # x /\ \E m \in DOMAIN q : s[k] = q[m]
         /\ \A m \in DOMAIN q : q[m] # x => \E k \in DOMAIN s : s[k] = q[m]
<1> DEFINE s == Spliced(q, x)
<1>q. Len(q) \in Nat /\ DOMAIN q = 1..Len(q)
  BY LenProperties
<1>1. CASE \A i \in DOMAIN q : q[i] # x
  <2>1. s = q
    BY <1>1 DEF Spliced
  <2> QED
    BY <1>1, <2>1
<1>2. CASE \E i \in DOMAIN q : q[i] = x
  <2>1. PICK i \in DOMAIN q :
          /\ q[i] = x
          /\ Len(s) = Len(q) - 1
          /\ \A k \in 1..Len(s) : s[k] = IF k < i THEN q[k] ELSE q[k + 1]
    BY <1>2, SplicedProperties
  <2>2. s \in Seq(S)
    BY SplicedProperties
  <2>3. DOMAIN s = 1..Len(s)
    BY <2>2, LenProperties
  <2> HIDE DEF s
  <2> DEFINE from(k) == IF k < i THEN k ELSE k + 1
  <2>4. ASSUME NEW k \in DOMAIN s
        PROVE  from(k) \in DOMAIN q /\ from(k) # i /\ s[k] = q[from(k)]
    <3>1. k \in 1..(Len(q) - 1) /\ i \in 1..Len(q)
      BY <1>q, <2>1, <2>3
    <3> QED
      BY <1>q, <2>1, <2>3, <3>1
  <2>5. ASSUME NEW k \in DOMAIN s, NEW m \in DOMAIN s, from(k) = from(m) PROVE k = m
    BY <1>q, <2>1, <2>3, <2>5
  <2>6. ASSUME NEW m \in DOMAIN q, m # i PROVE \E k \in DOMAIN s : from(k) = m
    <3>1. CASE m < i
      <4>1. m \in DOMAIN s
        BY <1>q, <2>1, <2>3, <3>1
      <4> QED
        BY <3>1, <4>1
    <3>2. CASE m > i
      <4>1. m - 1 \in DOMAIN s /\ from(m - 1) = m
        BY <1>q, <2>1, <2>3, <3>2
      <4> QED
        BY <4>1
    <3> QED
      BY <1>q, <2>6, <3>1, <3>2
  <2> HIDE DEF from
  <2>7. NoRepeats(s)
    BY <2>4, <2>5 DEF NoRepeats
  <2>8. \A k \in DOMAIN s : s[k] # x /\ \E m \in DOMAIN q : s[k] = q[m]
    BY <2>1, <2>4 DEF NoRepeats
  <2>9. \A m \in DOMAIN q : q[m] # x => \E k \in DOMAIN s : s[k] = q[m]
    BY <2>1, <2>4, <2>6
  <2> QED
    BY <2>7, <2>8, <2>9 DEF s
<1> QED
  BY <1>1, <1>2

-----------------------------------------------------------------------------
(* Types *)

\* Asking for the runtime object of a name keeps the map well typed.
LEMMA InternTypes ==
  ASSUME RuntimeTypes, NEW n, Intern(n)
  PROVE  /\ RuntimeFor(n) \in Rts
         /\ runtime' \in [Names -> Rts \cup {0}]
         /\ nextRt' \in 1..(MaxRuntimes + 1)
<1>1. MaxRuntimes \in Nat
  BY BoundsAssumption
<1>2. RuntimeFor(n) \in Rts /\ runtime' \in [Names -> Rts \cup {0}]
  BY DEF Intern, RuntimeTypes
<1>3. nextRt' \in 1..(MaxRuntimes + 1)
  BY <1>1 DEF Intern, RuntimeFor, RuntimeTypes, Rts
<1> QED
  BY <1>2, <1>3

LEMMA MarkSeenTypes ==
  ASSUME RuntimeTypes, NEW n, MarkSeen(n)
  PROVE  RuntimeTypes' /\ RuntimeFor(n) \in Rts
BY InternTypes DEF MarkSeen, RuntimeTypes, Rts

\* _takeQueued shortens the queue and claims a job of it, or empties it.
LEMMA TakeTypes ==
  ASSUME QueueTypes, HandTypes, NEW r \in Rts, NEW t \in Tokens \cup {None},
         TakeQueued(r, t) \/ NothingQueued(r)
  PROVE  QueueTypes' /\ HandTypes'
<1>1. queue[r] \in Seq(Jobs) /\ Len(queue[r]) \in Nat /\ MaxPending \in Nat
  BY BoundsAssumption, LenProperties DEF QueueTypes
<1>2. CASE TakeQueued(r, t)
  <2>1. PICK i \in DOMAIN queue[r] :
          /\ queue' = [queue EXCEPT ![r] = SubSeq(@, i + 1, Len(@))]
          /\ claimed' = claimed \cup {queue[r][i]}
          /\ holder' = [holder EXCEPT ![queue[r][i]] = t]
    BY <1>2 DEF TakeQueued
  <2>2. i \in 1..Len(queue[r]) /\ queue[r][i] \in Jobs
    BY <1>1, LenProperties, ElementOfSeq
  <2>3. HandTypes'
    BY <2>1, <2>2 DEF HandTypes
  <2>4. /\ SubSeq(queue[r], i + 1, Len(queue[r])) \in Seq(Jobs)
        /\ Len(SubSeq(queue[r], i + 1, Len(queue[r]))) = Len(queue[r]) - i
    BY <1>1, ShiftProperties
  <2>5. Len(queue[r]) - i <= MaxPending
    BY <1>1, <2>2 DEF QueueTypes
  <2> QED
    BY <2>1, <2>3, <2>4, <2>5 DEF QueueTypes
<1>3. CASE NothingQueued(r)
  <2>1. HandTypes'
    BY <1>3 DEF NothingQueued, HandTypes
  <2>2. <<>> \in Seq(Jobs) /\ Len(<<>>) <= MaxPending
    BY <1>1
  <2> QED
    BY <1>3, <2>1, <2>2 DEF NothingQueued, QueueTypes
<1> QED
  BY <1>2, <1>3

\* Withdrawing a job leaves its queue no longer than it was.
LEMMA WithdrawTypes ==
  ASSUME QueueTypes, NEW j \in Jobs, Withdraw(j)
  PROVE  QueueTypes'
<1> DEFINE r == home[j]
<1>1. CASE r \in Rts
  <2>1. queue[r] \in Seq(Jobs) /\ Len(queue[r]) \in Nat /\ MaxPending \in Nat
    BY <1>1, BoundsAssumption, LenProperties DEF QueueTypes
  <2>2. Spliced(queue[r], j) \in Seq(Jobs) /\ Len(Spliced(queue[r], j)) <= Len(queue[r])
    BY <2>1, SplicedProperties
  <2>3. Len(Spliced(queue[r], j)) \in Nat /\ Len(queue[r]) <= MaxPending
    BY <1>1, <2>2, LenProperties DEF QueueTypes
  <2>4. Len(Spliced(queue[r], j)) <= MaxPending
    BY <2>1, <2>2, <2>3
  <2> QED
    BY <1>1, <2>2, <2>4 DEF Withdraw, QueueTypes
<1>2. CASE r \notin Rts
  BY <1>2 DEF Withdraw, QueueTypes
<1> QED
  BY <1>1, <1>2

LEMMA TypesInit == Init => TypeOK
<1> SUFFICES ASSUME Init PROVE TypeOK
  OBVIOUS
<1>1. QueueTypes /\ WaiterTypes
  BY BoundsAssumption DEF Init, QueueTypes, WaiterTypes, NoPoll
<1>2. RegistryTypes /\ InviteTypes /\ PendingTypes /\ HandTypes /\ CallerTypes
  BY DEF Init, RegistryTypes, InviteTypes, PendingTypes, HandTypes, CallerTypes
<1>3. RuntimeTypes /\ CallTypes /\ HostTypes
  BY BoundsAssumption
  DEF Init, RuntimeTypes, CallTypes, HostTypes, CallSteps, NoCall, Rts
<1> QED
  BY <1>1, <1>2, <1>3 DEF TypeOK

LEMMA TypesStep == TypeOK /\ [Next]_vars => TypeOK'
<1> SUFFICES ASSUME TypeOK, [Next]_vars PROVE TypeOK'
  OBVIOUS
<1>s. {MaxRuntimes, MaxPending, MaxFaults, MaxRestarts} \subseteq Nat
  BY BoundsAssumption
<1>1. ASSUME NEW i \in Invites, NEW n \in Names \cup {None},
             CreateInvite(i, n)
      PROVE  TypeOK'
  <2>1. InviteTypes'
    BY <1>s, <1>1 DEF TypeOK, InviteTypes, CreateInvite
  <2> QED
    BY <1>1, <2>1 DEF TypeOK, RegistryTypes, RuntimeTypes, QueueTypes,
        WaiterTypes, PendingTypes, HandTypes, CallerTypes, CallTypes,
        HostTypes, CreateInvite, registryVars, inviteVars, runtimeVars,
        queueVars, pendingVars, jobVars, hostVars
<1>2. ASSUME NEW i \in Invites,
             ExpireInvite(i)
      PROVE  TypeOK'
  <2>1. InviteTypes'
    BY <1>s, <1>2 DEF TypeOK, InviteTypes, ExpireInvite
  <2> QED
    BY <1>2, <2>1 DEF TypeOK, RegistryTypes, RuntimeTypes, QueueTypes,
        WaiterTypes, PendingTypes, HandTypes, CallerTypes, CallTypes,
        HostTypes, ExpireInvite, registryVars, inviteVars, runtimeVars,
        queueVars, pendingVars, jobVars, hostVars
<1>3. ASSUME NEW c \in Calls, NEW i \in Invites,
             NEW n \in Names, NEW t \in Tokens,
             Register(c, i, n, t)
      PROVE  TypeOK'
  <2>1. InviteTypes'
    BY <1>s, <1>3 DEF TypeOK, InviteTypes, Register, Redeem
  <2>2. CallTypes'
    BY <1>s, <1>3 DEF TypeOK, CallTypes, Register, NoCall, CallSteps
  <2> QED
    BY <1>3, <2>1, <2>2 DEF TypeOK, RegistryTypes, RuntimeTypes,
        QueueTypes, WaiterTypes, PendingTypes, HandTypes, CallerTypes,
        HostTypes, Register, registryVars, inviteVars, runtimeVars,
        queueVars, pendingVars, jobVars, hostVars
<1>4. ASSUME NEW c \in Calls, NEW t \in Tokens, NEW n \in Names,
             Resume(c, t, n)
      PROVE  TypeOK'
  <2>1. CallTypes'
    BY <1>s, <1>4 DEF TypeOK, CallTypes, Resume, storageFrame, NoCall,
        CallSteps
  <2> QED
    BY <1>4, <2>1 DEF TypeOK, RegistryTypes, InviteTypes, RuntimeTypes,
        QueueTypes, WaiterTypes, PendingTypes, HandTypes, CallerTypes,
        HostTypes, Resume, storageFrame, registryVars, inviteVars,
        runtimeVars, queueVars, pendingVars, jobVars, hostVars
<1>5. ASSUME NEW c \in Calls, NEW old \in Names, NEW new \in Names,
             Rename(c, old, new)
      PROVE  TypeOK'
  <2>1. RuntimeTypes'
    BY <1>5, InternTypes DEF TypeOK, RuntimeTypes, Rename, Rts
  <2>2. CallTypes'
    BY <1>s, <1>5 DEF TypeOK, CallTypes, Rename, Intern, CallSteps,
        RegistryTypes
  <2> QED
    BY <1>5, <2>1, <2>2 DEF TypeOK, RegistryTypes, InviteTypes,
        QueueTypes, WaiterTypes, PendingTypes, HandTypes, CallerTypes,
        HostTypes, Rename, registryVars, inviteVars, runtimeVars,
        queueVars, pendingVars, jobVars, hostVars
<1>6. ASSUME NEW c \in Calls, NEW n \in Names,
             Revoke(c, n)
      PROVE  TypeOK'
  <2>1. CallTypes'
    BY <1>s, <1>6 DEF TypeOK, CallTypes, Revoke, storageFrame, NoCall,
        CallSteps, RegistryTypes
  <2> QED
    BY <1>6, <2>1 DEF TypeOK, RegistryTypes, InviteTypes, RuntimeTypes,
        QueueTypes, WaiterTypes, PendingTypes, HandTypes, CallerTypes,
        HostTypes, Revoke, storageFrame, registryVars, inviteVars,
        runtimeVars, queueVars, pendingVars, jobVars, hostVars
<1>7. ASSUME NEW c \in Calls,
             RegisterPut(c)
      PROVE  TypeOK'
  <2>1. RegistryTypes'
    BY <1>s, <1>7 DEF TypeOK, RegistryTypes, RegisterPut, Commit,
        storageFrame, CallTypes
  <2>2. CallTypes'
    BY <1>s, <1>7 DEF TypeOK, CallTypes, RegisterPut, Commit,
        storageFrame, NoCall, CallSteps
  <2> QED
    BY <1>7, <2>1, <2>2 DEF TypeOK, InviteTypes, RuntimeTypes, QueueTypes,
        WaiterTypes, PendingTypes, HandTypes, CallerTypes, HostTypes,
        RegisterPut, Commit, storageFrame, registryVars, inviteVars,
        runtimeVars, queueVars, pendingVars, jobVars, hostVars
<1>8. ASSUME NEW c \in Calls,
             RegisterDone(c)
      PROVE  TypeOK'
  <2>1. RegistryTypes'
    BY <1>s, <1>8 DEF TypeOK, RegistryTypes, RegisterDone, CallTypes
  <2>2. RuntimeTypes'
    <3>1. nextRt' \in 1..(MaxRuntimes + 1)
      BY <1>s, <1>8 DEF TypeOK, RuntimeTypes, RegisterDone, Rts
    <3>2. runtime' \in [Names -> Rts \cup {0}] /\ seen' \in SUBSET Rts
      BY <1>8 DEF TypeOK, RuntimeTypes, RegisterDone
    <3> QED
      BY <3>1, <3>2 DEF RuntimeTypes
  <2>3. CallTypes'
    BY <1>s, <1>8 DEF TypeOK, CallTypes, RegisterDone, NoCall, CallSteps
  <2> QED
    BY <1>8, <2>1, <2>2, <2>3 DEF TypeOK, InviteTypes, QueueTypes,
        WaiterTypes, PendingTypes, HandTypes, CallerTypes, HostTypes,
        RegisterDone, registryVars, inviteVars, runtimeVars, queueVars,
        pendingVars, jobVars, hostVars
<1>9. ASSUME NEW c \in Calls,
             ResumeUpdate(c)
      PROVE  TypeOK'
  <2>1. CallTypes'
    BY <1>s, <1>9 DEF TypeOK, CallTypes, ResumeUpdate, storageFrame,
        NoCall, CallSteps
  <2> QED
    BY <1>9, <2>1 DEF TypeOK, RegistryTypes, InviteTypes, RuntimeTypes,
        QueueTypes, WaiterTypes, PendingTypes, HandTypes, CallerTypes,
        HostTypes, ResumeUpdate, storageFrame, registryVars, inviteVars,
        runtimeVars, queueVars, pendingVars, jobVars, hostVars
<1>10. ASSUME NEW c \in Calls,
             ResumeDone(c)
      PROVE  TypeOK'
  <2>1. RuntimeTypes'
    BY <1>10, MarkSeenTypes DEF TypeOK, ResumeDone
  <2>2. CallTypes'
    BY <1>s, <1>10 DEF TypeOK, CallTypes, ResumeDone, NoCall, CallSteps
  <2> QED
    BY <1>10, <2>1, <2>2 DEF TypeOK, RegistryTypes, InviteTypes,
        QueueTypes, WaiterTypes, PendingTypes, HandTypes, CallerTypes,
        HostTypes, ResumeDone, registryVars, inviteVars, runtimeVars,
        queueVars, pendingVars, jobVars, hostVars
<1>11. ASSUME NEW c \in Calls,
             RenamePut(c)
      PROVE  TypeOK'
  <2>1. RegistryTypes'
    BY <1>s, <1>11 DEF TypeOK, RegistryTypes, RenamePut, Commit,
        storageFrame, CallTypes
  <2>2. CallTypes'
    BY <1>s, <1>11 DEF TypeOK, CallTypes, RenamePut, Commit, storageFrame,
        NoCall, CallSteps
  <2> QED
    BY <1>11, <2>1, <2>2 DEF TypeOK, InviteTypes, RuntimeTypes,
        QueueTypes, WaiterTypes, PendingTypes, HandTypes, CallerTypes,
        HostTypes, RenamePut, Commit, storageFrame, registryVars,
        inviteVars, runtimeVars, queueVars, pendingVars, jobVars, hostVars
<1>12. ASSUME NEW c \in Calls,
             RenameDelete(c)
      PROVE  TypeOK'
  <2>1. RegistryTypes'
    BY <1>s, <1>12 DEF TypeOK, RegistryTypes, RenameDelete, Commit,
        storageFrame, CallTypes
  <2>2. CallTypes'
    BY <1>s, <1>12 DEF TypeOK, CallTypes, RenameDelete, Commit,
        storageFrame, NoCall, CallSteps
  <2> QED
    BY <1>12, <2>1, <2>2 DEF TypeOK, InviteTypes, RuntimeTypes,
        QueueTypes, WaiterTypes, PendingTypes, HandTypes, CallerTypes,
        HostTypes, RenameDelete, Commit, storageFrame, registryVars,
        inviteVars, runtimeVars, queueVars, pendingVars, jobVars, hostVars
<1>13. ASSUME NEW c \in Calls,
             RenameUndo(c)
      PROVE  TypeOK'
  <2>1. RegistryTypes'
    BY <1>s, <1>13 DEF TypeOK, RegistryTypes, RenameUndo, Commit,
        storageFrame, CallTypes
  <2>2. CallTypes'
    BY <1>s, <1>13 DEF TypeOK, CallTypes, RenameUndo, Commit,
        storageFrame, NoCall, CallSteps
  <2> QED
    BY <1>13, <2>1, <2>2 DEF TypeOK, InviteTypes, RuntimeTypes,
        QueueTypes, WaiterTypes, PendingTypes, HandTypes, CallerTypes,
        HostTypes, RenameUndo, Commit, storageFrame, registryVars,
        inviteVars, runtimeVars, queueVars, pendingVars, jobVars, hostVars
<1>14. ASSUME NEW c \in Calls,
             RenameDone(c)
      PROVE  TypeOK'
  <2>1. RegistryTypes'
    BY <1>s, <1>14 DEF TypeOK, RegistryTypes, RenameDone, CallTypes
  <2>2. RuntimeTypes'
    BY <1>s, <1>14 DEF TypeOK, RuntimeTypes, RenameDone, CallTypes
  <2>3. PendingTypes'
    BY <1>s, <1>14 DEF TypeOK, PendingTypes, RenameDone, Readdress,
        CallTypes
  <2>4. CallTypes'
    BY <1>s, <1>14 DEF TypeOK, CallTypes, RenameDone, NoCall, CallSteps
  <2> QED
    BY <1>14, <2>1, <2>2, <2>3, <2>4 DEF TypeOK, InviteTypes, QueueTypes,
        WaiterTypes, HandTypes, CallerTypes, HostTypes, RenameDone,
        registryVars, inviteVars, runtimeVars, queueVars, pendingVars,
        jobVars, hostVars
<1>15. ASSUME NEW c \in Calls,
             RevokeDelete(c)
      PROVE  TypeOK'
  <2>1. RegistryTypes'
    BY <1>s, <1>15 DEF TypeOK, RegistryTypes, RevokeDelete, Commit,
        storageFrame, CallTypes
  <2>2. CallTypes'
    BY <1>s, <1>15 DEF TypeOK, CallTypes, RevokeDelete, Commit,
        storageFrame, NoCall, CallSteps
  <2> QED
    BY <1>15, <2>1, <2>2 DEF TypeOK, InviteTypes, RuntimeTypes,
        QueueTypes, WaiterTypes, PendingTypes, HandTypes, CallerTypes,
        HostTypes, RevokeDelete, Commit, storageFrame, registryVars,
        inviteVars, runtimeVars, queueVars, pendingVars, jobVars, hostVars
<1>16. ASSUME NEW c \in Calls,
             RevokeDone(c)
      PROVE  TypeOK'
  <2>1. RegistryTypes'
    BY <1>s, <1>16 DEF TypeOK, RegistryTypes, RevokeDone, Forget
  <2>2. RuntimeTypes'
    BY <1>s, <1>16 DEF TypeOK, RuntimeTypes, RevokeDone
  <2>3. WaiterTypes'
    <3> DEFINE woken == IF runtime[call[c].name] = 0 THEN {}
                        ELSE ToSet(waiters[runtime[call[c].name]])
    <3>1. waiters' \in [Rts -> Seq(Polls)]
      BY <1>16 DEF TypeOK, WaiterTypes, RevokeDone
    <3>2. poll' = [p \in Polls |-> IF p \in woken THEN [poll[p] EXCEPT !.st = "revoked"]
                                  ELSE poll[p]]
      BY <1>16 DEF RevokeDone
    <3> HIDE DEF woken
    <3> QED
      BY <3>1, <3>2 DEF TypeOK, WaiterTypes
  <2>4. PendingTypes'
    BY <1>s, <1>16 DEF TypeOK, PendingTypes, RevokeDone, DropPending
  <2>5. CallerTypes'
    BY <1>s, <1>16 DEF TypeOK, CallerTypes, RevokeDone, DropPending
  <2>6. CallTypes'
    BY <1>s, <1>16 DEF TypeOK, CallTypes, RevokeDone, NoCall, CallSteps
  <2>7. HostTypes'
    BY <1>16 DEF TypeOK, HostTypes, CallTypes, RevokeDone
  <2> QED
    BY <1>16, <2>1, <2>2, <2>3, <2>4, <2>5, <2>6, <2>7 DEF TypeOK,
        InviteTypes, QueueTypes, HandTypes, RevokeDone, registryVars,
        inviteVars, runtimeVars, queueVars, pendingVars, jobVars, hostVars
<1>17. ASSUME NEW c \in Calls,
             StorageFails(c)
      PROVE  TypeOK'
  <2>1. CallTypes'
    BY <1>s, <1>17 DEF TypeOK, CallTypes, StorageFails, NoCall, CallSteps
  <2>2. HostTypes'
    BY <1>s, <1>17 DEF TypeOK, HostTypes, StorageFails
  <2> QED
    BY <1>17, <2>1, <2>2 DEF TypeOK, RegistryTypes, InviteTypes,
        RuntimeTypes, QueueTypes, WaiterTypes, PendingTypes, HandTypes,
        CallerTypes, StorageFails, registryVars, inviteVars, runtimeVars,
        queueVars, pendingVars, jobVars, hostVars
<1>18. ASSUME NEW p \in Polls, NEW t \in Tokens, NEW n \in Names,
             Poll(p, t, n)
      PROVE  TypeOK'
  <2>1. RuntimeTypes'
    BY <1>18, MarkSeenTypes DEF TypeOK, Poll
  <2>2. QueueTypes' /\ HandTypes'
    <3>1. RuntimeFor(n) \in Rts
      BY <1>18, MarkSeenTypes DEF TypeOK, Poll
    <3>2. TakeQueued(RuntimeFor(n), t) \/ NothingQueued(RuntimeFor(n))
      BY <1>18 DEF Poll
    <3> QED
      BY <3>1, <3>2, TakeTypes DEF TypeOK
  <2>3. WaiterTypes'
    <3>1. CASE UNCHANGED <<poll, waiters>>
      BY <3>1 DEF TypeOK, WaiterTypes
    <3>2. CASE /\ poll' = [poll EXCEPT ![p] = [st |-> "waiting", name |-> n,
                                              token |-> t, rt |-> RuntimeFor(n)]]
               /\ waiters' = [waiters EXCEPT ![RuntimeFor(n)] = Append(@, p)]
      <4>1. RuntimeFor(n) \in Rts
        BY <1>18, MarkSeenTypes DEF TypeOK, Poll
      <4>2. waiters' \in [Rts -> Seq(Polls)]
        BY <3>2, <4>1, AppendProperties DEF TypeOK, WaiterTypes
      <4> HIDE DEF RuntimeFor
      <4>3. [st |-> "waiting", name |-> n, token |-> t, rt |-> RuntimeFor(n)] \in
              [st : {"idle", "waiting", "job", "timeout", "revoked"},
               name : Names \cup {None}, token : Tokens \cup {None}, rt : Rts \cup {0}]
        BY <4>1
      <4> QED
        BY <3>2, <4>2, <4>3 DEF TypeOK, WaiterTypes
    <3>3. \/ UNCHANGED <<poll, waiters>>
          \/ /\ poll' = [poll EXCEPT ![p] = [st |-> "waiting", name |-> n,
                                              token |-> t, rt |-> RuntimeFor(n)]]
             /\ waiters' = [waiters EXCEPT ![RuntimeFor(n)] = Append(@, p)]
      BY <1>18 DEF Poll
    <3> QED
      BY <3>1, <3>2, <3>3
  <2> QED
    BY <1>18, <2>1, <2>2, <2>3 DEF TypeOK, RegistryTypes, InviteTypes,
        PendingTypes, CallerTypes, CallTypes, HostTypes, Poll, pollFrame,
        protocolFrame, registryVars, inviteVars, runtimeVars, queueVars,
        pendingVars, jobVars, hostVars
<1>19. ASSUME NEW p \in Polls,
             PollTimeout(p)
      PROVE  TypeOK'
  <2>1. WaiterTypes'
    <3>1. waiters' \in [Rts -> Seq(Polls)]
      BY <1>19, SplicedProperties DEF TypeOK, WaiterTypes, PollTimeout
    <3> QED
      BY <1>19, <3>1 DEF TypeOK, WaiterTypes, PollTimeout
  <2> QED
    BY <1>19, <2>1 DEF TypeOK, RegistryTypes, InviteTypes, RuntimeTypes,
        QueueTypes, PendingTypes, HandTypes, CallerTypes, CallTypes,
        HostTypes, PollTimeout, protocolFrame, registryVars, inviteVars,
        runtimeVars, queueVars, pendingVars, jobVars, hostVars
<1>20. ASSUME NEW p \in Polls,
             PollResume(p)
      PROVE  TypeOK'
  <2>1. RuntimeTypes'
    BY <1>20, MarkSeenTypes DEF TypeOK, PollResume
  <2>2. QueueTypes' /\ HandTypes'
    <3>1. RuntimeFor(poll[p].name) \in Rts /\ poll[p].token \in Tokens \cup {None}
      BY <1>20, MarkSeenTypes DEF TypeOK, WaiterTypes, PollResume
    <3>2. \/ UNCHANGED <<queue, claimed, holder>>
          \/ TakeQueued(RuntimeFor(poll[p].name), poll[p].token)
          \/ NothingQueued(RuntimeFor(poll[p].name))
      BY <1>20 DEF PollResume
    <3>3. UNCHANGED <<queue, claimed, holder>> => QueueTypes' /\ HandTypes'
      BY DEF TypeOK, QueueTypes, HandTypes
    <3> QED
      BY <3>1, <3>2, <3>3, TakeTypes DEF TypeOK
  <2>3. WaiterTypes'
    BY <1>s, <1>20 DEF TypeOK, WaiterTypes, PollResume, pollFrame,
        protocolFrame, NoPoll
  <2> QED
    BY <1>20, <2>1, <2>2, <2>3 DEF TypeOK, RegistryTypes, InviteTypes,
        PendingTypes, CallerTypes, CallTypes, HostTypes, PollResume,
        pollFrame, protocolFrame, registryVars, inviteVars, runtimeVars,
        queueVars, pendingVars, jobVars, hostVars
<1>21. ASSUME NEW t \in Tokens, NEW n \in Names,
             Heartbeat(t, n)
      PROVE  TypeOK'
  <2>1. RuntimeTypes'
    BY <1>21, MarkSeenTypes DEF TypeOK, Heartbeat
  <2> QED
    BY <1>21, <2>1 DEF TypeOK, RegistryTypes, InviteTypes, QueueTypes,
        WaiterTypes, PendingTypes, HandTypes, CallerTypes, CallTypes,
        HostTypes, Heartbeat, protocolFrame, registryVars, inviteVars,
        runtimeVars, queueVars, pendingVars, jobVars, hostVars
<1>22. ASSUME NEW r \in Rts,
             GoOffline(r)
      PROVE  TypeOK'
  <2>1. RuntimeTypes'
    BY <1>s, <1>22 DEF TypeOK, RuntimeTypes, GoOffline, protocolFrame
  <2> QED
    BY <1>22, <2>1 DEF TypeOK, RegistryTypes, InviteTypes, QueueTypes,
        WaiterTypes, PendingTypes, HandTypes, CallerTypes, CallTypes,
        HostTypes, GoOffline, protocolFrame, registryVars, inviteVars,
        runtimeVars, queueVars, pendingVars, jobVars, hostVars
<1>23. ASSUME NEW j \in Jobs, NEW n \in Names, NEW aborted \in BOOLEAN,
             Dispatch(j, n, aborted)
      PROVE  TypeOK'
  <2>1. QueueTypes'
    <3> DEFINE r == runtime[n]
    <3>1. UNCHANGED queue \/ queue' = [queue EXCEPT ![r] = Append(@, j)]
      BY <1>23 DEF Dispatch
    <3>2. CASE UNCHANGED queue
      BY <3>2 DEF TypeOK, QueueTypes
    <3>3. CASE queue' = [queue EXCEPT ![r] = Append(@, j)]
      <4>1. r \in Rts /\ Len(queue[r]) < MaxPending
        BY <1>23 DEF TypeOK, RuntimeTypes, Dispatch, HasRoom
      <4>2. queue[r] \in Seq(Jobs) /\ Len(queue[r]) \in Nat /\ MaxPending \in Nat
        BY <1>s, <4>1, LenProperties DEF TypeOK, QueueTypes
      <4>3. Append(queue[r], j) \in Seq(Jobs) /\ Len(Append(queue[r], j)) = Len(queue[r]) + 1
        BY <4>2, AppendProperties
      <4>4. Len(Append(queue[r], j)) <= MaxPending
        BY <4>1, <4>2, <4>3
      <4> HIDE DEF r
      <4> QED
        BY <3>3, <4>1, <4>3, <4>4 DEF TypeOK, QueueTypes
    <3> QED
      BY <3>1, <3>2, <3>3
  <2>2. WaiterTypes'
    <3> DEFINE r == runtime[n]
    <3>1. r \in Rts /\ WakeWorker(r)
      BY <1>23 DEF TypeOK, RuntimeTypes, Dispatch
    <3>2. CASE waiters[r] = <<>>
      BY <3>1, <3>2 DEF TypeOK, WaiterTypes, WakeWorker
    <3>3. CASE waiters[r] # <<>>
      <4>1. Head(waiters[r]) \in Polls /\ Tail(waiters[r]) \in Seq(Polls)
        BY <3>1, <3>3, HeadTailProperties DEF TypeOK, WaiterTypes
      <4>2. waiters' \in [Rts -> Seq(Polls)]
        BY <3>1, <3>3, <4>1 DEF TypeOK, WaiterTypes, WakeWorker
      <4>3. poll' = [poll EXCEPT ![Head(waiters[r])].st = "job"]
        BY <3>1, <3>3 DEF WakeWorker
      <4> QED
        BY <4>1, <4>2, <4>3 DEF TypeOK, WaiterTypes
    <3> QED
      BY <3>2, <3>3
  <2>3. PendingTypes'
    <3>1. runtime[n] \in Rts
      BY <1>23 DEF TypeOK, RuntimeTypes, Dispatch
    <3> QED
      BY <1>23, <3>1 DEF TypeOK, PendingTypes, Dispatch
  <2>4. CallerTypes'
    BY <1>s, <1>23 DEF TypeOK, CallerTypes, Dispatch, protocolFrame,
        RegistryTypes
  <2> QED
    BY <1>23, <2>1, <2>2, <2>3, <2>4 DEF TypeOK, RegistryTypes,
        InviteTypes, RuntimeTypes, HandTypes, CallTypes, HostTypes,
        Dispatch, protocolFrame, registryVars, inviteVars, runtimeVars,
        queueVars, pendingVars, jobVars, hostVars
<1>24. ASSUME NEW t \in Tokens, NEW n \in Names,
             NEW j \in Jobs, NEW kind \in ResultKinds,
             SubmitResult(t, n, j, kind)
      PROVE  TypeOK'
  <2>1. RuntimeTypes'
    BY <1>24, MarkSeenTypes DEF TypeOK, SubmitResult
  <2>2. PendingTypes'
    BY <1>s, <1>24 DEF TypeOK, PendingTypes, SubmitResult, protocolFrame
  <2>3. CallerTypes'
    BY <1>s, <1>24 DEF TypeOK, CallerTypes, SubmitResult, protocolFrame
  <2> QED
    BY <1>24, <2>1, <2>2, <2>3 DEF TypeOK, RegistryTypes, InviteTypes,
        QueueTypes, WaiterTypes, HandTypes, CallTypes, HostTypes,
        SubmitResult, protocolFrame, registryVars, inviteVars,
        runtimeVars, queueVars, pendingVars, jobVars, hostVars
<1>25. ASSUME NEW j \in Jobs,
             Abort(j)
      PROVE  TypeOK'
  <2>1. QueueTypes'
    <3>1. UNCHANGED queue \/ Withdraw(j)
      BY <1>25 DEF Abort, Cancel
    <3>2. UNCHANGED queue => QueueTypes'
      BY DEF TypeOK, QueueTypes
    <3> QED
      BY <3>1, <3>2, WithdrawTypes DEF TypeOK
  <2>2. PendingTypes'
    BY <1>s, <1>25 DEF TypeOK, PendingTypes, Abort, cancelFrame,
        protocolFrame, Cancel, Withdraw
  <2>3. CallerTypes'
    BY <1>s, <1>25 DEF TypeOK, CallerTypes, Abort, cancelFrame,
        protocolFrame, Cancel
  <2> QED
    BY <1>25, <2>1, <2>2, <2>3 DEF TypeOK, RegistryTypes, InviteTypes,
        RuntimeTypes, WaiterTypes, HandTypes, CallTypes, HostTypes, Abort,
        cancelFrame, protocolFrame, registryVars, inviteVars, runtimeVars,
        queueVars, pendingVars, jobVars, hostVars
<1>26. ASSUME NEW j \in Jobs,
             Expire(j)
      PROVE  TypeOK'
  <2>1. QueueTypes'
    <3>1. UNCHANGED queue \/ Withdraw(j)
      BY <1>26 DEF Expire, Cancel
    <3>2. UNCHANGED queue => QueueTypes'
      BY DEF TypeOK, QueueTypes
    <3> QED
      BY <3>1, <3>2, WithdrawTypes DEF TypeOK
  <2>2. PendingTypes'
    BY <1>s, <1>26 DEF TypeOK, PendingTypes, Expire, cancelFrame,
        protocolFrame, Cancel, Withdraw, AfterExpiry
  <2>3. CallerTypes'
    BY <1>s, <1>26 DEF TypeOK, CallerTypes, Expire, cancelFrame,
        protocolFrame, Cancel
  <2> QED
    BY <1>26, <2>1, <2>2, <2>3 DEF TypeOK, RegistryTypes, InviteTypes,
        RuntimeTypes, WaiterTypes, HandTypes, CallTypes, HostTypes,
        Expire, cancelFrame, protocolFrame, registryVars, inviteVars,
        runtimeVars, queueVars, pendingVars, jobVars, hostVars
<1>27. ASSUME NEW j \in Jobs,
             EndGrace(j)
      PROVE  TypeOK'
  <2>1. PendingTypes'
    BY <1>s, <1>27 DEF TypeOK, PendingTypes, EndGrace, cancelFrame,
        protocolFrame
  <2> QED
    BY <1>27, <2>1 DEF TypeOK, RegistryTypes, InviteTypes, RuntimeTypes,
        QueueTypes, WaiterTypes, HandTypes, CallerTypes, CallTypes,
        HostTypes, EndGrace, cancelFrame, protocolFrame, registryVars,
        inviteVars, runtimeVars, queueVars, pendingVars, jobVars, hostVars
<1>28. CASE Restart
  <2>1. RegistryTypes' /\ InviteTypes' /\ RuntimeTypes' /\ HostTypes'
    BY <1>s, <1>28 DEF TypeOK, RegistryTypes, InviteTypes, RuntimeTypes, HostTypes,
       Restart, LoadWorkers
  <2>2. QueueTypes' /\ WaiterTypes'
    BY <1>s, <1>28 DEF QueueTypes, WaiterTypes, Restart, NoPoll
  <2>3. PendingTypes' /\ HandTypes' /\ CallerTypes' /\ CallTypes'
    BY <1>28 DEF TypeOK, PendingTypes, HandTypes, CallerTypes, CallTypes,
       CallSteps, Restart, NoCall
  <2> QED
    BY <2>1, <2>2, <2>3 DEF TypeOK
<1>29. CASE UNCHANGED vars
  BY <1>29 DEF TypeOK, vars, RegistryTypes, InviteTypes, RuntimeTypes,
      QueueTypes, WaiterTypes, PendingTypes, HandTypes, CallerTypes,
      CallTypes, HostTypes, registryVars, inviteVars, runtimeVars,
      queueVars, pendingVars, jobVars, hostVars
<1> QED
  BY <1>1, <1>2, <1>3, <1>4, <1>5, <1>6, <1>7, <1>8, <1>9, <1>10, <1>11,
      <1>12, <1>13, <1>14, <1>15, <1>16, <1>17, <1>18, <1>19, <1>20, <1>21,
      <1>22, <1>23, <1>24, <1>25, <1>26, <1>27, <1>28, <1>29 DEF Next,
      StorageStep, JobStep

\* Every variable keeps its type, and no queue outgrows maxPendingPerMachine.
THEOREM TypeCorrect == Spec => []TypeOK
<1> QED
  BY TypesInit, TypesStep, PTL DEF Spec

-----------------------------------------------------------------------------
(* Jobs *)

\* The bookkeeping of queues, pending objects, callers and holders.
JobInv == UnclaimedIsQueued /\ QueueHoldsOpenJobs /\ JobBookkeeping
jobState == <<queue, pending, claimed, cancelled, settled, timer, home, caller,
              holder>>

LEMMA JobInitial == Init => JobInv
<1> SUFFICES ASSUME Init PROVE JobInv
  OBVIOUS
<1>1. UnclaimedIsQueued
  BY DEF Init, UnclaimedIsQueued
<1>2. QueueHoldsOpenJobs
  BY DEF Init, QueueHoldsOpenJobs
<1>3. JobBookkeeping
  BY DEF Init, JobBookkeeping
<1> QED
  BY <1>1, <1>2, <1>3 DEF JobInv

LEMMA JobStutter == JobInv /\ UNCHANGED jobState => JobInv'
<1> SUFFICES ASSUME JobInv, UNCHANGED jobState PROVE JobInv'
  OBVIOUS
<1>1. UnclaimedIsQueued'
  BY DEF JobInv, UnclaimedIsQueued, jobState
<1>2. QueueHoldsOpenJobs'
  BY DEF JobInv, QueueHoldsOpenJobs, jobState
<1>3. JobBookkeeping'
  BY DEF JobInv, JobBookkeeping, jobState
<1> QED
  BY <1>1, <1>2, <1>3 DEF JobInv

\* The first live job of a queue is claimed; nothing unclaimed is dropped
\* with the entries before it.
LEMMA TakeKeepsJobs ==
  ASSUME TypeOK, TypeOK', JobInv, NEW r \in Rts, NEW t \in Tokens,
         TakeQueued(r, t), UNCHANGED <<pendingVars, caller>>
  PROVE  JobInv'
<1>1. PICK i \in DOMAIN queue[r] :
        /\ Live(queue[r][i])
        /\ \A k \in 1..(i - 1) : ~ Live(queue[r][k])
        /\ queue' = [queue EXCEPT ![r] = SubSeq(@, i + 1, Len(@))]
        /\ claimed' = claimed \cup {queue[r][i]}
        /\ holder' = [holder EXCEPT ![queue[r][i]] = t]
  BY DEF TakeQueued
<1> DEFINE j == queue[r][i]
<1>q. \A s \in Rts : /\ queue[s] \in Seq(Jobs)
                     /\ Len(queue[s]) \in Nat
                     /\ DOMAIN queue[s] = 1..Len(queue[s])
  BY LenProperties DEF TypeOK, QueueTypes
<1>2. i \in 1..Len(queue[r]) /\ j \in Jobs
  BY <1>q, ElementOfSeq
<1>3. home[j] = r /\ j \notin claimed /\ caller[j] \in {"waiting", "revoked"}
  BY DEF JobInv, QueueHoldsOpenJobs
<1>4. /\ Len(queue'[r]) = Len(queue[r]) - i
      /\ \A k \in 1..Len(queue'[r]) : queue'[r][k] = queue[r][i + k]
      /\ DOMAIN queue'[r] = 1..Len(queue'[r])
  <2>1. queue'[r] = SubSeq(queue[r], i + 1, Len(queue[r]))
    BY <1>1 DEF TypeOK, QueueTypes
  <2>2. queue'[r] \in Seq(Jobs) /\ DOMAIN queue'[r] = 1..Len(queue'[r])
    BY LenProperties DEF TypeOK, QueueTypes
  <2>3. LET s == SubSeq(queue[r], i + 1, Len(queue[r])) IN
        /\ Len(s) = Len(queue[r]) - i
        /\ \A k \in 1..Len(s) : s[k] = queue[r][i + k]
    BY <1>q, ShiftProperties
  <2> QED
    BY <2>1, <2>2, <2>3
<1>5. \A s \in Rts \ {r} : queue'[s] = queue[s]
  BY <1>1 DEF TypeOK, QueueTypes
<1>6. \A k \in DOMAIN queue[r] : queue[r][k] = j => k = i
  BY DEF JobInv, QueueHoldsOpenJobs
<1>7. UNCHANGED <<pending, cancelled, settled, timer, home, caller>>
  BY DEF pendingVars
<1>c. claimed' = claimed \cup {j}
  BY <1>1
<1> HIDE DEF j
<1>8. QueueHoldsOpenJobs'
  <2> SUFFICES ASSUME NEW s \in Rts, NEW k \in DOMAIN queue'[s]
               PROVE  /\ home[queue'[s][k]] = s
                      /\ queue'[s][k] \notin claimed'
                      /\ caller[queue'[s][k]] \in {"waiting", "revoked"}
                      /\ \A m \in DOMAIN queue'[s] :
                           queue'[s][m] = queue'[s][k] => m = k
    BY <1>7 DEF QueueHoldsOpenJobs
  <2>1. CASE s = r
    <3>0. k \in 1..Len(queue'[r])
      BY <1>4, <2>1
    <3>1. i + k \in DOMAIN queue[r] /\ i + k # i
      BY <1>q, <1>2, <1>4, <3>0
    <3>2. queue'[r][k] = queue[r][i + k] /\ queue[r][i + k] # j
      BY <1>4, <1>6, <3>0, <3>1
    <3>3. \A m \in DOMAIN queue'[r] : queue'[r][m] = queue'[r][k] => m = k
      <4> SUFFICES ASSUME NEW m \in DOMAIN queue'[r], queue'[r][m] = queue'[r][k]
                   PROVE  m = k
        OBVIOUS
      <4>1. i + m \in DOMAIN queue[r] /\ queue'[r][m] = queue[r][i + m]
        BY <1>q, <1>2, <1>4
      <4>2. i + m = i + k
        BY <3>1, <3>2, <4>1 DEF JobInv, QueueHoldsOpenJobs
      <4> QED
        BY <1>2, <1>4, <2>1, <4>2
    <3>4. /\ home[queue[r][i + k]] = r /\ queue[r][i + k] \notin claimed
          /\ caller[queue[r][i + k]] \in {"waiting", "revoked"}
      BY <3>1 DEF JobInv, QueueHoldsOpenJobs
    <3> QED
      BY <1>c, <2>1, <3>2, <3>3, <3>4
  <2>2. CASE s # r
    <3>1. queue'[s] = queue[s]
      BY <1>5, <2>2
    <3>2. queue[s][k] # j
      BY <1>3, <2>2, <3>1 DEF JobInv, QueueHoldsOpenJobs
    <3> QED
      BY <1>c, <3>1, <3>2 DEF JobInv, QueueHoldsOpenJobs
  <2> QED
    BY <2>1, <2>2
<1>9. UnclaimedIsQueued'
  <2> SUFFICES ASSUME NEW x \in pending \ claimed'
               PROVE  home[x] \in Rts /\ \E m \in DOMAIN queue'[home[x]] :
                                           queue'[home[x]][m] = x
    BY <1>7 DEF UnclaimedIsQueued, ToSet
  <2>1. x \in pending \ claimed /\ x # j /\ x \in Jobs
    BY <1>1 DEF j, TypeOK, PendingTypes
  <2>2. PICK m \in DOMAIN queue[home[x]] : queue[home[x]][m] = x
    BY <2>1 DEF JobInv, UnclaimedIsQueued, ToSet
  <2>3. home[x] \in Rts
    BY <2>1 DEF JobInv, UnclaimedIsQueued
  <2>4. CASE home[x] # r
    BY <1>5, <2>2, <2>3, <2>4
  <2>5. CASE home[x] = r
    <3>1. m \in 1..Len(queue[r]) /\ m # i
      BY <1>q, <2>1, <2>2, <2>5 DEF j
    <3>2. ~ (m \in 1..(i - 1))
      BY <1>1, <2>1, <2>2, <2>5 DEF Live, JobInv, JobBookkeeping
    <3>3. m - i \in DOMAIN queue'[r] /\ i + (m - i) = m
      BY <1>q, <1>2, <1>4, <3>1, <3>2
    <3> QED
      BY <1>4, <2>2, <2>3, <2>5, <3>3
  <2> QED
    BY <2>4, <2>5
<1>10. JobBookkeeping'
  <2>1. /\ claimed' = claimed \cup {j}
        /\ holder' = [holder EXCEPT ![j] = t]
        /\ t # None /\ r # 0
    BY <1>1, NoneAssumption DEF j, Rts
  <2> QED
    BY <1>2, <1>3, <1>7, <2>1 DEF JobInv, JobBookkeeping, TypeOK, HandTypes
<1> QED
  BY <1>8, <1>9, <1>10 DEF JobInv

\* When no entry of a queue is live, none is unclaimed either.
LEMMA NothingKeepsJobs ==
  ASSUME TypeOK, JobInv, NEW r \in Rts,
         NothingQueued(r), UNCHANGED <<pendingVars, caller>>
  PROVE  JobInv'
<1>1. /\ queue' = [queue EXCEPT ![r] = <<>>]
      /\ UNCHANGED <<pending, cancelled, settled, timer, home, caller, claimed, holder>>
      /\ \A i \in DOMAIN queue[r] : ~ Live(queue[r][i])
  BY DEF NothingQueued, pendingVars
<1>2. \A s \in Rts : queue'[s] = IF s = r THEN <<>> ELSE queue[s]
  BY <1>1 DEF TypeOK, QueueTypes
<1>3. QueueHoldsOpenJobs'
  BY <1>1, <1>2 DEF JobInv, QueueHoldsOpenJobs
<1>4. UnclaimedIsQueued'
  <2> SUFFICES ASSUME NEW x \in pending \ claimed
               PROVE  home[x] \in Rts /\ x \in ToSet(queue'[home[x]])
    BY <1>1 DEF UnclaimedIsQueued
  <2>1. home[x] \in Rts /\ x \in Jobs
    BY DEF JobInv, UnclaimedIsQueued, TypeOK, PendingTypes
  <2>2. PICK m \in DOMAIN queue[home[x]] : queue[home[x]][m] = x
    BY DEF JobInv, UnclaimedIsQueued, ToSet
  <2>3. Live(x)
    BY <2>1 DEF Live, JobInv, JobBookkeeping
  <2>4. home[x] # r
    BY <1>1, <2>2, <2>3
  <2> QED
    BY <1>2, <2>1, <2>4 DEF JobInv, UnclaimedIsQueued
<1>5. JobBookkeeping'
  BY <1>1 DEF JobInv, JobBookkeeping
<1> QED
  BY <1>3, <1>4, <1>5 DEF JobInv

\* The cancel closure takes an unclaimed job out of queue and pending map,
\* and leaves a claimed one pending as cancelled.
LEMMA CancelKeepsJobs ==
  ASSUME TypeOK, JobInv, NEW j \in Jobs, j \notin settled, Cancel(j),
         UNCHANGED <<home, claimed, holder>>,
         \A x \in Jobs : timer'[x] # "off" => timer[x] # "off"
  PROVE  JobInv'
<1>1. /\ cancelled' = cancelled \cup {j}
      /\ settled' = settled \cup {j}
      /\ caller' = [caller EXCEPT ![j] = "gaveup"]
      /\ IF j \in claimed THEN UNCHANGED <<queue, pending>> ELSE Withdraw(j)
  BY DEF Cancel
<1>2. caller'[j] = "gaveup" /\ \A x \in Jobs \ {j} : caller'[x] = caller[x]
  BY <1>1 DEF TypeOK, CallerTypes
<1>q. \A s \in Rts : queue[s] \in Seq(Jobs) /\ NoRepeats(queue[s])
  BY DEF TypeOK, QueueTypes, JobInv, QueueHoldsOpenJobs, NoRepeats
<1>3. \A s \in Rts : /\ NoRepeats(queue'[s])
                     /\ \A k \in DOMAIN queue'[s] :
                          /\ queue'[s][k] # j
                          /\ \E m \in DOMAIN queue[s] : queue'[s][k] = queue[s][m]
                     /\ \A m \in DOMAIN queue[s] : queue[s][m] # j =>
                          \E k \in DOMAIN queue'[s] : queue'[s][k] = queue[s][m]
  <2> TAKE s \in Rts
  <2>1. CASE j \in claimed
    <3>1. queue'[s] = queue[s] /\ \A k \in DOMAIN queue[s] : queue[s][k] # j
      BY <1>1, <2>1 DEF JobInv, QueueHoldsOpenJobs
    <3> QED
      BY <1>q, <3>1
  <2>2. CASE j \notin claimed /\ s = home[j]
    <3>1. queue'[s] = Spliced(queue[s], j)
      BY <1>1, <2>2 DEF Withdraw, TypeOK, QueueTypes
    <3> QED
      BY <1>q, <3>1, SplicedEntries
  <2>3. CASE j \notin claimed /\ s # home[j]
    <3>1. queue'[s] = queue[s]
      BY <1>1, <2>3 DEF Withdraw, TypeOK, QueueTypes
    <3>2. \A k \in DOMAIN queue[s] : queue[s][k] # j
      BY <2>3 DEF JobInv, QueueHoldsOpenJobs
    <3> QED
      BY <1>q, <3>1, <3>2
  <2> QED
    BY <2>1, <2>2, <2>3
<1>4. QueueHoldsOpenJobs'
  <2> SUFFICES ASSUME NEW s \in Rts, NEW k \in DOMAIN queue'[s]
               PROVE  /\ home[queue'[s][k]] = s
                      /\ queue'[s][k] \notin claimed
                      /\ caller'[queue'[s][k]] \in {"waiting", "revoked"}
                      /\ \A m \in DOMAIN queue'[s] :
                           queue'[s][m] = queue'[s][k] => m = k
    BY DEF QueueHoldsOpenJobs
  <2>1. PICK m \in DOMAIN queue[s] : queue'[s][k] = queue[s][m] /\ queue[s][m] # j
    BY <1>3
  <2>2. queue[s][m] \in Jobs
    BY <1>q, LenProperties, ElementOfSeq
  <2> QED
    BY <1>2, <1>3, <2>1, <2>2 DEF JobInv, QueueHoldsOpenJobs, NoRepeats
<1>5. pending' \subseteq pending /\ (j \notin claimed => j \notin pending')
  BY <1>1 DEF Withdraw
<1>6. UnclaimedIsQueued'
  <2> SUFFICES ASSUME NEW x \in pending' \ claimed
               PROVE  home[x] \in Rts /\ x \in ToSet(queue'[home[x]])
    BY DEF UnclaimedIsQueued
  <2>1. x \in pending \ claimed /\ x # j
    BY <1>5
  <2>2. home[x] \in Rts /\ \E m \in DOMAIN queue[home[x]] : queue[home[x]][m] = x
    BY <2>1 DEF JobInv, UnclaimedIsQueued, ToSet
  <2> QED
    BY <1>3, <2>1, <2>2 DEF ToSet
<1>7. JobBookkeeping'
  BY <1>1, <1>2, <1>5 DEF JobInv, JobBookkeeping
<1> QED
  BY <1>4, <1>6, <1>7 DEF JobInv

\* A dispatched job is queued and pending, or was withdrawn within the call.
LEMMA DispatchKeepsJobs ==
  ASSUME TypeOK, TypeOK', JobInv, NEW j \in Jobs, NEW n \in Names,
         NEW aborted \in BOOLEAN, Dispatch(j, n, aborted)
  PROVE  JobInv'
<1> DEFINE r == runtime[n]
<1>1. /\ r \in Rts /\ r # 0
      /\ caller[j] = "none"
      /\ home' = [home EXCEPT ![j] = r]
      /\ UNCHANGED <<claimed, holder>>
  BY DEF Dispatch, TypeOK, RuntimeTypes, Rts
<1>2. /\ home[j] = 0 /\ holder[j] = None
      /\ j \notin claimed \cup cancelled \cup settled \cup pending
  BY <1>1 DEF JobInv, JobBookkeeping
<1>3. \A s \in Rts : /\ queue[s] \in Seq(Jobs)
                     /\ \A k \in DOMAIN queue[s] : queue[s][k] \in Jobs /\ queue[s][k] # j
  <2> TAKE s \in Rts
  <2>1. queue[s] \in Seq(Jobs)
    BY DEF TypeOK, QueueTypes
  <2> QED
    BY <1>1, <2>1, LenProperties, ElementOfSeq DEF JobInv, QueueHoldsOpenJobs
<1>4. home'[j] = r /\ \A x \in Jobs \ {j} : home'[x] = home[x]
  BY <1>1 DEF TypeOK, PendingTypes
<1>5. CASE aborted
  <2>1. /\ cancelled' = cancelled \cup {j}
        /\ settled' = settled \cup {j}
        /\ caller' = [caller EXCEPT ![j] = "gaveup"]
        /\ UNCHANGED <<queue, pending, timer>>
    BY <1>5 DEF Dispatch
  <2>2. caller'[j] = "gaveup" /\ \A x \in Jobs \ {j} : caller'[x] = caller[x]
    BY <2>1 DEF TypeOK, CallerTypes
  <2>3. QueueHoldsOpenJobs'
    BY <1>1, <1>3, <1>4, <2>1, <2>2 DEF JobInv, QueueHoldsOpenJobs
  <2>4. UnclaimedIsQueued'
    BY <1>1, <1>2, <1>4, <2>1
    DEF JobInv, UnclaimedIsQueued, TypeOK, PendingTypes
  <2>5. JobBookkeeping'
    BY <1>1, <1>2, <1>4, <2>1, <2>2 DEF JobInv, JobBookkeeping
  <2> QED
    BY <2>3, <2>4, <2>5 DEF JobInv
<1>6. CASE ~ aborted
  <2>1. /\ queue' = [queue EXCEPT ![r] = Append(@, j)]
        /\ pending' = pending \cup {j}
        /\ timer' = [timer EXCEPT ![j] = "expiry"]
        /\ caller' = [caller EXCEPT ![j] = "waiting"]
        /\ UNCHANGED <<cancelled, settled>>
    BY <1>6 DEF Dispatch
  <2>2. caller'[j] = "waiting" /\ \A x \in Jobs \ {j} : caller'[x] = caller[x]
    BY <2>1 DEF TypeOK, CallerTypes
  <2>3. \A s \in Rts \ {r} : queue'[s] = queue[s]
    BY <2>1 DEF TypeOK, QueueTypes
  <2>4. /\ queue'[r] = Append(queue[r], j)
        /\ DOMAIN queue[r] = 1..Len(queue[r]) /\ Len(queue[r]) \in Nat
        /\ DOMAIN queue'[r] = 1..(Len(queue[r]) + 1)
        /\ queue'[r][Len(queue[r]) + 1] = j
        /\ \A k \in DOMAIN queue[r] : queue'[r][k] = queue[r][k]
    <3>1. queue'[r] = Append(queue[r], j)
      BY <1>1, <2>1 DEF TypeOK, QueueTypes
    <3>2. queue'[r] \in Seq(Jobs)
      BY <1>1 DEF TypeOK, QueueTypes
    <3> QED
      BY <1>1, <1>3, <3>1, <3>2, AppendProperties, LenProperties
  <2> HIDE DEF r
  <2>5. QueueHoldsOpenJobs'
    <3> SUFFICES ASSUME NEW s \in Rts, NEW k \in DOMAIN queue'[s]
                 PROVE  /\ home'[queue'[s][k]] = s
                        /\ queue'[s][k] \notin claimed
                        /\ caller'[queue'[s][k]] \in {"waiting", "revoked"}
                        /\ \A m \in DOMAIN queue'[s] :
                             queue'[s][m] = queue'[s][k] => m = k
      BY <1>1 DEF QueueHoldsOpenJobs
    <3>1. CASE s # r
      BY <1>3, <1>4, <2>2, <2>3, <3>1 DEF JobInv, QueueHoldsOpenJobs
    <3>2. CASE s = r /\ k = Len(queue[r]) + 1
      <4>1. \A m \in DOMAIN queue'[s] : queue'[s][m] = j => m = k
        BY <1>1, <1>3, <2>4, <3>2
      <4> QED
        BY <1>2, <1>4, <2>2, <2>4, <3>2, <4>1
    <3>3. CASE s = r /\ k # Len(queue[r]) + 1
      <4>1. k \in DOMAIN queue[r] /\ queue'[r][k] = queue[r][k]
        BY <2>4, <3>3
      <4>2. \A m \in DOMAIN queue'[r] : queue'[r][m] = queue'[r][k] =>
              m \in DOMAIN queue[r] /\ queue[r][m] = queue[r][k]
        BY <1>1, <1>3, <2>4, <4>1
      <4>3. /\ queue[r][k] \in Jobs \ {j}
            /\ home[queue[r][k]] = r /\ queue[r][k] \notin claimed
            /\ caller[queue[r][k]] \in {"waiting", "revoked"}
            /\ \A m \in DOMAIN queue[r] : queue[r][m] = queue[r][k] => m = k
        BY <1>1, <1>3, <4>1 DEF JobInv, QueueHoldsOpenJobs
      <4> QED
        BY <1>4, <2>2, <3>3, <4>1, <4>2, <4>3
    <3> QED
      BY <3>1, <3>2, <3>3
  <2>6. UnclaimedIsQueued'
    <3> SUFFICES ASSUME NEW x \in pending' \ claimed
                 PROVE  home'[x] \in Rts /\ \E m \in DOMAIN queue'[home'[x]] :
                                              queue'[home'[x]][m] = x
      BY <1>1 DEF UnclaimedIsQueued, ToSet
    <3>1. CASE x = j
      <4>1. Len(queue[r]) + 1 \in DOMAIN queue'[r]
        BY <2>4
      <4> QED
        BY <1>1, <1>4, <2>4, <3>1, <4>1
    <3>2. CASE x # j
      <4>1. x \in pending \ claimed /\ x \in Jobs
        BY <2>1, <3>2 DEF TypeOK, PendingTypes
      <4>2. home[x] \in Rts /\ \E m \in DOMAIN queue[home[x]] : queue[home[x]][m] = x
        BY <4>1 DEF JobInv, UnclaimedIsQueued, ToSet
      <4>3. \A m \in DOMAIN queue[home[x]] : m \in DOMAIN queue'[home[x]] /\
                                               queue'[home[x]][m] = queue[home[x]][m]
        BY <2>3, <2>4, <4>2
      <4> QED
        BY <1>4, <3>2, <4>1, <4>2, <4>3
    <3> QED
      BY <3>1, <3>2
  <2>7. JobBookkeeping'
    <3>1. timer'[j] = "expiry" /\ \A x \in Jobs \ {j} : timer'[x] = timer[x]
      BY <2>1 DEF TypeOK, PendingTypes
    <3> QED
      BY <1>1, <1>2, <1>4, <2>1, <2>2, <3>1 DEF JobInv, JobBookkeeping
  <2> QED
    BY <2>5, <2>6, <2>7 DEF JobInv
<1> QED
  BY <1>5, <1>6

\* A result concerns a claimed job, which is in no queue.
LEMMA SubmitKeepsJobs ==
  ASSUME TypeOK, JobInv, NEW t \in Tokens, NEW n \in Names, NEW j \in Jobs,
         NEW kind \in ResultKinds, SubmitResult(t, n, j, kind)
  PROVE  JobInv'
<1>1. CASE UNCHANGED <<pending, timer, settled, caller>>
  <2>1. UNCHANGED jobState
    BY <1>1 DEF SubmitResult, queueVars, jobState
  <2> QED
    BY <2>1, JobStutter
<1>2. CASE ~ UNCHANGED <<pending, timer, settled, caller>>
  <2>1. /\ j \in claimed
        /\ pending' = pending \ {j}
        /\ timer' = [timer EXCEPT ![j] = "off"]
        /\ settled' = settled \cup {j}
        /\ \/ UNCHANGED caller
           \/ j \notin settled /\ caller' = [caller EXCEPT ![j] = "answered"]
        /\ UNCHANGED <<queue, home, cancelled, claimed, holder>>
    BY <1>2 DEF SubmitResult, queueVars, Accepts
  <2>2. /\ \A x \in Jobs \ {j} : caller'[x] = caller[x] /\ timer'[x] = timer[x]
        /\ timer'[j] = "off" /\ (caller'[j] # "none" \/ caller'[j] = caller[j])
    BY <2>1 DEF TypeOK, CallerTypes, PendingTypes
  <2>3. QueueHoldsOpenJobs'
    <3>1. \A s \in Rts : \A k \in DOMAIN queue[s] :
            queue[s][k] # j /\ queue[s][k] \in Jobs
      <4> TAKE s \in Rts
      <4>1. queue[s] \in Seq(Jobs)
        BY DEF TypeOK, QueueTypes
      <4> QED
        BY <2>1, <4>1, LenProperties, ElementOfSeq DEF JobInv, QueueHoldsOpenJobs
    <3> QED
      BY <2>1, <2>2, <3>1 DEF JobInv, QueueHoldsOpenJobs
  <2>4. UnclaimedIsQueued'
    BY <2>1 DEF JobInv, UnclaimedIsQueued
  <2>5. JobBookkeeping'
    BY <2>1, <2>2 DEF JobInv, JobBookkeeping
  <2> QED
    BY <2>3, <2>4, <2>5 DEF JobInv
<1> QED
  BY <1>1, <1>2

\* Revocation turns waiting callers into revoked ones and leaves queues alone.
LEMMA DropKeepsJobs ==
  ASSUME TypeOK, JobInv, NEW S \in SUBSET pending, DropPending(S),
         UNCHANGED <<queue, home, cancelled, claimed, holder>>
  PROVE  JobInv'
<1>1. /\ pending' = pending \ S
      /\ settled' = settled \cup S
      /\ \A x \in Jobs : timer'[x] = IF x \in S THEN "off" ELSE timer[x]
      /\ \A x \in Jobs : caller'[x] = IF x \in S \ settled THEN "revoked" ELSE caller[x]
  BY DEF DropPending
<1>2. QueueHoldsOpenJobs'
  <2>1. \A s \in Rts : \A k \in DOMAIN queue[s] : queue[s][k] \in Jobs
    <3> TAKE s \in Rts
    <3>1. queue[s] \in Seq(Jobs)
      BY DEF TypeOK, QueueTypes
    <3> QED
      BY <3>1, LenProperties, ElementOfSeq
  <2> QED
    BY <1>1, <2>1 DEF JobInv, QueueHoldsOpenJobs
<1>3. UnclaimedIsQueued'
  BY <1>1 DEF JobInv, UnclaimedIsQueued
<1>4. JobBookkeeping'
  BY <1>1 DEF JobInv, JobBookkeeping
<1> QED
  BY <1>2, <1>3, <1>4 DEF JobInv

-----------------------------------------------------------------------------
(* Poll requests *)

LEMMA WaitersInitial == Init => WaitersWait
BY DEF Init, WaitersWait, NoPoll

LEMMA WaitersStutter ==
  WaitersWait /\ UNCHANGED <<poll, waiters>> => WaitersWait'
BY DEF WaitersWait

\* Where the entries of waiter sets are, in terms of positions.
LEMMA WaiterFacts ==
  ASSUME TypeOK, WaitersWait, NEW r \in Rts
  PROVE  /\ waiters[r] \in Seq(Polls) /\ NoRepeats(waiters[r])
         /\ Len(waiters[r]) \in Nat /\ DOMAIN waiters[r] = 1..Len(waiters[r])
         /\ \A i \in DOMAIN waiters[r] :
              waiters[r][i] \in Polls /\ poll[waiters[r][i]].st = "waiting"
                /\ poll[waiters[r][i]].rt = r
<1>1. waiters[r] \in Seq(Polls)
  BY DEF TypeOK, WaiterTypes
<1> QED
  BY <1>1, LenProperties, ElementOfSeq DEF WaitersWait, NoRepeats

\* It is enough that the waiter sets change by the polls that stop waiting,
\* and by those that start.
LEMMA WaitersChange ==
  ASSUME TypeOK, WaitersWait, NEW stop \in SUBSET Polls,
         \A r \in Rts : /\ NoRepeats(waiters'[r])
                        /\ \A i \in DOMAIN waiters'[r] :
                             /\ waiters'[r][i] \notin stop
                             /\ \E k \in DOMAIN waiters[r] : waiters'[r][i] = waiters[r][k]
                        /\ \A k \in DOMAIN waiters[r] : waiters[r][k] \notin stop =>
                             \E i \in DOMAIN waiters'[r] : waiters'[r][i] = waiters[r][k],
         \A p \in Polls \ stop : poll'[p] = poll[p],
         \A p \in stop : /\ poll'[p].st # "waiting"
                         /\ poll'[p].st # "idle" => poll'[p].token \in Tokens
  PROVE  WaitersWait'
<1>1. ASSUME NEW r \in Rts, NEW i \in DOMAIN waiters'[r]
      PROVE  /\ poll'[waiters'[r][i]].st = "waiting" /\ poll'[waiters'[r][i]].rt = r
             /\ \A k \in DOMAIN waiters'[r] : waiters'[r][k] = waiters'[r][i] => k = i
  <2>1. PICK k \in DOMAIN waiters[r] : waiters'[r][i] = waiters[r][k]
    OBVIOUS
  <2>2. waiters[r][k] \in Polls \ stop
    BY <2>1, WaiterFacts
  <2> QED
    BY <2>1, <2>2, WaiterFacts DEF NoRepeats
<1>2. ASSUME NEW p \in Polls, poll'[p].st = "waiting"
      PROVE  poll'[p].rt \in Rts /\ p \in ToSet(waiters'[poll'[p].rt])
  <2>1. p \notin stop /\ poll'[p] = poll[p] /\ poll[p].st = "waiting"
    BY <1>2
  <2>2. poll[p].rt \in Rts /\ \E k \in DOMAIN waiters[poll[p].rt] : waiters[poll[p].rt][k] = p
    BY <2>1 DEF WaitersWait, ToSet
  <2> QED
    BY <2>1, <2>2 DEF ToSet
<1>3. ASSUME NEW p \in Polls, poll'[p].st # "idle" PROVE poll'[p].token \in Tokens
  BY <1>3 DEF WaitersWait
<1> QED
  BY <1>1, <1>2, <1>3 DEF WaitersWait

LEMMA WaitersStep == TypeOK /\ TypeOK' /\ WaitersWait /\ [Next]_vars => WaitersWait'
<1> SUFFICES ASSUME TypeOK, TypeOK', WaitersWait, [Next]_vars PROVE WaitersWait'
  OBVIOUS
<1>p. poll = [p \in Polls |-> poll[p]]
  BY DEF TypeOK, WaiterTypes
<1>1. ASSUME NEW c \in Calls, RevokeDone(c) PROVE WaitersWait'
  <2> DEFINE r == runtime[call[c].name]
             woken == IF r = 0 THEN {} ELSE ToSet(waiters[r])
  <2>1. r \in Rts \cup {0}
    BY <1>1 DEF RevokeDone, TypeOK, RuntimeTypes, CallTypes
  <2>2. /\ waiters' = [q \in Rts |-> IF q = r THEN <<>> ELSE waiters[q]]
        /\ poll' = [p \in Polls |-> IF p \in woken THEN [poll[p] EXCEPT !.st = "revoked"]
                                    ELSE poll[p]]
    BY <1>1 DEF RevokeDone
  <2>3. woken \in SUBSET Polls /\ \A p \in woken : poll[p].st = "waiting" /\ poll[p].rt = r
    BY <2>1, WaiterFacts DEF ToSet
  <2>4. \A p \in woken : poll[p].token \in Tokens
    BY <2>3 DEF WaitersWait
  <2>5. ASSUME NEW s \in Rts
        PROVE  /\ NoRepeats(waiters'[s])
               /\ \A i \in DOMAIN waiters'[s] :
                    /\ waiters'[s][i] \notin woken
                    /\ \E k \in DOMAIN waiters[s] : waiters'[s][i] = waiters[s][k]
               /\ \A k \in DOMAIN waiters[s] : waiters[s][k] \notin woken =>
                    \E i \in DOMAIN waiters'[s] : waiters'[s][i] = waiters[s][k]
    <3>1. CASE s = r
      <4>1. waiters'[s] = <<>> /\ s # 0
        BY <2>2, <3>1 DEF Rts
      <4>2. \A k \in DOMAIN waiters[s] : waiters[s][k] \in woken
        BY <3>1, <4>1 DEF ToSet
      <4> QED
        BY <4>1, <4>2 DEF NoRepeats
    <3>2. CASE s # r
      <4>1. waiters'[s] = waiters[s] /\ NoRepeats(waiters[s])
        BY <2>2, <3>2, WaiterFacts
      <4>2. \A i \in DOMAIN waiters[s] : waiters[s][i] \notin woken
        BY <2>3, <3>2, WaiterFacts
      <4> QED
        BY <4>1, <4>2
    <3> QED
      BY <3>1, <3>2
  <2> HIDE DEF woken
  <2>6. \A p \in Polls : IF p \in woken THEN poll'[p].st = "revoked" /\ poll'[p].token = poll[p].token
                         ELSE poll'[p] = poll[p]
    BY <2>2 DEF TypeOK, WaiterTypes
  <2> QED
    BY <2>3, <2>4, <2>5, <2>6, WaitersChange
<1>2. ASSUME NEW p \in Polls, PollTimeout(p) PROVE WaitersWait'
  <2> DEFINE r == poll[p].rt
  <2>1. r \in Rts /\ poll[p].token \in Tokens
    BY <1>2 DEF PollTimeout, WaitersWait
  <2>2. /\ waiters' = [waiters EXCEPT ![r] = Spliced(@, p)]
        /\ poll' = [poll EXCEPT ![p].st = "timeout"]
    BY <1>2 DEF PollTimeout
  <2>3. /\ waiters'[r] = Spliced(waiters[r], p)
        /\ \A s \in Rts \ {r} : waiters'[s] = waiters[s]
    BY <2>1, <2>2 DEF TypeOK, WaiterTypes
  <2>4. ASSUME NEW s \in Rts
        PROVE  /\ NoRepeats(waiters'[s])
               /\ \A i \in DOMAIN waiters'[s] :
                    /\ waiters'[s][i] \notin {p}
                    /\ \E k \in DOMAIN waiters[s] : waiters'[s][i] = waiters[s][k]
               /\ \A k \in DOMAIN waiters[s] : waiters[s][k] \notin {p} =>
                    \E i \in DOMAIN waiters'[s] : waiters'[s][i] = waiters[s][k]
    <3>1. CASE s = r
      BY <2>1, <2>3, <3>1, WaiterFacts, SplicedEntries
    <3>2. CASE s # r
      <4>1. waiters'[s] = waiters[s] /\ NoRepeats(waiters[s])
        BY <2>3, <3>2, WaiterFacts
      <4>2. \A i \in DOMAIN waiters[s] : waiters[s][i] # p
        BY <3>2, WaiterFacts
      <4> QED
        BY <4>1, <4>2
    <3> QED
      BY <3>1, <3>2
  <2>5. /\ \A x \in Polls \ {p} : poll'[x] = poll[x]
        /\ poll'[p].st = "timeout" /\ poll'[p].token = poll[p].token
    BY <2>2 DEF TypeOK, WaiterTypes
  <2> QED
    BY <2>1, <2>4, <2>5, WaitersChange
<1>3. ASSUME NEW p \in Polls, PollResume(p) PROVE WaitersWait'
  <2>1. /\ poll[p].st # "waiting" /\ UNCHANGED waiters
        /\ poll' = [poll EXCEPT ![p] = NoPoll]
    BY <1>3 DEF PollResume
  <2>2. poll'[p].st = "idle" /\ \A x \in Polls \ {p} : poll'[x] = poll[x]
    BY <2>1 DEF TypeOK, WaiterTypes, NoPoll
  <2>3. ASSUME NEW s \in Rts
        PROVE  /\ NoRepeats(waiters'[s])
               /\ \A i \in DOMAIN waiters'[s] :
                    /\ waiters'[s][i] \notin {p}
                    /\ \E k \in DOMAIN waiters[s] : waiters'[s][i] = waiters[s][k]
               /\ \A k \in DOMAIN waiters[s] : waiters[s][k] \notin {p} =>
                    \E i \in DOMAIN waiters'[s] : waiters'[s][i] = waiters[s][k]
    <3>1. waiters'[s] = waiters[s] /\ NoRepeats(waiters[s])
      BY <2>1, WaiterFacts
    <3>2. \A i \in DOMAIN waiters[s] : waiters[s][i] # p
      BY <2>1, WaiterFacts
    <3> QED
      BY <3>1, <3>2
  <2> QED
    BY <2>2, <2>3, WaitersChange
<1>4. ASSUME NEW j \in Jobs, NEW n \in Names, NEW aborted \in BOOLEAN,
             Dispatch(j, n, aborted)
      PROVE  WaitersWait'
  <2> DEFINE r == runtime[n]
             w == waiters[r]
  <2>1. r \in Rts /\ WakeWorker(r)
    BY <1>4 DEF Dispatch, TypeOK, RuntimeTypes
  <2>2. CASE w = <<>>
    BY <2>1, <2>2, WaitersStutter DEF WakeWorker
  <2>3. CASE w # <<>>
    <3> DEFINE p == w[1]
    <3>1. /\ w \in Seq(Polls) /\ Len(w) \in Nat \ {0} /\ DOMAIN w = 1..Len(w)
          /\ NoRepeats(w) /\ 1 \in DOMAIN w /\ Head(w) = p
      BY <2>1, <2>3, WaiterFacts, EmptySeq
    <3>2. p \in Polls /\ poll[p].st = "waiting" /\ poll[p].rt = r
      BY <2>1, <3>1, WaiterFacts
    <3>3. /\ poll' = [poll EXCEPT ![p].st = "job"]
          /\ waiters' = [waiters EXCEPT ![r] = Tail(@)]
      BY <2>1, <2>3, <3>1 DEF WakeWorker
    <3>4. /\ waiters'[r] = Tail(w)
          /\ \A s \in Rts \ {r} : waiters'[s] = waiters[s]
      BY <2>1, <3>3 DEF TypeOK, WaiterTypes
    <3>5. /\ Len(Tail(w)) = Len(w) - 1 /\ Tail(w) \in Seq(Polls)
          /\ \A i \in 1..Len(Tail(w)) : Tail(w)[i] = w[i + 1]
          /\ DOMAIN Tail(w) = 1..Len(Tail(w))
      BY <2>3, <3>1, HeadTailProperties, LenProperties
    <3> HIDE DEF w, p
    <3>6. /\ NoRepeats(Tail(w))
          /\ \A i \in DOMAIN Tail(w) : /\ Tail(w)[i] # p
                                       /\ \E k \in DOMAIN w : Tail(w)[i] = w[k]
          /\ \A k \in DOMAIN w : w[k] # p => \E i \in DOMAIN Tail(w) : Tail(w)[i] = w[k]
      <4>1. ASSUME NEW i \in DOMAIN Tail(w)
            PROVE  Tail(w)[i] = w[i + 1] /\ i + 1 \in DOMAIN w /\ i + 1 # 1
        BY <3>1, <3>5
      <4>2. ASSUME NEW k \in DOMAIN w, k # 1
            PROVE  k - 1 \in DOMAIN Tail(w) /\ Tail(w)[k - 1] = w[k]
        <5>1. k - 1 \in 1..Len(Tail(w)) /\ (k - 1) + 1 = k
          BY <3>1, <3>5, <4>2
        <5> QED
          BY <3>5, <5>1
      <4>3. \A i, k \in DOMAIN Tail(w) : Tail(w)[i] = Tail(w)[k] => i = k
        <5> SUFFICES ASSUME NEW i \in DOMAIN Tail(w), NEW k \in DOMAIN Tail(w),
                            Tail(w)[i] = Tail(w)[k]
                     PROVE  i = k
          OBVIOUS
        <5>1. i + 1 = k + 1
          BY <3>1, <4>1 DEF NoRepeats
        <5> QED
          BY <3>1, <3>5, <5>1
      <4>4. ASSUME NEW i \in DOMAIN Tail(w)
            PROVE  Tail(w)[i] # p /\ \E k \in DOMAIN w : Tail(w)[i] = w[k]
        <5>1. w[i + 1] # w[1]
          BY <3>1, <4>1 DEF NoRepeats
        <5> QED
          BY <4>1, <5>1 DEF p
      <4>5. ASSUME NEW k \in DOMAIN w, w[k] # p
            PROVE  \E i \in DOMAIN Tail(w) : Tail(w)[i] = w[k]
        <5>1. k # 1
          BY <4>5 DEF p
        <5> QED
          BY <4>2, <5>1
      <4>6. NoRepeats(Tail(w))
        BY <4>3 DEF NoRepeats
      <4> QED
        BY <4>4, <4>5, <4>6
    <3>7. ASSUME NEW s \in Rts
          PROVE  /\ NoRepeats(waiters'[s])
                 /\ \A i \in DOMAIN waiters'[s] :
                      /\ waiters'[s][i] \notin {p}
                      /\ \E k \in DOMAIN waiters[s] : waiters'[s][i] = waiters[s][k]
                 /\ \A k \in DOMAIN waiters[s] : waiters[s][k] \notin {p} =>
                      \E i \in DOMAIN waiters'[s] : waiters'[s][i] = waiters[s][k]
      <4>1. CASE s = r
        <5>1. waiters'[s] = Tail(w) /\ waiters[s] = w
          BY <3>4, <4>1 DEF w
        <5> QED
          BY <3>6, <5>1
      <4>2. CASE s # r
        <5>1. waiters'[s] = waiters[s] /\ NoRepeats(waiters[s])
          BY <3>4, <4>2, WaiterFacts
        <5>2. \A i \in DOMAIN waiters[s] : waiters[s][i] # p
          BY <3>2, <4>2, WaiterFacts
        <5> QED
          BY <5>1, <5>2
      <4> QED
        BY <4>1, <4>2
    <3>8. /\ \A x \in Polls \ {p} : poll'[x] = poll[x]
          /\ poll'[p].st = "job" /\ poll'[p].token = poll[p].token
      BY <3>2, <3>3 DEF TypeOK, WaiterTypes
    <3>9. poll[p].token \in Tokens
      BY <3>2 DEF WaitersWait
    <3> QED
      BY <3>2, <3>7, <3>8, <3>9, WaitersChange
  <2> QED
    BY <2>2, <2>3
<1>5. ASSUME NEW p \in Polls, NEW t \in Tokens, NEW n \in Names, Poll(p, t, n)
      PROVE  WaitersWait'
  <2> DEFINE r == RuntimeFor(n)
  <2>1. r \in Rts /\ poll[p].st = "idle"
    BY <1>5, MarkSeenTypes DEF Poll, TypeOK
  <2>2. \/ UNCHANGED <<poll, waiters>>
        \/ /\ poll' = [poll EXCEPT ![p] = [st |-> "waiting", name |-> n,
                                           token |-> t, rt |-> r]]
           /\ waiters' = [waiters EXCEPT ![r] = Append(@, p)]
    BY <1>5 DEF Poll
  <2>3. CASE UNCHANGED <<poll, waiters>>
    BY <2>3, WaitersStutter
  <2> HIDE DEF r
  <2>4. CASE /\ poll' = [poll EXCEPT ![p] = [st |-> "waiting", name |-> n,
                                             token |-> t, rt |-> r]]
             /\ waiters' = [waiters EXCEPT ![r] = Append(@, p)]
    <3>1. /\ poll'[p].st = "waiting" /\ poll'[p].rt = r /\ poll'[p].token = t
          /\ \A x \in Polls \ {p} : poll'[x] = poll[x]
      BY <2>4 DEF TypeOK, WaiterTypes
    <3>2. /\ waiters'[r] = Append(waiters[r], p)
          /\ \A s \in Rts \ {r} : waiters'[s] = waiters[s]
      BY <2>1, <2>4 DEF TypeOK, WaiterTypes
    <3>3. \A s \in Rts : \A i \in DOMAIN waiters[s] : waiters[s][i] \in Polls \ {p}
      BY <2>1, WaiterFacts
    <3>4. /\ DOMAIN waiters[r] = 1..Len(waiters[r]) /\ Len(waiters[r]) \in Nat
          /\ DOMAIN waiters'[r] = 1..(Len(waiters[r]) + 1)
          /\ waiters'[r][Len(waiters[r]) + 1] = p
          /\ \A k \in DOMAIN waiters[r] : waiters'[r][k] = waiters[r][k]
      <4>1. waiters[r] \in Seq(Polls) /\ waiters'[r] \in Seq(Polls)
        BY <2>1 DEF TypeOK, WaiterTypes
      <4> QED
        BY <3>2, <4>1, AppendProperties, LenProperties
    <3>5. ASSUME NEW s \in Rts, NEW i \in DOMAIN waiters'[s]
          PROVE  /\ poll'[waiters'[s][i]].st = "waiting"
                 /\ poll'[waiters'[s][i]].rt = s
                 /\ \A k \in DOMAIN waiters'[s] : waiters'[s][k] = waiters'[s][i] => k = i
      <4>1. CASE s # r
        BY <3>1, <3>2, <3>3, <4>1, WaiterFacts DEF NoRepeats
      <4>2. CASE s = r /\ i = Len(waiters[r]) + 1
        BY <3>1, <3>3, <3>4, <4>2
      <4>3. CASE s = r /\ i # Len(waiters[r]) + 1
        <5>1. i \in DOMAIN waiters[r] /\ waiters'[r][i] = waiters[r][i]
          BY <3>4, <4>3
        <5>2. \A k \in DOMAIN waiters'[r] : waiters'[r][k] = waiters'[r][i] =>
                k \in DOMAIN waiters[r] /\ waiters[r][k] = waiters[r][i]
          BY <2>1, <3>3, <3>4, <5>1
        <5> QED
          BY <2>1, <3>1, <3>3, <4>3, <5>1, <5>2, WaiterFacts DEF NoRepeats
      <4> QED
        BY <4>1, <4>2, <4>3
    <3>6. ASSUME NEW x \in Polls, poll'[x].st = "waiting"
          PROVE  poll'[x].rt \in Rts /\ x \in ToSet(waiters'[poll'[x].rt])
      <4>1. CASE x = p
        <5>1. Len(waiters[r]) + 1 \in DOMAIN waiters'[r]
          BY <3>4
        <5> QED
          BY <2>1, <3>1, <3>4, <4>1, <5>1 DEF ToSet
      <4>2. CASE x # p
        <5>1. poll'[x] = poll[x] /\ poll[x].rt \in Rts
              /\ \E k \in DOMAIN waiters[poll[x].rt] : waiters[poll[x].rt][k] = x
          BY <3>1, <3>6, <4>2 DEF WaitersWait, ToSet
        <5>2. \A k \in DOMAIN waiters[poll[x].rt] :
                k \in DOMAIN waiters'[poll[x].rt]
                  /\ waiters'[poll[x].rt][k] = waiters[poll[x].rt][k]
          BY <3>2, <3>4, <5>1
        <5> QED
          BY <5>1, <5>2 DEF ToSet
      <4> QED
        BY <4>1, <4>2
    <3>7. \A x \in Polls : poll'[x].st # "idle" => poll'[x].token \in Tokens
      BY <3>1 DEF WaitersWait
    <3> QED
      BY <3>5, <3>6, <3>7 DEF WaitersWait
  <2> QED
    BY <2>2, <2>3, <2>4
<1>6. CASE Restart
  BY <1>6 DEF Restart, WaitersWait, NoPoll
<1>7. CASE UNCHANGED <<poll, waiters>>
  BY <1>7, WaitersStutter
<1>8. ASSUME NEW c \in Calls, StorageStep(c), ~ RevokeDone(c)
      PROVE  UNCHANGED <<poll, waiters>>
  BY <1>8 DEF StorageStep, RegisterPut, RegisterDone, ResumeUpdate, ResumeDone,
    RenamePut, RenameDelete, RenameUndo, RenameDone, RevokeDelete, StorageFails,
    Commit, storageFrame, queueVars
<1>9. ASSUME NEW j \in Jobs, JobStep(j),
             ~ \E n \in Names, aborted \in BOOLEAN : Dispatch(j, n, aborted)
      PROVE  UNCHANGED <<poll, waiters>>
  BY <1>9 DEF JobStep, SubmitResult, Abort, Expire, EndGrace, cancelFrame, queueVars
<1>10. ASSUME \/ \E i \in Invites, n \in Names \cup {None} : CreateInvite(i, n)
              \/ \E i \in Invites : ExpireInvite(i)
              \/ \E c \in Calls, i \in Invites, n \in Names, t \in Tokens : Register(c, i, n, t)
              \/ \E c \in Calls, t \in Tokens, n \in Names : Resume(c, t, n)
              \/ \E c \in Calls, old, new \in Names : Rename(c, old, new)
              \/ \E c \in Calls, n \in Names : Revoke(c, n)
              \/ \E t \in Tokens, n \in Names : Heartbeat(t, n)
              \/ \E r \in Rts : GoOffline(r)
              \/ UNCHANGED vars
       PROVE  UNCHANGED <<poll, waiters>>
  BY <1>10 DEF CreateInvite, ExpireInvite, Register, Resume, Rename, Revoke,
    Heartbeat, GoOffline, storageFrame, queueVars, vars
<1> QED
  BY <1>1, <1>2, <1>3, <1>4, <1>5, <1>6, <1>7, <1>8, <1>9, <1>10 DEF Next, JobStep

-----------------------------------------------------------------------------
(* The job invariant holds *)

LEMMA JobInvStep ==
  TypeOK /\ TypeOK' /\ JobInv /\ WaitersWait /\ [Next]_vars => JobInv'
<1> SUFFICES ASSUME TypeOK, TypeOK', JobInv, WaitersWait, [Next]_vars PROVE JobInv'
  OBVIOUS
<1>1. CASE UNCHANGED jobState
  BY <1>1, JobStutter
<1>2. ASSUME NEW c \in Calls, RevokeDone(c) PROVE JobInv'
  <2> DEFINE S == {j \in pending : machine[j] = call[c].name}
  <2>1. DropPending(S) /\ UNCHANGED <<queue, home, cancelled, claimed, holder>>
    BY <1>2 DEF RevokeDone
  <2> QED
    BY <2>1, DropKeepsJobs
<1>3. ASSUME NEW p \in Polls, NEW t \in Tokens, NEW n \in Names, Poll(p, t, n)
      PROVE  JobInv'
  <2>1. RuntimeFor(n) \in Rts
    BY <1>3, MarkSeenTypes DEF Poll, TypeOK
  <2>2. TakeQueued(RuntimeFor(n), t) \/ NothingQueued(RuntimeFor(n))
    BY <1>3 DEF Poll
  <2>3. UNCHANGED <<pendingVars, caller>>
    BY <1>3 DEF Poll, pollFrame
  <2> QED
    BY <2>1, <2>2, <2>3, TakeKeepsJobs, NothingKeepsJobs
<1>4. ASSUME NEW p \in Polls, PollResume(p) PROVE JobInv'
  <2> DEFINE r == RuntimeFor(poll[p].name)
  <2>1. r \in Rts /\ poll[p].token \in Tokens
    BY <1>4, MarkSeenTypes DEF PollResume, TypeOK, WaitersWait
  <2>2. \/ UNCHANGED <<queue, claimed, holder>>
        \/ TakeQueued(r, poll[p].token)
        \/ NothingQueued(r)
    BY <1>4 DEF PollResume
  <2>3. UNCHANGED <<pendingVars, caller>>
    BY <1>4 DEF PollResume, pollFrame
  <2>4. UNCHANGED <<queue, claimed, holder>> => UNCHANGED jobState
    BY <2>3 DEF jobState, pendingVars
  <2> QED
    BY <2>1, <2>2, <2>3, <2>4, JobStutter, TakeKeepsJobs, NothingKeepsJobs
<1>5. ASSUME NEW j \in Jobs, Abort(j) PROVE JobInv'
  <2>1. /\ j \notin settled /\ Cancel(j)
        /\ UNCHANGED <<home, claimed, holder>>
        /\ \A x \in Jobs : timer'[x] # "off" => timer[x] # "off"
    BY <1>5 DEF Abort, cancelFrame, TypeOK, PendingTypes
  <2> QED
    BY <2>1, CancelKeepsJobs
<1>6. ASSUME NEW j \in Jobs, Expire(j) PROVE JobInv'
  <2>1. /\ UNCHANGED <<home, claimed, holder>>
        /\ \A x \in Jobs : timer'[x] # "off" => timer[x] # "off"
    BY <1>6 DEF Expire, cancelFrame, TypeOK, PendingTypes
  <2>2. CASE j \in settled
    <3>1. UNCHANGED <<queue, pending, cancelled, settled, caller>>
      BY <1>6, <2>2 DEF Expire
    <3> QED
      BY <2>1, <3>1 DEF JobInv, QueueHoldsOpenJobs, UnclaimedIsQueued, JobBookkeeping
  <2>3. CASE j \notin settled
    <3>1. Cancel(j)
      BY <1>6, <2>3 DEF Expire
    <3> QED
      BY <2>1, <2>3, <3>1, CancelKeepsJobs
  <2> QED
    BY <2>2, <2>3
<1>7. ASSUME NEW j \in Jobs, EndGrace(j) PROVE JobInv'
  <2>1. /\ pending' = pending \ {j}
        /\ \A x \in Jobs : timer'[x] # "off" => timer[x] # "off"
        /\ UNCHANGED <<queue, cancelled, settled, caller, home, claimed, holder>>
    BY <1>7 DEF EndGrace, cancelFrame, TypeOK, PendingTypes
  <2> QED
    BY <2>1 DEF JobInv, QueueHoldsOpenJobs, UnclaimedIsQueued, JobBookkeeping
<1>8. CASE Restart
  <2>1. QueueHoldsOpenJobs' /\ UnclaimedIsQueued'
    BY <1>8 DEF Restart, QueueHoldsOpenJobs, UnclaimedIsQueued
  <2>2. JobBookkeeping'
    <3>1. /\ pending' = {} /\ claimed' = {} /\ cancelled' = {} /\ settled' = {}
          /\ \A j \in Jobs : /\ home'[j] = 0 /\ timer'[j] = "off"
                             /\ caller'[j] = "none" => caller[j] = "none"
          /\ UNCHANGED holder
      BY <1>8 DEF Restart
    <3> QED
      BY <3>1 DEF JobInv, JobBookkeeping
  <2> QED
    BY <2>1, <2>2 DEF JobInv
<1>9. ASSUME NEW c \in Calls, StorageStep(c), ~ RevokeDone(c) PROVE UNCHANGED jobState
  BY <1>9 DEF StorageStep, RegisterPut, RegisterDone, ResumeUpdate, ResumeDone,
    RenamePut, RenameDelete, RenameUndo, RenameDone, RevokeDelete, StorageFails,
    Commit, storageFrame, jobState, queueVars, pendingVars, jobVars
<1>10. ASSUME \/ \E i \in Invites, n \in Names \cup {None} : CreateInvite(i, n)
              \/ \E i \in Invites : ExpireInvite(i)
              \/ \E c \in Calls, i \in Invites, n \in Names, t \in Tokens : Register(c, i, n, t)
              \/ \E c \in Calls, t \in Tokens, n \in Names : Resume(c, t, n)
              \/ \E c \in Calls, old, new \in Names : Rename(c, old, new)
              \/ \E c \in Calls, n \in Names : Revoke(c, n)
              \/ \E p \in Polls : PollTimeout(p)
              \/ \E t \in Tokens, n \in Names : Heartbeat(t, n)
              \/ \E r \in Rts : GoOffline(r)
              \/ UNCHANGED vars
       PROVE  UNCHANGED jobState
  BY <1>10 DEF CreateInvite, ExpireInvite, Register, Resume, Rename, Revoke,
    PollTimeout, Heartbeat, GoOffline, storageFrame, jobState, queueVars,
    pendingVars, jobVars, vars
<1>11. ASSUME NEW j \in Jobs, JobStep(j) PROVE JobInv'
  BY <1>5, <1>6, <1>7, <1>11, DispatchKeepsJobs, SubmitKeepsJobs DEF JobStep
<1> QED
  BY <1>1, <1>2, <1>3, <1>4, <1>8, <1>9, <1>10, <1>11 DEF Next

LEMMA JobInvHolds == Spec => [](WaitersWait /\ JobInv)
<1>1. Spec => []WaitersWait
  BY WaitersInitial, WaitersStep, TypeCorrect, PTL DEF Spec
<1>2. Spec => []JobInv
  BY <1>1, JobInitial, JobInvStep, TypeCorrect, PTL DEF Spec
<1> QED
  BY <1>1, <1>2, PTL

\* Every dispatched job nobody has claimed is queued on the object its cancel
\* closure refers to, and no queue holds a job twice, a claimed one or one
\* whose caller gave up, for any number of overlapping renames and revocations.
THEOREM QueuesCorrect == Spec => []QueuesAgree
<1>1. JobInv => QueuesAgree
  BY DEF JobInv, QueuesAgree
<1> QED
  BY <1>1, JobInvHolds, PTL

-----------------------------------------------------------------------------
(* The controller implements JobPromise *)

\* The steps that concern no caller and no holder.
LEMMA QuietSteps ==
  ASSUME \/ \E i \in Invites, n \in Names \cup {None} : CreateInvite(i, n)
         \/ \E i \in Invites : ExpireInvite(i)
         \/ \E c \in Calls, i \in Invites, n \in Names, t \in Tokens : Register(c, i, n, t)
         \/ \E c \in Calls, t \in Tokens, n \in Names : Resume(c, t, n)
         \/ \E c \in Calls, old, new \in Names : Rename(c, old, new)
         \/ \E c \in Calls, n \in Names : Revoke(c, n)
         \/ \E c \in Calls : StorageStep(c) /\ ~ RevokeDone(c)
         \/ \E p \in Polls : PollTimeout(p)
         \/ \E t \in Tokens, n \in Names : Heartbeat(t, n)
         \/ \E r \in Rts : GoOffline(r)
         \/ UNCHANGED vars
  PROVE  UNCHANGED <<caller, holder, pending, settled, timer>>
<1>1. ASSUME NEW c \in Calls, StorageStep(c), ~ RevokeDone(c)
      PROVE  UNCHANGED <<caller, holder, pending, settled, timer>>
  BY <1>1 DEF StorageStep, RegisterPut, RegisterDone, ResumeUpdate, ResumeDone,
    RenamePut, RenameDelete, RenameUndo, RenameDone, RevokeDelete, StorageFails,
    Commit, storageFrame, pendingVars, jobVars
<1> QED
  BY <1>1 DEF CreateInvite, ExpireInvite, Register, Resume, Rename, Revoke,
    PollTimeout, Heartbeat, GoOffline, storageFrame, pendingVars, jobVars, vars

LEMMA TakeRefines ==
  ASSUME TypeOK, JobInv, NEW r \in Rts, NEW t \in Tokens,
         TakeQueued(r, t) \/ NothingQueued(r), UNCHANGED caller
  PROVE  [Promise!PromiseNext]_<<caller, holder>>
<1>1. CASE TakeQueued(r, t)
  <2>1. PICK i \in DOMAIN queue[r] :
          Live(queue[r][i]) /\ holder' = [holder EXCEPT ![queue[r][i]] = t]
    BY <1>1 DEF TakeQueued
  <2> DEFINE j == queue[r][i]
  <2>2. j \in Jobs /\ j \notin settled /\ home[j] # 0 /\ j \notin claimed
    BY <2>1 DEF Live, JobInv, JobBookkeeping, QueueHoldsOpenJobs, TypeOK, PendingTypes
  <2>3. caller[j] = "waiting" /\ holder[j] = None
    BY <2>2 DEF JobInv, JobBookkeeping
  <2>4. Promise!Hand(j, t)
    BY <2>1, <2>3 DEF Promise!Hand
  <2> QED
    BY <2>2, <2>4 DEF Promise!PromiseNext
<1>2. CASE NothingQueued(r)
  BY <1>2 DEF NothingQueued
<1> QED
  BY <1>1, <1>2

LEMMA CancelRefines ==
  ASSUME TypeOK, JobInv, NEW j \in Jobs, home[j] # 0, j \notin settled, Cancel(j),
         UNCHANGED holder
  PROVE  [Promise!PromiseNext]_<<caller, holder>>
<1>1. caller[j] = "waiting"
  BY DEF JobInv, JobBookkeeping
<1>2. caller' = [x \in Jobs |-> IF x \in {j} THEN "gaveup" ELSE caller[x]]
  BY DEF Cancel, TypeOK, CallerTypes
<1>3. Promise!Settle({j}, "gaveup")
  BY <1>1, <1>2 DEF Promise!Settle
<1> QED
  BY <1>3 DEF Promise!PromiseNext, Promise!Outcomes

LEMMA PromiseStep ==
  TypeOK /\ JobInv /\ WaitersWait /\ [Next]_vars
    => [Promise!PromiseNext]_<<caller, holder>>
<1> SUFFICES ASSUME TypeOK, JobInv, WaitersWait, [Next]_vars
             PROVE  [Promise!PromiseNext]_<<caller, holder>>
  OBVIOUS
<1>1. ASSUME NEW c \in Calls, RevokeDone(c)
      PROVE  [Promise!PromiseNext]_<<caller, holder>>
  <2> DEFINE S == {j \in pending : machine[j] = call[c].name} \ settled
  <2>1. /\ caller' = [j \in Jobs |-> IF j \in S THEN "revoked" ELSE caller[j]]
        /\ UNCHANGED holder
    BY <1>1 DEF RevokeDone, DropPending
  <2>2. S \in SUBSET Jobs /\ \A j \in S : caller[j] = "waiting"
    BY DEF JobInv, JobBookkeeping, TypeOK, PendingTypes
  <2> HIDE DEF S
  <2>3. Promise!Settle(S, "revoked")
    BY <2>1, <2>2 DEF Promise!Settle
  <2> QED
    BY <2>2, <2>3 DEF Promise!PromiseNext, Promise!Outcomes
<1>2. ASSUME NEW p \in Polls, NEW t \in Tokens, NEW n \in Names, Poll(p, t, n)
      PROVE  [Promise!PromiseNext]_<<caller, holder>>
  <2>1. RuntimeFor(n) \in Rts /\ UNCHANGED caller
    BY <1>2, MarkSeenTypes DEF Poll, TypeOK, pollFrame
  <2>2. TakeQueued(RuntimeFor(n), t) \/ NothingQueued(RuntimeFor(n))
    BY <1>2 DEF Poll
  <2> QED
    BY <2>1, <2>2, TakeRefines
<1>3. ASSUME NEW p \in Polls, PollResume(p)
      PROVE  [Promise!PromiseNext]_<<caller, holder>>
  <2> DEFINE r == RuntimeFor(poll[p].name)
  <2>1. r \in Rts /\ poll[p].token \in Tokens /\ UNCHANGED caller
    BY <1>3, MarkSeenTypes DEF PollResume, TypeOK, WaitersWait, pollFrame
  <2>2. UNCHANGED holder \/ TakeQueued(r, poll[p].token) \/ NothingQueued(r)
    BY <1>3 DEF PollResume
  <2> QED
    BY <2>1, <2>2, TakeRefines
<1>4. ASSUME NEW j \in Jobs, NEW n \in Names, NEW aborted \in BOOLEAN,
             Dispatch(j, n, aborted)
      PROVE  [Promise!PromiseNext]_<<caller, holder>>
  <2>1. Promise!Accept(j)
    BY <1>4 DEF Dispatch, Promise!Accept
  <2> QED
    BY <2>1 DEF Promise!PromiseNext
<1>5. ASSUME NEW j \in Jobs, NEW t \in Tokens, NEW n \in Names,
             NEW kind \in ResultKinds, SubmitResult(t, n, j, kind)
      PROVE  [Promise!PromiseNext]_<<caller, holder>>
  <2>1. UNCHANGED holder
    BY <1>5 DEF SubmitResult
  <2>2. CASE UNCHANGED caller
    BY <2>1, <2>2
  <2>3. CASE ~ UNCHANGED caller
    <3>1. /\ j \in claimed /\ j \in pending /\ j \notin settled
          /\ caller' = [caller EXCEPT ![j] = "answered"]
      BY <1>5, <2>3 DEF SubmitResult, Accepts
    <3>2. caller[j] = "waiting" /\ holder[j] # None
      BY <3>1 DEF JobInv, JobBookkeeping
    <3>3. caller' = [x \in Jobs |-> IF x \in {j} THEN "answered" ELSE caller[x]]
      BY <3>1 DEF TypeOK, CallerTypes
    <3>4. Promise!Settle({j}, "answered")
      BY <2>1, <3>2, <3>3 DEF Promise!Settle
    <3> QED
      BY <3>4 DEF Promise!PromiseNext, Promise!Outcomes
  <2> QED
    BY <2>2, <2>3
<1>6. ASSUME NEW j \in Jobs, Abort(j)
      PROVE  [Promise!PromiseNext]_<<caller, holder>>
  BY <1>6, CancelRefines DEF Abort, cancelFrame
<1>7. ASSUME NEW j \in Jobs, Expire(j)
      PROVE  [Promise!PromiseNext]_<<caller, holder>>
  <2>1. home[j] # 0 /\ UNCHANGED holder
    BY <1>7 DEF Expire, cancelFrame, JobInv, JobBookkeeping
  <2> QED
    BY <1>7, <2>1, CancelRefines DEF Expire
<1>8. ASSUME NEW j \in Jobs, EndGrace(j) PROVE UNCHANGED <<caller, holder>>
  BY <1>8 DEF EndGrace, cancelFrame
<1>9. CASE Restart
  <2> DEFINE S == {j \in Jobs : caller[j] = "waiting"}
  <2>1. /\ caller' = [j \in Jobs |-> IF j \in S THEN "lost" ELSE caller[j]]
        /\ UNCHANGED holder
    BY <1>9 DEF Restart
  <2>2. Promise!Settle(S, "lost")
    BY <2>1 DEF Promise!Settle
  <2> QED
    BY <2>2 DEF Promise!PromiseNext, Promise!Outcomes
<1> QED
  BY <1>1, <1>2, <1>3, <1>4, <1>5, <1>6, <1>7, <1>8, <1>9, QuietSteps
  DEF Next, JobStep

\* The life cycle of every job is the one JobPromise promises: at most one
\* outcome, one hand-over at most and only while the caller waits, an answer
\* only after a hand-over, and no replay after a restart.
THEOREM PromiseKept == Spec => JobPromiseKept
<1>1. Init => Promise!PromiseInit
  BY DEF Init, Promise!PromiseInit
<1>2. Spec => [][Promise!PromiseNext]_<<caller, holder>>
  BY JobInvHolds, PromiseStep, TypeCorrect, PTL DEF Spec
<1> QED
  BY <1>1, <1>2, PTL
  DEF Spec, JobPromiseKept, Promise!PromiseSpec, Promise!promiseVars

-----------------------------------------------------------------------------
(* Expiry and invites *)

LEMMA ExpiryStep ==
  ASSUME ResultKinds = {"wellformed"}, TypeOK, JobInv, WaitingJobExpires, [Next]_vars
  PROVE  WaitingJobExpires'
<1>1. ASSUME NEW c \in Calls, RevokeDone(c) PROVE WaitingJobExpires'
  <2>1. DropPending({j \in pending : machine[j] = call[c].name})
    BY <1>1 DEF RevokeDone
  <2> QED
    BY <2>1 DEF DropPending, WaitingJobExpires
<1>2. ASSUME \/ \E p \in Polls, t \in Tokens, n \in Names : Poll(p, t, n)
             \/ \E p \in Polls : PollResume(p)
      PROVE  UNCHANGED <<caller, pending, settled, timer>>
  BY <1>2 DEF Poll, PollResume, pollFrame, pendingVars
<1>3. ASSUME NEW j \in Jobs, NEW n \in Names, NEW aborted \in BOOLEAN,
             Dispatch(j, n, aborted)
      PROVE  WaitingJobExpires'
  <2>1. j \notin settled
    BY <1>3 DEF Dispatch, JobInv, JobBookkeeping
  <2>2. CASE aborted
    BY <1>3, <2>2 DEF Dispatch, WaitingJobExpires, TypeOK, CallerTypes, PendingTypes
  <2>3. CASE ~aborted
    <3>1. /\ UNCHANGED settled
          /\ caller' = [caller EXCEPT ![j] = "waiting"]
          /\ pending' = pending \cup {j}
          /\ timer' = [timer EXCEPT ![j] = "expiry"]
      BY <1>3, <2>3 DEF Dispatch
    <3> QED
      BY <2>1, <3>1 DEF WaitingJobExpires, TypeOK, CallerTypes, PendingTypes
  <2> QED
    BY <2>2, <2>3
<1>4. ASSUME NEW j \in Jobs, NEW t \in Tokens, NEW n \in Names,
             NEW kind \in ResultKinds, SubmitResult(t, n, j, kind)
      PROVE  WaitingJobExpires'
  BY <1>4 DEF SubmitResult, Accepts, WaitingJobExpires, TypeOK, CallerTypes, PendingTypes
<1>5. ASSUME NEW j \in Jobs, Abort(j) \/ Expire(j) PROVE WaitingJobExpires'
  BY <1>5 DEF Abort, Expire, Cancel, Withdraw, WaitingJobExpires, TypeOK,
    CallerTypes, PendingTypes
<1>6. ASSUME NEW j \in Jobs, EndGrace(j) PROVE WaitingJobExpires'
  BY <1>6 DEF EndGrace, WaitingJobExpires, TypeOK, PendingTypes
<1>7. CASE Restart
  BY <1>7 DEF Restart, WaitingJobExpires
<1>8. UNCHANGED <<caller, pending, settled, timer>> => WaitingJobExpires'
  BY DEF WaitingJobExpires
<1> QED
  BY <1>1, <1>2, <1>3, <1>4, <1>5, <1>6, <1>7, <1>8, QuietSteps DEF Next, JobStep

\* As long as workers send well-formed results, a caller that waits has its
\* expiry timer armed and its pending object in the map: it will be settled.
THEOREM WaitingExpires ==
  ASSUME ResultKinds = {"wellformed"} PROVE Spec => []WaitingJobExpires
<1>1. Init => WaitingJobExpires
  BY DEF Init, WaitingJobExpires
<1>2. TypeOK /\ JobInv /\ WaitingJobExpires /\ [Next]_vars => WaitingJobExpires'
  BY ExpiryStep
<1> QED
  BY <1>1, <1>2, TypeCorrect, JobInvHolds, PTL DEF Spec

\* One invite enrols at most one worker, however many registrations redeem it
\* while another one awaits storage.
THEOREM InvitesUsedOnce == Spec => []InviteUsedOnce
<1>1. Init => EarnedIsSpent /\ InviteUsedOnce
  BY DEF Init, EarnedIsSpent, InviteUsedOnce
<1>2. TypeOK /\ EarnedIsSpent /\ InviteUsedOnce /\ [Next]_vars
        => EarnedIsSpent' /\ InviteUsedOnce'
  <2> SUFFICES ASSUME TypeOK, EarnedIsSpent, InviteUsedOnce, [Next]_vars
               PROVE  EarnedIsSpent' /\ InviteUsedOnce'
    OBVIOUS
  <2>1. ASSUME NEW c \in Calls, NEW i \in Invites, NEW n \in Names, NEW t \in Tokens,
               Register(c, i, n, t)
        PROVE  EarnedIsSpent' /\ InviteUsedOnce'
    BY <2>1 DEF Register, Redeem, EarnedIsSpent, InviteUsedOnce, TypeOK, InviteTypes
  <2>2. CASE UNCHANGED <<earned, used>> /\ \A i \in Invites :
               invite[i] = "spent" => invite'[i] = "spent"
    BY <2>2 DEF EarnedIsSpent, InviteUsedOnce, TypeOK, InviteTypes
  <2>3. ASSUME NEW i \in Invites, ExpireInvite(i) \/ \E n \in Names \cup {None} : CreateInvite(i, n)
        PROVE  UNCHANGED <<earned, used>> /\ \A k \in Invites :
                 invite[k] = "spent" => invite'[k] = "spent"
    BY <2>3 DEF ExpireInvite, CreateInvite, TypeOK, InviteTypes
  <2>4. CASE Restart
    BY <2>2, <2>4 DEF Restart
  <2>5. ASSUME NEW c \in Calls, StorageStep(c) PROVE UNCHANGED inviteVars
    BY <2>5 DEF StorageStep, RegisterPut, RegisterDone, ResumeUpdate, ResumeDone,
      RenamePut, RenameDelete, RenameUndo, RenameDone, RevokeDelete, RevokeDone,
      StorageFails, Commit, storageFrame
  <2>6. ASSUME NEW j \in Jobs, JobStep(j) PROVE UNCHANGED inviteVars
    BY <2>6 DEF JobStep, Dispatch, SubmitResult, Abort, Expire, EndGrace,
      cancelFrame, protocolFrame
  <2>7. ASSUME \/ \E c \in Calls, t \in Tokens, n \in Names : Resume(c, t, n)
               \/ \E c \in Calls, old, new \in Names : Rename(c, old, new)
               \/ \E c \in Calls, n \in Names : Revoke(c, n)
               \/ \E p \in Polls, t \in Tokens, n \in Names : Poll(p, t, n)
               \/ \E p \in Polls : PollTimeout(p) \/ PollResume(p)
               \/ \E t \in Tokens, n \in Names : Heartbeat(t, n)
               \/ \E r \in Rts : GoOffline(r)
               \/ UNCHANGED vars
        PROVE  UNCHANGED inviteVars
    BY <2>7 DEF Resume, Rename, Revoke, Poll, PollTimeout, PollResume, Heartbeat,
      GoOffline, storageFrame, protocolFrame, pollFrame, vars
  <2>8. UNCHANGED inviteVars => UNCHANGED <<earned, used, invite>>
    BY DEF inviteVars
  <2> QED
    BY <2>1, <2>2, <2>3, <2>4, <2>5, <2>6, <2>7, <2>8 DEF Next
<1> QED
  BY <1>1, <1>2, TypeCorrect, PTL DEF Spec
-----------------------------------------------------------------------------
(* Who is who, while registry calls keep apart *)

identity == <<table, tokens, used, revoked, up, call>>

LEMMA IdentityStutter == RegistryInv /\ UNCHANGED identity => RegistryInv'
BY DEF RegistryInv, identity, SettledNames, Untouched, CallFits, NobodyIs, OnlyIs,
  TokensDrawn, RevokedStaysOut

\* A token is one machine's, and a name has one token.
LEMMA OneToken ==
  ASSUME TypeOK, RegistryInv, up = "up", NEW s \in Tokens, NEW t \in Tokens,
         tokens[s] = tokens[t], tokens[s] # None
  PROVE  s = t
<1>1. tokens[s] \in Names
  BY DEF TypeOK, RegistryTypes
<1>2. CASE Untouched(tokens[s])
  BY <1>1, <1>2 DEF RegistryInv, SettledNames
<1>3. CASE ~ Untouched(tokens[s])
  <2>1. PICK c \in Calls : Writes(call[c]) /\ tokens[s] \in Concerned(call[c])
    BY <1>3 DEF Untouched
  <2>2. CallFits(call[c])
    BY DEF RegistryInv
  <2> QED
    BY <2>1, <2>2 DEF CallFits, Concerned, NobodyIs, OnlyIs
<1> QED
  BY <1>2, <1>3

\* A record stores the token of the machine that has its name, or of one that
\* is about to have it.
LEMMA StoredToken ==
  ASSUME TypeOK, RegistryInv, up = "up", NEW n \in Names, table[n] # None
  PROVE  \/ tokens[table[n]] = n
         \/ \E c \in Calls :
              /\ call[c].token = table[n]
              /\ \/ call[c].pc = "register_done" /\ call[c].name = n
                 \/ /\ call[c].pc \in {"rename_delete", "rename_undo", "rename_done"}
                    /\ call[c].new = n /\ tokens[table[n]] = call[c].name
<1>1. table[n] \in Tokens
  BY DEF TypeOK, RegistryTypes
<1>2. CASE Untouched(n)
  BY <1>1, <1>2 DEF RegistryInv, SettledNames
<1>3. CASE ~ Untouched(n)
  <2>1. PICK c \in Calls : Writes(call[c]) /\ n \in Concerned(call[c])
    BY <1>3 DEF Untouched
  <2>2. CallFits(call[c]) /\ call[c].pc \in CallSteps
    BY DEF RegistryInv, TypeOK, CallTypes
  <2> QED
    BY <1>1, <2>1, <2>2
    DEF CallFits, Concerned, OnlyIs, Writes, Enrolling, Renaming, CallSteps
<1> QED
  BY <1>2, <1>3

\* A step of call c that changes what table and tokens say of the names in K
\* alone leaves the other calls and names in order.
LEMMA IdentityFrame ==
  ASSUME TypeOK, TypeOK', RegistryInv, up = "up", NEW c \in Calls, NEW K \in SUBSET Names,
         \A d \in Calls \ {c} : call'[d] = call[d],
         \A d \in Calls \ {c} : Writes(call[d]) => Concerned(call[d]) \cap K = {},
         Writes(call[c]) => Concerned(call[c]) \subseteq K,
         \A n \in Names \ K : table'[n] = table[n],
         \A n \in Names \ K, t \in Tokens : tokens'[t] = n <=> tokens[t] = n,
         used \subseteq used',
         \A d \in Calls \ {c} : Enrolling(call[d]) =>
           tokens'[call[d].token] = None /\ call[d].token \notin revoked',
         CallFits(call[c])',
         \A n \in K : Untouched(n)' => \A t \in Tokens : tokens'[t] = n <=> table'[n] = t
  PROVE  SettledNames' /\ \A d \in Calls : CallFits(call[d])'
<1>1. ASSUME NEW d \in Calls PROVE CallFits(call[d])'
  <2>1. CASE d = c
    BY <2>1
  <2>2. CASE d # c /\ Writes(call[d])
    <3>1. call'[d] = call[d] /\ CallFits(call[d])
      BY <2>2 DEF RegistryInv
    <3>2. call[d].name \in Names \ K /\ (Renaming(call[d]) => call[d].new \in Names \ K)
      BY <2>2, <3>1, NoneAssumption DEF CallFits, Concerned
    <3> QED
      BY <2>2, <3>1, <3>2 DEF CallFits, NobodyIs, OnlyIs
  <2>3. CASE d # c /\ ~ Writes(call[d])
    BY <2>3 DEF CallFits
  <2> QED
    BY <2>1, <2>2, <2>3
<1>2. ASSUME NEW n \in Names, Untouched(n)', NEW t \in Tokens
      PROVE  tokens'[t] = n <=> table'[n] = t
  <2>1. CASE n \in K
    BY <1>2, <2>1
  <2>2. CASE n \notin K
    <3>1. Untouched(n)
      BY <1>2, <2>2 DEF Untouched
    <3> QED
      BY <2>2, <3>1 DEF RegistryInv, SettledNames
  <2> QED
    BY <2>1, <2>2
<1> QED
  BY <1>1, <1>2 DEF SettledNames

\* A call that begins finds the names it concerns concerned by no other.
LEMMA BeginsApart ==
  ASSUME CallsApart', NEW c \in Calls, ~ Writes(call[c]), Writes(call'[c]),
         \A d \in Calls \ {c} : call'[d] = call[d]
  PROVE  /\ \A d \in Calls \ {c} :
              Writes(call[d]) => Concerned(call[d]) \cap Concerned(call'[c]) = {}
         /\ \A n \in Concerned(call'[c]) : Untouched(n)
<1>1. \A d \in Calls \ {c} :
        Writes(call[d]) => Concerned(call[d]) \cap Concerned(call'[c]) = {}
  BY DEF CallsApart
<1> QED
  BY <1>1 DEF Untouched

\* What a beginning call leaves: it writes nothing yet.
LEMMA CallBegins ==
  ASSUME TypeOK, TypeOK', RegistryInv, CallsApart', NEW c \in Calls, up = "up",
         ~ Writes(call[c]), Writes(call'[c]),
         \A d \in Calls \ {c} : call'[d] = call[d],
         Concerned(call'[c]) \subseteq Names,
         UNCHANGED <<table, tokens, revoked, up>>, used \subseteq used', CallFits(call[c])',
         Enrolling(call'[c]) => call'[c].token \notin used
  PROVE  RegistryInv'
<1>1. \A d \in Calls \ {c} :
        Writes(call[d]) => Concerned(call[d]) \cap Concerned(call'[c]) = {}
  BY BeginsApart
<1>2. \A d \in Calls : CallFits(call[d])
  BY DEF RegistryInv
<1>3. \A d \in Calls \ {c} : Enrolling(call[d]) =>
        /\ tokens'[call[d].token] = None /\ call[d].token \notin revoked'
        /\ call[d].token \in used
  BY <1>2 DEF CallFits, Writes, Enrolling
<1>4. \A n \in Concerned(call'[c]) : ~ Untouched(n)'
  BY DEF Untouched
<1>5. SettledNames' /\ \A d \in Calls : CallFits(call[d])'
  BY <1>1, <1>3, <1>4, IdentityFrame
<1>6. TokensDrawn'
  <2>1. TokensDrawn
    BY DEF RegistryInv
  <2>2. ASSUME NEW d \in Calls, NEW e \in Calls, d # e,
               Enrolling(call'[d]), Enrolling(call'[e])
        PROVE  call'[d].token # call'[e].token
    BY <1>3, <2>1, <2>2 DEF TokensDrawn
  <2> QED
    BY <2>1, <2>2 DEF TokensDrawn
<1> QED
  BY <1>5, <1>6 DEF RegistryInv, RevokedStaysOut

LEMMA RegisterIdentity ==
  ASSUME TypeOK, TypeOK', RegistryInv, CallsApart', NEW c \in Calls, NEW i \in Invites,
         NEW n \in Names, NEW t \in Tokens, Register(c, i, n, t)
  PROVE  RegistryInv'
<1>1. /\ up = "up" /\ call[c].pc = "idle" /\ table[n] = None /\ t \notin used
      /\ used' = used \cup {t}
      /\ UNCHANGED <<table, tokens, revoked, up>>
  BY DEF Register, NextTask, registryVars, hostVars
<1>2. /\ call'[c] = [pc |-> "register_put", name |-> n, new |-> None,
                     token |-> t, rt |-> 0]
      /\ \A d \in Calls \ {c} : call'[d] = call[d]
  BY DEF Register, NoCall, TypeOK, CallTypes
<1>3. ~ Writes(call[c]) /\ Writes(call'[c]) /\ Concerned(call'[c]) = {n}
  BY <1>1, <1>2, NoneAssumption DEF Writes, Concerned
<1>4. Untouched(n)
  BY <1>2, <1>3, BeginsApart
<1>5. NobodyIs(n)
  BY <1>1, <1>4, NoneAssumption DEF RegistryInv, SettledNames, NobodyIs
<1>6. tokens[t] = None /\ t \notin revoked
  BY <1>1 DEF RegistryInv, TokensDrawn
<1>7. CallFits(call[c])'
  BY <1>1, <1>2, <1>5, <1>6 DEF CallFits, Enrolling, Renaming, NobodyIs
<1> QED
  BY <1>1, <1>2, <1>3, <1>7, CallBegins

LEMMA RenameIdentity ==
  ASSUME TypeOK, TypeOK', RegistryInv, CallsApart', NEW c \in Calls, NEW old \in Names,
         NEW new \in Names, Rename(c, old, new)
  PROVE  RegistryInv'
<1>1. /\ up = "up" /\ call[c].pc = "idle" /\ table[new] = None /\ table[old] # None
      /\ old # new
      /\ UNCHANGED <<table, tokens, used, revoked, up>>
  BY DEF Rename, NextTask, registryVars, hostVars, inviteVars
<1>2. /\ call'[c] = [pc |-> "rename_put", name |-> old, new |-> new,
                     token |-> table[old], rt |-> RuntimeFor(old)]
      /\ \A d \in Calls \ {c} : call'[d] = call[d]
  BY DEF Rename, TypeOK, CallTypes
<1>3. ~ Writes(call[c]) /\ Writes(call'[c]) /\ Concerned(call'[c]) = {old, new}
  BY <1>1, <1>2, NoneAssumption DEF Writes, Concerned
<1>4. Untouched(old) /\ Untouched(new)
  BY <1>2, <1>3, BeginsApart
<1>5. NobodyIs(new) /\ OnlyIs(old, table[old]) /\ table[old] \in used
  BY <1>1, <1>4, NoneAssumption
  DEF RegistryInv, SettledNames, TokensDrawn, NobodyIs, OnlyIs, TypeOK, RegistryTypes
<1>7. CallFits(call[c])'
  BY <1>1, <1>2, <1>5 DEF CallFits, Enrolling, Renaming, NobodyIs, OnlyIs
<1> QED
  BY <1>1, <1>2, <1>3, <1>7, CallBegins DEF Enrolling

LEMMA RevokeIdentity ==
  ASSUME TypeOK, TypeOK', RegistryInv, CallsApart', NEW c \in Calls, NEW n \in Names,
         Revoke(c, n)
  PROVE  RegistryInv'
<1>1. /\ up = "up" /\ call[c].pc = "idle" /\ table[n] # None
      /\ UNCHANGED <<table, tokens, used, revoked, up>>
  BY DEF Revoke, NextTask, registryVars, hostVars, inviteVars, storageFrame
<1>2. /\ call'[c] = [pc |-> "revoke_delete", name |-> n, new |-> None,
                     token |-> table[n], rt |-> 0]
      /\ \A d \in Calls \ {c} : call'[d] = call[d]
  BY DEF Revoke, NoCall, TypeOK, CallTypes
<1>3. ~ Writes(call[c]) /\ Writes(call'[c]) /\ Concerned(call'[c]) = {n}
  BY <1>1, <1>2, NoneAssumption DEF Writes, Concerned
<1>4. Untouched(n)
  BY <1>2, <1>3, BeginsApart
<1>5. OnlyIs(n, table[n]) /\ table[n] \in used
  BY <1>1, <1>4, NoneAssumption
  DEF RegistryInv, SettledNames, TokensDrawn, OnlyIs, TypeOK, RegistryTypes
<1>7. CallFits(call[c])'
  BY <1>1, <1>2, <1>5 DEF CallFits, Enrolling, Renaming, OnlyIs
<1> QED
  BY <1>1, <1>2, <1>3, <1>7, CallBegins DEF Enrolling

\* What a writing call does to the names it concerns and to its token alone.
LEMMA CallContinues ==
  ASSUME TypeOK, TypeOK', RegistryInv, CallsApart, NEW c \in Calls, up = "up",
         Writes(call[c]), Concerned(call[c]) \subseteq Names,
         \A d \in Calls \ {c} : call'[d] = call[d],
         Writes(call'[c]) => Concerned(call'[c]) = Concerned(call[c]),
         Enrolling(call'[c]) => Enrolling(call[c]) /\ call'[c].token = call[c].token,
         UNCHANGED <<used, up>>,
         \A n \in Names \ Concerned(call[c]) : table'[n] = table[n],
         \A n \in Concerned(call[c]) : table'[n] \in {None, table[n], call[c].token},
         \A t \in Tokens \ {call[c].token} :
           tokens'[t] = tokens[t] /\ (t \in revoked' => t \in revoked),
         tokens'[call[c].token] \in Concerned(call[c]) \cup {None},
         call[c].token \in revoked' =>
           tokens'[call[c].token] = None /\ \A n \in Names : table'[n] # call[c].token,
         CallFits(call[c])',
         Writes(call'[c]) \/ \A n \in Concerned(call[c]), t \in Tokens :
                               tokens'[t] = n <=> table'[n] = t
  PROVE  RegistryInv'
<1> DEFINE u == call[c].token
           K == Concerned(call[c])
<1>1. \A d \in Calls : CallFits(call[d])
  BY DEF RegistryInv
<1>2. /\ u \in used /\ u \in Tokens /\ tokens[u] \in K \cup {None}
      /\ u \notin revoked
      /\ ~ Enrolling(call[c]) => tokens[u] # None
  <2>1. call[c].name \in Names /\ u \in used /\ call[c].name # None
    BY <1>1, NoneAssumption DEF CallFits
  <2>2. u \in Tokens
    BY <2>1 DEF TypeOK, InviteTypes
  <2>3. IF Enrolling(call[c]) THEN tokens[u] = None /\ u \notin revoked
                              ELSE tokens[u] = call[c].name
    BY <1>1, <2>1, <2>2 DEF CallFits, OnlyIs
  <2> QED
    BY <2>1, <2>2, <2>3 DEF Concerned, RegistryInv, RevokedStaysOut
<1>3. \A d \in Calls \ {c} : Writes(call[d]) => Concerned(call[d]) \cap K = {}
  BY DEF CallsApart
<1>4. ASSUME NEW d \in Calls \ {c}, Enrolling(call[d])
      PROVE  /\ call[d].token # u
             /\ tokens'[call[d].token] = None /\ call[d].token \notin revoked'
  <2>1. /\ tokens[call[d].token] = None /\ call[d].token \notin revoked
        /\ call[d].token \in Tokens
    BY <1>1, <1>4 DEF CallFits, Writes, Enrolling, TypeOK, InviteTypes
  <2>2. call[d].token # u
    BY <1>2, <1>4, <2>1 DEF RegistryInv, TokensDrawn
  <2> QED
    BY <2>1, <2>2
<1>5. \A n \in Names \ K, t \in Tokens : tokens'[t] = n <=> tokens[t] = n
  BY <1>2, NoneAssumption
<1>6. \A n \in K : Untouched(n)' => \A t \in Tokens : tokens'[t] = n <=> table'[n] = t
  BY DEF Untouched
<1>7. SettledNames' /\ \A d \in Calls : CallFits(call[d])'
  <2> HIDE DEF K, u
  <2>1. K \in SUBSET Names /\ (Writes(call[c]) => Concerned(call[c]) \subseteq K)
    BY DEF K
  <2>2. \A n \in Names \ K : table'[n] = table[n]
    BY DEF K
  <2>3. \A d \in Calls \ {c} : Enrolling(call[d]) =>
          tokens'[call[d].token] = None /\ call[d].token \notin revoked'
    BY <1>4
  <2> QED
    BY <1>3, <1>5, <1>6, <2>1, <2>2, <2>3, IdentityFrame
<1>8. TokensDrawn'
  <2>1. TokensDrawn
    BY DEF RegistryInv
  <2>2. \A t \in Tokens : tokens'[t] # None => t \in used'
    BY <1>2, <2>1 DEF TokensDrawn
  <2>3. \A n \in Names : table'[n] # None => table'[n] \in used'
    BY <1>2, <2>1 DEF TokensDrawn
  <2>4. revoked' \subseteq used'
    BY <1>2, <2>1 DEF TokensDrawn, TypeOK, HostTypes
  <2>5. ASSUME NEW d \in Calls, NEW e \in Calls, d # e,
               Enrolling(call'[d]), Enrolling(call'[e])
        PROVE  call'[d].token # call'[e].token
    <3>1. Enrolling(call[d]) /\ call'[d].token = call[d].token
      BY <2>5
    <3>2. Enrolling(call[e]) /\ call'[e].token = call[e].token
      BY <2>5
    <3> QED
      BY <2>1, <2>5, <3>1, <3>2 DEF TokensDrawn
  <2> QED
    BY <2>2, <2>3, <2>4, <2>5 DEF TokensDrawn
<1>9. RevokedStaysOut'
  <2>1. ASSUME NEW t \in revoked' PROVE tokens'[t] = None /\ \A n \in Names : table'[n] # t
    <3>1. CASE t = u
      BY <2>1, <3>1
    <3>2. CASE t # u
      <4>1. t \in Tokens /\ t \in revoked
        BY <2>1, <3>2 DEF TypeOK, HostTypes
      <4>2. tokens[t] = None /\ \A n \in Names : table[n] # t
        BY <4>1 DEF RegistryInv, RevokedStaysOut
      <4> QED
        BY <3>2, <4>1, <4>2, NoneAssumption
    <3> QED
      BY <3>1, <3>2
  <2> QED
    BY <2>1 DEF RevokedStaysOut
<1> QED
  BY <1>7, <1>8, <1>9 DEF RegistryInv

\* Where a writing call stands, from the shape of its record.
LEMMA CallStands ==
  ASSUME TypeOK, RegistryInv, NEW c \in Calls, Writes(call[c])
  PROVE  /\ CallFits(call[c])
         /\ call[c].name \in Names /\ call[c].token \in Tokens \cap used
         /\ Concerned(call[c]) = IF Renaming(call[c]) THEN {call[c].name, call[c].new}
                                 ELSE {call[c].name}
         /\ Concerned(call[c]) \subseteq Names
<1>1. CallFits(call[c])
  BY DEF RegistryInv
<1>2. call[c].name \in Names /\ call[c].token \in used
  BY <1>1 DEF CallFits
<1>3. IF Renaming(call[c]) THEN call[c].new \in Names ELSE call[c].new = None
  BY <1>1 DEF CallFits
<1>4. call[c].token \in Tokens
  BY <1>2 DEF TypeOK, InviteTypes
<1> QED
  BY <1>1, <1>2, <1>3, <1>4, NoneAssumption DEF Concerned

\* The storage operations that take effect.
LEMMA CommitIdentity ==
  ASSUME TypeOK, TypeOK', RegistryInv, CallsApart, NEW c \in Calls,
         NEW pc, NEW next, NEW n, NEW v, Commit(c, pc, next, n, v),
         \/ pc = "register_put" /\ next = "register_done" /\ n = call[c].name /\ v = call[c].token
         \/ pc = "rename_put" /\ next = "rename_delete" /\ n = call[c].new /\ v = call[c].token
         \/ pc = "rename_delete" /\ next = "rename_done" /\ n = call[c].name /\ v = None
         \/ pc = "rename_undo" /\ next = "idle" /\ n = call[c].new /\ v = None
         \/ pc = "revoke_delete" /\ next = "revoke_done" /\ n = call[c].name /\ v = None
  PROVE  RegistryInv'
<1>1. call[c].pc = pc /\ Writes(call[c])
  BY DEF Commit, Writes
<1>2. /\ CallFits(call[c]) /\ call[c].token \in Tokens \cap used
      /\ Concerned(call[c]) \subseteq Names
      /\ n \in Concerned(call[c]) /\ n \in Names
  BY <1>1, CallStands DEF Renaming
<1>3. /\ up = "up"
      /\ \A d \in Calls \ {c} : call'[d] = call[d]
      /\ call'[c] = IF next = "idle" THEN NoCall ELSE [call[c] EXCEPT !.pc = next]
      /\ table'[n] = v /\ \A m \in Names \ {n} : table'[m] = table[m]
      /\ UNCHANGED <<tokens, used, revoked, up>>
  BY <1>2 DEF Commit, storageFrame, inviteVars, hostVars, TypeOK, CallTypes, RegistryTypes
<1>4. /\ call'[c].pc = next
      /\ next # "idle" => /\ call'[c].name = call[c].name /\ call'[c].new = call[c].new
                          /\ call'[c].token = call[c].token
  BY <1>3 DEF TypeOK, CallTypes, NoCall
<1>5. CallFits(call[c])'
  BY <1>1, <1>2, <1>3, <1>4, NoneAssumption
  DEF CallFits, Writes, Enrolling, Renaming, NobodyIs, OnlyIs
<1>6. Writes(call'[c]) => Concerned(call'[c]) = Concerned(call[c])
  BY <1>4 DEF Concerned, Writes
<1>7. Enrolling(call'[c]) => Enrolling(call[c]) /\ call'[c].token = call[c].token
  BY <1>1, <1>4 DEF Enrolling
<1>8. /\ call[c].token \notin revoked
      /\ tokens[call[c].token] \in Concerned(call[c]) \cup {None}
  BY <1>1, <1>2, NoneAssumption
  DEF CallFits, Enrolling, OnlyIs, Concerned, RegistryInv, RevokedStaysOut
<1>9. \A m \in Concerned(call[c]) : table'[m] \in {None, table[m], call[c].token}
  BY <1>2, <1>3
<1>10. Writes(call'[c]) \/ \A m \in Concerned(call[c]), t \in Tokens :
                             tokens'[t] = m <=> table'[m] = t
  <2>1. CASE next # "idle"
    BY <1>4, <2>1 DEF Writes
  <2>2. CASE next = "idle"
    BY <1>1, <1>2, <1>3, <2>2, NoneAssumption
    DEF CallFits, Writes, Enrolling, Renaming, NobodyIs, OnlyIs, Concerned
  <2> QED
    BY <2>1, <2>2
<1> QED
  BY <1>1, <1>2, <1>3, <1>5, <1>6, <1>7, <1>8, <1>9, <1>10, CallContinues

\* The steps of a call after its last storage operation.
LEMMA RegisterDoneIdentity ==
  ASSUME TypeOK, TypeOK', RegistryInv, CallsApart, NEW c \in Calls, RegisterDone(c)
  PROVE  RegistryInv'
<1> DEFINE n == call[c].name
           u == call[c].token
<1>1. Writes(call[c]) /\ Enrolling(call[c]) /\ ~ Renaming(call[c]) /\ call[c].pc = "register_done"
  BY DEF RegisterDone, Writes, Enrolling, Renaming
<1>2. /\ CallFits(call[c]) /\ n \in Names /\ u \in Tokens /\ Concerned(call[c]) = {n}
      /\ Concerned(call[c]) \subseteq Names
  BY <1>1, CallStands
<1>3. /\ up = "up" /\ call' = [call EXCEPT ![c] = NoCall]
      /\ tokens' = [tokens EXCEPT ![u] = n]
      /\ UNCHANGED <<table, used, revoked, up>>
  BY DEF RegisterDone, inviteVars, hostVars
<1>4. call'[c].pc = "idle" /\ ~ Writes(call'[c]) /\ \A d \in Calls \ {c} : call'[d] = call[d]
  BY <1>3 DEF TypeOK, CallTypes, NoCall, Writes
<1>5. tokens'[u] = n /\ \A t \in Tokens \ {u} : tokens'[t] = tokens[t]
  BY <1>2, <1>3 DEF TypeOK, RegistryTypes
<1>6. table[n] = u /\ NobodyIs(n) /\ u \notin revoked
  BY <1>1, <1>2 DEF CallFits
<1>7. \A t \in Tokens : tokens'[t] = n <=> table'[n] = t
  BY <1>3, <1>5, <1>6 DEF NobodyIs
<1>8. CallFits(call[c])' /\ (Enrolling(call'[c]) => FALSE)
  BY <1>4 DEF CallFits, Writes, Enrolling
<1>9. /\ \A m \in Names \ Concerned(call[c]) : table'[m] = table[m]
      /\ \A m \in Concerned(call[c]) : table'[m] \in {None, table[m], u}
      /\ \A t \in Tokens \ {u} : tokens'[t] = tokens[t] /\ (t \in revoked' => t \in revoked)
      /\ tokens'[u] \in Concerned(call[c]) \cup {None}
      /\ u \notin revoked'
      /\ \A m \in Concerned(call[c]), t \in Tokens : tokens'[t] = m <=> table'[m] = t
  BY <1>2, <1>3, <1>5, <1>6, <1>7
<1> QED
  BY <1>1, <1>2, <1>3, <1>4, <1>8, <1>9, CallContinues

LEMMA RenameDoneIdentity ==
  ASSUME TypeOK, TypeOK', RegistryInv, CallsApart, NEW c \in Calls, RenameDone(c)
  PROVE  RegistryInv'
<1> DEFINE n == call[c].name
           m == call[c].new
           u == call[c].token
<1>1. Writes(call[c]) /\ Renaming(call[c]) /\ ~ Enrolling(call[c]) /\ call[c].pc = "rename_done"
  BY DEF RenameDone, Writes, Renaming, Enrolling
<1>2. /\ CallFits(call[c]) /\ n \in Names /\ u \in Tokens /\ Concerned(call[c]) = {n, m}
      /\ Concerned(call[c]) \subseteq Names
  BY <1>1, CallStands
<1>3. /\ up = "up" /\ call' = [call EXCEPT ![c] = NoCall]
      /\ tokens' = [tokens EXCEPT ![u] = m]
      /\ UNCHANGED <<table, used, revoked, up>>
  BY DEF RenameDone, inviteVars, hostVars
<1>4. call'[c].pc = "idle" /\ ~ Writes(call'[c]) /\ \A d \in Calls \ {c} : call'[d] = call[d]
  BY <1>3 DEF TypeOK, CallTypes, NoCall, Writes
<1>5. tokens'[u] = m /\ \A t \in Tokens \ {u} : tokens'[t] = tokens[t]
  BY <1>2, <1>3 DEF TypeOK, RegistryTypes
<1>6. table[n] = None /\ table[m] = u /\ OnlyIs(n, u) /\ NobodyIs(m) /\ m # n /\ m \in Names
  BY <1>1, <1>2 DEF CallFits
<1>7. u \notin revoked
  BY <1>2, <1>6, NoneAssumption DEF OnlyIs, RegistryInv, RevokedStaysOut
<1>8. \A t \in Tokens : (tokens'[t] = n <=> table'[n] = t) /\ (tokens'[t] = m <=> table'[m] = t)
  BY <1>2, <1>3, <1>5, <1>6, NoneAssumption DEF NobodyIs, OnlyIs
<1>9. CallFits(call[c])' /\ (Enrolling(call'[c]) => FALSE)
  BY <1>4 DEF CallFits, Writes, Enrolling
<1>10. /\ \A x \in Names \ Concerned(call[c]) : table'[x] = table[x]
       /\ \A x \in Concerned(call[c]) : table'[x] \in {None, table[x], u}
       /\ \A t \in Tokens \ {u} : tokens'[t] = tokens[t] /\ (t \in revoked' => t \in revoked)
       /\ tokens'[u] \in Concerned(call[c]) \cup {None}
       /\ u \notin revoked'
       /\ \A x \in Concerned(call[c]), t \in Tokens : tokens'[t] = x <=> table'[x] = t
  BY <1>2, <1>3, <1>5, <1>7, <1>8
<1> QED
  BY <1>1, <1>2, <1>3, <1>4, <1>9, <1>10, CallContinues

LEMMA RevokeDoneIdentity ==
  ASSUME TypeOK, TypeOK', RegistryInv, CallsApart, NEW c \in Calls, RevokeDone(c)
  PROVE  RegistryInv'
<1> DEFINE n == call[c].name
           u == call[c].token
<1>1. /\ Writes(call[c]) /\ ~ Renaming(call[c]) /\ ~ Enrolling(call[c])
      /\ call[c].pc = "revoke_done"
  BY DEF RevokeDone, Writes, Renaming, Enrolling
<1>2. /\ CallFits(call[c]) /\ n \in Names /\ u \in Tokens /\ Concerned(call[c]) = {n}
      /\ Concerned(call[c]) \subseteq Names
  BY <1>1, CallStands
<1>3. /\ up = "up" /\ call' = [call EXCEPT ![c] = NoCall]
      /\ tokens' = [tokens EXCEPT ![u] = None]
      /\ revoked' = revoked \cup {u}
      /\ UNCHANGED <<table, used, up>>
  BY DEF RevokeDone, Forget, inviteVars
<1>4. call'[c].pc = "idle" /\ ~ Writes(call'[c]) /\ \A d \in Calls \ {c} : call'[d] = call[d]
  BY <1>3 DEF TypeOK, CallTypes, NoCall, Writes
<1>5. tokens'[u] = None /\ \A t \in Tokens \ {u} : tokens'[t] = tokens[t]
  BY <1>2, <1>3 DEF TypeOK, RegistryTypes
<1>6. table[n] = None /\ OnlyIs(n, u) /\ tokens[u] = n /\ n # None
  BY <1>1, <1>2, NoneAssumption DEF CallFits, OnlyIs
<1>7. ASSUME NEW m \in Names, table[m] = u PROVE FALSE
  <2>1. u # None /\ m # n
    BY <1>2, <1>6, <1>7, NoneAssumption
  <2>2. PICK d \in Calls :
          /\ call[d].token = u
          /\ \/ call[d].pc = "register_done" /\ call[d].name = m
             \/ /\ call[d].pc \in {"rename_delete", "rename_undo", "rename_done"}
                /\ call[d].new = m /\ tokens[u] = call[d].name
    BY <1>3, <1>6, <1>7, <2>1, StoredToken
  <2>3. CASE call[d].pc = "register_done"
    <3>1. Enrolling(call[d]) /\ Writes(call[d]) /\ CallFits(call[d])
      BY <2>3 DEF Enrolling, Writes, RegistryInv
    <3> QED
      BY <1>6, <2>2, <3>1 DEF CallFits
  <2>4. CASE call[d].pc # "register_done"
    <3>1. Writes(call[d]) /\ d # c /\ n \in Concerned(call[d])
      BY <1>1, <1>6, <2>2, <2>4 DEF Writes, Concerned
    <3> QED
      BY <1>1, <1>2, <3>1 DEF CallsApart
  <2> QED
    BY <2>3, <2>4
<1>8. \A t \in Tokens : tokens'[t] = n <=> table'[n] = t
  BY <1>2, <1>3, <1>5, <1>6, NoneAssumption DEF OnlyIs
<1>9. CallFits(call[c])' /\ (Enrolling(call'[c]) => FALSE)
  BY <1>4 DEF CallFits, Writes, Enrolling
<1>10. /\ \A x \in Names \ Concerned(call[c]) : table'[x] = table[x]
       /\ \A x \in Concerned(call[c]) : table'[x] \in {None, table[x], u}
       /\ \A t \in Tokens \ {u} : tokens'[t] = tokens[t] /\ (t \in revoked' => t \in revoked)
       /\ tokens'[u] \in Concerned(call[c]) \cup {None}
       /\ tokens'[u] = None /\ \A m \in Names : table'[m] # u
       /\ \A x \in Concerned(call[c]), t \in Tokens : tokens'[t] = x <=> table'[x] = t
  BY <1>2, <1>3, <1>5, <1>7, <1>8
<1> QED
  BY <1>1, <1>2, <1>3, <1>4, <1>9, <1>10, CallContinues

\* A storage operation fails, but not the one that undoes a rename.
LEMMA FailsIdentity ==
  ASSUME TypeOK, TypeOK', RegistryInv, CallsApart, NEW c \in Calls, StorageFails(c),
         call[c].pc # "rename_undo"
  PROVE  RegistryInv'
<1>1. /\ up = "up" /\ UNCHANGED <<table, tokens, used, revoked, up>>
      /\ \A d \in Calls \ {c} : call'[d] = call[d]
      /\ call'[c] = IF call[c].pc = "rename_delete"
                    THEN [call[c] EXCEPT !.pc = "rename_undo"] ELSE NoCall
  BY DEF StorageFails, registryVars, inviteVars, TypeOK, CallTypes
<1>2. CASE call[c].pc = "resume_update"
  <2>1. /\ ~ Writes(call[c]) /\ ~ Writes(call'[c])
        /\ \A d \in Calls : Enrolling(call'[d]) => Enrolling(call[d]) /\ call'[d] = call[d]
        /\ \A d \in Calls : Writes(call'[d]) <=> Writes(call[d])
        /\ \A d \in Calls : Writes(call[d]) => call'[d] = call[d]
    BY <1>1, <1>2 DEF Writes, NoCall, Enrolling
  <2> QED
    BY <1>1, <2>1 DEF RegistryInv, SettledNames, Untouched, CallFits, NobodyIs, OnlyIs,
      TokensDrawn, RevokedStaysOut
<1>3. CASE call[c].pc # "resume_update"
  <2>1. Writes(call[c])
    BY <1>3 DEF StorageFails, Writes
  <2>2. /\ CallFits(call[c]) /\ call[c].token \in Tokens
        /\ Concerned(call[c]) \subseteq Names
        /\ Concerned(call[c]) = IF Renaming(call[c]) THEN {call[c].name, call[c].new}
                                ELSE {call[c].name}
    BY <2>1, CallStands
  <2>3. call[c].token \notin revoked /\ tokens[call[c].token] \in Concerned(call[c]) \cup {None}
    BY <2>1, <2>2, NoneAssumption
    DEF CallFits, Enrolling, OnlyIs, Concerned, RegistryInv, RevokedStaysOut
  <2>4. CASE call[c].pc = "rename_delete"
    <3>1. /\ call'[c].pc = "rename_undo" /\ call'[c].name = call[c].name
          /\ call'[c].new = call[c].new /\ call'[c].token = call[c].token
      BY <1>1, <2>4 DEF TypeOK, CallTypes
    <3>2. CallFits(call[c])' /\ Writes(call'[c]) /\ ~ Enrolling(call'[c])
          /\ Concerned(call'[c]) = Concerned(call[c])
      BY <1>1, <2>1, <2>2, <2>4, <3>1
      DEF CallFits, Writes, Enrolling, Renaming, NobodyIs, OnlyIs, Concerned
    <3> QED
      BY <1>1, <2>1, <2>2, <2>3, <3>2, CallContinues
  <2>5. CASE call[c].pc # "rename_delete"
    <3>1. call'[c].pc = "idle" /\ ~ Writes(call'[c]) /\ ~ Enrolling(call'[c])
      BY <1>1, <2>5 DEF NoCall, Writes, Enrolling
    <3>2. CallFits(call[c])'
      BY <3>1 DEF CallFits
    <3>3. call[c].pc \in {"register_put", "rename_put", "revoke_delete"}
      BY <1>3, <2>5 DEF StorageFails
    <3>4. \A n \in Concerned(call[c]), t \in Tokens : tokens'[t] = n <=> table'[n] = t
      BY <1>1, <2>1, <2>2, <3>3, NoneAssumption
      DEF CallFits, Enrolling, Renaming, NobodyIs, OnlyIs
    <3> QED
      BY <1>1, <2>1, <2>2, <2>3, <3>1, <3>2, <3>4, CallContinues
  <2> QED
    BY <2>4, <2>5
<1> QED
  BY <1>2, <1>3

\* The steps of a resume write nothing.
LEMMA ResumeIdentity ==
  ASSUME TypeOK, RegistryInv, NEW c \in Calls,
         \/ \E t \in Tokens, n \in Names : Resume(c, t, n)
         \/ ResumeUpdate(c)
         \/ ResumeDone(c)
  PROVE  RegistryInv'
<1>1. /\ up = "up" /\ UNCHANGED <<table, tokens, used, revoked, up>>
      /\ \A d \in Calls \ {c} : call'[d] = call[d]
      /\ ~ Writes(call[c])
  BY DEF Resume, ResumeUpdate, ResumeDone, NextTask, registryVars, inviteVars, hostVars,
    storageFrame, TypeOK, CallTypes, Writes
<1>2. ~ Writes(call'[c])
  <2>1. CASE \E t \in Tokens, n \in Names : Resume(c, t, n)
    BY <2>1 DEF Resume, NoCall, Writes, TypeOK, CallTypes
  <2>2. CASE ResumeUpdate(c) \/ ResumeDone(c)
    BY <2>2 DEF ResumeUpdate, ResumeDone, NoCall, Writes, TypeOK, CallTypes
  <2> QED
    BY <2>1, <2>2
<1>3. /\ \A d \in Calls : Writes(call'[d]) <=> Writes(call[d])
      /\ \A d \in Calls : Writes(call[d]) => call'[d] = call[d]
      /\ \A d \in Calls : Enrolling(call[d]) => Writes(call[d])
      /\ \A d \in Calls : Enrolling(call'[d]) => Writes(call'[d])
  BY <1>1, <1>2 DEF Writes, Enrolling
<1> QED
  BY <1>1, <1>3 DEF RegistryInv, SettledNames, Untouched, CallFits, NobodyIs, OnlyIs,
    TokensDrawn, RevokedStaysOut

\* A restart rebuilds the tokens map from the table.
LEMMA RestartIdentity ==
  ASSUME TypeOK, TypeOK', RegistryInv, Restart
  PROVE  RegistryInv'
<1>1. /\ UNCHANGED <<table, used, revoked>>
      /\ \A c \in Calls : call'[c].pc = "idle"
  BY DEF Restart, NoCall
<1>2. \A t \in Tokens, n \in Names : tokens'[t] = n => table[n] = t
  BY NoneAssumption DEF Restart, LoadWorkers, Loads
<1>3. up' = "up" => \A t \in Tokens, n \in Names : tokens'[t] = n <=> table'[n] = t
  BY <1>1 DEF Restart, LoadWorkers, Loads
<1>4. \A c \in Calls : ~ Writes(call'[c]) /\ ~ Enrolling(call'[c])
  BY <1>1 DEF Writes, Enrolling
<1>5. \A t \in Tokens : tokens'[t] # None => tokens'[t] \in Names
  BY DEF TypeOK, RegistryTypes
<1>6. TokensDrawn'
  BY <1>1, <1>2, <1>4, <1>5, NoneAssumption DEF TokensDrawn, RegistryInv
<1>7. RevokedStaysOut'
  BY <1>1, <1>2, <1>5 DEF RevokedStaysOut, RegistryInv, TypeOK, HostTypes
<1> QED
  BY <1>1, <1>3, <1>4, <1>6, <1>7 DEF RegistryInv, SettledNames, CallFits

\* The steps that concern no registry call, record or token.
LEMMA IdentityQuiet ==
  ASSUME \/ \E i \in Invites, n \in Names \cup {None} : CreateInvite(i, n)
         \/ \E i \in Invites : ExpireInvite(i)
         \/ \E p \in Polls, t \in Tokens, n \in Names : Poll(p, t, n)
         \/ \E p \in Polls : PollTimeout(p) \/ PollResume(p)
         \/ \E t \in Tokens, n \in Names : Heartbeat(t, n)
         \/ \E r \in Rts : GoOffline(r)
         \/ \E j \in Jobs : JobStep(j)
         \/ UNCHANGED vars
  PROVE  UNCHANGED identity
<1>1. CASE \E j \in Jobs : JobStep(j)
  BY <1>1 DEF JobStep, Dispatch, SubmitResult, Abort, Expire, EndGrace, cancelFrame,
    protocolFrame, registryVars, inviteVars, hostVars, identity
<1>2. CASE ~ \E j \in Jobs : JobStep(j)
  BY <1>2 DEF CreateInvite, ExpireInvite, Poll, PollTimeout, PollResume, Heartbeat,
    GoOffline, pollFrame, protocolFrame, registryVars, inviteVars, hostVars, vars, identity
<1> QED
  BY <1>1, <1>2

LEMMA RegistryStep ==
  ASSUME TypeOK, TypeOK', RegistryInv, CallsApart, CallsApart', [Next]_vars,
         [UndoSucceeds]_vars
  PROVE  RegistryInv'
<1>1. ASSUME NEW c \in Calls, StorageStep(c) PROVE RegistryInv'
  <2>1. CASE RegisterPut(c)
    BY <2>1, CommitIdentity DEF RegisterPut
  <2>2. CASE RenamePut(c)
    BY <2>2, CommitIdentity DEF RenamePut
  <2>3. CASE RenameDelete(c)
    BY <2>3, CommitIdentity DEF RenameDelete
  <2>4. CASE RenameUndo(c)
    BY <2>4, CommitIdentity DEF RenameUndo
  <2>5. CASE RevokeDelete(c)
    BY <2>5, CommitIdentity DEF RevokeDelete
  <2>6. CASE StorageFails(c)
    <3>1. faults' # faults
      BY <2>6 DEF StorageFails, TypeOK, HostTypes
    <3>2. call[c].pc # "rename_undo"
      BY <2>6, <3>1 DEF UndoSucceeds, vars, hostVars
    <3> QED
      BY <2>6, <3>2, FailsIdentity
  <2>7. CASE RegisterDone(c) \/ RenameDone(c) \/ RevokeDone(c)
    BY <2>7, RegisterDoneIdentity, RenameDoneIdentity, RevokeDoneIdentity
  <2>8. CASE ResumeUpdate(c) \/ ResumeDone(c)
    BY <2>8, ResumeIdentity
  <2> QED
    BY <1>1, <2>1, <2>2, <2>3, <2>4, <2>5, <2>6, <2>7, <2>8 DEF StorageStep
<1>2. CASE UNCHANGED identity
  BY <1>2, IdentityStutter
<1> QED
  BY <1>1, <1>2, IdentityQuiet, RegisterIdentity, RenameIdentity, RevokeIdentity,
    ResumeIdentity, RestartIdentity DEF Next

LEMMA RegistryInitial == Init => RegistryInv
<1> SUFFICES ASSUME Init PROVE RegistryInv
  OBVIOUS
<1>1. \A c \in Calls : ~ Writes(call[c]) /\ ~ Enrolling(call[c])
  BY DEF Init, NoCall, Writes, Enrolling
<1>2. Loads(table, tokens) /\ used = {t \in Tokens : tokens[t] # None}
      /\ revoked = {} /\ up = "up" /\ table \in [Names -> Tokens \cup {None}]
  BY DEF Init
<1> QED
  BY <1>1, <1>2, NoneAssumption
  DEF RegistryInv, SettledNames, CallFits, TokensDrawn, RevokedStaysOut, Loads

\* As long as registry calls that overlap concern different machines, and a
\* rename that has to be undone can be undone: the tokens map is, between
\* calls, what a restart would build from the table, after a failed storage
\* operation too, and a revoked token is never accepted or stored again.
THEOREM IdentitiesHold ==
  Spec /\ []CallsApart /\ [][UndoSucceeds]_vars => [](IdentityAgreement /\ RevokedStaysOut)
<1>1. TypeOK /\ TypeOK' /\ RegistryInv /\ CallsApart /\ CallsApart' /\ [Next]_vars
        /\ [UndoSucceeds]_vars => RegistryInv'
  BY RegistryStep
<1>2. RegistryInv => IdentityAgreement /\ RevokedStaysOut
  <2>1. ASSUME RegistryInv, Quiescent PROVE Loads(table, tokens)
    BY <2>1 DEF RegistryInv, Quiescent, SettledNames, Untouched, Writes, Loads
  <2> QED
    BY <2>1 DEF RegistryInv, IdentityAgreement
<1>3. Spec /\ []CallsApart /\ [][UndoSucceeds]_vars => []RegistryInv
  BY <1>1, RegistryInitial, TypeCorrect, PTL DEF Spec
<1> QED
  BY <1>2, <1>3, PTL

-----------------------------------------------------------------------------
(* Whose results are believed *)

answers == <<tokens, call, pending, machine, target, answerer, caller>>

LEMMA AnswerStutter == AnswerInv /\ UNCHANGED answers => AnswerInv'
BY DEF AnswerInv, Belongs, answers

\* A step of call c that moves no token leaves every job where it belongs,
\* unless it takes back what a job was dispatched to.
LEMMA BelongsStays ==
  ASSUME AnswerInv, NEW c \in Calls, \A d \in Calls \ {c} : call'[d] = call[d],
         UNCHANGED <<tokens, pending, machine, target, answerer, caller>>,
         call[c].pc # "register_done",
         call[c].pc \in {"rename_delete", "rename_done"} =>
           /\ call'[c].pc \in {"rename_delete", "rename_done"}
           /\ call'[c].new = call[c].new /\ call'[c].token = call[c].token
  PROVE  AnswerInv'
<1>1. ASSUME NEW j \in pending, Belongs(j) PROVE Belongs(j)'
  <2>1. CASE tokens[target[j]] = machine[j]
    BY <2>1 DEF Belongs
  <2>2. CASE tokens[target[j]] # machine[j]
    <3>1. PICK d \in Calls :
            /\ call[d].token = target[j]
            /\ \/ call[d].pc \in {"rename_delete", "rename_done"} /\ call[d].new = machine[j]
               \/ call[d].pc = "register_done" /\ call[d].name = machine[j]
      BY <1>1, <2>2 DEF Belongs
    <3>2. /\ call'[d].token = target'[j]
          /\ \/ call'[d].pc \in {"rename_delete", "rename_done"} /\ call'[d].new = machine'[j]
             \/ call'[d].pc = "register_done" /\ call'[d].name = machine'[j]
      BY <3>1
    <3> QED
      BY <3>2 DEF Belongs
  <2> QED
    BY <2>1, <2>2
<1> QED
  BY <1>1 DEF AnswerInv

\* register ends: its token gets its name.
LEMMA RegisterDoneAnswers ==
  ASSUME TypeOK, RegistryInv, AnswerInv, NEW c \in Calls, RegisterDone(c)
  PROVE  AnswerInv'
<1> DEFINE u == call[c].token
<1>1. /\ CallFits(call[c]) /\ u \in Tokens /\ tokens[u] = None
      /\ call[c].pc = "register_done"
  <2>1. Writes(call[c]) /\ Enrolling(call[c]) /\ call[c].pc = "register_done"
    BY DEF RegisterDone, Writes, Enrolling
  <2> QED
    BY <2>1, CallStands DEF CallFits
<1>2. /\ \A d \in Calls \ {c} : call'[d] = call[d]
      /\ tokens'[u] = call[c].name /\ \A t \in Tokens \ {u} : tokens'[t] = tokens[t]
      /\ UNCHANGED <<pending, machine, target, answerer, caller>>
  BY <1>1 DEF RegisterDone, jobVars, pendingVars, TypeOK, CallTypes, RegistryTypes
<1>3. ASSUME NEW j \in pending PROVE Belongs(j)'
  <2>1. target[j] \in Tokens /\ machine[j] \in Names /\ Belongs(j)
    BY DEF AnswerInv
  <2>2. CASE tokens[target[j]] = machine[j]
    BY <1>1, <1>2, <2>1, <2>2, NoneAssumption DEF Belongs
  <2>3. CASE tokens[target[j]] # machine[j]
    <3>1. PICK d \in Calls :
            /\ call[d].token = target[j]
            /\ \/ call[d].pc \in {"rename_delete", "rename_done"} /\ call[d].new = machine[j]
               \/ call[d].pc = "register_done" /\ call[d].name = machine[j]
      BY <2>1, <2>3 DEF Belongs
    <3>2. CASE d = c
      BY <1>1, <1>2, <3>1, <3>2 DEF Belongs
    <3>3. CASE d # c
      BY <1>2, <3>1, <3>3 DEF Belongs
    <3> QED
      BY <3>2, <3>3
  <2> QED
    BY <2>2, <2>3
<1> QED
  BY <1>2, <1>3 DEF AnswerInv

\* rename ends: its token and the pending jobs get the new name.
LEMMA RenameDoneAnswers ==
  ASSUME TypeOK, RegistryInv, CallsApart, AnswerInv, NEW c \in Calls, RenameDone(c)
  PROVE  AnswerInv'
<1> DEFINE n == call[c].name
           m == call[c].new
           u == call[c].token
<1>1. Writes(call[c]) /\ Renaming(call[c]) /\ ~ Enrolling(call[c]) /\ call[c].pc = "rename_done"
  BY DEF RenameDone, Writes, Renaming, Enrolling
<1>2. /\ CallFits(call[c]) /\ u \in Tokens /\ n \in Names
      /\ Concerned(call[c]) = {n, m}
  BY <1>1, CallStands
<1>3. /\ \A d \in Calls \ {c} : call'[d] = call[d]
      /\ tokens'[u] = m /\ \A t \in Tokens \ {u} : tokens'[t] = tokens[t]
      /\ \A j \in pending : machine'[j] = IF machine[j] = n THEN m ELSE machine[j]
      /\ UNCHANGED <<pending, target, answerer, caller>>
  BY <1>2
  DEF RenameDone, Readdress, TypeOK, CallTypes, RegistryTypes, PendingTypes
<1>4. OnlyIs(n, u) /\ m \in Names /\ m # n
  BY <1>1, <1>2 DEF CallFits
<1>5. ASSUME NEW j \in pending PROVE machine'[j] \in Names /\ Belongs(j)'
  <2>1. target[j] \in Tokens /\ machine[j] \in Names /\ Belongs(j)
    BY DEF AnswerInv
  <2>2. CASE tokens[target[j]] = machine[j]
    <3>1. CASE machine[j] = n
      BY <1>3, <1>4, <2>1, <2>2, <3>1 DEF Belongs, OnlyIs
    <3>2. CASE machine[j] # n
      BY <1>2, <1>3, <1>4, <2>1, <2>2, <3>2 DEF Belongs, OnlyIs
    <3> QED
      BY <3>1, <3>2
  <2>3. CASE tokens[target[j]] # machine[j]
    <3>1. PICK d \in Calls :
            /\ call[d].token = target[j]
            /\ \/ call[d].pc \in {"rename_delete", "rename_done"} /\ call[d].new = machine[j]
               \/ call[d].pc = "register_done" /\ call[d].name = machine[j]
      BY <2>1, <2>3 DEF Belongs
    <3>2. CASE d = c
      BY <1>1, <1>3, <1>4, <2>1, <3>1, <3>2 DEF Belongs
    <3>3. CASE d # c
      <4>1. Writes(call[d]) /\ machine[j] \in Concerned(call[d])
        BY <2>1, <3>1, NoneAssumption DEF Writes, Concerned
      <4>2. machine[j] # n
        BY <1>1, <1>2, <3>3, <4>1 DEF CallsApart
      <4> QED
        BY <1>3, <2>1, <3>1, <3>3, <4>2 DEF Belongs
    <3> QED
      BY <3>2, <3>3
  <2> QED
    BY <2>2, <2>3
<1> QED
  BY <1>3, <1>5 DEF AnswerInv

\* revoke ends: its token goes, and with it the jobs of its name.
LEMMA RevokeDoneAnswers ==
  ASSUME TypeOK, RegistryInv, CallsApart, AnswerInv, NEW c \in Calls, RevokeDone(c)
  PROVE  AnswerInv'
<1> DEFINE n == call[c].name
           u == call[c].token
<1>1. Writes(call[c]) /\ ~ Enrolling(call[c]) /\ call[c].pc = "revoke_done"
  BY DEF RevokeDone, Writes, Enrolling
<1>2. CallFits(call[c]) /\ u \in Tokens /\ OnlyIs(n, u)
  BY <1>1, CallStands DEF CallFits
<1>3. /\ \A d \in Calls \ {c} : call'[d] = call[d]
      /\ \A t \in Tokens \ {u} : tokens'[t] = tokens[t]
      /\ pending' = {j \in pending : machine[j] # n}
      /\ \A j \in Jobs : caller[j] # "none" => caller'[j] # "none"
      /\ UNCHANGED <<machine, target, answerer>>
  BY <1>2
  DEF RevokeDone, Forget, DropPending, TypeOK, CallTypes, RegistryTypes, PendingTypes
<1>4. ASSUME NEW j \in pending' PROVE Belongs(j)'
  <2>1. target[j] \in Tokens /\ machine[j] \in Names /\ Belongs(j) /\ machine[j] # n
    BY <1>3 DEF AnswerInv
  <2>2. CASE tokens[target[j]] = machine[j]
    BY <1>2, <1>3, <2>1, <2>2 DEF Belongs, OnlyIs
  <2>3. CASE tokens[target[j]] # machine[j]
    <3>1. PICK d \in Calls :
            /\ call[d].token = target[j]
            /\ \/ call[d].pc \in {"rename_delete", "rename_done"} /\ call[d].new = machine[j]
               \/ call[d].pc = "register_done" /\ call[d].name = machine[j]
      BY <2>1, <2>3 DEF Belongs
    <3>2. d # c
      BY <1>1, <3>1
    <3> QED
      BY <1>3, <3>1, <3>2 DEF Belongs
  <2> QED
    BY <2>2, <2>3
<1> QED
  BY <1>3, <1>4 DEF AnswerInv

\* dispatch: the job's target is the token stored under the name it is for.
LEMMA DispatchAnswers ==
  ASSUME TypeOK, RegistryInv, NothingUndone, AnswerInv, NEW j \in Jobs, NEW n \in Names,
         NEW aborted \in BOOLEAN, Dispatch(j, n, aborted)
  PROVE  AnswerInv'
<1>1. /\ up = "up" /\ table[n] # None /\ caller[j] = "none"
      /\ machine' = [machine EXCEPT ![j] = n]
      /\ target' = [target EXCEPT ![j] = table[n]]
      /\ pending' \subseteq pending \cup {j}
      /\ \A x \in Jobs \ {j} : caller'[x] = caller[x]
      /\ UNCHANGED <<tokens, call, answerer>>
  BY DEF Dispatch, NextTask, protocolFrame, registryVars, TypeOK, CallerTypes
<1>2. table[n] \in Tokens
  BY <1>1 DEF TypeOK, RegistryTypes
<1>3. machine'[j] = n /\ target'[j] = table[n]
  BY <1>1 DEF TypeOK, PendingTypes, CallerTypes
<1>4. Belongs(j)'
  BY <1>1, <1>3, StoredToken DEF Belongs, NothingUndone
<1>5. \A x \in Jobs \ {j} : machine'[x] = machine[x] /\ target'[x] = target[x]
  BY <1>1 DEF TypeOK, PendingTypes, CallerTypes
<1>6. ASSUME NEW x \in pending' PROVE target'[x] \in Tokens /\ machine'[x] \in Names /\ Belongs(x)'
  <2>1. CASE x = j
    BY <1>2, <1>3, <1>4, <2>1
  <2>2. CASE x # j
    <3>1. x \in pending /\ x \in Jobs \ {j}
      BY <1>1, <2>2 DEF TypeOK, PendingTypes
    <3> QED
      BY <1>1, <1>5, <3>1 DEF AnswerInv, Belongs
  <2> QED
    BY <2>1, <2>2
<1>7. answerer[j] = None
  BY <1>1 DEF AnswerInv
<1> QED
  BY <1>1, <1>5, <1>6, <1>7 DEF AnswerInv

\* Who has the name of a pending job is the one it was dispatched to.
LEMMA RightMachine ==
  ASSUME TypeOK, RegistryInv, AnswerInv, up = "up", NEW j \in pending, NEW t \in Tokens,
         tokens[t] = machine[j]
  PROVE  target[j] = t
<1>1. target[j] \in Tokens /\ machine[j] \in Names /\ machine[j] # None /\ Belongs(j)
  BY NoneAssumption DEF AnswerInv
<1>2. CASE tokens[target[j]] = machine[j]
  BY <1>1, <1>2, OneToken
<1>3. CASE tokens[target[j]] # machine[j]
  <2>1. PICK d \in Calls :
          \/ call[d].pc \in {"rename_delete", "rename_done"} /\ call[d].new = machine[j]
          \/ call[d].pc = "register_done" /\ call[d].name = machine[j]
    BY <1>1, <1>3 DEF Belongs
  <2>2. CallFits(call[d])
    BY DEF RegistryInv
  <2> QED
    BY <2>1, <2>2 DEF CallFits, Writes, Renaming, Enrolling, NobodyIs
<1> QED
  BY <1>2, <1>3

\* submitResult: the result comes from the machine that has the job's name.
LEMMA SubmitAnswers ==
  ASSUME TypeOK, RegistryInv, AnswerInv, NEW j \in Jobs, NEW t \in Tokens,
         NEW n \in Names, NEW kind \in ResultKinds, SubmitResult(t, n, j, kind)
  PROVE  AnswerInv'
<1>1. /\ up = "up" /\ tokens[t] = n
      /\ UNCHANGED <<tokens, call, machine, target>>
  BY DEF SubmitResult, NextTask, WorkerForToken, protocolFrame, registryVars
<1>2. CASE j \in pending /\ Assigned(j, n)
  <2>1. target[j] = t
    BY <1>1, <1>2, RightMachine DEF Assigned
  <2>2. /\ pending' = pending \ {j}
        /\ \/ UNCHANGED <<caller, answerer>>
           \/ /\ caller' = [caller EXCEPT ![j] = "answered"]
              /\ answerer' = [answerer EXCEPT ![j] = t]
    BY <1>2 DEF SubmitResult
  <2>3. \A x \in Jobs : answerer'[x] # None => answerer'[x] = target'[x] /\ caller'[x] # "none"
    BY <1>1, <2>1, <2>2 DEF AnswerInv, TypeOK, CallerTypes
  <2> QED
    BY <1>1, <2>2, <2>3 DEF AnswerInv, Belongs
<1>3. CASE ~ (j \in pending /\ Assigned(j, n))
  BY <1>1, <1>3 DEF SubmitResult, AnswerInv, Belongs
<1> QED
  BY <1>2, <1>3

LEMMA AnswerStep ==
  ASSUME TypeOK, TypeOK', RegistryInv, CallsApart, NothingUndone, NothingUndone',
         AnswerInv, [Next]_vars
  PROVE  AnswerInv'
<1>1. ASSUME NEW c \in Calls, StorageStep(c) PROVE AnswerInv'
  <2>1. CASE RegisterDone(c) \/ RenameDone(c) \/ RevokeDone(c)
    BY <2>1, RegisterDoneAnswers, RenameDoneAnswers, RevokeDoneAnswers
  <2>2. CASE RegisterPut(c) \/ RenamePut(c) \/ RenameDelete(c) \/ RenameUndo(c)
               \/ RevokeDelete(c) \/ StorageFails(c) \/ ResumeUpdate(c) \/ ResumeDone(c)
    <3>1. /\ \A d \in Calls \ {c} : call'[d] = call[d]
          /\ UNCHANGED <<tokens, pending, machine, target, answerer, caller>>
          /\ call[c].pc # "register_done"
      BY <2>2 DEF RegisterPut, RenamePut, RenameDelete, RenameUndo, RevokeDelete,
        StorageFails, ResumeUpdate, ResumeDone, Commit, storageFrame, jobVars, pendingVars,
        registryVars, TypeOK, CallTypes
    <3>2. ASSUME call[c].pc \in {"rename_delete", "rename_done"}
          PROVE  /\ call'[c].pc \in {"rename_delete", "rename_done"}
                 /\ call'[c].new = call[c].new /\ call'[c].token = call[c].token
      <4>1. CASE RenameDelete(c)
        BY <4>1 DEF RenameDelete, Commit, TypeOK, CallTypes
      <4>2. CASE StorageFails(c)
        BY <3>2, <4>2 DEF StorageFails, NothingUndone, TypeOK, CallTypes
      <4>3. CASE RegisterPut(c) \/ RenamePut(c) \/ RenameUndo(c) \/ RevokeDelete(c)
                   \/ ResumeUpdate(c) \/ ResumeDone(c)
        BY <3>2, <4>3 DEF RegisterPut, RenamePut, RenameUndo, RevokeDelete, ResumeUpdate,
          ResumeDone, Commit
      <4> QED
        BY <2>2, <4>1, <4>2, <4>3
    <3> QED
      BY <3>1, <3>2, BelongsStays
  <2> QED
    BY <1>1, <2>1, <2>2 DEF StorageStep
<1>2. ASSUME NEW c \in Calls,
             \/ \E i \in Invites, n \in Names, t \in Tokens : Register(c, i, n, t)
             \/ \E t \in Tokens, n \in Names : Resume(c, t, n)
             \/ \E old, new \in Names : Rename(c, old, new)
             \/ \E n \in Names : Revoke(c, n)
      PROVE  AnswerInv'
  <2>1. /\ \A d \in Calls \ {c} : call'[d] = call[d]
        /\ UNCHANGED <<tokens, pending, machine, target, answerer, caller>>
        /\ call[c].pc = "idle"
    BY <1>2 DEF Register, Resume, Rename, Revoke, storageFrame, jobVars, pendingVars,
      registryVars, TypeOK, CallTypes
  <2> QED
    BY <2>1, BelongsStays
<1>3. ASSUME NEW j \in Jobs, JobStep(j) PROVE AnswerInv'
  <2>1. CASE Abort(j) \/ Expire(j) \/ EndGrace(j)
    <3>1. /\ pending' \subseteq pending
          /\ \A x \in Jobs : caller[x] # "none" => caller'[x] # "none"
          /\ UNCHANGED <<tokens, call, machine, target, answerer>>
      BY <2>1 DEF Abort, Expire, EndGrace, Cancel, Withdraw, cancelFrame, protocolFrame,
        registryVars, TypeOK, CallerTypes
    <3> QED
      BY <3>1 DEF AnswerInv, Belongs
  <2> QED
    BY <1>3, <2>1, DispatchAnswers, SubmitAnswers DEF JobStep
<1>4. CASE Restart
  BY <1>4 DEF Restart, AnswerInv
<1>5. ASSUME \/ \E i \in Invites, n \in Names \cup {None} : CreateInvite(i, n)
             \/ \E i \in Invites : ExpireInvite(i)
             \/ \E p \in Polls, t \in Tokens, n \in Names : Poll(p, t, n)
             \/ \E p \in Polls : PollTimeout(p) \/ PollResume(p)
             \/ \E t \in Tokens, n \in Names : Heartbeat(t, n)
             \/ \E r \in Rts : GoOffline(r)
             \/ UNCHANGED vars
      PROVE  AnswerInv'
  <2>1. UNCHANGED answers
    BY <1>5 DEF CreateInvite, ExpireInvite, Poll, PollTimeout, PollResume, Heartbeat,
      GoOffline, pollFrame, protocolFrame, registryVars, jobVars, pendingVars, vars, answers
  <2> QED
    BY <2>1, AnswerStutter
<1> QED
  BY <1>1, <1>2, <1>3, <1>4, <1>5 DEF Next

LEMMA AnswerHolds ==
  Spec /\ [](CallsApart /\ NothingUndone) => [](TypeOK /\ RegistryInv /\ AnswerInv)
<1>1. Init => AnswerInv
  BY DEF Init, AnswerInv
<1>2. NothingUndone => UndoSucceeds
  BY DEF NothingUndone, UndoSucceeds
<1>3. TypeOK /\ TypeOK' /\ RegistryInv /\ CallsApart /\ CallsApart' /\ NothingUndone
        /\ [Next]_vars => RegistryInv'
  BY <1>2, RegistryStep
<1>4. TypeOK /\ TypeOK' /\ RegistryInv /\ CallsApart /\ NothingUndone /\ NothingUndone'
        /\ AnswerInv /\ [Next]_vars => AnswerInv'
  BY AnswerStep
<1> QED
  BY <1>1, <1>3, <1>4, RegistryInitial, TypeCorrect, PTL DEF Spec

\* As long as registry calls that overlap concern different machines and no
\* rename is undone: the tokens map and the table agree, a revoked token stays
\* out, and the result a caller gets comes from the machine its job was
\* dispatched to, however names move in between.
THEOREM IdentitiesAlwaysAgree ==
  Spec /\ [](CallsApart /\ NothingUndone) => []IdentitiesAgree
<1>1. RegistryInv /\ AnswerInv => IdentitiesAgree
  <2>1. ASSUME RegistryInv, Quiescent PROVE Loads(table, tokens)
    BY <2>1 DEF RegistryInv, Quiescent, SettledNames, Untouched, Writes, Loads
  <2> QED
    BY <2>1 DEF RegistryInv, AnswerInv, IdentitiesAgree, IdentityAgreement, AnswerFromTarget
<1> QED
  BY <1>1, AnswerHolds, PTL

\* Under the same conditions, and if results are well-formed, nobody is left
\* waiting for a machine whose revocation is complete.
THEOREM RevocationSettles ==
  ASSUME ResultKinds = {"wellformed"}
  PROVE  Spec /\ [](CallsApart /\ NothingUndone) => []RevokeSettles
<1>1. ASSUME TypeOK, RegistryInv, AnswerInv, WaitingJobExpires PROVE RevokeSettles
  <2>1. SUFFICES ASSUME NEW j \in Jobs, caller[j] = "waiting" PROVE target[j] \notin revoked
    BY DEF RevokeSettles
  <2>2. j \in pending /\ target[j] \in Tokens /\ machine[j] \in Names /\ Belongs(j)
    BY <1>1, <2>1 DEF WaitingJobExpires, AnswerInv
  <2>3. CASE tokens[target[j]] = machine[j]
    BY <1>1, <2>2, <2>3, NoneAssumption DEF RegistryInv, RevokedStaysOut
  <2>4. CASE tokens[target[j]] # machine[j]
    <3>1. PICK d \in Calls :
            /\ call[d].token = target[j]
            /\ call[d].pc \in {"rename_delete", "rename_done", "register_done"}
      BY <2>2, <2>4 DEF Belongs
    <3>2. CallFits(call[d])
      BY <1>1 DEF RegistryInv
    <3> QED
      BY <1>1, <2>2, <3>1, <3>2, NoneAssumption
      DEF CallFits, Writes, Enrolling, Renaming, OnlyIs, RegistryInv, RevokedStaysOut
  <2> QED
    BY <2>3, <2>4
<1> QED
  BY <1>1, AnswerHolds, WaitingExpires, PTL

-----------------------------------------------------------------------------
(* Whose jobs a name's queue holds *)

\* No queue gains a job by being taken from or spliced.
Shrinks == \A r \in Rts : ToSet(queue'[r]) \subseteq ToSet(queue[r])

LEMMA TakeShrinks ==
  ASSUME TypeOK, NEW r \in Rts, NEW t, TakeQueued(r, t) \/ NothingQueued(r)
  PROVE  Shrinks
<1>q. queue[r] \in Seq(Jobs) /\ \A x \in Rts \ {r} : queue'[x] = queue[x]
  BY DEF TypeOK, QueueTypes, TakeQueued, NothingQueued
<1>1. CASE TakeQueued(r, t)
  <2>1. PICK i \in DOMAIN queue[r] :
          queue'[r] = SubSeq(queue[r], i + 1, Len(queue[r]))
    BY <1>1 DEF TakeQueued, TypeOK, QueueTypes
  <2>2. /\ i \in 1..Len(queue[r]) /\ Len(queue[r]) \in Nat
        /\ DOMAIN queue[r] = 1..Len(queue[r])
    BY <1>q, LenProperties
  <2>3. /\ queue'[r] \in Seq(Jobs) /\ Len(queue'[r]) = Len(queue[r]) - i
        /\ \A k \in 1..Len(queue'[r]) : queue'[r][k] = queue[r][i + k]
    BY <1>q, <2>1, ShiftProperties
  <2>4. DOMAIN queue'[r] = 1..Len(queue'[r])
    BY <2>3, LenProperties
  <2>5. \A k \in DOMAIN queue'[r] : i + k \in DOMAIN queue[r] /\ queue'[r][k] = queue[r][i + k]
    BY <2>2, <2>3, <2>4
  <2> QED
    BY <1>q, <2>5 DEF Shrinks, ToSet
<1>2. CASE NothingQueued(r)
  <2>1. queue'[r] = <<>>
    BY <1>2 DEF NothingQueued, TypeOK, QueueTypes
  <2> QED
    BY <1>q, <2>1 DEF Shrinks, ToSet
<1> QED
  BY <1>1, <1>2

LEMMA SplicedShrinks ==
  ASSUME NEW S, NEW q \in Seq(S), NEW x
  PROVE  ToSet(Spliced(q, x)) \subseteq ToSet(q)
<1>1. Spliced(q, x) \in Seq(S) /\ Len(q) \in Nat /\ DOMAIN q = 1..Len(q)
  BY SplicedProperties, LenProperties
<1>2. DOMAIN Spliced(q, x) = 1..Len(Spliced(q, x)) /\ Len(Spliced(q, x)) \in Nat
  BY <1>1, LenProperties
<1>3. CASE Spliced(q, x) = q
  BY <1>3
<1>4. CASE \E i \in DOMAIN q :
             /\ q[i] = x
             /\ Len(Spliced(q, x)) = Len(q) - 1
             /\ \A k \in 1..Len(Spliced(q, x)) :
                  Spliced(q, x)[k] = IF k < i THEN q[k] ELSE q[k + 1]
  <2>1. \A k \in DOMAIN Spliced(q, x) : \E m \in DOMAIN q : Spliced(q, x)[k] = q[m]
    BY <1>1, <1>2, <1>4
  <2> QED
    BY <2>1 DEF ToSet
<1> QED
  BY <1>3, <1>4, SplicedProperties

LEMMA CancelShrinks ==
  ASSUME TypeOK, NEW j \in Jobs, Cancel(j)
  PROVE  Shrinks /\ pending' \subseteq pending
<1>1. CASE j \in claimed
  BY <1>1 DEF Cancel, Shrinks
<1>2. CASE j \notin claimed
  <2>1. queue' = [queue EXCEPT ![home[j]] = Spliced(@, j)] /\ pending' = pending \ {j}
    BY <1>2 DEF Cancel, Withdraw
  <2>2. ASSUME NEW r \in Rts PROVE ToSet(queue'[r]) \subseteq ToSet(queue[r])
    <3>1. queue[r] \in Seq(Jobs)
      BY DEF TypeOK, QueueTypes
    <3>2. queue'[r] = queue[r] \/ queue'[r] = Spliced(queue[r], j)
      BY <2>1 DEF TypeOK, QueueTypes
    <3> QED
      BY <3>1, <3>2, SplicedShrinks
  <2> QED
    BY <2>1, <2>2 DEF Shrinks
<1> QED
  BY <1>1, <1>2

\* _runtimeFor hands out the object of the name, or a new one.
LEMMA InternObjects ==
  ASSUME TypeOK, ObjectInv, NEW n \in Names, Intern(n)
  PROVE  /\ nextRt <= nextRt' /\ nextRt' \in Nat
         /\ \A m \in Names : runtime'[m] < nextRt'
         /\ \A m \in Names \ {n} : runtime'[m] = runtime[m]
         /\ runtime'[n] = RuntimeFor(n) /\ RuntimeFor(n) \in Rts
         /\ runtime[n] # 0 => runtime'[n] = runtime[n]
         /\ runtime[n] = 0 => runtime'[n] = nextRt
         /\ \A l, m \in Names : runtime'[l] = runtime'[m] /\ runtime'[l] # 0 => l = m
<1>1. /\ runtime' = [runtime EXCEPT ![n] = RuntimeFor(n)] /\ RuntimeFor(n) \in Rts
      /\ nextRt' = IF runtime[n] = 0 THEN nextRt + 1 ELSE nextRt
      /\ nextRt \in Nat \ {0} /\ \A m \in Names : runtime[m] \in Nat
      /\ \A m \in Names : runtime'[m] = IF m = n THEN RuntimeFor(n) ELSE runtime[m]
  BY BoundsAssumption DEF Intern, TypeOK, RuntimeTypes, Rts
<1>2. RuntimeFor(n) = IF runtime[n] # 0 THEN runtime[n] ELSE nextRt
  BY DEF RuntimeFor
<1>3. \A m \in Names : runtime[m] < nextRt
  BY DEF ObjectInv
<1>4. \A l, m \in Names : runtime[l] = runtime[m] /\ runtime[l] # 0 => l = m
  BY DEF ObjectInv
<1> HIDE DEF RuntimeFor
<1>5. \A m \in Names : runtime'[m] < nextRt'
  BY <1>1, <1>2, <1>3
<1>6. \A l, m \in Names : runtime'[l] = runtime'[m] /\ runtime'[l] # 0 => l = m
  BY <1>1, <1>2, <1>3, <1>4
<1> QED
  BY <1>1, <1>2, <1>5, <1>6

\* Objects interned, queues shrunk, calls that keep the object of their name.
LEMMA ObjectsKept ==
  ASSUME TypeOK, TypeOK', ObjectInv,
         nextRt <= nextRt', \A n \in Names : runtime'[n] < nextRt',
         \A n \in Names : runtime'[n] \in {runtime[n], nextRt, 0},
         \A l, m \in Names : runtime'[l] = runtime'[m] /\ runtime'[l] # 0 => l = m,
         Shrinks, pending' \subseteq pending, UNCHANGED machine,
         \A c \in Calls : Renaming(call'[c]) =>
           call'[c].rt # 0 /\ call'[c].rt = runtime'[call'[c].name]
  PROVE  ObjectInv'
<1>1. nextRt \in Nat /\ nextRt' \in Nat /\ Rts \subseteq Nat
  BY BoundsAssumption DEF TypeOK, RuntimeTypes, Rts
<1>2. \A r \in Rts : r >= nextRt => ToSet(queue[r]) = {}
  BY DEF ObjectInv
<1>3. ASSUME NEW r \in Rts, r >= nextRt' PROVE ToSet(queue'[r]) = {}
  <2>1. r >= nextRt
    BY <1>1, <1>3
  <2> QED
    BY <1>2, <2>1 DEF Shrinks
<1>4. ASSUME NEW n \in Names, NEW j \in pending', runtime'[n] # 0,
             j \in ToSet(queue'[runtime'[n]])
      PROVE  machine'[j] = n
  <2>1. runtime'[n] \in Rts /\ j \in ToSet(queue[runtime'[n]])
    BY <1>4 DEF Shrinks, TypeOK, RuntimeTypes
  <2>2. runtime'[n] # nextRt
    BY <1>1, <1>2, <2>1
  <2>3. runtime'[n] = runtime[n]
    BY <1>4, <2>2
  <2> QED
    BY <1>4, <2>1, <2>3 DEF ObjectInv
<1> QED
  BY <1>3, <1>4 DEF ObjectInv

\* Which polls revoke and dispatch wake.
LEMMA RevokedPolls ==
  ASSUME TypeOK, WaitersWait, NEW c \in Calls, RevokeDone(c), NEW p \in Polls
  PROVE  LET r == runtime[call[c].name]
             woken == poll[p].st = "waiting" /\ r # 0 /\ poll[p].rt = r IN
         poll'[p] = IF woken THEN [poll[p] EXCEPT !.st = "revoked"] ELSE poll[p]
<1> DEFINE r == runtime[call[c].name]
           W == IF r = 0 THEN {} ELSE ToSet(waiters[r])
<1>1. poll' = [x \in Polls |-> IF x \in W THEN [poll[x] EXCEPT !.st = "revoked"] ELSE poll[x]]
  BY DEF RevokeDone
<1>2. call[c].name \in Names /\ r \in Rts \cup {0}
  BY DEF RevokeDone, TypeOK, CallTypes, RuntimeTypes
<1>3. p \in W <=> r # 0 /\ poll[p].st = "waiting" /\ poll[p].rt = r
  <2>1. CASE r # 0
    <3>1. r \in Rts /\ W = {waiters[r][i] : i \in DOMAIN waiters[r]}
      BY <1>2, <2>1 DEF ToSet
    <3>2. p \in W => poll[p].st = "waiting" /\ poll[p].rt = r
      BY <3>1 DEF WaitersWait
    <3>3. poll[p].st = "waiting" /\ poll[p].rt = r => p \in W
      BY <2>1 DEF WaitersWait
    <3> QED
      BY <2>1, <3>2, <3>3
  <2>2. CASE r = 0
    BY <2>2
  <2> QED
    BY <2>1, <2>2
<1> HIDE DEF r, W
<1> QED
  BY <1>1, <1>3 DEF r

LEMMA WokenPoll ==
  ASSUME TypeOK, WaitersWait, NEW r \in Rts, WakeWorker(r), NEW p \in Polls
  PROVE  \/ poll'[p] = poll[p]
         \/ poll[p].st = "waiting" /\ poll[p].rt = r /\ poll'[p] = [poll[p] EXCEPT !.st = "job"]
<1>1. CASE waiters[r] = <<>>
  BY <1>1 DEF WakeWorker
<1>2. CASE waiters[r] # <<>>
  <2>1. waiters[r] \in Seq(Polls)
    BY DEF TypeOK, WaiterTypes
  <2>2. 1 \in DOMAIN waiters[r] /\ Head(waiters[r]) = waiters[r][1]
    BY <1>2, <2>1, EmptySeq, LenProperties, HeadTailProperties
  <2>3. poll[Head(waiters[r])].st = "waiting" /\ poll[Head(waiters[r])].rt = r
    BY <2>2 DEF WaitersWait
  <2>4. poll' = [poll EXCEPT ![Head(waiters[r])].st = "job"]
    BY <1>2 DEF WakeWorker
  <2> QED
    BY <2>3, <2>4 DEF TypeOK, WaiterTypes
<1> QED
  BY <1>1, <1>2

LEMMA NamedStep == TypeOK /\ TypeOK' /\ WaitersWait /\ Named /\ [Next]_vars => Named'
<1> SUFFICES ASSUME TypeOK, TypeOK', WaitersWait, Named, [Next]_vars PROVE Named'
  OBVIOUS
<1>c. call \in [Calls -> [pc : CallSteps, name : Names \cup {None}, new : Names \cup {None},
                        token : Tokens \cup {None}, rt : Rts \cup {0}]]
  BY DEF TypeOK, CallTypes
<1>1. ASSUME NEW c \in Calls,
             \/ \E i \in Invites, n \in Names, t \in Tokens : Register(c, i, n, t)
             \/ \E t \in Tokens, n \in Names : Resume(c, t, n)
             \/ \E old, new \in Names : Rename(c, old, new)
             \/ \E n \in Names : Revoke(c, n)
      PROVE  Named'
  <2>1. (\A d \in Calls \ {c} : call'[d] = call[d]) /\ call'[c].name \in Names
    <3>1. CASE \E old, new \in Names : Rename(c, old, new)
      BY <1>c, <3>1 DEF Rename
    <3>2. CASE \E i \in Invites, n \in Names, t \in Tokens : Register(c, i, n, t)
      BY <1>c, <3>2 DEF Register, NoCall
    <3>3. CASE \E t \in Tokens, n \in Names : Resume(c, t, n)
      BY <1>c, <3>3 DEF Resume, NoCall
    <3>4. CASE \E n \in Names : Revoke(c, n)
      BY <1>c, <3>4 DEF Revoke, NoCall
    <3> QED
      BY <1>1, <3>1, <3>2, <3>3, <3>4
  <2>2. poll' = poll
    BY <1>1 DEF Register, Resume, Rename, Revoke, storageFrame
  <2>3. ASSUME NEW d \in Calls, call'[d].pc # "idle" PROVE call'[d].name \in Names
    BY <2>1, <2>3 DEF Named
  <2> QED
    BY <2>2, <2>3 DEF Named
<1>2. ASSUME NEW c \in Calls, StorageStep(c) PROVE Named'
  <2>1. /\ \A d \in Calls \ {c} : call'[d] = call[d]
        /\ call[c].pc # "idle"
        /\ call'[c].pc = "idle" \/ call'[c].name = call[c].name
    BY <1>2 DEF StorageStep, RegisterPut, RegisterDone, ResumeUpdate, ResumeDone,
      RenamePut, RenameDelete, RenameUndo, RenameDone, RevokeDelete, RevokeDone,
      StorageFails, Commit, NoCall, TypeOK, CallTypes
  <2>2. \A p \in Polls : poll'[p].st # "idle" =>
          poll[p].st # "idle" /\ poll'[p].name = poll[p].name
    <3>1. CASE RevokeDone(c)
      BY <3>1, RevokedPolls DEF TypeOK, WaiterTypes
    <3>2. CASE ~ RevokeDone(c)
      BY <1>2, <3>2 DEF StorageStep, RegisterPut, RegisterDone, ResumeUpdate, ResumeDone,
        RenamePut, RenameDelete, RenameUndo, RenameDone, RevokeDelete,
        StorageFails, Commit, storageFrame
    <3> QED
      BY <3>1, <3>2
  <2> QED
    BY <2>1, <2>2 DEF Named
<1>3. ASSUME NEW p \in Polls, NEW t \in Tokens, NEW n \in Names, Poll(p, t, n) PROVE Named'
  BY <1>3 DEF Poll, pollFrame, protocolFrame, Named, TypeOK, WaiterTypes
<1>4. ASSUME NEW p \in Polls, PollTimeout(p) \/ PollResume(p) PROVE Named'
  <2>1. /\ \A x \in Polls \ {p} : poll'[x] = poll[x]
        /\ poll'[p].st # "idle" => poll'[p].name = poll[p].name /\ poll[p].st # "idle"
        /\ call' = call
    BY <1>4 DEF PollTimeout, PollResume, pollFrame, protocolFrame, NoPoll, TypeOK, WaiterTypes
  <2> QED
    BY <2>1 DEF Named
<1>5. ASSUME NEW j \in Jobs, NEW n \in Names, NEW aborted \in BOOLEAN,
             Dispatch(j, n, aborted)
      PROVE  Named'
  <2>1. call' = call /\ WakeWorker(runtime[n]) /\ runtime[n] \in Rts
    BY <1>5 DEF Dispatch, protocolFrame, TypeOK, RuntimeTypes
  <2>2. \A p \in Polls : poll'[p].st # "idle" =>
          poll[p].st # "idle" /\ poll'[p].name = poll[p].name
    BY <2>1, WokenPoll DEF TypeOK, WaiterTypes
  <2> QED
    BY <2>1, <2>2 DEF Named
<1>6. CASE Restart
  BY <1>6 DEF Restart, NoCall, NoPoll, Named
<1>7. ASSUME \/ \E i \in Invites, n \in Names \cup {None} : CreateInvite(i, n)
             \/ \E i \in Invites : ExpireInvite(i)
             \/ \E t \in Tokens, n \in Names : Heartbeat(t, n)
             \/ \E r \in Rts : GoOffline(r)
             \/ \E j \in Jobs, t \in Tokens, n \in Names, kind \in ResultKinds :
                  SubmitResult(t, n, j, kind)
             \/ \E j \in Jobs : Abort(j) \/ Expire(j) \/ EndGrace(j)
             \/ UNCHANGED vars
      PROVE  Named'
  BY <1>7 DEF CreateInvite, ExpireInvite, Heartbeat, GoOffline, SubmitResult, Abort,
    Expire, EndGrace, cancelFrame, protocolFrame, vars, Named
<1> QED
  BY <1>1, <1>2, <1>3, <1>4, <1>5, <1>6, <1>7 DEF Next, JobStep

LEMMA NamedHolds == Spec => []Named
<1>1. Init => Named
  BY DEF Init, NoCall, NoPoll, Named
<1> QED
  BY <1>1, NamedStep, TypeCorrect, JobInvHolds, PTL DEF Spec

LEMMA SeenObjects ==
  ASSUME TypeOK, TypeOK', ObjectInv, NEW n \in Names, Intern(n), Shrinks,
         pending' \subseteq pending, UNCHANGED machine,
         \A c \in Calls : Renaming(call'[c]) => call'[c] = call[c]
  PROVE  ObjectInv'
<1>1. /\ nextRt <= nextRt'
      /\ \A m \in Names : runtime'[m] < nextRt' /\ runtime'[m] \in {runtime[m], nextRt, 0}
      /\ \A m \in Names : runtime[m] # 0 => runtime'[m] = runtime[m]
      /\ \A l, m \in Names : runtime'[l] = runtime'[m] /\ runtime'[l] # 0 => l = m
  BY InternObjects
<1>2. ASSUME NEW c \in Calls, Renaming(call'[c])
      PROVE  call'[c].rt # 0 /\ call'[c].rt = runtime'[call'[c].name]
  <2>1. call'[c] = call[c] /\ call[c].rt # 0 /\ call[c].rt = runtime[call[c].name]
    BY <1>2 DEF ObjectInv
  <2>2. CASE call[c].name \in Names
    BY <1>1, <2>1, <2>2
  <2>3. CASE call[c].name \notin Names
    BY <2>1, <2>3 DEF Intern, TypeOK, RuntimeTypes
  <2> QED
    BY <2>2, <2>3
<1> QED
  BY <1>1, <1>2, ObjectsKept

LEMMA SameObjects ==
  ASSUME TypeOK, TypeOK', ObjectInv, UNCHANGED <<runtime, nextRt, machine>>, Shrinks,
         pending' \subseteq pending,
         \A c \in Calls : Renaming(call'[c]) =>
           /\ Renaming(call[c])
           /\ call'[c].rt = call[c].rt /\ call'[c].name = call[c].name
  PROVE  ObjectInv'
<1>1. \A l, m \in Names : runtime[l] = runtime[m] /\ runtime[l] # 0 => l = m
  BY DEF ObjectInv
<1>2. nextRt \in Nat /\ \A n \in Names : runtime[n] < nextRt
  BY BoundsAssumption DEF ObjectInv, TypeOK, RuntimeTypes
<1>3. \A c \in Calls : Renaming(call'[c]) =>
        call'[c].rt # 0 /\ call'[c].rt = runtime'[call'[c].name]
  BY DEF ObjectInv
<1> QED
  BY <1>1, <1>2, <1>3, ObjectsKept

\* A writing call leaves the names of the others to them.
LEMMA OthersElsewhere ==
  ASSUME CallsApart, NEW c \in Calls, NEW d \in Calls, c # d, Writes(call[c]),
         Renaming(call[d]), Named, NEW n \in Concerned(call[c])
  PROVE  call[d].name # n
<1>1. Writes(call[d]) /\ call[d].name \in Names
  BY DEF Renaming, Writes, Named
<1>2. call[d].name \in Concerned(call[d])
  BY <1>1, NoneAssumption DEF Concerned
<1> QED
  BY <1>1, <1>2 DEF CallsApart

LEMMA RegisterDoneObjects ==
  ASSUME TypeOK, TypeOK', CallsApart, Named, ObjectInv, NEW c \in Calls, RegisterDone(c)
  PROVE  ObjectInv'
<1> DEFINE n == call[c].name
<1>1. /\ n \in Names /\ n \in Concerned(call[c]) /\ Writes(call[c])
      /\ nextRt \in Rts /\ nextRt' = nextRt + 1
      /\ \A m \in Names : runtime'[m] = IF m = n THEN nextRt ELSE runtime[m]
      /\ UNCHANGED <<queue, pending, machine>>
  BY NoneAssumption
  DEF RegisterDone, Named, Concerned, Writes, TypeOK, RuntimeTypes, queueVars, jobVars,
    pendingVars
<1>2. nextRt \in Nat \ {0} /\ \A m \in Names : runtime[m] < nextRt /\ runtime[m] \in Nat
  BY <1>1, BoundsAssumption DEF ObjectInv, TypeOK, RuntimeTypes, Rts
<1>3. \A m \in Names : runtime'[m] < nextRt' /\ runtime'[m] \in {runtime[m], nextRt, 0}
  BY <1>1, <1>2
<1>4. \A l, m \in Names : runtime[l] = runtime[m] /\ runtime[l] # 0 => l = m
  BY DEF ObjectInv
<1>5. \A l, m \in Names : runtime'[l] = runtime'[m] /\ runtime'[l] # 0 => l = m
  BY <1>1, <1>2, <1>4
<1>6. ASSUME NEW d \in Calls, Renaming(call'[d])
      PROVE  call'[d].rt # 0 /\ call'[d].rt = runtime'[call'[d].name]
  <2>1. d # c /\ call'[d] = call[d]
    BY <1>6 DEF RegisterDone, NoCall, Renaming, TypeOK, CallTypes
  <2>2. call[d].name # n /\ call[d].name \in Names
    BY <1>1, <1>6, <2>1, OthersElsewhere DEF Named, Renaming
  <2> QED
    BY <1>1, <1>6, <2>1, <2>2 DEF ObjectInv
<1>7. Shrinks
  BY <1>1 DEF Shrinks
<1> HIDE DEF n
<1> QED
  BY <1>1, <1>2, <1>3, <1>5, <1>6, <1>7, ObjectsKept

LEMMA RevokeDoneObjects ==
  ASSUME TypeOK, TypeOK', CallsApart, Named, ObjectInv, NEW c \in Calls, RevokeDone(c)
  PROVE  ObjectInv'
<1> DEFINE n == call[c].name
<1>1. /\ n \in Names /\ n \in Concerned(call[c]) /\ Writes(call[c])
      /\ nextRt' = nextRt
      /\ \A m \in Names : runtime'[m] = IF m = n THEN 0 ELSE runtime[m]
      /\ pending' \subseteq pending
      /\ UNCHANGED <<queue, machine>>
  BY NoneAssumption
  DEF RevokeDone, DropPending, Named, Concerned, Writes, TypeOK, RuntimeTypes
<1>2. nextRt \in Nat \ {0} /\ \A m \in Names : runtime[m] < nextRt
  BY <1>1, BoundsAssumption DEF ObjectInv, TypeOK, RuntimeTypes, Rts
<1>3. \A m \in Names : runtime'[m] < nextRt' /\ runtime'[m] \in {runtime[m], nextRt, 0}
  BY <1>1, <1>2
<1>5. \A l, m \in Names : runtime'[l] = runtime'[m] /\ runtime'[l] # 0 => l = m
  BY <1>1 DEF ObjectInv
<1>6. ASSUME NEW d \in Calls, Renaming(call'[d])
      PROVE  call'[d].rt # 0 /\ call'[d].rt = runtime'[call'[d].name]
  <2>1. d # c /\ call'[d] = call[d]
    BY <1>6 DEF RevokeDone, NoCall, Renaming, TypeOK, CallTypes
  <2>2. call[d].name # n /\ call[d].name \in Names
    BY <1>1, <1>6, <2>1, OthersElsewhere DEF Named, Renaming
  <2> QED
    BY <1>1, <1>6, <2>1, <2>2 DEF ObjectInv
<1>7. Shrinks
  BY <1>1 DEF Shrinks
<1> HIDE DEF n
<1> QED
  BY <1>1, <1>2, <1>3, <1>5, <1>6, <1>7, ObjectsKept

LEMMA RenameObjects ==
  ASSUME TypeOK, TypeOK', ObjectInv, NEW c \in Calls, NEW old \in Names, NEW new \in Names,
         Rename(c, old, new)
  PROVE  ObjectInv'
<1>1. /\ Intern(old)
      /\ call'[c].rt = RuntimeFor(old) /\ call'[c].name = old
      /\ \A d \in Calls \ {c} : call'[d] = call[d]
      /\ UNCHANGED <<queue, pending, machine>>
  BY DEF Rename, queueVars, jobVars, pendingVars, TypeOK, CallTypes
<1>2. /\ nextRt <= nextRt'
      /\ \A m \in Names : runtime'[m] < nextRt' /\ runtime'[m] \in {runtime[m], nextRt, 0}
      /\ \A m \in Names : runtime[m] # 0 => runtime'[m] = runtime[m]
      /\ runtime'[old] = RuntimeFor(old) /\ RuntimeFor(old) # 0
      /\ \A l, m \in Names : runtime'[l] = runtime'[m] /\ runtime'[l] # 0 => l = m
  BY <1>1, InternObjects DEF Rts
<1>3. ASSUME NEW d \in Calls, Renaming(call'[d])
      PROVE  call'[d].rt # 0 /\ call'[d].rt = runtime'[call'[d].name]
  <2>1. CASE d = c
    BY <1>1, <1>2, <2>1
  <2>2. CASE d # c
    <3>1. call'[d] = call[d] /\ call[d].rt # 0 /\ call[d].rt = runtime[call[d].name]
      BY <1>1, <1>3, <2>2 DEF ObjectInv
    <3>2. CASE call[d].name \in Names
      BY <1>2, <3>1, <3>2
    <3>3. CASE call[d].name \notin Names
      BY <1>1, <3>1, <3>3 DEF Intern, TypeOK, RuntimeTypes
    <3> QED
      BY <3>2, <3>3
  <2> QED
    BY <2>1, <2>2
<1>4. Shrinks
  BY <1>1 DEF Shrinks
<1> QED
  BY <1>1, <1>2, <1>3, <1>4, ObjectsKept

LEMMA RenameDoneObjects ==
  ASSUME TypeOK, TypeOK', RegistryInv, CallsApart, Named, ObjectInv, NEW c \in Calls,
         RenameDone(c)
  PROVE  ObjectInv'
<1> DEFINE n == call[c].name
           m == call[c].new
           r == call[c].rt
<1>1. Writes(call[c]) /\ Renaming(call[c]) /\ call[c].pc = "rename_done"
  BY DEF RenameDone, Writes, Renaming
<1>2. /\ n \in Names /\ m \in Names /\ m # n /\ Concerned(call[c]) = {n, m}
      /\ r # 0 /\ r = runtime[n]
  BY <1>1, CallStands DEF CallFits, ObjectInv
<1>3. /\ \A x \in Names : runtime'[x] = IF x = m THEN r ELSE IF x = n THEN 0 ELSE runtime[x]
      /\ \A j \in pending : machine'[j] = IF machine[j] = n THEN m ELSE machine[j]
      /\ UNCHANGED <<queue, pending, nextRt>>
  BY <1>2 DEF RenameDone, Readdress, queueVars, TypeOK, RuntimeTypes, PendingTypes
<1>4. nextRt \in Nat \ {0} /\ \A x \in Names : runtime[x] < nextRt
  BY BoundsAssumption DEF ObjectInv, TypeOK, RuntimeTypes
<1>5. \A x \in Names : runtime'[x] < nextRt'
  BY <1>2, <1>3, <1>4
<1>6. \A l, x \in Names : runtime[l] = runtime[x] /\ runtime[l] # 0 => l = x
  BY DEF ObjectInv
<1>7. \A l, x \in Names : runtime'[l] = runtime'[x] /\ runtime'[l] # 0 => l = x
  BY <1>2, <1>3, <1>6
<1>8. ASSUME NEW x \in Names, NEW j \in pending', runtime'[x] # 0,
             j \in ToSet(queue'[runtime'[x]])
      PROVE  machine'[j] = x
  <2>0. j \in pending /\ queue' = queue
    BY <1>3
  <2>1. CASE x = m
    <3>1. j \in ToSet(queue[runtime[n]])
      BY <1>2, <1>3, <1>8, <2>0, <2>1
    <3>2. machine[j] = n
      BY <1>2, <2>0, <3>1 DEF ObjectInv
    <3> QED
      BY <1>3, <2>0, <2>1, <3>2
  <2>2. CASE x # m
    <3>1. x # n /\ j \in ToSet(queue[runtime[x]]) /\ runtime[x] # 0
      BY <1>2, <1>3, <1>8, <2>0, <2>2
    <3>2. machine[j] = x
      BY <2>0, <3>1 DEF ObjectInv
    <3> QED
      BY <1>3, <2>0, <3>1, <3>2
  <2> QED
    BY <2>1, <2>2
<1>9. ASSUME NEW d \in Calls, Renaming(call'[d])
      PROVE  call'[d].rt # 0 /\ call'[d].rt = runtime'[call'[d].name]
  <2>1. d # c /\ call'[d] = call[d]
    BY <1>9 DEF RenameDone, NoCall, Renaming, TypeOK, CallTypes
  <2>2. call[d].name # n /\ call[d].name # m /\ call[d].name \in Names
    BY <1>1, <1>2, <1>9, <2>1, OthersElsewhere DEF Named, Renaming
  <2> QED
    BY <1>3, <1>9, <2>1, <2>2 DEF ObjectInv
<1>10. \A x \in Rts : x >= nextRt' => ToSet(queue'[x]) = {}
  BY <1>3 DEF ObjectInv
<1> HIDE DEF n, m, r
<1> QED
  BY <1>5, <1>7, <1>8, <1>9, <1>10 DEF ObjectInv

\* dispatch adds the job to one queue at most, that of the name it is for.
LEMMA DispatchQueues ==
  ASSUME TypeOK, NEW j \in Jobs, NEW n \in Names, NEW aborted \in BOOLEAN,
         Dispatch(j, n, aborted)
  PROVE  \A x \in Rts : ToSet(queue'[x]) \subseteq
                         ToSet(queue[x]) \cup (IF x = runtime[n] THEN {j} ELSE {})
<1> DEFINE r == runtime[n]
<1>0. r \in Rts
  BY DEF Dispatch, TypeOK, RuntimeTypes
<1>1. CASE aborted
  BY <1>1 DEF Dispatch
<1>2. CASE ~aborted
  <2>1. queue[r] \in Seq(Jobs) /\ queue' = [queue EXCEPT ![r] = Append(@, j)]
    BY <1>0, <1>2 DEF Dispatch, TypeOK, QueueTypes
  <2>2. Append(queue[r], j) \in Seq(Jobs) /\ Len(queue[r]) \in Nat
        /\ Len(Append(queue[r], j)) = Len(queue[r]) + 1
        /\ \A i \in 1..Len(queue[r]) : Append(queue[r], j)[i] = queue[r][i]
        /\ Append(queue[r], j)[Len(queue[r]) + 1] = j
    BY <2>1, AppendProperties, LenProperties
  <2>3. DOMAIN Append(queue[r], j) = 1..(Len(queue[r]) + 1)
        /\ DOMAIN queue[r] = 1..Len(queue[r])
    BY <2>1, <2>2, LenProperties
  <2>4. ToSet(Append(queue[r], j)) \subseteq ToSet(queue[r]) \cup {j}
    BY <2>2, <2>3 DEF ToSet
  <2> QED
    BY <1>0, <2>1, <2>4 DEF TypeOK, QueueTypes
<1> QED
  BY <1>1, <1>2

\* dispatch queues the job on the object of the name it is for.
LEMMA DispatchObjects ==
  ASSUME TypeOK, TypeOK', JobInv, ObjectInv, NEW j \in Jobs, NEW n \in Names,
         NEW aborted \in BOOLEAN, Dispatch(j, n, aborted)
  PROVE  ObjectInv'
<1> DEFINE r == runtime[n]
<1>1. /\ caller[j] = "none" /\ r \in Rts
      /\ \A x \in Jobs : machine'[x] = IF x = j THEN n ELSE machine[x]
      /\ pending' \subseteq pending \cup {j}
      /\ UNCHANGED <<runtime, nextRt, call>>
  BY DEF Dispatch, runtimeVars, protocolFrame, TypeOK, RuntimeTypes, PendingTypes
<1>2. \A x \in Rts : j \notin ToSet(queue[x])
  BY <1>1 DEF JobInv, QueueHoldsOpenJobs, ToSet
<1>3. \A x \in Rts : ToSet(queue'[x]) \subseteq ToSet(queue[x]) \cup (IF x = r THEN {j} ELSE {})
  BY DispatchQueues
<1>4. nextRt \in Nat /\ r < nextRt /\ Rts \subseteq Nat
  BY BoundsAssumption DEF ObjectInv, TypeOK, RuntimeTypes, Rts
<1>5. ASSUME NEW x \in Rts, x >= nextRt' PROVE ToSet(queue'[x]) = {}
  <2>1. x # r /\ x >= nextRt
    BY <1>1, <1>4, <1>5
  <2> QED
    BY <1>3, <2>1 DEF ObjectInv
<1>6. ASSUME NEW m \in Names, NEW x \in pending', runtime'[m] # 0,
             x \in ToSet(queue'[runtime'[m]])
      PROVE  machine'[x] = m
  <2>1. runtime[m] \in Rts /\ runtime[m] # 0 /\ x \in ToSet(queue'[runtime[m]]) /\ x \in Jobs
    BY <1>1, <1>6 DEF TypeOK, RuntimeTypes, PendingTypes
  <2>2. CASE x = j
    <3>1. runtime[m] = r
      BY <1>2, <1>3, <2>1, <2>2
    <3>2. m = n
      BY <2>1, <3>1 DEF ObjectInv
    <3> QED
      BY <1>1, <2>2, <3>2
  <2>3. CASE x # j
    <3>1. x \in pending /\ x \in ToSet(queue[runtime[m]])
      BY <1>1, <1>3, <1>6, <2>1, <2>3
    <3> QED
      BY <1>1, <2>1, <2>3, <3>1 DEF ObjectInv
  <2> QED
    BY <2>2, <2>3
<1> HIDE DEF r
<1> QED
  BY <1>1, <1>5, <1>6 DEF ObjectInv

LEMMA ObjectStep ==
  ASSUME TypeOK, TypeOK', JobInv, RegistryInv, CallsApart, Named, ObjectInv, [Next]_vars
  PROVE  ObjectInv'
<1>1. ASSUME NEW c \in Calls, StorageStep(c) PROVE ObjectInv'
  <2>1. CASE RegisterDone(c) \/ RenameDone(c) \/ RevokeDone(c)
    BY <2>1, RegisterDoneObjects, RenameDoneObjects, RevokeDoneObjects
  <2>2. CASE ResumeDone(c)
    <3>1. /\ Intern(call[c].name) /\ call[c].name \in Names
          /\ UNCHANGED <<queue, pending, machine>>
          /\ \A d \in Calls : Renaming(call'[d]) => call'[d] = call[d]
      BY <2>2 DEF ResumeDone, MarkSeen, Named, queueVars, jobVars, pendingVars, Renaming,
        NoCall, TypeOK, CallTypes
    <3>2. Shrinks
      BY <3>1 DEF Shrinks
    <3> QED
      BY <3>1, <3>2, SeenObjects
  <2>3. CASE RegisterPut(c) \/ RenamePut(c) \/ RenameDelete(c) \/ RenameUndo(c)
               \/ RevokeDelete(c) \/ StorageFails(c) \/ ResumeUpdate(c)
    <3>1. UNCHANGED <<runtime, nextRt, machine, queue, pending>>
      BY <2>3 DEF RegisterPut, RenamePut, RenameDelete, RenameUndo, RevokeDelete,
        StorageFails, ResumeUpdate, Commit, storageFrame, runtimeVars, queueVars, jobVars,
        pendingVars
    <3>2. ASSUME NEW d \in Calls, Renaming(call'[d])
          PROVE  /\ Renaming(call[d])
                 /\ call'[d].rt = call[d].rt /\ call'[d].name = call[d].name
      BY <2>3, <3>2 DEF RegisterPut, RenamePut, RenameDelete, RenameUndo, RevokeDelete,
        StorageFails, ResumeUpdate, Commit, Renaming, NoCall, TypeOK, CallTypes
    <3>3. Shrinks
      BY <3>1 DEF Shrinks
    <3> QED
      BY <3>1, <3>2, <3>3, SameObjects
  <2> QED
    BY <1>1, <2>1, <2>2, <2>3 DEF StorageStep
<1>2. ASSUME NEW c \in Calls,
             \/ \E i \in Invites, n \in Names, t \in Tokens : Register(c, i, n, t)
             \/ \E t \in Tokens, n \in Names : Resume(c, t, n)
             \/ \E n \in Names : Revoke(c, n)
      PROVE  ObjectInv'
  <2>1. UNCHANGED <<runtime, nextRt, machine, queue, pending>>
    BY <1>2 DEF Register, Resume, Revoke, storageFrame, runtimeVars, queueVars, jobVars,
      pendingVars
  <2>2. \A d \in Calls : Renaming(call'[d]) => call'[d] = call[d]
    <3>1. CASE \E i \in Invites, n \in Names, t \in Tokens : Register(c, i, n, t)
      BY <3>1 DEF Register, NoCall, Renaming, TypeOK, CallTypes
    <3>2. CASE \E t \in Tokens, n \in Names : Resume(c, t, n)
      BY <3>2 DEF Resume, NoCall, Renaming, TypeOK, CallTypes
    <3>3. CASE \E n \in Names : Revoke(c, n)
      BY <3>3 DEF Revoke, NoCall, Renaming, TypeOK, CallTypes
    <3> QED
      BY <1>2, <3>1, <3>2, <3>3
  <2>3. Shrinks
    BY <2>1 DEF Shrinks
  <2> QED
    BY <2>1, <2>2, <2>3, SameObjects
<1>3. ASSUME NEW p \in Polls, NEW t \in Tokens, NEW n \in Names, Poll(p, t, n)
      PROVE  ObjectInv'
  <2>1. /\ Intern(n) /\ UNCHANGED <<pending, machine, call>>
        /\ TakeQueued(RuntimeFor(n), t) \/ NothingQueued(RuntimeFor(n))
    BY <1>3 DEF Poll, MarkSeen, pollFrame, protocolFrame, pendingVars
  <2>2. Shrinks
    BY <2>1, InternObjects, TakeShrinks
  <2> QED
    BY <2>1, <2>2, SeenObjects
<1>4. ASSUME NEW p \in Polls, PollResume(p) PROVE ObjectInv'
  <2>1. /\ Intern(poll[p].name) /\ poll[p].name \in Names
        /\ UNCHANGED <<pending, machine, call>>
        /\ \/ UNCHANGED queue
           \/ TakeQueued(RuntimeFor(poll[p].name), poll[p].token)
           \/ NothingQueued(RuntimeFor(poll[p].name))
    BY <1>4 DEF PollResume, MarkSeen, pollFrame, protocolFrame, pendingVars, Named
  <2>2. UNCHANGED queue => Shrinks
    BY DEF Shrinks
  <2>3. Shrinks
    BY <2>1, <2>2, InternObjects, TakeShrinks
  <2> QED
    BY <2>1, <2>3, SeenObjects
<1>5. ASSUME NEW t \in Tokens, NEW n \in Names,
             \/ Heartbeat(t, n)
             \/ \E j \in Jobs, kind \in ResultKinds : SubmitResult(t, n, j, kind)
      PROVE  ObjectInv'
  <2>1. /\ Intern(n) /\ pending' \subseteq pending
        /\ UNCHANGED <<machine, call, queue>>
    BY <1>5 DEF Heartbeat, SubmitResult, MarkSeen, protocolFrame, queueVars, jobVars,
      pendingVars
  <2>2. Shrinks
    BY <2>1 DEF Shrinks
  <2> QED
    BY <2>1, <2>2, SeenObjects
<1>6. ASSUME NEW j \in Jobs, Abort(j) \/ Expire(j) \/ EndGrace(j) PROVE ObjectInv'
  <2>1. UNCHANGED <<runtime, nextRt, machine, call>>
    BY <1>6 DEF Abort, Expire, EndGrace, cancelFrame, protocolFrame, runtimeVars
  <2>2. \/ Cancel(j)
        \/ UNCHANGED queue /\ pending' \subseteq pending
    BY <1>6 DEF Abort, Expire, EndGrace
  <2>3. UNCHANGED queue => Shrinks
    BY DEF Shrinks
  <2> QED
    BY <2>1, <2>2, <2>3, CancelShrinks, SameObjects
<1>7. CASE Restart
  <2>1. /\ \A n \in Names : runtime'[n] = 0
        /\ nextRt' = 1 /\ pending' = {}
        /\ \A r \in Rts : ToSet(queue'[r]) = {}
        /\ \A c \in Calls : ~ Renaming(call'[c])
    BY <1>7 DEF Restart, NoCall, Renaming, ToSet
  <2> QED
    BY <2>1 DEF ObjectInv
<1>8. ASSUME \/ \E i \in Invites, n \in Names \cup {None} : CreateInvite(i, n)
             \/ \E i \in Invites : ExpireInvite(i)
             \/ \E p \in Polls : PollTimeout(p)
             \/ \E r \in Rts : GoOffline(r)
             \/ UNCHANGED vars
      PROVE  ObjectInv'
  <2>1. UNCHANGED <<runtime, nextRt, machine, queue, pending, call>>
    BY <1>8 DEF CreateInvite, ExpireInvite, PollTimeout, GoOffline, protocolFrame,
      runtimeVars, queueVars, jobVars, pendingVars, vars
  <2>2. Shrinks
    BY <2>1 DEF Shrinks
  <2> QED
    BY <2>1, <2>2, SameObjects
<1> QED
  BY <1>1, <1>2, <1>3, <1>4, <1>5, <1>6, <1>7, <1>8, RenameObjects, DispatchObjects
  DEF Next, JobStep

-----------------------------------------------------------------------------
(* Polls under way: where they wait and what became of their token *)

\* A task that leaves the tokens map alone finds no poll of a revoked token.
LEMMA TaskPolls ==
  ASSUME PollInv, NextTask, UNCHANGED tokens,
         \A n \in Names : runtime[n] # 0 => runtime'[n] = runtime[n], Named,
         \A p \in Polls :
           \/ poll'[p] = poll[p]
           \/ /\ poll[p].st = "waiting" /\ poll'[p].st \in {"job", "timeout"}
              /\ poll'[p].name = poll[p].name /\ poll'[p].token = poll[p].token
              /\ poll'[p].rt = poll[p].rt
           \/ /\ tokens[poll'[p].token] # None
              /\ poll'[p].rt # 0 /\ poll'[p].rt = runtime'[poll'[p].name]
  PROVE  PollInv'
<1> SUFFICES ASSUME NEW p \in Polls PROVE PollFits(poll[p])'
  BY DEF PollInv
<1>1. poll[p].st \in {"idle", "waiting"} /\ PollFits(poll[p])
  BY DEF NextTask, PollInv
<1>2. CASE poll[p].st = "waiting" /\ poll'[p].st \in {"waiting", "job", "timeout"}
           /\ poll'[p].name = poll[p].name /\ poll'[p].token = poll[p].token
           /\ poll'[p].rt = poll[p].rt
  <2>1. /\ tokens[poll[p].token] # None /\ poll[p].name \in Names
        /\ poll[p].rt # 0 /\ poll[p].rt = runtime[poll[p].name]
    BY <1>1, <1>2 DEF PollFits, Named
  <2> QED
    BY <1>2, <2>1 DEF PollFits
<1>3. CASE poll'[p].st = "idle"
  BY <1>3 DEF PollFits
<1>4. CASE /\ tokens[poll'[p].token] # None
           /\ poll'[p].rt # 0 /\ poll'[p].rt = runtime'[poll'[p].name]
  BY <1>4 DEF PollFits
<1> QED
  BY <1>1, <1>2, <1>3, <1>4

\* Steps that begin no writing call and leave the tokens map alone.
LEMMA QuietPolls ==
  ASSUME PollInv, UNCHANGED tokens, Named,
         \A n \in Names : runtime[n] # 0 => runtime'[n] = runtime[n],
         \A c \in Calls : Writes(call'[c]) =>
           Writes(call[c]) /\ Concerned(call'[c]) = Concerned(call[c]),
         \A p \in Polls : poll'[p] = poll[p] \/ poll'[p].st = "idle"
  PROVE  PollInv'
<1> SUFFICES ASSUME NEW p \in Polls, poll'[p] = poll[p], poll[p].st # "idle"
             PROVE  PollFits(poll[p])'
  BY DEF PollInv, PollFits
<1>1. PollFits(poll[p]) /\ poll[p].name \in Names
  BY DEF PollInv, Named
<1>2. Untouched(poll[p].name) => Untouched(poll[p].name)'
  BY DEF Untouched
<1> QED
  BY <1>1, <1>2 DEF PollFits, NobodyIs

\* When a registration or a rename completes, no poll of its name or of its
\* token is under way.
LEMMA PollsElsewhere ==
  ASSUME TypeOK, TypeOK', RegistryInv, WaitersWait, Named, PollsStay, PollsStay', PollInv,
         NEW c \in Calls, RegisterDone(c) \/ RenameDone(c),
         NEW p \in Polls, poll[p].st \in {"waiting", "job", "timeout"}
  PROVE  poll[p].name \notin Concerned(call[c]) /\ poll[p].token # call[c].token
<1> DEFINE n == call[c].name
           m == call[c].new
           t == call[c].token
           q == poll[p]
<1>1. Writes(call[c]) /\ CallFits(call[c])
  BY CallStands DEF RegisterDone, RenameDone, Writes
<1>2. /\ q.token \in Tokens /\ q.name \in Names /\ q' = q
      /\ PollFits(q) /\ tokens[q.token] \in {q.name, None} /\ tokens'[q.token] \in {q.name, None}
  BY DEF RegisterDone, RenameDone, WaitersWait, Named, PollInv, PollsStay
<1>3. tokens[q.token] = None => q.name \notin Concerned(call[c])
  BY <1>1, <1>2 DEF PollFits, Untouched
<1>4. CASE RegisterDone(c)
  <2>1. /\ n \in Names /\ t \in Tokens /\ NobodyIs(n) /\ tokens[t] = None
        /\ Concerned(call[c]) = {n} /\ tokens' = [tokens EXCEPT ![t] = n]
    BY <1>1, <1>4, CallStands DEF RegisterDone, CallFits, Enrolling, Renaming
  <2>2. q.token # t
    BY <1>2, <1>3, <2>1, NoneAssumption DEF TypeOK, RegistryTypes
  <2> QED
    BY <1>2, <1>3, <2>1, <2>2 DEF NobodyIs
<1>5. CASE RenameDone(c)
  <2>1. /\ n \in Names /\ m \in Names /\ m # n /\ t \in Tokens
        /\ OnlyIs(n, t) /\ NobodyIs(m)
        /\ Concerned(call[c]) = {n, m} /\ tokens' = [tokens EXCEPT ![t] = m]
    BY <1>1, <1>5, CallStands DEF RenameDone, CallFits, Enrolling, Renaming
  <2>2. q.token # t
    BY <1>2, <2>1, NoneAssumption DEF OnlyIs, TypeOK, RegistryTypes
  <2> QED
    BY <1>2, <1>3, <2>1, <2>2 DEF NobodyIs, OnlyIs
<1> QED
  BY <1>4, <1>5

LEMMA WriteDonePolls ==
  ASSUME TypeOK, TypeOK', RegistryInv, WaitersWait, Named, PollsStay, PollsStay', PollInv,
         NEW c \in Calls, RegisterDone(c) \/ RenameDone(c)
  PROVE  PollInv'
<1> DEFINE t == call[c].token
           K == Concerned(call[c])
<1>1. Writes(call[c])
  BY DEF RegisterDone, RenameDone, Writes
<1>2. /\ t \in Tokens /\ tokens'[t] \in K
      /\ \A s \in Tokens : s # t => tokens'[s] = tokens[s]
      /\ \A m \in Names : m \notin K => runtime'[m] = runtime[m]
      /\ \A d \in Calls : call'[d] = IF d = c THEN NoCall ELSE call[d]
      /\ poll' = poll
  <2>1. CASE RegisterDone(c)
    BY <1>1, <2>1, CallStands
    DEF RegisterDone, Renaming, TypeOK, RegistryTypes, RuntimeTypes, CallTypes
  <2>2. CASE RenameDone(c)
    BY <1>1, <2>2, CallStands
    DEF RenameDone, Renaming, TypeOK, RegistryTypes, RuntimeTypes, CallTypes
  <2> QED
    BY <2>1, <2>2
<1>3. ASSUME NEW p \in Polls, poll[p].st \in {"waiting", "job", "timeout"}
      PROVE  PollFits(poll[p])'
  <2>1. /\ poll[p].token \in Tokens \ {t} /\ poll[p].name \in Names \ K
        /\ PollFits(poll[p])
    BY <1>3, PollsElsewhere DEF WaitersWait, Named, PollInv
  <2>2. tokens'[poll[p].token] = tokens[poll[p].token]
        /\ runtime'[poll[p].name] = runtime[poll[p].name]
    BY <1>2, <2>1
  <2>3. NobodyIs(poll[p].name) => NobodyIs(poll[p].name)'
    BY <1>2, <2>1 DEF NobodyIs
  <2>4. Untouched(poll[p].name) => Untouched(poll[p].name)'
    BY <1>2 DEF Untouched, Writes, NoCall
  <2> QED
    BY <1>2, <2>1, <2>2, <2>3, <2>4 DEF PollFits
<1> QED
  BY <1>2, <1>3 DEF PollInv, PollFits

LEMMA RevokeDonePolls ==
  ASSUME TypeOK, TypeOK', RegistryInv, CallsApart, WaitersWait, Named, PollsStay,
         PollInv, NEW c \in Calls, RevokeDone(c)
  PROVE  PollInv'
<1> DEFINE t == call[c].token
<1>1. Writes(call[c]) /\ ~ Renaming(call[c]) /\ ~ Enrolling(call[c])
  BY DEF RevokeDone, Writes, Enrolling, Renaming
<1>n. PICK n \in Names : n = call[c].name
  BY <1>1, CallStands
<1>2. /\ n \in Names /\ t \in Tokens /\ Concerned(call[c]) = {n} /\ OnlyIs(n, t)
  BY <1>1, <1>n, CallStands DEF CallFits
<1>3. /\ \A s \in Tokens : tokens'[s] = IF s = t THEN None ELSE tokens[s]
      /\ \A x \in Names : x # n => runtime'[x] = runtime[x]
      /\ \A d \in Calls : call'[d] = IF d = c THEN NoCall ELSE call[d]
  BY <1>n, <1>2 DEF RevokeDone, Forget, TypeOK, RegistryTypes, RuntimeTypes, CallTypes
<1>4. NobodyIs(n)' /\ Untouched(n)'
  <2>1. NobodyIs(n)'
    BY <1>2, <1>3, NoneAssumption DEF NobodyIs, OnlyIs
  <2>2. \A d \in Calls : d # c /\ Writes(call[d]) => n \notin Concerned(call[d])
    BY <1>1, <1>2 DEF CallsApart
  <2> QED
    BY <1>3, <2>1, <2>2 DEF Untouched, Writes, NoCall
<1>5. ASSUME NEW p \in Polls, poll'[p].st \in {"waiting", "job", "timeout"}
      PROVE  PollFits(poll[p])'
  <2> DEFINE q == poll[p]
  <2>0. /\ q' = q /\ q.st \in {"waiting", "job", "timeout"}
        /\ q.st = "waiting" => runtime[n] = 0 \/ q.rt # runtime[n]
    BY <1>n, <1>5, RevokedPolls DEF TypeOK, WaiterTypes
  <2>1. q.token \in Tokens /\ q.name \in Names
    BY <2>0 DEF WaitersWait, Named
  <2>2. PollFits(q) /\ tokens[q.token] \in {q.name, None}
    BY <2>0, <2>1 DEF PollInv, PollsStay
  <2>3. CASE q.token = t
    <3>1. q.name = n /\ tokens[q.token] # None
      BY <1>2, <2>1, <2>2, <2>3, NoneAssumption DEF OnlyIs
    <3>2. q.st # "waiting"
      BY <2>0, <2>2, <3>1 DEF PollFits
    <3> QED
      BY <1>3, <1>4, <2>0, <2>1, <2>3, <3>1, <3>2 DEF PollFits
  <2>4. CASE q.token # t /\ tokens[q.token] = None
    <3>1. q.st # "waiting" /\ NobodyIs(q.name) /\ Untouched(q.name)
      BY <2>0, <2>2, <2>4 DEF PollFits
    <3>2. NobodyIs(q.name)' /\ Untouched(q.name)'
      BY <1>3, <2>0, <2>1, <3>1, NoneAssumption DEF NobodyIs, Untouched, Writes, NoCall
    <3> QED
      BY <1>3, <2>0, <2>1, <2>4, <3>1, <3>2 DEF PollFits
  <2>5. CASE q.token # t /\ tokens[q.token] # None
    <3>1. q.name # n /\ tokens'[q.token] = tokens[q.token]
      BY <1>2, <1>3, <2>1, <2>2, <2>5 DEF OnlyIs
    <3>2. runtime'[q.name] = runtime[q.name]
      BY <1>3, <2>1, <3>1
    <3> QED
      BY <2>0, <2>2, <2>5, <3>1, <3>2 DEF PollFits
  <2> HIDE DEF q
  <2> QED
    BY <2>3, <2>4, <2>5 DEF q
<1> QED
  BY <1>5 DEF PollInv, PollFits

LEMMA PollStep ==
  ASSUME TypeOK, TypeOK', WaitersWait, RegistryInv, CallsApart, Named, ObjectInv, PollsStay,
         PollsStay', PollInv, [Next]_vars
  PROVE  PollInv'
<1>1. ASSUME NEW c \in Calls, StorageStep(c) PROVE PollInv'
  <2>1. CASE RegisterDone(c) \/ RenameDone(c) \/ RevokeDone(c)
    BY <2>1, WriteDonePolls, RevokeDonePolls
  <2>2. CASE ~ (RegisterDone(c) \/ RenameDone(c) \/ RevokeDone(c))
    <3>1. UNCHANGED <<tokens, poll>>
      BY <1>1, <2>2 DEF StorageStep, RegisterPut, RenamePut, RenameDelete, RenameUndo,
        RevokeDelete, StorageFails, ResumeUpdate, ResumeDone, Commit, storageFrame,
        registryVars
    <3>2. \A n \in Names : runtime[n] # 0 => runtime'[n] = runtime[n]
      <4>1. CASE ResumeDone(c)
        <5>1. Intern(call[c].name) /\ call[c].name \in Names
          BY <4>1 DEF ResumeDone, MarkSeen, Named
        <5> QED
          BY <5>1, InternObjects
      <4>2. CASE ~ ResumeDone(c)
        BY <1>1, <2>2, <4>2 DEF StorageStep, RegisterPut, RenamePut, RenameDelete,
          RenameUndo, RevokeDelete, StorageFails, ResumeUpdate, Commit, storageFrame,
          runtimeVars
      <4> QED
        BY <4>1, <4>2
    <3>3. ASSUME NEW d \in Calls, Writes(call'[d])
          PROVE  Writes(call[d]) /\ Concerned(call'[d]) = Concerned(call[d])
      BY <1>1, <2>2, <3>3 DEF StorageStep, RegisterPut, RenamePut, RenameDelete, RenameUndo,
        RevokeDelete, StorageFails, ResumeUpdate, ResumeDone, Commit, Writes, Concerned,
        NoCall, TypeOK, CallTypes
    <3> QED
      BY <3>1, <3>2, <3>3, QuietPolls
  <2> QED
    BY <2>1, <2>2
<1>2. ASSUME NEW c \in Calls, NEW old \in Names, NEW new \in Names, Rename(c, old, new)
      PROVE  PollInv'
  <2>1. NextTask /\ UNCHANGED <<tokens, poll>> /\ Intern(old)
    BY <1>2 DEF Rename, registryVars
  <2> QED
    BY <2>1, InternObjects, TaskPolls
<1>3. ASSUME NEW p \in Polls, NEW t \in Tokens, NEW n \in Names, Poll(p, t, n)
      PROVE  PollInv'
  <2>1. NextTask /\ UNCHANGED tokens /\ Intern(n) /\ tokens[t] = n
    BY <1>3 DEF Poll, MarkSeen, WorkerForToken, pollFrame, protocolFrame, registryVars
  <2>2. /\ \A m \in Names : runtime[m] # 0 => runtime'[m] = runtime[m]
        /\ runtime'[n] = RuntimeFor(n) /\ RuntimeFor(n) # 0
    BY <2>1, InternObjects DEF Rts
  <2>3. \A x \in Polls : \/ poll'[x] = poll[x]
                         \/ /\ poll'[x].token = t
                            /\ poll'[x].rt = RuntimeFor(n) /\ poll'[x].name = n
    BY <1>3 DEF Poll, TypeOK, WaiterTypes
  <2> QED
    BY <2>1, <2>2, <2>3, TaskPolls, NoneAssumption
<1>4. ASSUME NEW p \in Polls, PollResume(p) PROVE PollInv'
  <2>1. /\ UNCHANGED <<tokens, call>> /\ Intern(poll[p].name) /\ poll[p].name \in Names
        /\ \A x \in Polls : poll'[x] = poll[x] \/ poll'[x].st = "idle"
    BY <1>4 DEF PollResume, MarkSeen, NoPoll, pollFrame, protocolFrame, registryVars, Named,
      TypeOK, WaiterTypes
  <2>2. \A m \in Names : runtime[m] # 0 => runtime'[m] = runtime[m]
    BY <2>1, InternObjects
  <2> QED
    BY <2>1, <2>2, QuietPolls
<1>5. ASSUME NEW p \in Polls, PollTimeout(p) PROVE PollInv'
  <2>1. NextTask /\ UNCHANGED <<tokens, runtime>>
    BY <1>5 DEF PollTimeout, protocolFrame, registryVars, runtimeVars
  <2>2. \A x \in Polls : \/ poll'[x] = poll[x]
                         \/ poll[x].st = "waiting" /\ poll'[x] = [poll[x] EXCEPT !.st = "timeout"]
    BY <1>5 DEF PollTimeout, TypeOK, WaiterTypes
  <2> QED
    BY <2>1, <2>2, TaskPolls DEF TypeOK, WaiterTypes
<1>6. ASSUME NEW j \in Jobs, NEW n \in Names, NEW aborted \in BOOLEAN,
             Dispatch(j, n, aborted)
      PROVE  PollInv'
  <2>1. /\ NextTask /\ UNCHANGED <<tokens, runtime>>
        /\ WakeWorker(runtime[n]) /\ runtime[n] \in Rts
    BY <1>6 DEF Dispatch, protocolFrame, registryVars, runtimeVars, TypeOK, RuntimeTypes
  <2>2. \A x \in Polls : \/ poll'[x] = poll[x]
                         \/ poll[x].st = "waiting" /\ poll'[x] = [poll[x] EXCEPT !.st = "job"]
    BY <2>1, WokenPoll
  <2> QED
    BY <2>1, <2>2, TaskPolls DEF TypeOK, WaiterTypes
<1>7. ASSUME NEW t \in Tokens, NEW n \in Names,
             \/ Heartbeat(t, n)
             \/ \E j \in Jobs, kind \in ResultKinds : SubmitResult(t, n, j, kind)
      PROVE  PollInv'
  <2>1. NextTask /\ UNCHANGED <<tokens, poll>> /\ Intern(n)
    BY <1>7 DEF Heartbeat, SubmitResult, MarkSeen, protocolFrame, registryVars
  <2> QED
    BY <2>1, InternObjects, TaskPolls
<1>8. ASSUME NextTask /\ UNCHANGED <<tokens, poll, runtime>> PROVE PollInv'
  BY <1>8, TaskPolls
<1>9. CASE Restart
  BY <1>9 DEF Restart, NoPoll, PollInv, PollFits
<1>10. CASE UNCHANGED vars
  BY <1>10, QuietPolls DEF vars, registryVars, runtimeVars
<1>11. ASSUME NEW c \in Calls,
              \/ \E i \in Invites, n \in Names, t \in Tokens : Register(c, i, n, t)
              \/ \E t \in Tokens, n \in Names : Resume(c, t, n)
              \/ \E n \in Names : Revoke(c, n)
       PROVE  PollInv'
  BY <1>8, <1>11 DEF Register, Resume, Revoke, storageFrame, registryVars, runtimeVars
<1>12. ASSUME \/ \E i \in Invites, n \in Names \cup {None} : CreateInvite(i, n)
              \/ \E i \in Invites : ExpireInvite(i)
              \/ \E r \in Rts : GoOffline(r)
              \/ \E j \in Jobs : Abort(j) \/ Expire(j) \/ EndGrace(j)
       PROVE  PollInv'
  BY <1>8, <1>12 DEF CreateInvite, ExpireInvite, GoOffline, Abort, Expire, EndGrace,
    cancelFrame, protocolFrame, registryVars, runtimeVars
<1> QED
  BY <1>1, <1>2, <1>3, <1>4, <1>5, <1>6, <1>7, <1>9, <1>10, <1>11, <1>12 DEF Next, JobStep

-----------------------------------------------------------------------------
(* Who holds a claimed job: the worker it was dispatched to *)

\* A live job queued where polls of a name look was dispatched to that name.
LEMMA QueuedForName ==
  ASSUME TypeOK, ObjectInv, NEW n \in Names, RuntimeFor(n) \in Rts, NEW j \in pending,
         j \in ToSet(queue[RuntimeFor(n)])
  PROVE  runtime[n] # 0 /\ RuntimeFor(n) = runtime[n] /\ machine[j] = n
<1>1. runtime[n] # 0
  <2>1. ASSUME runtime[n] = 0 PROVE FALSE
    <3>1. RuntimeFor(n) = nextRt /\ nextRt \in Nat
      BY <2>1, BoundsAssumption DEF RuntimeFor, TypeOK, RuntimeTypes
    <3> QED
      BY <3>1 DEF ObjectInv
  <2> QED
    BY <2>1
<1>2. RuntimeFor(n) = runtime[n]
  BY <1>1 DEF RuntimeFor
<1> QED
  BY <1>1, <1>2 DEF ObjectInv

\* Nothing is pending for a name that is nobody's and that no call concerns.
LEMMA NothingForNobody ==
  ASSUME TypeOK, AnswerInv, NEW n \in Names, NobodyIs(n), Untouched(n), NEW j \in pending
  PROVE  machine[j] # n
<1>1. target[j] \in Tokens /\ machine[j] \in Names /\ Belongs(j)
  BY DEF AnswerInv
<1> QED
  BY <1>1, NoneAssumption DEF Belongs, NobodyIs, Untouched, Writes, Concerned

LEMMA TakenByTarget ==
  ASSUME TypeOK, RegistryInv, AnswerInv, ObjectInv, HolderInv, up = "up",
         NEW n \in Names, NEW t \in Tokens, RuntimeFor(n) \in Rts,
         TakeQueued(RuntimeFor(n), t) \/ NothingQueued(RuntimeFor(n)),
         tokens[t] = n \/ (NobodyIs(n) /\ Untouched(n)),
         UNCHANGED <<pending, target>>
  PROVE  HolderInv'
<1>1. CASE NothingQueued(RuntimeFor(n))
  BY <1>1 DEF NothingQueued, HolderInv
<1>2. CASE TakeQueued(RuntimeFor(n), t)
  <2>1. PICK i \in DOMAIN queue[RuntimeFor(n)] :
          /\ Live(queue[RuntimeFor(n)][i])
          /\ claimed' = claimed \cup {queue[RuntimeFor(n)][i]}
          /\ holder' = [holder EXCEPT ![queue[RuntimeFor(n)][i]] = t]
    BY <1>2 DEF TakeQueued
  <2>2. PICK j \in pending : j = queue[RuntimeFor(n)][i]
    BY <2>1 DEF Live
  <2>3. machine[j] = n
    BY <2>2, QueuedForName DEF ToSet
  <2>4. tokens[t] = n
    BY <2>3, NothingForNobody
  <2>5. target[j] = t
    BY <2>3, <2>4, RightMachine
  <2>6. ASSUME NEW k \in pending' \cap claimed' PROVE holder'[k] = target'[k]
    BY <2>1, <2>2, <2>5 DEF HolderInv, TypeOK, HandTypes, PendingTypes
  <2> QED
    BY <2>6 DEF HolderInv
<1> QED
  BY <1>1, <1>2

LEMMA HolderStep ==
  ASSUME TypeOK, TypeOK', WaitersWait, JobInv, RegistryInv, AnswerInv, Named, ObjectInv,
         PollsStay, PollInv, HolderInv, [Next]_vars
  PROVE  HolderInv'
<1>1. ASSUME NEW p \in Polls, NEW t \in Tokens, NEW n \in Names, Poll(p, t, n)
      PROVE  HolderInv'
  <2>1. /\ up = "up" /\ tokens[t] = n /\ RuntimeFor(n) \in Rts
        /\ TakeQueued(RuntimeFor(n), t) \/ NothingQueued(RuntimeFor(n))
        /\ UNCHANGED <<pending, target>>
    BY <1>1 DEF Poll, NextTask, MarkSeen, Intern, WorkerForToken, pollFrame, pendingVars
  <2> QED
    BY <2>1, TakenByTarget
<1>2. ASSUME NEW p \in Polls, PollResume(p) PROVE HolderInv'
  <2> DEFINE n == poll[p].name
             t == poll[p].token
  <2>1. /\ up = "up" /\ n \in Names /\ t \in Tokens /\ RuntimeFor(n) \in Rts
        /\ UNCHANGED <<pending, target>>
    BY <1>2 DEF PollResume, MarkSeen, Intern, pollFrame, pendingVars, Named, WaitersWait
  <2>2. CASE poll[p].st = "revoked"
    BY <1>2, <2>1, <2>2 DEF PollResume, HolderInv
  <2>3. CASE poll[p].st \in {"job", "timeout"}
    <3>1. TakeQueued(RuntimeFor(n), t) \/ NothingQueued(RuntimeFor(n))
      BY <1>2, <2>3 DEF PollResume
    <3>2. tokens[t] = n \/ (NobodyIs(n) /\ Untouched(n))
      BY <2>3 DEF PollsStay, PollInv, PollFits
    <3> HIDE DEF n, t
    <3> QED
      BY <2>1, <3>1, <3>2, TakenByTarget
  <2> QED
    BY <1>2, <2>2, <2>3 DEF PollResume
<1>3. ASSUME NEW j \in Jobs, NEW n \in Names, NEW aborted \in BOOLEAN,
             Dispatch(j, n, aborted)
      PROVE  HolderInv'
  <2>1. j \notin claimed
    BY <1>3 DEF Dispatch, JobInv, JobBookkeeping
  <2> QED
    BY <1>3, <2>1 DEF Dispatch, HolderInv, TypeOK, PendingTypes, CallerTypes
<1>4. CASE Restart
  BY <1>4 DEF Restart, HolderInv
<1>5. ASSUME pending' \subseteq pending /\ UNCHANGED <<claimed, holder, target>>
      PROVE  HolderInv'
  BY <1>5 DEF HolderInv
<1>6. ASSUME NEW c \in Calls,
             \/ \E i \in Invites, n \in Names, t \in Tokens : Register(c, i, n, t)
             \/ \E t \in Tokens, n \in Names : Resume(c, t, n)
             \/ \E old, new \in Names : Rename(c, old, new)
             \/ \E n \in Names : Revoke(c, n)
      PROVE  HolderInv'
  BY <1>5, <1>6 DEF Register, Resume, Rename, Revoke, storageFrame, jobVars, pendingVars
<1>7. ASSUME NEW c \in Calls, StorageStep(c) PROVE HolderInv'
  BY <1>5, <1>7 DEF StorageStep, RegisterPut, RegisterDone, ResumeUpdate, ResumeDone,
    RenamePut, RenameDelete, RenameUndo, RenameDone, RevokeDelete, RevokeDone, DropPending,
    StorageFails, Commit, storageFrame, jobVars, pendingVars
<1>8. ASSUME NEW j \in Jobs,
             \/ \E t \in Tokens, n \in Names, kind \in ResultKinds : SubmitResult(t, n, j, kind)
             \/ Abort(j) \/ Expire(j) \/ EndGrace(j)
      PROVE  HolderInv'
  BY <1>5, <1>8 DEF SubmitResult, Abort, Expire, EndGrace, Cancel, Withdraw, cancelFrame
<1>9. ASSUME \/ \E i \in Invites, n \in Names \cup {None} : CreateInvite(i, n)
             \/ \E i \in Invites : ExpireInvite(i)
             \/ \E p \in Polls : PollTimeout(p)
             \/ \E t \in Tokens, n \in Names : Heartbeat(t, n)
             \/ \E r \in Rts : GoOffline(r)
             \/ UNCHANGED vars
      PROVE  HolderInv'
  BY <1>5, <1>9 DEF CreateInvite, ExpireInvite, PollTimeout, Heartbeat, GoOffline, vars,
    jobVars, pendingVars
<1> QED
  BY <1>1, <1>2, <1>3, <1>4, <1>6, <1>7, <1>8, <1>9 DEF Next, JobStep

-----------------------------------------------------------------------------
(* Wake-ups: a waiting poll never overlooks a live job *)

LEMMA LiveShrinks ==
  ASSUME Shrinks, pending' \subseteq pending, cancelled \subseteq cancelled', NEW r \in Rts
  PROVE  LiveIn(r)' \subseteq LiveIn(r)
BY DEF Shrinks, LiveIn, Live

\* Between tasks no woken poll is left, so waiters exclude live jobs.
LEMMA NothingOverlooked ==
  ASSUME WakeInv, NextTask, NEW r \in Rts, waiters[r] # <<>>
  PROVE  LiveIn(r) = {}
<1>1. \A p \in Polls : poll[p].st # "job"
  BY DEF NextTask
<1> QED
  BY <1>1 DEF WakeInv, Attended

\* A task that adds no live job and no waiter.
LEMMA TaskAttended ==
  ASSUME WakeInv, NextTask, Shrinks, pending' \subseteq pending, cancelled \subseteq cancelled',
         \A r \in Rts : waiters'[r] # <<>> => waiters[r] # <<>>
  PROVE  WakeInv'
<1> SUFFICES ASSUME NEW r \in Rts, waiters'[r] # <<>> PROVE LiveIn(r)' = {}
  BY DEF WakeInv, Attended
<1> QED
  BY NothingOverlooked, LiveShrinks

\* A continuation that adds neither, and lets woken polls be.
LEMMA StepAttended ==
  ASSUME WakeInv, Shrinks, pending' \subseteq pending, cancelled \subseteq cancelled',
         NEW r \in Rts, waiters'[r] # <<>> => waiters[r] # <<>>,
         \A p \in Polls : poll[p].st = "job" /\ runtime[poll[p].name] = r =>
           poll'[p] = poll[p] /\ runtime'[poll[p].name] = r
  PROVE  Attended(r)'
<1> SUFFICES ASSUME waiters'[r] # <<>>, NEW j \in LiveIn(r)'
             PROVE  /\ LiveIn(r)' = {j}
                    /\ \E p \in Polls : poll'[p].st = "job" /\ runtime'[poll'[p].name] = r
  BY DEF Attended
<1>1. LiveIn(r)' \subseteq LiveIn(r)
  BY LiveShrinks
<1>2. /\ LiveIn(r) = {j}
      /\ \E p \in Polls : poll[p].st = "job" /\ runtime[poll[p].name] = r
  BY <1>1 DEF WakeInv, Attended
<1> QED
  BY <1>1, <1>2

LEMMA DispatchAttended ==
  ASSUME TypeOK, TypeOK', WaitersWait, JobInv, Named, PollInv, WakeInv, NEW j \in Jobs,
         NEW n \in Names, NEW aborted \in BOOLEAN, Dispatch(j, n, aborted)
  PROVE  WakeInv'
<1> DEFINE r == runtime[n]
<1>1. /\ NextTask /\ r \in Rts /\ WakeWorker(r) /\ runtime' = runtime
      /\ cancelled \subseteq cancelled' /\ pending' \subseteq pending \cup {j}
  BY DEF Dispatch, runtimeVars, TypeOK, RuntimeTypes
<1>2. \A x \in Rts : LiveIn(x)' \subseteq LiveIn(x) \cup (IF x = r THEN {j} ELSE {})
  <2>1. \A x \in Rts : ToSet(queue'[x]) \subseteq ToSet(queue[x]) \cup (IF x = r THEN {j} ELSE {})
    BY DispatchQueues
  <2>2. \A x \in Rts : j \notin ToSet(queue[x])
    BY DEF Dispatch, JobInv, QueueHoldsOpenJobs, ToSet
  <2> QED
    BY <1>1, <2>1, <2>2 DEF LiveIn, Live
<1>3. ASSUME NEW x \in Rts, waiters'[x] # <<>> PROVE waiters[x] # <<>>
  <2>1. waiters[x] \in Seq(Polls)
    BY DEF TypeOK, WaiterTypes
  <2> QED
    BY <1>1, <1>3, <2>1 DEF WakeWorker, TypeOK, WaiterTypes
<1>4. ASSUME NEW x \in Rts, waiters'[x] # <<>>, NEW k \in LiveIn(x)'
      PROVE  /\ LiveIn(x)' = {k}
             /\ \E p \in Polls : poll'[p].st = "job" /\ runtime'[poll'[p].name] = x
  <2>1. LiveIn(x) = {}
    BY <1>1, <1>3, <1>4, NothingOverlooked
  <2>2. x = r /\ LiveIn(x)' = {k}
    BY <1>2, <1>4, <2>1
  <2>3. waiters[r] # <<>> /\ waiters[r] \in Seq(Polls)
    BY <1>3, <1>4, <2>2 DEF TypeOK, WaiterTypes
  <2>4. 1 \in DOMAIN waiters[r] /\ Head(waiters[r]) = waiters[r][1] /\ Head(waiters[r]) \in Polls
    BY <2>3, EmptySeq, LenProperties, HeadTailProperties
  <2>5. PICK p \in Polls : p = Head(waiters[r])
    BY <2>4
  <2>6. poll[p].st = "waiting" /\ poll[p].rt = r
    BY <1>1, <2>4, <2>5 DEF WaitersWait
  <2>7. runtime[poll[p].name] = r
    BY <2>6 DEF PollInv, PollFits
  <2>8. poll'[p].st = "job" /\ poll'[p].name = poll[p].name
    <3>1. poll' = [poll EXCEPT ![p].st = "job"]
      BY <1>1, <2>3, <2>5 DEF WakeWorker
    <3> QED
      BY <3>1 DEF TypeOK, WaiterTypes
  <2> QED
    BY <1>1, <2>2, <2>7, <2>8
<1> HIDE DEF r
<1> QED
  BY <1>4 DEF WakeInv, Attended

LEMMA PollAttended ==
  ASSUME TypeOK, TypeOK', WakeInv, NEW p \in Polls, NEW t \in Tokens, NEW n \in Names,
         Poll(p, t, n)
  PROVE  WakeInv'
<1>r. PICK r \in Rts : r = RuntimeFor(n)
  BY DEF Poll, MarkSeen, Intern
<1>1. /\ NextTask /\ r \in Rts /\ UNCHANGED <<pending, cancelled>>
      /\ \/ TakeQueued(r, t) /\ UNCHANGED waiters
         \/ NothingQueued(r) /\ waiters' = [waiters EXCEPT ![r] = Append(@, p)]
  BY <1>r DEF Poll, pollFrame, pendingVars
<1>2. Shrinks
  BY <1>1, TakeShrinks
<1>3. CASE TakeQueued(r, t) /\ UNCHANGED waiters
  BY <1>1, <1>2, <1>3, TaskAttended
<1>4. CASE NothingQueued(r) /\ waiters' = [waiters EXCEPT ![r] = Append(@, p)]
  <2>1. queue'[r] = <<>> /\ \A x \in Rts : x # r => waiters'[x] = waiters[x]
    BY <1>1, <1>4 DEF NothingQueued, TypeOK, QueueTypes, WaiterTypes
  <2>2. LiveIn(r)' = {}
    BY <2>1 DEF LiveIn, ToSet
  <2>3. ASSUME NEW x \in Rts, x # r, waiters'[x] # <<>> PROVE LiveIn(x)' = {}
    BY <1>1, <1>2, <2>1, <2>3, NothingOverlooked, LiveShrinks
  <2> QED
    BY <2>2, <2>3 DEF WakeInv, Attended
<1> QED
  BY <1>1, <1>3, <1>4

LEMMA PollResumeAttended ==
  ASSUME TypeOK, TypeOK', JobInv', Named, ObjectInv, WakeInv, NEW p \in Polls, PollResume(p)
  PROVE  WakeInv'
<1>r. PICK r \in Rts : r = RuntimeFor(poll[p].name)
  BY DEF PollResume, MarkSeen, Intern
<1>1. /\ poll[p].name \in Names /\ Intern(poll[p].name) /\ r \in Rts
      /\ UNCHANGED <<pending, cancelled, waiters>>
      /\ \A x \in Polls : x # p => poll'[x] = poll[x]
      /\ poll[p].st \in {"job", "timeout", "revoked"}
      /\ \/ poll[p].st = "revoked" /\ UNCHANGED queue
         \/ TakeQueued(r, poll[p].token) \/ NothingQueued(r)
  BY <1>r DEF PollResume, MarkSeen, pollFrame, pendingVars, Named, TypeOK, WaiterTypes
<1>2. /\ \A m \in Names : runtime[m] # 0 => runtime'[m] = runtime[m]
      /\ runtime[poll[p].name] # 0 => r = runtime[poll[p].name]
  BY <1>r, <1>1, InternObjects
<1>3. Shrinks
  BY <1>1, TakeShrinks DEF Shrinks
<1>4. ASSUME NEW x \in Rts, x # r \/ poll[p].st = "revoked" PROVE Attended(x)'
  <2>1. x # 0
    BY DEF Rts
  <2>2. ASSUME NEW y \in Polls, poll[y].st = "job", runtime[poll[y].name] = x
        PROVE  poll'[y] = poll[y] /\ runtime'[poll[y].name] = x
    <3>1. y # p
      BY <1>2, <1>4, <2>1, <2>2
    <3>2. poll[y].name \in Names
      BY <2>2 DEF Named
    <3> QED
      BY <1>1, <1>2, <2>1, <2>2, <3>1, <3>2
  <2> QED
    BY <1>1, <1>3, <2>2, StepAttended
<1>5. ASSUME waiters'[r] # <<>>, poll[p].st # "revoked" PROVE LiveIn(r)' = {}
  <2>1. CASE NothingQueued(r)
    <3>1. queue'[r] = <<>>
      BY <1>1, <2>1 DEF NothingQueued, TypeOK, QueueTypes
    <3> QED
      BY <3>1 DEF LiveIn, ToSet
  <2>2. CASE TakeQueued(r, poll[p].token)
    <3>1. PICK i \in DOMAIN queue[r] : Live(queue[r][i]) /\ queue[r][i] \in claimed'
      BY <2>2 DEF TakeQueued
    <3>2. LiveIn(r) = {queue[r][i]}
      BY <1>1, <1>5, <3>1 DEF WakeInv, Attended, LiveIn, ToSet
    <3>3. queue[r][i] \notin ToSet(queue'[r])
      BY <1>1, <3>1 DEF JobInv, QueueHoldsOpenJobs, ToSet
    <3>4. LiveIn(r)' \subseteq LiveIn(r)
      BY <1>1, <1>3, LiveShrinks
    <3> QED
      BY <3>2, <3>3, <3>4 DEF LiveIn
  <2> QED
    BY <1>1, <1>5, <2>1, <2>2
<1> QED
  BY <1>1, <1>4, <1>5 DEF WakeInv, Attended

LEMMA WriteDoneAttended ==
  ASSUME TypeOK, TypeOK', RegistryInv, CallsApart, WaitersWait, Named, PollsStay, PollsStay',
         PollInv, WakeInv, NEW c \in Calls,
         RegisterDone(c) \/ RenameDone(c) \/ RevokeDone(c)
  PROVE  WakeInv'
<1>1. Writes(call[c])
  BY DEF RegisterDone, RenameDone, RevokeDone, Writes
<1>2. Shrinks /\ pending' \subseteq pending /\ UNCHANGED cancelled
  BY DEF RegisterDone, RenameDone, RevokeDone, DropPending, Shrinks, queueVars, jobVars,
    pendingVars
<1>3. SUFFICES ASSUME NEW r \in Rts, waiters'[r] # <<>>
               PROVE  Attended(r)'
  BY DEF WakeInv, Attended
<1>4. CASE RegisterDone(c) \/ RenameDone(c)
  <2>1. UNCHANGED <<waiters, poll>>
    BY <1>4 DEF RegisterDone, RenameDone, queueVars
  <2>2. ASSUME NEW p \in Polls, poll[p].st = "job" PROVE runtime'[poll[p].name] = runtime[poll[p].name]
    <3>1. poll[p].name \in Names \ Concerned(call[c])
      BY <1>4, <2>2, PollsElsewhere DEF Named
    <3>2. {call[c].name, call[c].new} \cap Names \subseteq Concerned(call[c])
      BY NoneAssumption DEF Concerned
    <3> QED
      BY <1>4, <3>1, <3>2 DEF RegisterDone, RenameDone, TypeOK, RuntimeTypes
  <2> QED
    BY <1>2, <2>1, <2>2, StepAttended
<1>5. CASE RevokeDone(c)
  <2>1. /\ call[c].name \in Names /\ runtime[call[c].name] # r /\ waiters'[r] = waiters[r]
        /\ runtime' = [runtime EXCEPT ![call[c].name] = 0]
    BY <1>1, <1>3, <1>5, CallStands DEF RevokeDone, TypeOK, WaiterTypes
  <2>2. ASSUME NEW p \in Polls, poll[p].st = "job", runtime[poll[p].name] = r
        PROVE  poll'[p] = poll[p] /\ runtime'[poll[p].name] = r
    <3>1. poll'[p] = poll[p]
      BY <1>5, <2>2, RevokedPolls
    <3>2. poll[p].name \in Names
      BY <2>2 DEF Named
    <3> QED
      BY <2>1, <2>2, <3>1, <3>2 DEF TypeOK, RuntimeTypes
  <2> QED
    BY <1>2, <2>1, <2>2, StepAttended
<1> QED
  BY <1>4, <1>5

LEMMA WakeStep ==
  ASSUME TypeOK, TypeOK', WaitersWait, JobInv, JobInv', RegistryInv, CallsApart, Named,
         ObjectInv, PollsStay, PollsStay', PollInv, WakeInv, [Next]_vars
  PROVE  WakeInv'
<1>1. ASSUME NEW c \in Calls, StorageStep(c) PROVE WakeInv'
  <2>1. CASE RegisterDone(c) \/ RenameDone(c) \/ RevokeDone(c)
    BY <2>1, WriteDoneAttended
  <2>2. CASE ~ (RegisterDone(c) \/ RenameDone(c) \/ RevokeDone(c))
    <3>1. UNCHANGED <<queue, waiters, poll, pending, cancelled>>
      BY <1>1, <2>2 DEF StorageStep, RegisterPut, RenamePut, RenameDelete, RenameUndo,
        RevokeDelete, StorageFails, ResumeUpdate, ResumeDone, Commit, storageFrame,
        queueVars, jobVars, pendingVars
    <3>2. \A n \in Names : runtime[n] # 0 => runtime'[n] = runtime[n]
      <4>1. CASE ResumeDone(c)
        <5>1. Intern(call[c].name) /\ call[c].name \in Names
          BY <4>1 DEF ResumeDone, MarkSeen, Named
        <5> QED
          BY <5>1, InternObjects
      <4>2. CASE ~ ResumeDone(c)
        BY <1>1, <2>2, <4>2 DEF StorageStep, RegisterPut, RenamePut, RenameDelete,
          RenameUndo, RevokeDelete, StorageFails, ResumeUpdate, Commit, storageFrame,
          runtimeVars
      <4> QED
        BY <4>1, <4>2
    <3>3. Shrinks
      BY <3>1 DEF Shrinks
    <3>4. ASSUME NEW r \in Rts PROVE Attended(r)'
      <4>1. \A p \in Polls : poll[p].st = "job" /\ runtime[poll[p].name] = r =>
              runtime'[poll[p].name] = r
        BY <3>2 DEF Named, Rts
      <4> QED
        BY <3>1, <3>3, <4>1, StepAttended
    <3> QED
      BY <3>4 DEF WakeInv
  <2> QED
    BY <2>1, <2>2
<1>2. ASSUME NextTask, UNCHANGED queue \/ Shrinks, pending' \subseteq pending,
             cancelled \subseteq cancelled',
             \A r \in Rts : waiters'[r] # <<>> => waiters[r] # <<>>
      PROVE  WakeInv'
  BY <1>2, TaskAttended DEF Shrinks
<1>3. ASSUME NEW c \in Calls,
             \/ \E i \in Invites, n \in Names, t \in Tokens : Register(c, i, n, t)
             \/ \E t \in Tokens, n \in Names : Resume(c, t, n)
             \/ \E old, new \in Names : Rename(c, old, new)
             \/ \E n \in Names : Revoke(c, n)
      PROVE  WakeInv'
  BY <1>2, <1>3 DEF Register, Resume, Rename, Revoke, storageFrame, queueVars, jobVars,
    pendingVars
<1>4. ASSUME NEW p \in Polls, PollTimeout(p) PROVE WakeInv'
  <2>1. NextTask /\ UNCHANGED <<queue, pending, cancelled>>
    BY <1>4 DEF PollTimeout, jobVars, pendingVars
  <2>2. ASSUME NEW r \in Rts, waiters[r] = <<>> PROVE waiters'[r] = <<>>
    <3>1. waiters[r] \in Seq(Polls) /\ DOMAIN waiters[r] = {}
      BY <2>2 DEF TypeOK, WaiterTypes
    <3>2. Spliced(waiters[r], p) = waiters[r]
      BY <3>1 DEF Spliced
    <3> QED
      BY <1>4, <2>2, <3>2 DEF PollTimeout, TypeOK, WaiterTypes
  <2> QED
    BY <1>2, <2>1, <2>2
<1>5. ASSUME NEW j \in Jobs, Abort(j) \/ Expire(j) \/ EndGrace(j) PROVE WakeInv'
  <2>1. NextTask /\ UNCHANGED waiters
    BY <1>5 DEF Abort, Expire, EndGrace, cancelFrame
  <2>2. \/ Cancel(j)
        \/ UNCHANGED <<queue, cancelled>> /\ pending' \subseteq pending
    BY <1>5 DEF Abort, Expire, EndGrace
  <2>3. Cancel(j) => cancelled \subseteq cancelled'
    BY DEF Cancel
  <2> QED
    BY <1>2, <2>1, <2>2, <2>3, CancelShrinks
<1>6. ASSUME \/ \E i \in Invites, n \in Names \cup {None} : CreateInvite(i, n)
             \/ \E i \in Invites : ExpireInvite(i)
             \/ \E t \in Tokens, n \in Names : Heartbeat(t, n)
             \/ \E r \in Rts : GoOffline(r)
             \/ \E j \in Jobs, t \in Tokens, n \in Names, kind \in ResultKinds :
                  SubmitResult(t, n, j, kind)
      PROVE  WakeInv'
  BY <1>2, <1>6 DEF CreateInvite, ExpireInvite, Heartbeat, GoOffline, SubmitResult,
    queueVars, jobVars, pendingVars
<1>7. CASE Restart
  BY <1>7 DEF Restart, WakeInv, Attended
<1>8. CASE UNCHANGED vars
  BY <1>8 DEF vars, queueVars, jobVars, pendingVars, runtimeVars, WakeInv, Attended, LiveIn,
    Live
<1>9. ASSUME NEW p \in Polls, PollResume(p) PROVE WakeInv'
  BY <1>9, PollResumeAttended
<1> QED
  BY <1>1, <1>3, <1>4, <1>5, <1>6, <1>7, <1>8, <1>9, PollAttended, DispatchAttended
  DEF Next, JobStep

-----------------------------------------------------------------------------
(* What they promise *)

LEMMA DeliveryInitial == Init => ObjectInv /\ PollInv /\ HolderInv /\ WakeInv
<1> SUFFICES ASSUME Init PROVE ObjectInv /\ PollInv /\ HolderInv /\ WakeInv
  OBVIOUS
<1>1. ObjectInv
  BY DEF Init, ObjectInv, NoCall, Renaming, ToSet
<1> QED
  BY <1>1 DEF Init, NoPoll, PollInv, PollFits, HolderInv, WakeInv, Attended

LEMMA DeliveryHolds ==
  Spec /\ [](CallsApart /\ NothingUndone /\ PollsStay)
    => [](TypeOK /\ AnswerInv /\ PollInv /\ HolderInv /\ WakeInv)
<1> DEFINE Known == TypeOK /\ WaitersWait /\ JobInv /\ Named /\ RegistryInv /\ AnswerInv
           Apart == CallsApart /\ NothingUndone /\ PollsStay
           Kept == ObjectInv /\ PollInv /\ HolderInv /\ WakeInv
<1>1. Spec /\ []Apart => []Known
  BY TypeCorrect, JobInvHolds, NamedHolds, AnswerHolds, PTL
<1>2. Init => Kept
  BY DeliveryInitial
<1>3. Known /\ Known' /\ Apart /\ Apart' /\ Kept /\ [Next]_vars => Kept'
  BY ObjectStep, PollStep, HolderStep, WakeStep
<1> QED
  BY <1>1, <1>2, <1>3, PTL DEF Spec

\* As long as names stay with their worker, a heartbeat tells the holder of a
\* cancelled job to stop it: heartbeat (455-463) reports by machine name, and
\* the job's machine is the name its holder has now.
THEOREM CancelHeard ==
  Spec /\ [](CallsApart /\ NothingUndone /\ PollsStay) => []CancelReachesHolder
<1>1. ASSUME AnswerInv, HolderInv PROVE CancelReachesHolder
  <2> SUFFICES ASSUME NEW j \in pending \cap claimed \cap cancelled, Quiescent
               PROVE  CancelSignalled(holder[j], j)
    BY DEF CancelReachesHolder
  <2>1. holder[j] = target[j] /\ Belongs(j)
    BY <1>1 DEF AnswerInv, HolderInv
  <2>2. tokens[target[j]] = machine[j]
    BY <2>1 DEF Belongs, Quiescent
  <2> QED
    BY <2>1, <2>2 DEF CancelSignalled
<1> QED
  BY <1>1, DeliveryHolds, PTL

\* And no poll waits while a live job is queued for its machine.
THEOREM WakeupsReach ==
  Spec /\ [](CallsApart /\ NothingUndone /\ PollsStay) => []NoLostWakeup
<1>1. ASSUME WakeInv PROVE NoLostWakeup
  <2> SUFFICES ASSUME NextTask, NEW r \in Rts, NEW i \in DOMAIN queue[r], Live(queue[r][i])
               PROVE  waiters[r] = <<>>
    BY DEF NoLostWakeup
  <2>1. queue[r][i] \in LiveIn(r)
    BY DEF LiveIn, ToSet
  <2> QED
    BY <1>1, <2>1, NothingOverlooked
<1> QED
  BY <1>1, DeliveryHolds, PTL

\* With results as the worker agent forms them: neither a poll that has work
\* nor the caller of a revoked worker waits on.
THEOREM NobodyIsForgotten ==
  ASSUME ResultKinds = {"wellformed"}
  PROVE  Spec /\ [](CallsApart /\ NothingUndone /\ PollsStay) => []NobodyForgotten
BY WakeupsReach, RevocationSettles, PTL DEF NobodyForgotten
=============================================================================
