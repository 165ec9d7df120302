------------------------ MODULE BrowserSessions_proofs ------------------------
(***************************************************************************)
(* For any number of opens, agents, names and modes: the variables have    *)
(* their types (the worker never writes more than its two messages to a    *)
(* connection), the plugin's tables agree, no session is used under        *)
(* another sandbox mode than its browser was started under, and the worker *)
(* leaves no Chromium behind, unless it cleaned up while the profile       *)
(* directory was made.                                                     *)
(***************************************************************************)
EXTENDS BrowserSessions, TLAPS

\* What the worker has sent: "ready" once, and one last message as it ends.
SentOK ==
  \A o \in Opens :
    Len(out[o]) <= (IF o \in ready THEN 1 ELSE 0) + (IF worker[o] = "over" THEN 1 ELSE 0)

\* Chromium is ready once: it is not starting any more.
ReadyOK == \A o \in Opens : o \in ready => child[o] \notin {"none", "making", "starting"}
ChildOK == \A o \in Opens : worker[o] = "none" => child[o] = "none"

WorkerInv == WorkerTypeOK /\ SentOK /\ ReadyOK /\ ChildOK

\* A registered session of a fenced owner, used under the mode it was opened with.
PluginTypeOK ==
  /\ pc \in [Opens -> Pcs] /\ aborted \in SUBSET Opens
  /\ owner \in [Opens -> Owners] /\ name \in [Opens -> Names \cup {None}]
  /\ policy \in [Opens -> Modes]
  /\ sessions \in SUBSET Opens /\ ownerIds \in [Owners -> SUBSET Opens]
  /\ names \in [Owners -> [Names -> Opens \cup {None}]]
  /\ exited \in SUBSET Opens /\ using \in SUBSET Opens
  /\ mode \in [Owners -> Modes] /\ fenced \in SUBSET Owners /\ hostUp \in BOOLEAN
FencedOK == \A o \in sessions : owner[o] \in fenced

\* A session that is still used while it is being closed is not in sessions,
\* and never comes back.
PluginInv == PluginTypeOK /\ TablesAgree /\ FencedOK /\ ModeKept
             /\ \A o \in using : pc[o] \notin {"idle", "launching", "opening"}

USE LimitsAssumption, NoneAssumption

-----------------------------------------------------------------------------
(* The worker *)

Messages == {"ready", "failed", "exit"}

\* Sending m on o, or not; out is as long as before or one longer.
LEMMA SendIs ==
  ASSUME WorkerTypeOK, NEW o \in Opens, NEW m \in Messages, Send(o, m)
  PROVE  /\ out' \in [Opens -> Seq(Messages)]
         /\ \A p \in Opens \ {o} : out'[p] = out[p]
         /\ Len(out'[o]) = Len(out[o]) + (IF Open(o) THEN 1 ELSE 0)
  BY DEF WorkerTypeOK, Send, Messages

LEMMA ReadIs ==
  ASSUME WorkerTypeOK, NEW o \in Opens, NEW m, Read(o, m)
  PROVE  /\ out' \in [Opens -> Seq(Messages)]
         /\ \A p \in Opens : Len(out'[p]) <= Len(out[p])
<1>1. out[o] \in Seq(Messages) /\ out[o] # <<>>
  BY DEF WorkerTypeOK, Read, Messages
<1>2. Tail(out[o]) \in Seq(Messages) /\ Len(Tail(out[o])) = Len(out[o]) - 1 /\ Len(out[o]) \in Nat
  BY <1>1
<1> QED  BY <1>1, <1>2 DEF WorkerTypeOK, Read, Messages

\* The bound in the type follows from what has been sent.
LEMMA TwoMessages ==
  ASSUME out \in [Opens -> Seq(Messages)], SentOK
  PROVE  \A o \in Opens : Len(out[o]) \in Nat /\ Len(out[o]) <= 2
<1> TAKE o \in Opens
<1>1. Len(out[o]) \in Nat
  OBVIOUS
<1> QED  BY <1>1 DEF SentOK

LEMMA WorkerInitInv == WorkerInit => WorkerInv
<1> SUFFICES ASSUME WorkerInit PROVE WorkerInv
  OBVIOUS
<1>1. \A o \in Opens : out[o] = <<>> /\ Len(out[o]) = 0
  BY DEF WorkerInit
<1>2. out \in [Opens -> Seq(Messages)]
  BY DEF WorkerInit
<1>3. WorkerTypeOK
  <2>1. \A o \in Opens : Len(out[o]) <= 2
    <3> TAKE o \in Opens
    <3>1. Len(out[o]) = 0
      BY <1>1
    <3> QED  BY <3>1
  <2> QED  BY <1>2, <2>1 DEF WorkerInit, WorkerTypeOK, Alive, Messages
<1>4. SentOK /\ ReadyOK /\ ChildOK
  BY <1>1 DEF WorkerInit, SentOK, ReadyOK, ChildOK
<1> QED  BY <1>3, <1>4 DEF WorkerInv

\* A step of one connection: what it sends is what it may send.
Others(o) ==
  \A p \in Opens \ {o} : /\ out'[p] = out[p] /\ worker'[p] = worker[p] /\ child'[p] = child[p]
                         /\ p \in ready' <=> p \in ready
Silent(o) ==
  Len(out'[o]) <= Len(out[o]) /\ (o \in ready => o \in ready')
  /\ (worker[o] = "over" => worker'[o] = "over")
Last(o) ==
  Len(out'[o]) <= Len(out[o]) + 1 /\ (o \in ready => o \in ready')
  /\ worker[o] # "over" /\ worker'[o] = "over"
First(o) ==
  Len(out'[o]) <= Len(out[o]) + 1 /\ o \notin ready /\ o \in ready' /\ worker'[o] = worker[o]
Started(o) ==
  /\ o \in ready' => child'[o] \notin {"none", "making", "starting"}
  /\ worker'[o] = "none" => child'[o] = "none"

LEMMA OneConnection ==
  ASSUME WorkerInv, NEW o \in Opens, out' \in [Opens -> Seq(Messages)],
         Others(o), Silent(o) \/ Last(o) \/ First(o), Started(o)
  PROVE  SentOK' /\ ReadyOK' /\ ChildOK' /\ \A p \in Opens : Len(out'[p]) <= 2
<1>1. \A p \in Opens : Len(out[p]) \in Nat /\ Len(out'[p]) \in Nat
  BY DEF WorkerInv, WorkerTypeOK, Messages
<1>2. ReadyOK' /\ ChildOK'
  BY DEF WorkerInv, ReadyOK, ChildOK, Others, Started
<1>3. ASSUME NEW p \in Opens
      PROVE  Len(out'[p]) <= (IF p \in ready' THEN 1 ELSE 0) + (IF worker'[p] = "over" THEN 1 ELSE 0)
  <2>1. Len(out[p]) <= (IF p \in ready THEN 1 ELSE 0) + (IF worker[p] = "over" THEN 1 ELSE 0)
    BY DEF WorkerInv, SentOK
  <2>2. CASE p # o
    BY <2>1, <2>2 DEF Others
  <2>3. CASE p = o
    BY <1>1, <2>1, <2>3 DEF Silent, Last, First
  <2> QED  BY <2>2, <2>3
<1>4. \A p \in Opens : Len(out'[p]) <= 2
  BY <1>1, <1>3
<1> QED  BY <1>2, <1>3, <1>4 DEF SentOK

LEMMA WorkerStepInv ==
  ASSUME WorkerInv, NEW o \in Opens, WorkerStep(o) \/ ChildExits(o)
  PROVE  WorkerInv'
<1>0. /\ WorkerTypeOK /\ out \in [Opens -> Seq(Messages)] /\ Len(out[o]) \in Nat
      /\ Len(out[o]) <= Len(out[o]) /\ Len(out[o]) <= Len(out[o]) + 1
  BY DEF WorkerInv, WorkerTypeOK, Messages
<1>1. ASSUME UNCHANGED out \/ Send(o, "failed") \/ Send(o, "ready") \/ Send(o, "exit")
      PROVE  /\ out' \in [Opens -> Seq(Messages)] /\ \A p \in Opens \ {o} : out'[p] = out[p]
             /\ Len(out'[o]) <= Len(out[o]) + 1
             /\ worker[o] = "over" \/ UNCHANGED out => Len(out'[o]) <= Len(out[o])
  BY <1>0, <1>1, SendIs DEF Open, Messages
<1>2. CASE ReadSpawn(o)
  <2>1. /\ out' \in [Opens -> Seq(Messages)] /\ \A p \in Opens \ {o} : out'[p] = out[p]
        /\ Len(out'[o]) <= Len(out[o]) + 1
        /\ worker[o] = "over" \/ UNCHANGED out => Len(out'[o]) <= Len(out[o])
    BY <1>1, <1>2 DEF ReadSpawn, chanVars
  <2>2. Others(o) /\ Started(o)
    BY <1>0, <1>2, <2>1 DEF ReadSpawn, Others, Started, WorkerInv, WorkerTypeOK, ReadyOK, ChildOK, chanVars, Over
  <2>3. Silent(o) \/ Last(o)
    BY <1>0, <1>2, <2>1 DEF ReadSpawn, Silent, Last, First, WorkerInv, WorkerTypeOK, ReadyOK, chanVars, Over
  <2>4. SentOK' /\ ReadyOK' /\ ChildOK' /\ \A p \in Opens : Len(out'[p]) <= 2
    BY <2>1, <2>2, <2>3, OneConnection
  <2>5. WorkerTypeOK'
    BY <1>0, <1>2, <2>1, <2>4 DEF ReadSpawn, WorkerTypeOK, Messages, Alive, chanVars, Over
  <2> QED  BY <2>4, <2>5 DEF WorkerInv
<1>3. CASE Refuse(o)
  <2>1. /\ out' \in [Opens -> Seq(Messages)] /\ \A p \in Opens \ {o} : out'[p] = out[p]
        /\ Len(out'[o]) <= Len(out[o]) + 1
        /\ worker[o] = "over" \/ UNCHANGED out => Len(out'[o]) <= Len(out[o])
    BY <1>1, <1>3 DEF Refuse, chanVars
  <2>2. Others(o) /\ Started(o)
    BY <1>0, <1>3, <2>1 DEF Refuse, Others, Started, WorkerInv, WorkerTypeOK, ReadyOK, ChildOK, chanVars, Over
  <2>3. Silent(o)
    BY <1>0, <1>3, <2>1 DEF Refuse, Silent, Last, First, WorkerInv, WorkerTypeOK, ReadyOK, chanVars, Over
  <2>4. SentOK' /\ ReadyOK' /\ ChildOK' /\ \A p \in Opens : Len(out'[p]) <= 2
    BY <2>1, <2>2, <2>3, OneConnection
  <2>5. WorkerTypeOK'
    BY <1>0, <1>3, <2>1, <2>4 DEF Refuse, WorkerTypeOK, Messages, Alive, chanVars, Over
  <2> QED  BY <2>4, <2>5 DEF WorkerInv
<1>4. CASE Spawn(o)
  <2>1. /\ out' \in [Opens -> Seq(Messages)] /\ \A p \in Opens \ {o} : out'[p] = out[p]
        /\ Len(out'[o]) <= Len(out[o]) + 1
        /\ worker[o] = "over" \/ UNCHANGED out => Len(out'[o]) <= Len(out[o])
    BY <1>1, <1>4 DEF Spawn, chanVars
  <2>2. Others(o) /\ Started(o)
    BY <1>0, <1>4, <2>1 DEF Spawn, Others, Started, WorkerInv, WorkerTypeOK, ReadyOK, ChildOK, chanVars
  <2>3. Silent(o)
    BY <1>0, <1>4, <2>1 DEF Spawn, Silent, Last, First, WorkerInv, WorkerTypeOK, ReadyOK, chanVars
  <2>4. SentOK' /\ ReadyOK' /\ ChildOK' /\ \A p \in Opens : Len(out'[p]) <= 2
    BY <2>1, <2>2, <2>3, OneConnection
  <2>5. WorkerTypeOK'
    BY <1>0, <1>4, <2>1, <2>4 DEF Spawn, WorkerTypeOK, Messages, Alive, chanVars
  <2> QED  BY <2>4, <2>5 DEF WorkerInv
<1>5. CASE SpawnFails(o)
  <2>1. /\ out' \in [Opens -> Seq(Messages)] /\ \A p \in Opens \ {o} : out'[p] = out[p]
        /\ Len(out'[o]) <= Len(out[o]) + 1
        /\ worker[o] = "over" \/ UNCHANGED out => Len(out'[o]) <= Len(out[o])
    BY <1>1, <1>5 DEF SpawnFails, chanVars
  <2>2. Others(o) /\ Started(o)
    BY <1>0, <1>5, <2>1 DEF SpawnFails, Others, Started, WorkerInv, WorkerTypeOK, ReadyOK, ChildOK, chanVars, Over
  <2>3. Silent(o) \/ Last(o)
    BY <1>0, <1>5, <2>1 DEF SpawnFails, Silent, Last, First, WorkerInv, WorkerTypeOK, ReadyOK, chanVars, Over
  <2>4. SentOK' /\ ReadyOK' /\ ChildOK' /\ \A p \in Opens : Len(out'[p]) <= 2
    BY <2>1, <2>2, <2>3, OneConnection
  <2>5. WorkerTypeOK'
    BY <1>0, <1>5, <2>1, <2>4 DEF SpawnFails, WorkerTypeOK, Messages, Alive, chanVars, Over
  <2> QED  BY <2>4, <2>5 DEF WorkerInv
<1>6. CASE StartupTimeout(o)
  <2>1. /\ out' \in [Opens -> Seq(Messages)] /\ \A p \in Opens \ {o} : out'[p] = out[p]
        /\ Len(out'[o]) <= Len(out[o]) + 1
        /\ worker[o] = "over" \/ UNCHANGED out => Len(out'[o]) <= Len(out[o])
    BY <1>1, <1>6 DEF StartupTimeout, chanVars
  <2>2. Others(o) /\ Started(o)
    BY <1>0, <1>6, <2>1 DEF StartupTimeout, Others, Started, WorkerInv, WorkerTypeOK, ReadyOK, ChildOK, chanVars, Over, Open
  <2>3. Last(o)
    BY <1>0, <1>6, <2>1 DEF StartupTimeout, Silent, Last, First, WorkerInv, WorkerTypeOK, ReadyOK, chanVars, Over, Open
  <2>4. SentOK' /\ ReadyOK' /\ ChildOK' /\ \A p \in Opens : Len(out'[p]) <= 2
    BY <2>1, <2>2, <2>3, OneConnection
  <2>5. WorkerTypeOK'
    BY <1>0, <1>6, <2>1, <2>4 DEF StartupTimeout, WorkerTypeOK, Messages, Alive, chanVars, Over, Open
  <2> QED  BY <2>4, <2>5 DEF WorkerInv
<1>7. CASE ChildExits(o)
  <2>1. /\ out' \in [Opens -> Seq(Messages)] /\ \A p \in Opens \ {o} : out'[p] = out[p]
        /\ Len(out'[o]) <= Len(out[o]) + 1
        /\ worker[o] = "over" \/ UNCHANGED out => Len(out'[o]) <= Len(out[o])
    BY <1>1, <1>7 DEF ChildExits, chanVars
  <2>2. Others(o) /\ Started(o)
    BY <1>0, <1>7, <2>1 DEF ChildExits, Others, Started, WorkerInv, WorkerTypeOK, ReadyOK, ChildOK, chanVars, Over
  <2>3. Silent(o) \/ Last(o)
    BY <1>0, <1>7, <2>1 DEF ChildExits, Silent, Last, First, WorkerInv, WorkerTypeOK, ReadyOK, chanVars, Over
  <2>4. SentOK' /\ ReadyOK' /\ ChildOK' /\ \A p \in Opens : Len(out'[p]) <= 2
    BY <2>1, <2>2, <2>3, OneConnection
  <2>5. WorkerTypeOK'
    BY <1>0, <1>7, <2>1, <2>4 DEF ChildExits, WorkerTypeOK, Messages, Alive, chanVars, Over
  <2> QED  BY <2>4, <2>5 DEF WorkerInv
<1>8. CASE Ready(o)
  <2>1. /\ out' \in [Opens -> Seq(Messages)] /\ \A p \in Opens \ {o} : out'[p] = out[p]
        /\ Len(out'[o]) <= Len(out[o]) + 1
        /\ worker[o] = "over" \/ UNCHANGED out => Len(out'[o]) <= Len(out[o])
    BY <1>1, <1>8 DEF Ready, chanVars
  <2>2. Others(o) /\ Started(o)
    BY <1>0, <1>8, <2>1 DEF Ready, Others, Started, WorkerInv, WorkerTypeOK, ReadyOK, ChildOK, chanVars
  <2>3. First(o)
    BY <1>0, <1>8, <2>1 DEF Ready, Silent, Last, First, WorkerInv, WorkerTypeOK, ReadyOK, chanVars
  <2>4. SentOK' /\ ReadyOK' /\ ChildOK' /\ \A p \in Opens : Len(out'[p]) <= 2
    BY <2>1, <2>2, <2>3, OneConnection
  <2>5. WorkerTypeOK'
    BY <1>0, <1>8, <2>1, <2>4 DEF Ready, WorkerTypeOK, Messages, Alive, chanVars
  <2> QED  BY <2>4, <2>5 DEF WorkerInv
<1>9. CASE Cleanup(o)
  <2>1. /\ out' \in [Opens -> Seq(Messages)] /\ \A p \in Opens \ {o} : out'[p] = out[p]
        /\ Len(out'[o]) <= Len(out[o]) + 1
        /\ worker[o] = "over" \/ UNCHANGED out => Len(out'[o]) <= Len(out[o])
    BY <1>1, <1>9 DEF Cleanup, chanVars
  <2>2. Others(o) /\ Started(o)
    BY <1>0, <1>9, <2>1 DEF Cleanup, Others, Started, WorkerInv, WorkerTypeOK, ReadyOK, ChildOK, chanVars, Signalled
  <2>3. Silent(o)
    BY <1>0, <1>9, <2>1 DEF Cleanup, Silent, Last, First, WorkerInv, WorkerTypeOK, ReadyOK, chanVars, Signalled
  <2>4. SentOK' /\ ReadyOK' /\ ChildOK' /\ \A p \in Opens : Len(out'[p]) <= 2
    BY <2>1, <2>2, <2>3, OneConnection
  <2>5. WorkerTypeOK'
    BY <1>0, <1>9, <2>1, <2>4 DEF Cleanup, WorkerTypeOK, Messages, Alive, chanVars, Signalled
  <2> QED  BY <2>4, <2>5 DEF WorkerInv
<1>10. CASE KillEnds(o)
  <2>1. /\ out' \in [Opens -> Seq(Messages)] /\ \A p \in Opens \ {o} : out'[p] = out[p]
        /\ Len(out'[o]) <= Len(out[o]) + 1
        /\ worker[o] = "over" \/ UNCHANGED out => Len(out'[o]) <= Len(out[o])
    BY <1>1, <1>10 DEF KillEnds, chanVars
  <2>2. Others(o) /\ Started(o)
    BY <1>0, <1>10, <2>1 DEF KillEnds, Others, Started, WorkerInv, WorkerTypeOK, ReadyOK, ChildOK, chanVars, Outlived
  <2>3. Silent(o)
    BY <1>0, <1>10, <2>1 DEF KillEnds, Silent, Last, First, WorkerInv, WorkerTypeOK, ReadyOK, chanVars, Outlived
  <2>4. SentOK' /\ ReadyOK' /\ ChildOK' /\ \A p \in Opens : Len(out'[p]) <= 2
    BY <2>1, <2>2, <2>3, OneConnection
  <2>5. WorkerTypeOK'
    BY <1>0, <1>10, <2>1, <2>4 DEF KillEnds, WorkerTypeOK, Messages, Alive, chanVars, Outlived
  <2> QED  BY <2>4, <2>5 DEF WorkerInv
<1>11. CASE RemoveProfile(o)
  <2>1. /\ out' \in [Opens -> Seq(Messages)] /\ \A p \in Opens \ {o} : out'[p] = out[p]
        /\ Len(out'[o]) <= Len(out[o]) + 1
        /\ worker[o] = "over" \/ UNCHANGED out => Len(out'[o]) <= Len(out[o])
    BY <1>1, <1>11 DEF RemoveProfile, chanVars
  <2>2. Others(o) /\ Started(o)
    BY <1>0, <1>11, <2>1 DEF RemoveProfile, Others, Started, WorkerInv, WorkerTypeOK, ReadyOK, ChildOK, chanVars
  <2>3. Silent(o)
    BY <1>0, <1>11, <2>1 DEF RemoveProfile, Silent, Last, First, WorkerInv, WorkerTypeOK, ReadyOK, chanVars
  <2>4. SentOK' /\ ReadyOK' /\ ChildOK' /\ \A p \in Opens : Len(out'[p]) <= 2
    BY <2>1, <2>2, <2>3, OneConnection
  <2>5. WorkerTypeOK'
    BY <1>0, <1>11, <2>1, <2>4 DEF RemoveProfile, WorkerTypeOK, Messages, Alive, chanVars
  <2> QED  BY <2>4, <2>5 DEF WorkerInv
<1>12. CASE Terminated(o)
  <2>1. /\ out' \in [Opens -> Seq(Messages)] /\ \A p \in Opens \ {o} : out'[p] = out[p]
        /\ Len(out'[o]) <= Len(out[o]) + 1
        /\ worker[o] = "over" \/ UNCHANGED out => Len(out'[o]) <= Len(out[o])
    BY <1>1, <1>12 DEF Terminated, chanVars
  <2>2. Others(o) /\ Started(o)
    BY <1>0, <1>12, <2>1 DEF Terminated, Others, Started, WorkerInv, WorkerTypeOK, ReadyOK, ChildOK, chanVars, Over
  <2>3. Silent(o)
    BY <1>0, <1>12, <2>1 DEF Terminated, Silent, Last, First, WorkerInv, WorkerTypeOK, ReadyOK, chanVars, Over
  <2>4. SentOK' /\ ReadyOK' /\ ChildOK' /\ \A p \in Opens : Len(out'[p]) <= 2
    BY <2>1, <2>2, <2>3, OneConnection
  <2>5. WorkerTypeOK'
    BY <1>0, <1>12, <2>1, <2>4 DEF Terminated, WorkerTypeOK, Messages, Alive, chanVars, Over
  <2> QED  BY <2>4, <2>5 DEF WorkerInv
<1> QED  BY <1>2, <1>3, <1>4, <1>5, <1>6, <1>7, <1>8, <1>9, <1>10, <1>11, <1>12 DEF WorkerStep

\* What the plugin, a crash and a shutdown do to the connections.
LEMMA ClientStepInv ==
  ASSUME WorkerInv, UNCHANGED workVars, down' \in BOOLEAN,
         client' \in [Opens -> {"none", "open", "closed"}],
         request' \in [Opens -> {"none", "sent", "read"}], term' \in SUBSET Opens,
         out' \in [Opens -> Seq(Messages)], \A p \in Opens : Len(out'[p]) <= Len(out[p])
  PROVE  WorkerInv'
<1>1. \A p \in Opens : /\ Len(out[p]) \in Nat /\ Len(out'[p]) \in Nat
                        /\ Len(out[p]) <= 2 /\ Len(out'[p]) <= Len(out[p])
  BY DEF WorkerInv, WorkerTypeOK, Messages
<1>2. \A p \in Opens : Len(out'[p]) <= 2
  BY <1>1
<1>3. WorkerTypeOK'
  BY <1>2 DEF WorkerInv, WorkerTypeOK, workVars, Messages
<1>4. SentOK'
  <2> SUFFICES ASSUME NEW p \in Opens
               PROVE  Len(out'[p]) <= (IF p \in ready THEN 1 ELSE 0) + (IF worker[p] = "over" THEN 1 ELSE 0)
    BY DEF SentOK, workVars
  <2>1. Len(out[p]) <= (IF p \in ready THEN 1 ELSE 0) + (IF worker[p] = "over" THEN 1 ELSE 0)
    BY DEF WorkerInv, SentOK
  <2> QED  BY <1>1, <2>1
<1> QED  BY <1>3, <1>4 DEF WorkerInv, ReadyOK, ChildOK, workVars

LEMMA SameOut ==
  ASSUME WorkerInv, UNCHANGED out
  PROVE  out' \in [Opens -> Seq(Messages)] /\ \A p \in Opens : Len(out'[p]) <= Len(out[p])
<1>1. out \in [Opens -> Seq(Messages)]
  BY DEF WorkerInv, WorkerTypeOK, Messages
<1>2. \A q \in Seq(Messages) : Len(q) <= Len(q)
  OBVIOUS
<1> QED  BY <1>1, <1>2

LEMMA PluginStepWorkerInv ==
  ASSUME WorkerInv, PluginTypeOK, [Next]_vars
  PROVE  WorkerInv'
<1> USE DEF WorkerInv
<1>1. ASSUME NEW S, client' = Closed(S)
      PROVE  client' \in [Opens -> {"none", "open", "closed"}]
  BY <1>1 DEF WorkerTypeOK, Closed
<1>2. ASSUME NEW o \in Opens, SendTerminate(o)
      PROVE  term' \in SUBSET Opens
  BY <1>2 DEF WorkerTypeOK, SendTerminate
<1>3. ASSUME UNCHANGED workerVars
      PROVE  WorkerInv'
  BY <1>3, SameOut, ClientStepInv DEF workerVars, chanVars, WorkerTypeOK
<1>4. ASSUME NEW o \in Opens, OpenStart(o) \/ LaunchFails(o) \/ Launched(o) \/ Terminate(o)
             \/ ExitSeen(o) \/ HangUp(o)
      PROVE  WorkerInv'
  <2>1. CASE OpenStart(o)
    BY <2>1, SameOut, ClientStepInv DEF OpenStart, Connect, WorkerTypeOK
  <2>2. CASE LaunchFails(o)
    <3>1. out' \in [Opens -> Seq(Messages)] /\ \A p \in Opens : Len(out'[p]) <= Len(out[p])
      BY <2>2, SameOut, ReadIs DEF LaunchFails
    <3> QED  BY <1>1, <1>2, <2>2, <3>1, ClientStepInv DEF LaunchFails, WorkerTypeOK
  <2>3. CASE Launched(o)
    BY <2>3, ReadIs, ClientStepInv DEF Launched, WorkerTypeOK
  <2>4. CASE Terminate(o)
    BY <1>2, <2>4, SameOut, ClientStepInv DEF Terminate, WorkerTypeOK
  <2>5. CASE ExitSeen(o)
    BY <2>5, ReadIs, ClientStepInv DEF ExitSeen, WorkerTypeOK
  <2>6. CASE HangUp(o)
    BY <1>1, <2>6, SameOut, ClientStepInv DEF HangUp, WorkerTypeOK
  <2> QED  BY <1>4, <2>1, <2>2, <2>3, <2>4, <2>5, <2>6
<1>5. ASSUME NEW o \in Opens, Abort(o) \/ Register(o) \/ OpenFails(o) \/ Disposed(o) \/ Close(o)
             \/ Use(o) \/ UseEnds(o)
      PROVE  WorkerInv'
  <2>1. UNCHANGED workerVars
    BY <1>5 DEF Abort, Register, OpenFails, Disposed, Close, Remove, Use, UseEnds
  <2> QED  BY <1>3, <2>1
<1>6. ASSUME NEW o \in Opens, Serve(o) \/ Exit(o)
      PROVE  WorkerInv'
  BY <1>6, WorkerStepInv DEF Serve, Exit
<1>7. ASSUME NEW w \in Owners, CloseOwner(w) \/ \E m \in Modes : SetMode(w, m)
      PROVE  WorkerInv'
  BY <1>3, <1>7 DEF CloseOwner, Remove, SetMode
<1>8. CASE CloseAll
  BY <1>3, <1>8 DEF CloseAll, Remove
<1>9. CASE Crash
  BY <1>1, <1>9, SameOut, ClientStepInv DEF Crash, WorkerTypeOK
<1>10. CASE Shutdown
  BY <1>10, SameOut, ClientStepInv DEF Shutdown, chanVars, WorkerTypeOK
<1>11. CASE UNCHANGED vars
  BY <1>3, <1>11 DEF vars
<1> QED  BY <1>4, <1>5, <1>6, <1>7, <1>8, <1>9, <1>10, <1>11 DEF Next, Proceed

-----------------------------------------------------------------------------
(* The plugin *)

UsingOK == \A o \in using : pc[o] \notin {"idle", "launching", "opening"}

LEMMA PluginInitInv == Init => PluginInv
  BY DEF Init, PluginInv, PluginTypeOK, TablesAgree, FencedOK, ModeKept, Pcs

\* Steps that leave tables and modes alone and do not touch an open session.
LEMMA AsideInv ==
  ASSUME PluginInv, NEW o \in Opens, NEW place \in Pcs,
         pc' = pc \/ (pc' = [pc EXCEPT ![o] = place] /\ pc[o] # "open" /\ place # "open"),
         o \in using => place \notin {"idle", "launching", "opening"},
         policy' = policy \/ (policy' \in [Opens -> Modes] /\ pc[o] = "idle"
                             /\ \A p \in Opens \ {o} : policy'[p] = policy[p]),
         aborted' \in SUBSET Opens, exited' \in SUBSET Opens, using' \subseteq using,
         hostUp' \in BOOLEAN, hostUp' => hostUp,
         UNCHANGED <<owner, name, tables, mode, fenced>>
  PROVE  PluginInv'
<1> USE DEF PluginInv, tables
<1>1. PluginTypeOK'
  BY DEF PluginTypeOK
<1>2. TablesAgree'
  BY DEF TablesAgree, PluginTypeOK
<1>3. FencedOK'
  BY DEF FencedOK
<1>4. ModeKept'
  BY DEF ModeKept, TablesAgree, PluginTypeOK
<1>5. UsingOK'
  BY DEF UsingOK, PluginTypeOK
<1> QED  BY <1>1, <1>2, <1>3, <1>4, <1>5 DEF UsingOK

LEMMA RegisterInv ==
  ASSUME PluginInv, NEW o \in Opens, Register(o)
  PROVE  PluginInv'
<1> USE DEF PluginInv
<1>1. PluginTypeOK'
  BY DEF Register, Goto, PluginTypeOK, Pcs
<1>2. TablesAgree'
  <2>1. \A w \in Owners : ownerIds'[w] = {q \in sessions' : owner[q] = w}
    BY DEF Register, TablesAgree, PluginTypeOK
  <2>2. \A w \in Owners, n \in Names : names'[w][n] # None =>
          names'[w][n] \in ownerIds'[w] /\ name[names'[w][n]] = n
    <3> SUFFICES ASSUME NEW w \in Owners, NEW n \in Names, names'[w][n] # None
                 PROVE  names'[w][n] \in ownerIds'[w] /\ name[names'[w][n]] = n
      OBVIOUS
    <3>1. CASE w = owner[o] /\ n = name[o]
      BY <3>1 DEF Register, PluginTypeOK
    <3>2. CASE ~(w = owner[o] /\ n = name[o])
      <4>1. names'[w][n] = names[w][n] /\ ownerIds[w] \subseteq ownerIds'[w]
        BY <3>2 DEF Register, PluginTypeOK
      <4> QED  BY <4>1 DEF TablesAgree
    <3> QED  BY <3>1, <3>2
  <2>3. \A q \in Opens : q \in sessions' <=> pc'[q] = "open"
    BY DEF Register, Goto, TablesAgree, PluginTypeOK
  <2> QED  BY <2>1, <2>2, <2>3 DEF TablesAgree, Register
<1>3. FencedOK'
  BY DEF FencedOK, Register, PluginTypeOK
<1>4. ModeKept' /\ UsingOK'
  BY DEF ModeKept, UsingOK, Register, Goto, PluginTypeOK
<1> QED  BY <1>1, <1>2, <1>3, <1>4 DEF UsingOK

LEMMA RemoveInv ==
  ASSUME PluginInv, NEW S \in SUBSET sessions, Remove(S)
  PROVE  PluginInv'
<1> USE DEF PluginInv, around
<1>1. PluginTypeOK'
  BY DEF Remove, FreeNames, PluginTypeOK, Pcs
<1>2. TablesAgree'
  <2>1. \A w \in Owners : ownerIds'[w] = {q \in sessions' : owner[q] = w}
    BY DEF Remove, TablesAgree, PluginTypeOK
  <2>2. ASSUME NEW w \in Owners, NEW n \in Names, names'[w][n] # None
        PROVE  names'[w][n] \in ownerIds'[w] /\ name[names'[w][n]] = n
    <3>1. names'[w][n] = names[w][n] /\ ~\E q \in S : owner[q] = w /\ name[q] = n
      BY <2>2 DEF Remove, FreeNames
    <3>2. names[w][n] \in ownerIds[w] /\ name[names[w][n]] = n /\ owner[names[w][n]] = w
      BY <2>2, <3>1 DEF TablesAgree
    <3> QED  BY <3>1, <3>2 DEF Remove
  <2>3. \A q \in Opens : q \in sessions' <=> pc'[q] = "open"
    BY DEF Remove, TablesAgree, PluginTypeOK
  <2> QED  BY <2>1, <2>2, <2>3 DEF TablesAgree, Remove
<1>3. FencedOK'
  BY DEF FencedOK, Remove
<1>4. ModeKept' /\ UsingOK'
  BY DEF ModeKept, UsingOK, Remove, PluginTypeOK
<1> QED  BY <1>1, <1>2, <1>3, <1>4 DEF UsingOK

LEMMA PluginStepInv ==
  ASSUME PluginInv, [Next]_vars
  PROVE  PluginInv'
<1>0. PluginTypeOK /\ TablesAgree /\ UsingOK
  BY DEF PluginInv, UsingOK
<1> USE DEF around
<1>1. ASSUME NEW o \in Opens, OpenStart(o) \/ Abort(o) \/ LaunchFails(o) \/ Launched(o) \/ OpenFails(o)
             \/ Terminate(o) \/ Disposed(o) \/ ExitSeen(o) \/ HangUp(o)
      PROVE  PluginInv'
  <2>1. CASE OpenStart(o)
    <3>1. policy' \in [Opens -> Modes] /\ (\A p \in Opens \ {o} : policy'[p] = policy[p])
          /\ o \notin using
      BY <1>0, <2>1 DEF OpenStart, PluginTypeOK, UsingOK
    <3> QED  BY <1>0, <2>1, <3>1, AsideInv DEF OpenStart, Goto, Pcs, PluginTypeOK
  <2>2. CASE Abort(o)
    BY <1>0, <2>2, AsideInv DEF Abort, PluginTypeOK, Pcs
  <2>3. CASE LaunchFails(o)
    BY <1>0, <2>3, AsideInv DEF LaunchFails, Goto, Pcs, PluginTypeOK
  <2>4. CASE Launched(o)
    BY <1>0, <2>4, AsideInv DEF Launched, Goto, Pcs, PluginTypeOK, UsingOK
  <2>5. CASE OpenFails(o)
    BY <1>0, <2>5, AsideInv DEF OpenFails, Goto, Pcs, PluginTypeOK
  <2>6. CASE Terminate(o)
    BY <1>0, <2>6, AsideInv DEF Terminate, Goto, Pcs, PluginTypeOK
  <2>7. CASE Disposed(o)
    BY <1>0, <2>7, AsideInv DEF Disposed, Goto, Pcs, PluginTypeOK
  <2>8. CASE ExitSeen(o) \/ HangUp(o)
    <3>1. exited' \in SUBSET Opens
      BY <1>0, <2>8 DEF ExitSeen, HangUp, PluginTypeOK
    <3>2. "closed" \in Pcs
      BY DEF Pcs
    <3> QED  BY <1>0, <2>8, <3>1, <3>2, AsideInv DEF ExitSeen, HangUp, perOpen, PluginTypeOK
  <2> QED  BY <1>1, <2>1, <2>2, <2>3, <2>4, <2>5, <2>6, <2>7, <2>8
<1>2. ASSUME NEW o \in Opens, Register(o)
      PROVE  PluginInv'
  BY <1>2, RegisterInv
<1>3. ASSUME NEW o \in Opens, Close(o)
      PROVE  PluginInv'
  BY <1>3, RemoveInv DEF Close
<1>4. ASSUME NEW w \in Owners, CloseOwner(w)
      PROVE  PluginInv'
  <2>1. ownerIds[w] \subseteq sessions
    BY <1>0 DEF TablesAgree
  <2> QED  BY <1>4, <2>1, RemoveInv DEF CloseOwner
<1>5. CASE CloseAll
  BY <1>5, RemoveInv DEF CloseAll
<1>6. ASSUME NEW o \in Opens, Use(o)
      PROVE  PluginInv'
  <2>1. UNCHANGED <<perOpen, tables, mode, fenced, exited, hostUp>> /\ using' = using \cup {o}
        /\ o \in sessions /\ mode[owner[o]] = policy[o]
    BY <1>6 DEF Use, PolicyStable
  <2> QED  BY <2>1 DEF PluginInv, PluginTypeOK, TablesAgree, FencedOK, ModeKept, perOpen, tables
<1>7. ASSUME NEW o \in Opens, UseEnds(o)
      PROVE  PluginInv'
  BY <1>7 DEF UseEnds, PluginInv, PluginTypeOK, TablesAgree, FencedOK, ModeKept, perOpen, tables
<1>8. ASSUME NEW w \in Owners, NEW m \in Modes, SetMode(w, m)
      PROVE  PluginInv'
  <2>1. \A o \in sessions : owner[o] # w
    BY <1>8 DEF SetMode, MayChange, PluginInv, FencedOK, TablesAgree
  <2>2. UNCHANGED <<perOpen, tables, fenced, exited, using, hostUp>> /\ mode' = [mode EXCEPT ![w] = m]
    BY <1>8 DEF SetMode
  <2>3. PluginTypeOK' /\ TablesAgree' /\ FencedOK' /\ UsingOK'
    BY <2>2 DEF PluginInv, PluginTypeOK, TablesAgree, FencedOK, UsingOK, perOpen, tables
  <2>4. ModeKept'
    BY <2>1, <2>2 DEF PluginInv, PluginTypeOK, ModeKept, perOpen, tables
  <2> QED  BY <2>3, <2>4 DEF PluginInv, UsingOK
<1>9. CASE Crash
  BY <1>9 DEF Crash, PluginInv, PluginTypeOK, TablesAgree, FencedOK, ModeKept, perOpen, tables
<1>10. CASE UNCHANGED <<perOpen, tables, around>>
  BY <1>10 DEF PluginInv, PluginTypeOK, TablesAgree, FencedOK, ModeKept, perOpen, tables
<1>11. CASE \/ UNCHANGED vars
            \/ \E o \in Opens : Serve(o) \/ Exit(o)
            \/ Shutdown /\ WorkerPart
  BY <1>10, <1>11 DEF vars, Serve, Exit, WorkerPart
<1> QED  BY <1>1, <1>2, <1>3, <1>4, <1>5, <1>6, <1>7, <1>8, <1>9, <1>11 DEF Next, Proceed

-----------------------------------------------------------------------------
(* Nothing runs unwatched *)

OrphanInv ==
  \A o \in Opens :
    /\ cleaning[o] # "no" => worker[o] \in {"spawned", "over"}
    /\ worker[o] = "none" => child[o] = "none"
    /\ o \notin early =>
         /\ child[o] \in {"making", "starting", "serving"} => cleaning[o] = "no"
         /\ child[o] = "termed" => cleaning[o] = "killing"
         /\ child[o] \in {"starting", "serving", "termed"} => o \in profile

LEMMA OrphanStep ==
  ASSUME WorkerTypeOK, OrphanInv, NEW o \in Opens, WorkerStep(o) \/ ChildExits(o)
  PROVE  OrphanInv'
<1> USE DEF WorkerTypeOK, OrphanInv, chanVars
<1>1. CASE ReadSpawn(o)
  BY <1>1 DEF ReadSpawn, Over
<1>2. CASE Refuse(o)
  BY <1>2 DEF Refuse, Over
<1>3. CASE Spawn(o)
  BY <1>3 DEF Spawn
<1>4. CASE SpawnFails(o)
  BY <1>4 DEF SpawnFails, Over
<1>5. CASE StartupTimeout(o)
  BY <1>5 DEF StartupTimeout, Over
<1>6. CASE ChildExits(o)
  BY <1>6 DEF ChildExits, Over
<1>7. CASE Ready(o)
  BY <1>7 DEF Ready
<1>8. CASE Cleanup(o)
  BY <1>8 DEF Cleanup, Signalled
<1>9. CASE KillEnds(o)
  BY <1>9 DEF KillEnds, Outlived
<1>10. CASE RemoveProfile(o)
  BY <1>10 DEF RemoveProfile
<1>11. CASE Terminated(o)
  BY <1>11 DEF Terminated, Over
<1> QED  BY <1>1, <1>2, <1>3, <1>4, <1>5, <1>6, <1>7, <1>8, <1>9, <1>10, <1>11 DEF WorkerStep

LEMMA OrphanNext ==
  ASSUME WorkerTypeOK, OrphanInv, [Next]_vars
  PROVE  OrphanInv'
<1>1. CASE UNCHANGED workVars
  BY <1>1 DEF OrphanInv, workVars
<1>2. ASSUME NEW o \in Opens, Serve(o) \/ Exit(o)
      PROVE  OrphanInv'
  BY <1>2, OrphanStep DEF Serve, Exit
<1>3. ASSUME NEW o \in Opens, OpenStart(o) \/ Abort(o) \/ Proceed(o) \/ Close(o) \/ Use(o) \/ UseEnds(o)
      PROVE  UNCHANGED workVars
  BY <1>3 DEF OpenStart, Abort, Proceed, LaunchFails, Launched, Register, OpenFails, Terminate, Disposed,
              ExitSeen, HangUp, Close, Remove, Use, UseEnds, workerVars
<1>4. ASSUME NEW w \in Owners, CloseOwner(w) \/ \E m \in Modes : SetMode(w, m)
      PROVE  UNCHANGED workVars
  BY <1>4 DEF CloseOwner, Remove, SetMode, workerVars
<1>5. CASE CloseAll \/ Crash \/ Shutdown \/ UNCHANGED vars
  BY <1>1, <1>5 DEF CloseAll, Remove, Crash, Shutdown, vars, workerVars
<1> QED  BY <1>1, <1>2, <1>3, <1>4, <1>5 DEF Next

-----------------------------------------------------------------------------

SessionsInv == WorkerInv /\ PluginInv

LEMMA SessionsInvariant == Spec => []SessionsInv
<1>1. Init => SessionsInv
  BY WorkerInitInv, PluginInitInv DEF Init, SessionsInv
<1>2. SessionsInv /\ [Next]_vars => SessionsInv'
  BY PluginStepWorkerInv, PluginStepInv DEF SessionsInv, PluginInv
<1> QED  BY <1>1, <1>2, PTL DEF Spec

\* The variables have their types; a connection carries two messages at most.
THEOREM TypeCorrect == Spec => []TypeOK
<1>1. SessionsInv => TypeOK
  BY DEF SessionsInv, WorkerInv, PluginInv, PluginTypeOK, TypeOK
<1> QED  BY <1>1, SessionsInvariant, PTL

\* Sessions, their owners' sets and their names agree.
THEOREM TablesAlwaysAgree == Spec => []TablesAgree
<1>1. SessionsInv => TablesAgree
  BY DEF SessionsInv, PluginInv
<1> QED  BY <1>1, SessionsInvariant, PTL

\* No registered session is in use under another mode than its browser's.
THEOREM ModeIsKept == Spec => []ModeKept
<1>1. SessionsInv => ModeKept
  BY DEF SessionsInv, PluginInv
<1> QED  BY <1>1, SessionsInvariant, PTL

\* A Chromium is looked after until it is dead or was sent SIGKILL, and keeps its
\* profile, unless the clean-up came while the profile directory was made.
THEOREM NoOrphanUnlessEarly == Spec => []NoOrphan
<1>1. Init => OrphanInv
  BY DEF Init, WorkerInit, OrphanInv
<1>2. SessionsInv /\ OrphanInv /\ [Next]_vars => OrphanInv'
  BY OrphanNext DEF SessionsInv, WorkerInv
<1>3. OrphanInv => NoOrphan
  BY DEF OrphanInv, NoOrphan
<1> QED  BY <1>1, <1>2, <1>3, SessionsInvariant, PTL DEF Spec
=============================================================================
