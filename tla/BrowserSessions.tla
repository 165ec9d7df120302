---------------------------- MODULE BrowserSessions ----------------------------
(***************************************************************************)
(* The browser session plugin (dsh-browser-session-plugin/index.js): each  *)
(* agent opens, uses and closes its own persistent Chromium sessions.  An  *)
(* open is checked at once, then awaits the worker, the CDP connection and *)
(* the first page, and registers its session only at the end; a session is *)
(* removed from the tables first and disposed of afterwards.               *)
(*                                                                         *)
(* What is done to the pages of a session is left out: of snapshot, act and*)
(* script there remain the checks they make and the time they take.  The   *)
(* CDP connection is taken to break when Chromium exits, and not before.   *)
(***************************************************************************)
EXTENDS BrowserWorker, FiniteSets

CONSTANTS
  Owners,             \* agents
  Names,              \* names for sessions
  None,               \* no name, no session
  Modes,              \* sandbox modes; browsers need another than "read-only"
  MaxSessionsGlobal, MaxSessionsPerOwner

ASSUME LimitsAssumption == MaxSessionsGlobal \in Nat /\ MaxSessionsPerOwner \in Nat
ASSUME NoneAssumption == None \notin Names \cup Opens

VARIABLES
  pc,          \* per open: how far it is, and then how far the session's disposal is
  aborted,     \* opens whose signal has been aborted
  owner, name, policy,   \* per open: its agent, session name, and the mode it started under
  sessions,    \* this.sessions
  ownerIds,    \* this.ownerSessions, per owner
  names,       \* this.ownerNames, per owner: the session of a name, or None
  exited,      \* sessions whose process handle has settled
  mode,        \* per owner: the sandbox mode of its agent session
  fenced,      \* this.fencedOwners
  using,       \* sessions with a snapshot, act or script under way
  hostUp       \* the DSH host that runs the plugin is alive

tables == <<sessions, ownerIds, names>>
perOpen == <<pc, aborted, owner, name, policy>>
around == <<exited, mode, fenced, using, hostUp>>
vars == <<workerVars, perOpen, tables, around>>

Pcs == {"idle", "launching", "opening", "open", "closing", "waiting", "closed"}

TypeOK ==
  /\ WorkerTypeOK
  /\ pc \in [Opens -> Pcs] /\ aborted \in SUBSET Opens
  /\ owner \in [Opens -> Owners] /\ name \in [Opens -> Names \cup {None}]
  /\ policy \in [Opens -> Modes]
  /\ sessions \in SUBSET Opens /\ ownerIds \in [Owners -> SUBSET Opens]
  /\ names \in [Owners -> [Names -> Opens \cup {None}]]
  /\ exited \in SUBSET Opens /\ using \in SUBSET Opens
  /\ mode \in [Owners -> Modes] /\ fenced \in SUBSET Owners /\ hostUp \in BOOLEAN

Init ==
  /\ WorkerInit
  /\ pc = [o \in Opens |-> "idle"] /\ aborted = {}
  /\ owner \in [Opens -> Owners] /\ name \in [Opens -> Names \cup {None}]
  /\ mode \in [Owners -> Modes] /\ policy = [o \in Opens |-> mode[owner[o]]]
  /\ sessions = {} /\ ownerIds = [w \in Owners |-> {}]
  /\ names = [w \in Owners |-> [n \in Names |-> None]]
  /\ exited = {} /\ fenced = {} /\ using = {} /\ hostUp = TRUE

-----------------------------------------------------------------------------
(* open *)

Goto(o, place) == pc' = [pc EXCEPT ![o] = place]

\* The limits, the name and the policy are checked before the first await.
OpenStart(o) ==
  LET w == owner[o] IN
  /\ hostUp /\ pc[o] = "idle"
  /\ Cardinality(sessions) < MaxSessionsGlobal
  /\ Cardinality(ownerIds[w]) < MaxSessionsPerOwner
  /\ name[o] # None => names[w][name[o]] = None
  /\ mode[w] # "read-only"
  /\ policy' = [policy EXCEPT ![o] = mode[w]]
  /\ Goto(o, "launching")
  /\ Connect(o)
  /\ UNCHANGED <<term, out, workVars, down, aborted, owner, name, tables, around>>

\* The tool call is cancelled: noticed only while the worker is awaited.
Abort(o) ==
  /\ hostUp /\ pc[o] \in {"launching", "opening"} /\ o \notin aborted
  /\ aborted' = aborted \cup {o}
  /\ UNCHANGED <<workerVars, pc, owner, name, policy, tables, around>>

\* A launch that fails or is aborted terminates the browser and hangs up.
LaunchFails(o) ==
  /\ hostUp /\ pc[o] = "launching"
  /\ \/ o \in aborted /\ UNCHANGED out
     \/ Read(o, "failed")
     \/ EndSeen(o) /\ UNCHANGED out
  /\ SendTerminate(o)
  /\ client' = Closed({o})
  /\ Goto(o, "closed")
  /\ UNCHANGED <<request, workVars, down, aborted, owner, name, policy, tables, around>>

Launched(o) ==
  /\ hostUp /\ pc[o] = "launching" /\ o \notin aborted
  /\ Read(o, "ready")
  /\ Goto(o, "opening")
  /\ UNCHANGED <<client, request, term, workVars, down, aborted, owner, name, policy, tables, around>>

\* The CDP connection and the page are there; everything else has been checked
\* long ago.
Register(o) ==
  /\ hostUp /\ pc[o] = "opening"
  /\ sessions' = sessions \cup {o}
  /\ ownerIds' = [ownerIds EXCEPT ![owner[o]] = @ \cup {o}]
  /\ names' = IF name[o] = None THEN names ELSE [names EXCEPT ![owner[o]][name[o]] = o]
  /\ fenced' = fenced \cup {owner[o]}
  /\ Goto(o, "open")
  /\ UNCHANGED <<workerVars, aborted, owner, name, policy, exited, mode, using, hostUp>>

\* connectOverCDP, newPage or goto fails: the same three steps as a disposal.
OpenFails(o) ==
  /\ hostUp /\ pc[o] = "opening"
  /\ Goto(o, "closing")
  /\ UNCHANGED <<workerVars, aborted, owner, name, policy, tables, around>>

-----------------------------------------------------------------------------
(* close, closeOwner, closeAll *)

\* Mutant of FreeNames: the name of a closed session stays taken.
FreeNamesNever(S) == names
FreeNames(S) ==
  [w \in Owners |-> [n \in Names |->
     IF \E o \in S : owner[o] = w /\ name[o] = n THEN None ELSE names[w][n]]]

\* _removeState for each of them, and the disposal begins.
Remove(S) ==
  /\ sessions' = sessions \ S
  /\ ownerIds' = [w \in Owners |-> ownerIds[w] \ S]
  /\ names' = FreeNames(S)
  /\ pc' = [o \in Opens |-> IF o \in S THEN "closing" ELSE pc[o]]
  /\ UNCHANGED <<workerVars, aborted, owner, name, policy, around>>

Close(o)      == hostUp /\ o \in sessions /\ Remove({o})
CloseOwner(w) == hostUp /\ ownerIds[w] # {} /\ Remove(ownerIds[w])
CloseAll      == hostUp /\ sessions # {} /\ Remove(sessions)

\* browser.close() has settled or taken too long.  It ends the CDP connection,
\* not Chromium: that takes the worker.
Terminate(o) ==
  /\ hostUp /\ pc[o] = "closing"
  /\ SendTerminate(o)
  /\ Goto(o, "waiting")
  /\ UNCHANGED <<client, request, out, workVars, down, aborted, owner, name, policy, tables, around>>

\* The exit has been waited for, for some seconds at most.
Disposed(o) ==
  /\ hostUp /\ pc[o] = "waiting"
  /\ Goto(o, "closed")
  /\ UNCHANGED <<workerVars, aborted, owner, name, policy, tables, around>>

\* The client hears of the exit, or that the connection is over.
ExitSeen(o) ==
  /\ hostUp /\ pc[o] # "launching" /\ Read(o, "exit")
  /\ exited' = exited \cup {o}
  /\ UNCHANGED <<client, request, term, workVars, down, perOpen, tables, mode, fenced, using, hostUp>>

HangUp(o) ==
  /\ hostUp /\ pc[o] # "launching" /\ EndSeen(o)
  /\ client' = Closed({o})
  /\ exited' = exited \cup {o}
  /\ UNCHANGED <<request, term, out, workVars, down, perOpen, tables, mode, fenced, using, hostUp>>

-----------------------------------------------------------------------------
(* Use, and the sandbox mode *)

\* Mutant of PolicyStable: not compared.
PolicyStableAnyhow(o) == TRUE
PolicyStable(o) == mode[owner[o]] = policy[o]

\* snapshot, act and script check the session and then await its pages.
Use(o) ==
  /\ hostUp /\ o \in sessions \ using /\ PolicyStable(o) /\ o \notin exited
  /\ using' = using \cup {o}
  /\ UNCHANGED <<workerVars, perOpen, tables, exited, mode, fenced, hostUp>>

UseEnds(o) ==
  /\ o \in using
  /\ using' = using \ {o}
  /\ UNCHANGED <<workerVars, perOpen, tables, exited, mode, fenced, hostUp>>

\* Mutant of MayChange: the fence is not asked.
MayChangeAnyhow(w) == TRUE

\* The fence refuses a change while the owner has sessions.
MayChange(w) == w \in fenced => ownerIds[w] = {}

SetMode(w, m) ==
  /\ hostUp /\ m # mode[w] /\ MayChange(w)
  /\ mode' = [mode EXCEPT ![w] = m]
  /\ UNCHANGED <<workerVars, perOpen, tables, exited, fenced, using, hostUp>>

\* The host dies with everything the plugin knows; its sockets close.
Crash ==
  /\ hostUp /\ hostUp' = FALSE
  /\ client' = Closed(Opens)
  /\ UNCHANGED <<request, term, out, workVars, down, perOpen, tables, exited, mode, fenced, using>>

-----------------------------------------------------------------------------

WorkerPart == UNCHANGED <<perOpen, tables, around>>

\* What the plugin, the worker and a signalled Chromium do by themselves.
Proceed(o) ==
  \/ LaunchFails(o) \/ Launched(o) \/ Register(o) \/ OpenFails(o)
  \/ Terminate(o) \/ Disposed(o) \/ ExitSeen(o) \/ HangUp(o)
Serve(o) == WorkerStep(o) /\ WorkerPart
Exit(o)  == ChildExits(o) /\ WorkerPart

Next ==
  \/ \E o \in Opens : \/ OpenStart(o) \/ Abort(o) \/ Proceed(o) \/ Close(o)
                      \/ Use(o) \/ UseEnds(o) \/ Serve(o) \/ Exit(o)
  \/ \E w \in Owners : CloseOwner(w) \/ \E m \in Modes : SetMode(w, m)
  \/ CloseAll \/ Crash
  \/ Shutdown /\ WorkerPart

Spec == Init /\ [][Next]_vars

\* A Chromium that was sent SIGKILL goes; every timeout ends.
FairSpec ==
  Spec /\ \A o \in Opens : /\ WF_vars(Proceed(o)) /\ WF_vars(Serve(o))
                           /\ WF_vars(child[o] = "killed" /\ Exit(o))

-----------------------------------------------------------------------------
(* Properties *)

\* The worker never takes a connection for cleaned up while a Chromium that it
\* has not killed runs for it, and never removes the profile of one that runs.
\* The one exception: a clean-up that came while the profile directory was made
\* found no child, and the Chromium started after it is not looked after.
NoOrphan ==
  \A o \in Opens \ early : child[o] \in {"starting", "serving", "termed"} =>
    cleaning[o] \in {"no", "killing"} /\ o \in profile

\* The tables agree: a session is registered under its owner and no other, and
\* a name leads to a registered session of that name (a name that led nowhere
\* could never be used again).
TablesAgree ==
  /\ \A w \in Owners : ownerIds[w] = {o \in sessions : owner[o] = w}
  /\ \A w \in Owners, n \in Names :
       names[w][n] # None => /\ names[w][n] \in ownerIds[w]
                             /\ name[names[w][n]] = n
  /\ \A o \in Opens : o \in sessions <=> pc[o] = "open"

\* A browser opened under one sandbox mode is never used under another: it
\* cannot change while a registered session is in use, whatever changed while
\* the session was being opened.
ModeKept ==
  \A o \in Opens : hostUp /\ o \in using \cap sessions => mode[owner[o]] = policy[o]

\* No Chromium and no profile directory stay behind for a session that was
\* closed, for an open that failed or was aborted, or for a host that died,
\* whenever that happened but while the profile directory was made (see
\* NoOrphan).
Reclaimed ==
  \A o \in Opens :
    pc[o] \in {"closing", "waiting", "closed"} \/ (~hostUp /\ pc[o] # "idle") ~>
      o \in early \/ [](child[o] \in {"none", "exited"} /\ o \notin profile)

\* An open is answered, whatever becomes of Chromium and of the worker.
OpenSettles ==
  \A o \in Opens : pc[o] = "launching" ~> pc[o] \in {"open", "closed"} \/ ~hostUp

\* The browser of a session dies, and the plugin hears of it.
DeathSeen ==
  \A o \in Opens : child[o] = "exited" /\ pc[o] = "open" ~>
                     o \in exited \/ pc[o] # "open" \/ ~hostUp

\* All three: no browser lingers, and the plugin learns what becomes of each.
NothingLingers == Reclaimed /\ OpenSettles /\ DeathSeen
=============================================================================
