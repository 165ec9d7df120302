----------------------------- MODULE BrowserWorker -----------------------------
(***************************************************************************)
(* The browser worker (dsh-browser-worker/index.js) and its client end     *)
(* (worker-client.js): the session plugin opens one connection for each    *)
(* browser it wants; the worker makes a profile directory, starts Chromium *)
(* and cleans up when it is told to terminate, when the connection closes  *)
(* or when it is stopped itself.                                           *)
(*                                                                         *)
(* Both ends of a connection close together (allowHalfOpen is off): what   *)
(* the worker has written before it ended its side is read first.          *)
(***************************************************************************)
EXTENDS Naturals, Sequences

CONSTANT Opens   \* calls of open, each with its session id and its connection

VARIABLES
  client,     \* the plugin's end: "none", "open" or "closed"
  request,    \* the spawn request: "none", "sent" or "read"
  term,       \* a terminate line has been sent and not been read
  out,        \* what the worker has sent and the client has not read
  worker,     \* the worker's end: "none", "spawned" (a request was taken), "over"
  ready,      \* __readySent
  child,      \* Chromium: none, its profile in the making, starting, serving CDP,
              \* sent SIGTERM or SIGKILL, exited
  cleaning,   \* terminating: "no", "killing", "removing", "done"
  profile,    \* the profile directories that exist
  early,      \* history: connections cleaned up while the profile was made
  down        \* the worker has been told to stop

chanVars == <<client, request, term, out>>
workVars == <<worker, ready, child, cleaning, profile, early>>
workerVars == <<chanVars, workVars, down>>

Alive == {"starting", "serving", "termed", "killed"}

WorkerTypeOK ==
  /\ client \in [Opens -> {"none", "open", "closed"}]
  /\ request \in [Opens -> {"none", "sent", "read"}]
  /\ term \in SUBSET Opens
  /\ out \in [Opens -> Seq({"ready", "failed", "exit"})] /\ \A o \in Opens : Len(out[o]) <= 2
  /\ worker \in [Opens -> {"none", "spawned", "over"}]
  /\ ready \in SUBSET Opens
  /\ child \in [Opens -> {"none", "making", "exited"} \cup Alive]
  /\ cleaning \in [Opens -> {"no", "killing", "removing", "done"}]
  /\ profile \in SUBSET Opens /\ early \in SUBSET Opens
  /\ down \in BOOLEAN

WorkerInit ==
  /\ client = [o \in Opens |-> "none"] /\ request = [o \in Opens |-> "none"]
  /\ term = {} /\ out = [o \in Opens |-> <<>>]
  /\ worker = [o \in Opens |-> "none"] /\ ready = {}
  /\ child = [o \in Opens |-> "none"] /\ cleaning = [o \in Opens |-> "no"]
  /\ profile = {} /\ early = {} /\ down = FALSE

-----------------------------------------------------------------------------
(* The client's end *)

\* createConnection, and the spawn request as soon as it is connected.
Connect(o) ==
  /\ client' = [client EXCEPT ![o] = "open"]
  /\ request' = [request EXCEPT ![o] = "sent"]

\* socket.destroy(), or the end of the host process.
Closed(S) == [o \in Opens |-> IF o \in S /\ client[o] = "open" THEN "closed" ELSE client[o]]

\* handle.terminate(): nothing when the connection is gone.
SendTerminate(o) == term' = IF client[o] = "open" THEN term \cup {o} ELSE term

Read(o, m) ==
  /\ client[o] = "open" /\ out[o] # <<>> /\ Head(out[o]) = m
  /\ out' = [out EXCEPT ![o] = Tail(@)]

\* Mutant of EndSeen: the close event is not handled.
EndSeenNever(o) == FALSE
\* The worker has ended its side and everything it sent has been read.
EndSeen(o) == client[o] = "open" /\ worker[o] = "over" /\ out[o] = <<>>

-----------------------------------------------------------------------------
(* A connection at the worker *)

Open(o) == worker[o] # "over" /\ client[o] = "open"

\* Mutant of Send: written to a socket that has ended, too.
SendAnyhow(o, m) == out' = [out EXCEPT ![o] = Append(@, m)]
\* send() writes only to a socket that is not destroyed.
Send(o, m) == out' = IF Open(o) THEN [out EXCEPT ![o] = Append(@, m)] ELSE out

\* socket.end().
Over(o) == worker' = [worker EXCEPT ![o] = "over"]

\* The peer check and the validation of the request may fail.
ReadSpawn(o) ==
  /\ request[o] = "sent" /\ worker[o] = "none" /\ ~down
  /\ request' = [request EXCEPT ![o] = "read"]
  /\ \/ /\ worker' = [worker EXCEPT ![o] = "spawned"]
        /\ child' = [child EXCEPT ![o] = "making"]
        /\ UNCHANGED out
     \/ Over(o) /\ Send(o, "failed") /\ UNCHANGED child
  /\ UNCHANGED <<client, term, ready, cleaning, profile, early, down>>

\* A connection made while the worker stops is refused or destroyed.
Refuse(o) ==
  /\ request[o] = "sent" /\ worker[o] = "none" /\ down
  /\ request' = [request EXCEPT ![o] = "read"]
  /\ Over(o)
  /\ UNCHANGED <<client, term, out, ready, child, cleaning, profile, early, down>>

\* Between ReadSpawn and here the handler awaits mkdir; it does not look again
\* whether the connection still wants a browser, or is still there.
Spawn(o) ==
  /\ child[o] = "making"
  /\ child' = [child EXCEPT ![o] = "starting"]
  /\ profile' = profile \cup {o}
  /\ UNCHANGED <<chanVars, worker, ready, cleaning, early, down>>

\* mkdir fails, or spawn emits an error: there never is a child.
SpawnFails(o) ==
  /\ child[o] = "making"
  /\ child' = [child EXCEPT ![o] = "none"]
  /\ Over(o) /\ Send(o, "failed")
  /\ profile' \in {profile, profile \cup {o}}
  /\ UNCHANGED <<client, request, term, ready, cleaning, early, down>>

\* Chromium prints its DevTools endpoint.
Ready(o) ==
  /\ child[o] = "starting"
  /\ child' = [child EXCEPT ![o] = "serving"]
  /\ ready' = ready \cup {o}
  /\ Send(o, "ready")
  /\ UNCHANGED <<client, request, term, worker, cleaning, profile, early, down>>

StartupTimeout(o) ==
  /\ child[o] \in Alive /\ o \notin ready /\ Open(o)
  /\ Over(o) /\ Send(o, "failed")
  /\ UNCHANGED <<client, request, term, ready, child, cleaning, profile, early, down>>

\* By itself or by a signal.
ChildExits(o) ==
  /\ child[o] \in Alive
  /\ child' = [child EXCEPT ![o] = "exited"]
  /\ Over(o) /\ Send(o, IF o \in ready THEN "exit" ELSE "failed")
  /\ UNCHANGED <<client, request, term, ready, cleaning, profile, early, down>>

-----------------------------------------------------------------------------
(* cleanup: once for each connection *)

\* Mutant of Signalled: no signal is sent to a browser that is still starting.
SignalledServing(c) == IF c = "serving" THEN "termed" ELSE c
\* terminateChild sends SIGTERM to a child that runs.
Signalled(c) == IF c \in {"starting", "serving"} THEN "termed" ELSE c

\* What makes the worker clean up: the connection's close event, a terminate
\* line, its own shutdown.
Told(o) == client[o] = "closed" \/ o \in term \/ down

\* Whatever is under way: there is no child to be signalled while its profile
\* is still being made.
Cleanup(o) ==
  /\ worker[o] # "none" /\ Told(o) /\ cleaning[o] = "no"
  /\ child' = [child EXCEPT ![o] = Signalled(@)]
  /\ cleaning' = [cleaning EXCEPT ![o] = IF child'[o] = "termed" THEN "killing" ELSE "removing"]
  /\ early' = IF child[o] = "making" THEN early \cup {o} ELSE early
  /\ UNCHANGED <<chanVars, worker, ready, profile, down>>

\* Mutant of Outlived: SIGKILL is not sent.
OutlivedAnyhow(c) == c
\* TERMINATE_GRACE_MS have passed: SIGKILL, whose effect is not waited for.
Outlived(c) == IF c = "termed" THEN "killed" ELSE c

KillEnds(o) ==
  /\ cleaning[o] = "killing"
  /\ child' = [child EXCEPT ![o] = Outlived(@)]
  /\ cleaning' = [cleaning EXCEPT ![o] = "removing"]
  /\ UNCHANGED <<chanVars, worker, ready, profile, early, down>>

RemoveProfile(o) ==
  /\ cleaning[o] = "removing"
  /\ cleaning' = [cleaning EXCEPT ![o] = "done"]
  /\ profile' = profile \ {o}
  /\ UNCHANGED <<chanVars, worker, ready, child, early, down>>

\* A terminate line is answered after the cleanup, or at once when the shutdown
\* has begun it; at the end of the shutdown the sockets are destroyed.
Terminated(o) ==
  /\ cleaning[o] # "no"
  /\ \/ o \in term /\ (cleaning[o] = "done" \/ down)
     \/ down /\ cleaning[o] = "done" /\ worker[o] # "over"
  /\ term' = term \ {o}
  /\ Over(o)
  /\ UNCHANGED <<client, request, out, ready, child, cleaning, profile, early, down>>

Shutdown ==
  /\ ~down /\ down' = TRUE
  /\ UNCHANGED <<chanVars, workVars>>

WorkerStep(o) ==
  \/ ReadSpawn(o) \/ Refuse(o) \/ Spawn(o) \/ SpawnFails(o) \/ StartupTimeout(o)
  \/ Ready(o) \/ Cleanup(o) \/ KillEnds(o) \/ RemoveProfile(o) \/ Terminated(o)
=============================================================================
