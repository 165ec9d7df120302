--------------------------- MODULE CapabilityAgents ---------------------------
(***************************************************************************)
(* The capability agents of the DSH bridge plugin (index.js): every /call  *)
(* request leases an agent composed from the current default preset, runs  *)
(* its tool with it and returns the lease.  Agents are shared by all calls *)
(* with the same helper session id, which fingerprints the preset file.    *)
(*                                                                         *)
(* An action is what runs between two awaits.  A call goes through         *)
(*   stamping -> lookup -> awaiting -> checking -> same -> using      *)
(* and starts again when the preset changed on its way.  A request that    *)
(* disconnects or takes 120 s is aborted; its acquisition runs on in the   *)
(* background and is noticed at the next assertActive.                     *)
(***************************************************************************)
EXTENDS Integers, FiniteSets

CONSTANTS
  Calls,        \* /call requests
  Presets,
  Entries,      \* places for entry objects; one nobody refers to is used again
  None,         \* no entry
  MaxVersion,   \* bound: versions of a preset file
  MaxChanges   \* bound: changes of the default preset or of a preset file

ASSUME CallsAssumption == IsFiniteSet(Calls)
ASSUME NoneAssumption == None \notin Entries
ASSUME PresetsAssumption == Presets # {}
ASSUME BoundsAssumption == MaxVersion \in Nat \ {0} /\ MaxChanges \in Nat

Versions == 1 .. MaxVersion
Helpers  == Presets \X Versions   \* capabilitySessionId: preset and fingerprint

VARIABLES
  \* The world: the preset service and the preset files.
  defaultId, version, changes,
  \* The plugin's entries.
  capabilityHandles,   \* the map: the entry of a helper session id, or None
  entry,               \* the entry objects
  torn,                \* the plugin's effect has been disposed of
  \* Per call.
  pc, presetId, stamp, held, aborted,
  since                \* history: the preset's version when the handle arrived

world == <<defaultId, version, changes>>
table == <<capabilityHandles, entry, torn>>
calls == <<pc, presetId, stamp, held, aborted, since>>
vars == <<world, table, calls>>

\* life is the entry's promise and then its agent: listing the persisted
\* sessions, creating the agent, its preset mounted, live, failed, or gone.
\* mounted (history) is the preset version the agent was composed from.
Entry == [helper : Helpers, life : {"none", "listing", "creating", "mounted", "live",
                                    "failed", "gone"},
          leases : Nat, stale : BOOLEAN,
          disposePromise : {"none", "pending", "settled"},
          doomed : BOOLEAN,      \* promise.then(handle => handle.dispose())
          creator : Calls \cup {None}, mounted : Versions]

Pcs == {"idle", "stamping", "lookup", "waiting", "awaiting", "checking", "same",
        "differs", "using", "retiring", "leaving", "done"}

TypeOK ==
  /\ defaultId \in Presets /\ version \in [Presets -> Versions] /\ changes \in 0 .. MaxChanges
  /\ capabilityHandles \in [Helpers -> Entries \cup {None}]
  /\ entry \in [Entries -> Entry]
  /\ torn \in BOOLEAN
  /\ pc \in [Calls -> Pcs] /\ presetId \in [Calls -> Presets]
  /\ stamp \in [Calls -> Versions] /\ since \in [Calls -> Versions]
  /\ held \in [Calls -> Entries \cup {None}] /\ aborted \in SUBSET Calls

Init ==
  /\ defaultId \in Presets /\ version = [p \in Presets |-> 1] /\ changes = 0
  /\ capabilityHandles = [h \in Helpers |-> None]
  /\ entry = [e \in Entries |->
               [helper |-> CHOOSE h \in Helpers : TRUE, life |-> "none", leases |-> 0,
                stale |-> FALSE, disposePromise |-> "none", doomed |-> FALSE,
                creator |-> None, mounted |-> 1]]
  /\ torn = FALSE
  /\ pc = [c \in Calls |-> "idle"] /\ presetId = [c \in Calls |-> defaultId]
  /\ stamp = [c \in Calls |-> 1] /\ since = [c \in Calls |-> 1]
  /\ held = [c \in Calls |-> None] /\ aborted = {}

-----------------------------------------------------------------------------
(* Parts *)

Goto(c, place) == pc' = [pc EXCEPT ![c] = place]
Hold(c, e)     == held' = [held EXCEPT ![c] = e]

HelperOf(c) == <<presetId[c], stamp[c]>>
Mapped(e)   == capabilityHandles[entry[e].helper] = e

\* Mutant of Unmap: the map is left as it is.
UnmapNothing(e) == capabilityHandles
Unmap(e) == [capabilityHandles EXCEPT ![entry[e].helper] = IF @ = e THEN None ELSE @]

\* Nothing refers to the entry any more, or nothing ever did.
Unused(e) ==
  /\ entry[e].life \in {"none", "failed", "gone"}
  /\ \A c \in Calls : held[c] # e

\* Mutants of MaybeDispose: leases are not looked at; nobody disposes.
MaybeDisposeLeased(r) ==
  IF r.stale /\ r.disposePromise = "none" THEN [r EXCEPT !.disposePromise = "pending"] ELSE r
MaybeDisposeNever(r) == r
\* maybeDisposeCapabilityEntry: the last one out disposes of a stale entry.  A
\* promise that has failed leaves nothing to dispose of, and settles at once.
MaybeDispose(r) ==
  IF r.stale /\ r.leases = 0 /\ r.disposePromise = "none"
  THEN [r EXCEPT !.disposePromise = IF r.life \in {"failed", "gone"} THEN "settled" ELSE "pending"]
  ELSE r

\* acquireCapabilityAgent begins, for the first time or again.
Restart(c) ==
  /\ Goto(c, "stamping")
  /\ Hold(c, None)
  /\ presetId' = [presetId EXCEPT ![c] = defaultId]

Fail(c) == Goto(c, "done") /\ Hold(c, None) /\ UNCHANGED presetId

Join(c, e) ==
  /\ entry' = [entry EXCEPT ![e].leases = @ + 1]
  /\ Goto(c, "awaiting") /\ Hold(c, e)
  /\ UNCHANGED <<capabilityHandles, presetId>>

\* A new entry; the session persistence service may be there or not.
Create(c) ==
  \E e \in Entries, l \in {"listing", "creating"} :
    /\ Unused(e)
    /\ entry' = [entry EXCEPT ![e] =
                  [helper |-> HelperOf(c), life |-> l, leases |-> 1, stale |-> FALSE,
                   disposePromise |-> "none", doomed |-> FALSE, creator |-> c, mounted |-> 1]]
    /\ capabilityHandles' = [capabilityHandles EXCEPT ![HelperOf(c)] = e]
    /\ Goto(c, "awaiting") /\ Hold(c, e)
    /\ UNCHANGED presetId

\* Mutants of DropLease: the retry gives the lease back and its catch does so
\* again; the lease is kept.
DropLeaseTwice(c) ==
  entry' = [entry EXCEPT ![held[c]] =
             MaybeDispose([entry[held[c]] EXCEPT !.stale = TRUE, !.leases = @ - 2])]
DropLeaseNever(c) ==
  entry' = [entry EXCEPT ![held[c]] = MaybeDispose([entry[held[c]] EXCEPT !.stale = TRUE])]
\* The call drops its lease without having verified the entry.
DropLease(c) ==
  entry' = [entry EXCEPT ![held[c]] =
             MaybeDispose([entry[held[c]] EXCEPT !.stale = TRUE, !.leases = @ - 1])]

\* Mutant of Disposing: waits for an entry that others still use.
DisposingOrLeased(c) == entry'[held[c]].disposePromise # "settled"
\* It then waits for the disposal, if that left one under way.
Disposing(c) == entry'[held[c]].disposePromise = "pending"

\* The entry is not the one the call needs: drop it and start again.
Retire(c) ==
  /\ DropLease(c)
  /\ \/ Disposing(c) /\ Goto(c, "retiring") /\ UNCHANGED <<presetId, held>>
     \/ ~Disposing(c) /\ Restart(c)
  /\ UNCHANGED capabilityHandles

\* Mutant of Abandoned: the handle is not disposed of when it comes.
AbandonedOnly(e) == [entry[e] EXCEPT !.stale = TRUE, !.leases = 0]
\* The last caller of an entry was aborted: whatever comes of it is disposed of.
Abandoned(e) == [entry[e] EXCEPT !.stale = TRUE, !.leases = 0, !.doomed = TRUE]

\* The catch of acquireCapabilityAgent.
Catch(c) ==
  LET e == held[c] IN
  IF c \in aborted /\ entry[e].leases = 1 /\ Mapped(e)
  THEN /\ entry' = [entry EXCEPT ![e] = Abandoned(e)]
       /\ capabilityHandles' = Unmap(e)
       /\ Fail(c)
  ELSE /\ DropLease(c)
       /\ \/ Disposing(c) /\ Goto(c, "leaving") /\ UNCHANGED <<presetId, held>>
          \/ ~Disposing(c) /\ Fail(c)
       /\ UNCHANGED capabilityHandles

-----------------------------------------------------------------------------
(* A call *)

Start(c) ==
  /\ pc[c] = "idle" /\ ~torn
  /\ Restart(c)
  /\ UNCHANGED <<world, table, stamp, aborted, since>>

\* presetStamp reads the preset file.
Stamp(c) ==
  /\ pc[c] = "stamping"
  /\ stamp' = [stamp EXCEPT ![c] = version[presetId[c]]]
  /\ Goto(c, "lookup")
  /\ UNCHANGED <<world, table, presetId, held, aborted, since>>

\* The preset cannot be resolved, or its file changes while it is read.
StampFails(c) ==
  /\ pc[c] = "stamping"
  /\ Fail(c)
  /\ UNCHANGED <<world, table, stamp, aborted, since>>

\* From the stamp to the lease, without an await.
Lookup(c) ==
  /\ pc[c] = "lookup"
  /\ LET e == capabilityHandles[HelperOf(c)] IN
     \/ c \in aborted /\ Fail(c) /\ UNCHANGED table
     \/ c \notin aborted /\ defaultId # presetId[c] /\ Restart(c) /\ UNCHANGED table
     \/ /\ c \notin aborted /\ defaultId = presetId[c]
        /\ \/ e = None /\ Create(c)
           \/ e # None /\ entry[e].disposePromise = "none" /\ Join(c, e)
           \/ /\ e # None /\ entry[e].disposePromise # "none"
              /\ Goto(c, "waiting") /\ Hold(c, e)
              /\ UNCHANGED <<capabilityHandles, entry, presetId>>
        /\ UNCHANGED torn
  /\ UNCHANGED <<world, stamp, aborted, since>>

\* The disposal it waited for has settled: the map is read again, and what is
\* there is not asked again whether it is being disposed of.
LookAgain(c) ==
  /\ pc[c] = "waiting" /\ entry[held[c]].disposePromise = "settled"
  /\ LET e == capabilityHandles[HelperOf(c)] IN
     \/ c \in aborted /\ Fail(c) /\ UNCHANGED <<capabilityHandles, entry>>
     \/ c \notin aborted /\ e = None /\ Create(c)
     \/ c \notin aborted /\ e # None /\ Join(c, e)
  /\ UNCHANGED <<world, torn, stamp, aborted, since>>

\* awaitWithinToolCallLifetime delivers the handle.
Arrive(c) ==
  /\ pc[c] = "awaiting" /\ entry[held[c]].life \in {"live", "gone"}
  /\ \/ defaultId # presetId[c] /\ Retire(c)
     \/ /\ defaultId = presetId[c]
        /\ Goto(c, "checking")
        /\ UNCHANGED <<capabilityHandles, entry, presetId, held>>
  /\ since' = [since EXCEPT ![c] = version[presetId[c]]]
  /\ UNCHANGED <<world, torn, stamp, aborted>>

\* Mutant of Reject: the promise is awaited without the call's signal.
RejectFailed(c) ==
  /\ pc[c] = "awaiting" /\ entry[held[c]].life = "failed"
  /\ Catch(c)
  /\ UNCHANGED <<world, torn, stamp, aborted, since>>

\* ... or rejects: the call is aborted or the creation has failed.
Reject(c) ==
  /\ pc[c] = "awaiting" /\ (c \in aborted \/ entry[held[c]].life = "failed")
  /\ Catch(c)
  /\ UNCHANGED <<world, torn, stamp, aborted, since>>

\* Mutant of SameStamp: the file is not read again.
SameStampTrusted(c) == TRUE
SameStamp(c) == version[presetId[c]] = stamp[c]

\* The preset file is read once more; the outcome is used a moment later.
CheckStamp(c) ==
  /\ pc[c] = "checking"
  /\ Goto(c, IF SameStamp(c) THEN "same" ELSE "differs")
  /\ UNCHANGED <<world, table, presetId, stamp, held, aborted, since>>

CheckFails(c) ==
  /\ pc[c] = "checking"
  /\ Catch(c)
  /\ UNCHANGED <<world, torn, stamp, aborted, since>>

\* Mutant of RetiredOther: other entries are kept.
RetiredNone(e) == entry[e]
\* retireOtherCapabilityEntries, for one entry.
RetiredOther(e) ==
  IF Mapped(e) THEN MaybeDispose([entry[e] EXCEPT !.stale = TRUE]) ELSE entry[e]

\* The entry is verified, and every other one in the map is retired.  A call
\* that was aborted meanwhile gets its lease too and returns it at once.
Verify(c) ==
  /\ pc[c] = "same" /\ defaultId = presetId[c]
  /\ entry' = [e \in Entries |->
                IF e = held[c] THEN [entry[e] EXCEPT !.stale = FALSE] ELSE RetiredOther(e)]
  /\ Goto(c, "using")
  /\ UNCHANGED <<world, capabilityHandles, torn, presetId, stamp, held, aborted, since>>

Mismatch(c) ==
  /\ pc[c] = "differs" \/ (pc[c] = "same" /\ defaultId # presetId[c])
  /\ Retire(c)
  /\ UNCHANGED <<world, torn, stamp, aborted, since>>

Retry(c) ==
  /\ pc[c] = "retiring" /\ entry[held[c]].disposePromise = "settled"
  /\ Restart(c)
  /\ UNCHANGED <<world, table, stamp, aborted, since>>

Leave(c) ==
  /\ pc[c] = "leaving" /\ entry[held[c]].disposePromise = "settled"
  /\ Fail(c)
  /\ UNCHANGED <<world, table, stamp, aborted, since>>

\* The handler's finally, after the tool has answered or the call was aborted;
\* nothing waits for the disposal this may start.
Release(c) ==
  /\ pc[c] = "using"
  /\ entry' = [entry EXCEPT ![held[c]] = MaybeDispose([entry[held[c]] EXCEPT !.leases = @ - 1])]
  /\ Goto(c, "done") /\ Hold(c, None)
  /\ UNCHANGED <<world, capabilityHandles, torn, presetId, stamp, aborted, since>>

\* The client disconnects, or 120 seconds have passed.
Abort(c) ==
  /\ pc[c] \notin {"idle", "done"} /\ c \notin aborted
  /\ aborted' = aborted \cup {c}
  /\ UNCHANGED <<world, table, pc, presetId, stamp, held, since>>

-----------------------------------------------------------------------------
(* An entry's promise: persistence.list, then agents.resume or create with setup *)

Promise(e, r, map) ==
  /\ entry' = [entry EXCEPT ![e] = r]
  /\ capabilityHandles' = map
  /\ UNCHANGED <<world, torn, calls>>

\* The rejection takes the entry out of the map and settles its disposal.
Failed(e) ==
  [entry[e] EXCEPT !.life = "failed",
                   !.disposePromise = IF @ = "pending" THEN "settled" ELSE @]

\* The signal asked is that of the call which made the entry.
Listed(e) ==
  /\ entry[e].life = "listing"
  /\ IF entry[e].creator \in aborted
     THEN Promise(e, Failed(e), Unmap(e))
     ELSE Promise(e, [entry[e] EXCEPT !.life = "creating"], capabilityHandles)

Mount(e) ==
  /\ entry[e].life = "creating"
  /\ Promise(e, [entry[e] EXCEPT !.life = "mounted", !.mounted = version[entry[e].helper[1]]],
             capabilityHandles)

\* setup compares the preset file once more, after it has been mounted.
Composed(e) ==
  /\ entry[e].life = "mounted"
  /\ IF version[entry[e].helper[1]] = entry[e].helper[2]
     THEN Promise(e, [entry[e] EXCEPT !.life = "live"], capabilityHandles)
     ELSE Promise(e, Failed(e), Unmap(e))

CreateFails(e) ==
  /\ entry[e].life \in {"listing", "creating", "mounted"}
  /\ Promise(e, Failed(e), Unmap(e))

\* handle.dispose() has been called as soon as there is a handle; it settles.
DisposeEnds(e) ==
  /\ entry[e].life = "live" /\ (entry[e].doomed \/ entry[e].disposePromise = "pending")
  /\ Promise(e, [entry[e] EXCEPT !.life = "gone",
                                 !.disposePromise = IF @ = "pending" THEN "settled" ELSE @],
             Unmap(e))

\* The plugin's effect is disposed of; its calls are not waited for.
Teardown ==
  /\ ~torn /\ torn' = TRUE
  /\ entry' = [e \in Entries |-> IF Mapped(e) THEN [entry[e] EXCEPT !.doomed = TRUE] ELSE entry[e]]
  /\ capabilityHandles' = [h \in Helpers |-> None]
  /\ UNCHANGED <<world, calls>>

-----------------------------------------------------------------------------
(* The world *)

SetDefault(p) ==
  /\ changes < MaxChanges /\ p # defaultId
  /\ defaultId' = p /\ changes' = changes + 1
  /\ UNCHANGED <<version, table, calls>>

\* A stamp holds the file's mtime: no edit brings an earlier one back.
Edit(p) ==
  /\ changes < MaxChanges /\ version[p] < MaxVersion
  /\ version' = [version EXCEPT ![p] = @ + 1] /\ changes' = changes + 1
  /\ UNCHANGED <<defaultId, table, calls>>

-----------------------------------------------------------------------------

\* Calls that waited for a disposal go on before anything else happens.
Resuming == \E c \in Calls : pc[c] = "waiting" /\ entry[held[c]].disposePromise = "settled"

CallStep(c) ==
  \/ Stamp(c) \/ StampFails(c) \/ Lookup(c) \/ Arrive(c) \/ Reject(c)
  \/ CheckStamp(c) \/ CheckFails(c) \/ Verify(c) \/ Mismatch(c)
  \/ Retry(c) \/ Leave(c) \/ Release(c)
EntryStep(e) ==
  \/ Listed(e) \/ Mount(e) \/ Composed(e) \/ CreateFails(e) \/ DisposeEnds(e)

Next ==
  \/ \E c \in Calls : LookAgain(c)
  \/ ~Resuming /\ \/ \E c \in Calls : Start(c) \/ CallStep(c) \/ Abort(c)
                  \/ \E e \in Entries : EntryStep(e)
                  \/ Teardown
                  \/ \E p \in Presets : SetDefault(p) \/ Edit(p)

Spec == Init /\ [][Next]_vars

\* Preset files are read, tools answer or are given up, and whoever can go on
\* goes on; a call that is not over after 120 s is aborted.  Nothing makes the
\* agent service create or dispose of an agent: either "can stall indefinitely".
Fairness ==
  \A c \in Calls :
    WF_vars(LookAgain(c)) /\ WF_vars(~Resuming /\ CallStep(c)) /\ WF_vars(~Resuming /\ Abort(c))
FairSpec == Spec /\ Fairness

-----------------------------------------------------------------------------
(* Properties *)

Holders(e) == {c \in Calls : held[c] = e /\ pc[c] \in {"awaiting", "checking", "same", "differs", "using"}}

\* The counter with which index.js decides that nobody uses an agent any more is
\* the number of calls that hold a lease, on every path through acquire, its
\* retries, its catch and the late release.
LeasesCounted == \A e \in Entries : entry[e].leases = Cardinality(Holders(e))

\* A tool never runs with an agent that has been disposed of or is being
\* disposed of, unless the plugin itself went away; and the agent it runs with
\* is the one in the map, so that calls of one composition share it.
InUseAlive ==
  \A c \in Calls : pc[c] = "using" /\ ~torn =>
    LET e == held[c] IN
    /\ entry[e].life = "live" /\ ~entry[e].doomed /\ entry[e].disposePromise = "none"
    /\ entry[e].helper = HelperOf(c) /\ Mapped(e)

\* The agent a tool runs with was composed from the preset file as it was when
\* the handle arrived or later, however long the creation took (the check
\* after the await; setup's own check makes the fingerprint true).
UsesCurrent ==
  \A c \in Calls : pc[c] = "using" => /\ entry[held[c]].mounted = stamp[c]
                                      /\ since[c] <= entry[held[c]].mounted

\* Both: what a tool runs with is alive, shared and up to date.
UsedAgentsFit == InUseAlive /\ UsesCurrent

\* An agent nobody will ever use or dispose of again is not left behind: a
\* coming or live agent is being disposed of or will be as soon as it is live,
\* or, until the teardown, it is in the map, where the next call finds it, and
\* if stale it is leased.  The teardown does not wait for acquisitions under
\* way, and what they put into the map after it is left behind there.
LeftInMap(e) == torn /\ Mapped(e)
NoForgottenAgent ==
  \A e \in Entries : entry[e].life \in {"listing", "creating", "mounted", "live"} =>
    \/ entry[e].doomed \/ entry[e].disposePromise = "pending"
    \/ ~torn /\ Mapped(e) /\ (entry[e].stale => entry[e].leases > 0)
    \/ LeftInMap(e)

\* Composition changes do not pile agents up: at most one unused agent is kept
\* for later calls (retireOtherCapabilityEntries and the stale flags).
OneIdle ==
  \A e, f \in Entries :
    (\A x \in {e, f} : Mapped(x) /\ ~entry[x].stale /\ entry[x].leases = 0) => e = f

\* All of it: every agent and every lease is accounted for.
AgentsAccounted == LeasesCounted /\ NoForgottenAgent /\ OneIdle

\* Every acquisition ends, although creations may stall for ever: it starts
\* over only as often as the preset changes, and waits for no agent longer than
\* the lifetime of its request.  The exception is a disposal, for which
\* acquisitions wait without a limit (324, 394, 406, 432): one that stalls holds
\* them for ever, in the background of requests that have been answered.
Stalled(c) ==
  /\ pc[c] \in {"waiting", "retiring", "leaving"}
  /\ entry[held[c]].disposePromise = "pending"
CallSettles == \A c \in Calls : <>[]Stalled(c) \/ (pc[c] = "stamping" ~> pc[c] = "done")

\* A lease is given back, whatever stalls.
LeasesReturned ==
  \A c \in Calls : pc[c] = "awaiting" ~> \A e \in Entries : c \notin Holders(e)

\* The disposal of an agent of a superseded composition is begun, unless a call
\* verified the agent anew.
StaleGoes ==
  \A e \in Entries :
    entry[e].life = "live" /\ entry[e].stale ~>
      \/ entry[e].life # "live" \/ ~entry[e].stale
      \/ entry[e].doomed \/ entry[e].disposePromise # "none"

\* All three: neither calls nor leases nor agents are left over by the plugin.
AllMoveOn == CallSettles /\ LeasesReturned /\ StaleGoes

\* What the calls are promised: see SharedAgents.
OnItsWay(r) == r.life # "none"
Ended(r)    == r.life \in {"failed", "gone"} \/ r.doomed \/ r.disposePromise # "none"
Phase(r) ==
  IF ~OnItsWay(r) THEN "none"
  ELSE IF Ended(r) THEN "ended"
  ELSE IF r.life = "live" THEN "offered" ELSE "coming"
Borrowers(e) == {c \in Calls : pc[c] = "using" /\ held[c] = e}

AgentNow    == [e \in Entries |-> Phase(entry[e])]
MadeNow     == [e \in Entries |-> entry[e].helper]
BorrowedNow == [e \in Entries |-> Borrowers(e)]

Shared == INSTANCE SharedAgents WITH
  Agents <- Entries, Compositions <- Helpers,
  agent <- AgentNow, made <- MadeNow, borrowers <- BorrowedNow, torn <- torn

SharesAgents == Shared!SharedSpec
=============================================================================
