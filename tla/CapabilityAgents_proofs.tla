------------------------ MODULE CapabilityAgents_proofs ------------------------
(***************************************************************************)
(* The leases of the capability agents are counted exactly, no agent is    *)
(* disposed of under a tool, the agent a tool gets was composed from the   *)
(* preset it asked for, none is forgotten before the teardown and at most  *)
(* one is kept idle; the plugin implements SharedAgents: for any number of *)
(* calls, presets, entries, versions and changes.                          *)
(***************************************************************************)
EXTENDS CapabilityAgents, FiniteSetTheorems, TLAPS

Past == {"checking", "same", "differs", "using"}   \* the handle has arrived
Leasing == {"awaiting"} \cup Past
Bound == {"waiting", "awaiting", "retiring", "leaving"} \cup Past

\* A call refers to an entry just while it waits for it or leases it.
HeldOK == \A c \in Calls : held[c] \in Entries <=> pc[c] \in Bound

\* What is in the map is an entry of that helper that may still come or is live.
MapOK ==
  \A h \in Helpers : capabilityHandles[h] # None =>
    LET r == entry[capabilityHandles[h]] IN
    /\ r.helper = h
    /\ r.life \in {"listing", "creating", "mounted", "live"}
    /\ ~r.doomed /\ r.disposePromise # "settled"

SettledOK ==
  \A e \in Entries : entry[e].disposePromise = "settled" => entry[e].life \in {"failed", "gone"}

\* The entry of a call that leases it is not on its way out.
LeaseOK ==
  \A c \in Calls : pc[c] \in Leasing =>
    LET r == entry[held[c]] IN
    /\ r.helper = HelperOf(c)
    /\ r.life # "none"
    /\ pc[c] \in Past => r.life \in {"live", "gone"}
    /\ ~torn => /\ ~r.doomed /\ r.disposePromise = "none" /\ r.life # "gone"
                /\ r.life = "failed" \/ Mapped(held[c])

\* A call waits for the entry of its own helper; when the disposal has settled,
\* what it finds in the map is not being disposed of.
WaitOK ==
  \A c \in Calls : pc[c] = "waiting" /\ ~torn =>
    LET r == entry[held[c]]
        e == capabilityHandles[HelperOf(c)] IN
    \/ r.disposePromise = "pending" /\ e = held[c]
    \/ r.disposePromise = "settled" /\ (e = None \/ entry[e].disposePromise = "none")

\* Stamps and compositions are never ahead of the preset files.
StampOK ==
  \A c \in Calls :
    /\ pc[c] \in {"lookup"} \cup Bound => stamp[c] <= version[presetId[c]]
    /\ pc[c] \in Past => since[c] <= version[presetId[c]]
    /\ pc[c] \in {"same", "using"} => since[c] <= stamp[c]
ComposedOK ==
  \A e \in Entries :
    LET r == entry[e] IN
    /\ r.life # "none" => r.helper[2] <= version[r.helper[1]]
    /\ r.life = "mounted" => r.helper[2] <= r.mounted /\ r.mounted <= version[r.helper[1]]
    /\ r.life \in {"live", "gone"} => r.mounted = r.helper[2]

\* The entry verified last, if it is kept.
Kept(e) ==
  /\ Mapped(e) /\ ~entry[e].stale
  /\ entry[e].leases = 0 \/ \E c \in Calls : pc[c] = "using" /\ held[c] = e
KeptOK == \A e, f \in Entries : Kept(e) /\ Kept(f) => e = f

\* What is coming or live is being disposed of, or will be, or is in the map; a
\* stale agent is there only while it is leased.
InMapOrEnding ==
  \A e \in Entries : entry[e].life \in {"listing", "creating", "mounted", "live"} =>
    \/ entry[e].doomed \/ entry[e].disposePromise = "pending"
    \/ Mapped(e) /\ (entry[e].stale => entry[e].leases > 0)

Inv == /\ TypeOK /\ HeldOK /\ LeasesCounted /\ MapOK /\ SettledOK /\ LeaseOK
       /\ WaitOK /\ StampOK /\ ComposedOK /\ InMapOrEnding /\ KeptOK

USE CallsAssumption, NoneAssumption, PresetsAssumption, BoundsAssumption

-----------------------------------------------------------------------------
(* Types *)

LEMMA HelperTyped ==
  ASSUME TypeOK, NEW c \in Calls
  PROVE  HelperOf(c) \in Helpers
  BY DEF TypeOK, HelperOf, Helpers

LEMMA MaybeDisposeTyped ==
  ASSUME NEW r \in Entry
  PROVE  /\ MaybeDispose(r) \in Entry
         /\ MaybeDispose(r) = [r EXCEPT !.disposePromise = MaybeDispose(r).disposePromise]
         /\ MaybeDispose(r).disposePromise =
              IF r.stale /\ r.leases = 0 /\ r.disposePromise = "none"
              THEN IF r.life \in {"failed", "gone"} THEN "settled" ELSE "pending"
              ELSE r.disposePromise
  BY DEF MaybeDispose, Entry


\* The four parts that change the entries.
EntriesTyped == entry' \in [Entries -> Entry] /\ capabilityHandles' \in [Helpers -> Entries \cup {None}]
CallTyped == pc' \in [Calls -> Pcs] /\ held' \in [Calls -> Entries \cup {None}] /\ presetId' \in [Calls -> Presets]

LEMMA RestartTyped ==
  ASSUME TypeOK, NEW c \in Calls, Restart(c)
  PROVE  CallTyped
  BY DEF TypeOK, Restart, Goto, Hold, CallTyped, Pcs

LEMMA FailTyped ==
  ASSUME TypeOK, NEW c \in Calls, Fail(c)
  PROVE  CallTyped
  BY DEF TypeOK, Fail, Goto, Hold, CallTyped, Pcs

LEMMA JoinTyped ==
  ASSUME TypeOK, NEW c \in Calls, NEW e \in Entries, Join(c, e)
  PROVE  EntriesTyped /\ CallTyped
  BY DEF TypeOK, Join, Goto, Hold, EntriesTyped, CallTyped, Pcs, Entry

LEMMA CreateTyped ==
  ASSUME TypeOK, NEW c \in Calls, Create(c)
  PROVE  EntriesTyped /\ CallTyped
<1>1. PICK e \in Entries, l \in {"listing", "creating"} :
        /\ entry' = [entry EXCEPT ![e] =
                  [helper |-> HelperOf(c), life |-> l, leases |-> 1, stale |-> FALSE,
                   disposePromise |-> "none", doomed |-> FALSE, creator |-> c, mounted |-> 1]]
        /\ capabilityHandles' = [capabilityHandles EXCEPT ![HelperOf(c)] = e]
        /\ Goto(c, "awaiting") /\ Hold(c, e)
        /\ UNCHANGED presetId
  BY DEF Create
<1>2. [helper |-> HelperOf(c), life |-> l, leases |-> 1, stale |-> FALSE,
       disposePromise |-> "none", doomed |-> FALSE, creator |-> c, mounted |-> 1] \in Entry
  BY HelperTyped DEF Entry, Versions
<1> QED  BY <1>1, <1>2, HelperTyped DEF TypeOK, Goto, Hold, EntriesTyped, CallTyped, Pcs

\* The entry a call leases, and what dropping the lease makes of it.
Less(r) == [r EXCEPT !.leases = @ - 1]
Dropped(r) == [r EXCEPT !.stale = TRUE, !.leases = @ - 1]

LEMMA LessTyped ==
  ASSUME NEW r \in Entry, r.leases >= 1
  PROVE  Less(r) \in Entry /\ Dropped(r) \in Entry
<1>1. r.leases \in Nat /\ r.leases - 1 \in Nat
  BY DEF Entry
<1>2. ASSUME NEW n \in Nat
      PROVE  [r EXCEPT !.leases = n] \in Entry /\ [r EXCEPT !.stale = TRUE, !.leases = n] \in Entry
  BY DEF Entry
<1> QED  BY <1>1, <1>2 DEF Less, Dropped

LEMMA AbandonedTyped ==
  ASSUME TypeOK, NEW e \in Entries
  PROVE  Abandoned(e) \in Entry
<1>1. entry[e] \in Entry
  BY DEF TypeOK
<1>2. ASSUME NEW r \in Entry
      PROVE  [r EXCEPT !.stale = TRUE, !.leases = 0, !.doomed = TRUE] \in Entry
  BY DEF Entry
<1> QED  BY <1>1, <1>2 DEF Abandoned

LEMMA DropLeaseIs ==
  ASSUME TypeOK, NEW c \in Calls, held[c] \in Entries, entry[held[c]].leases >= 1
  PROVE  /\ DropLease(c) <=> entry' = [entry EXCEPT ![held[c]] = MaybeDispose(Dropped(entry[held[c]]))]
         /\ MaybeDispose(Dropped(entry[held[c]])) \in Entry
<1>1. entry[held[c]] \in Entry
  BY DEF TypeOK
<1>2. Dropped(entry[held[c]]) \in Entry
  BY <1>1, LessTyped
<1> QED  BY <1>2, MaybeDisposeTyped DEF DropLease, Dropped

LEMMA CatchTyped ==
  ASSUME TypeOK, NEW c \in Calls, held[c] \in Entries, entry[held[c]].leases >= 1, Catch(c)
  PROVE  EntriesTyped /\ CallTyped
  BY DropLeaseIs, AbandonedTyped DEF TypeOK, Catch, Fail, Goto, Hold, Unmap, EntriesTyped, CallTyped, Pcs

LEMMA RetireTyped ==
  ASSUME TypeOK, NEW c \in Calls, held[c] \in Entries, entry[held[c]].leases >= 1, Retire(c)
  PROVE  EntriesTyped /\ CallTyped
  BY DropLeaseIs DEF TypeOK, Retire, Restart, Goto, Hold, EntriesTyped, CallTyped, Pcs

-----------------------------------------------------------------------------
(* Steps that leave the table alone *)

\* A call that moves on without taking or giving back a lease.
Moves(c) ==
  /\ \A d \in Calls \ {c} : /\ pc'[d] = pc[d] /\ held'[d] = held[d]
                            /\ presetId'[d] = presetId[d] /\ stamp'[d] = stamp[d]
  /\ pc'[c] \in Leasing <=> pc[c] \in Leasing
  /\ pc'[c] \in Leasing => /\ held'[c] = held[c]
                           /\ presetId'[c] = presetId[c] /\ stamp'[c] = stamp[c]
  /\ pc'[c] \in Past /\ pc[c] \notin Past => entry[held[c]].life \in {"live", "gone"}
  /\ pc'[c] = "using" <=> pc[c] = "using"
  /\ pc'[c] = "waiting" =>
       \/ pc[c] = "waiting" /\ held'[c] = held[c] /\ presetId'[c] = presetId[c] /\ stamp'[c] = stamp[c]
       \/ /\ held'[c] = capabilityHandles[<<presetId'[c], stamp'[c]>>]
          /\ entry[held'[c]].disposePromise = "pending"

LEMMA QuietStep ==
  ASSUME Inv, TypeOK', HeldOK', StampOK', NEW c \in Calls, Moves(c),
         UNCHANGED <<table, version>>
  PROVE  Inv'
<1>1. \A e \in Entries : Holders(e)' = Holders(e)
  <2> SUFFICES ASSUME NEW e \in Entries, NEW d \in Calls
               PROVE  d \in Holders(e)' <=> d \in Holders(e)
    BY DEF Holders
  <2>1. CASE d = c
    BY <2>1 DEF Moves, Holders, Leasing, Past
  <2>2. CASE d # c
    BY <2>2 DEF Moves, Holders
  <2> QED  BY <2>1, <2>2
<1>2. LeasesCounted'
  BY <1>1 DEF LeasesCounted, Inv, table
<1>3. MapOK' /\ SettledOK' /\ ComposedOK' /\ InMapOrEnding'
  BY DEF Inv, MapOK, SettledOK, ComposedOK, InMapOrEnding, Mapped, table
<1>4. LeaseOK'
  <2> SUFFICES ASSUME NEW d \in Calls, pc'[d] \in Leasing
               PROVE  LET r == entry[held[d]]' IN
                      /\ r.helper = HelperOf(d)'
                      /\ r.life # "none"
                      /\ pc'[d] \in Past => r.life \in {"live", "gone"}
                      /\ ~torn' => /\ ~r.doomed /\ r.disposePromise = "none" /\ r.life # "gone"
                                   /\ r.life = "failed" \/ Mapped(held[d])'
    BY DEF LeaseOK
  <2>1. /\ pc[d] \in Leasing /\ held'[d] = held[d] /\ presetId'[d] = presetId[d] /\ stamp'[d] = stamp[d]
        /\ pc'[d] \in Past => pc[d] \in Past \/ entry[held[d]].life \in {"live", "gone"}
    BY DEF Moves
  <2> QED  BY <2>1 DEF Inv, LeaseOK, HelperOf, Mapped, table
<1>5. WaitOK'
  <2> SUFFICES ASSUME NEW d \in Calls, pc'[d] = "waiting", ~torn
               PROVE  LET r == entry[held'[d]]
                          e == capabilityHandles[<<presetId'[d], stamp'[d]>>] IN
                      \/ r.disposePromise = "pending" /\ e = held'[d]
                      \/ r.disposePromise = "settled" /\ (e = None \/ entry[e].disposePromise = "none")
    BY DEF WaitOK, HelperOf, table
  <2>1. CASE /\ pc[d] = "waiting" /\ held'[d] = held[d]
             /\ presetId'[d] = presetId[d] /\ stamp'[d] = stamp[d]
    BY <2>1 DEF Inv, WaitOK, HelperOf
  <2>2. CASE /\ held'[d] = capabilityHandles[<<presetId'[d], stamp'[d]>>]
             /\ entry[held'[d]].disposePromise = "pending"
    BY <2>2
  <2> QED  BY <2>1, <2>2 DEF Moves
<1>6. KeptOK'
  <2>1. ASSUME NEW e \in Entries, Kept(e)'
        PROVE  Kept(e)
    <3>1. \A d \in Calls : pc'[d] = "using" => pc[d] = "using" /\ held'[d] = held[d]
      BY DEF Moves, Leasing, Past
    <3> QED  BY <2>1, <3>1 DEF Kept, Mapped, table
  <2> QED  BY <2>1 DEF Inv, KeptOK
<1> QED  BY <1>2, <1>3, <1>4, <1>5, <1>6 DEF Inv

-----------------------------------------------------------------------------
(* Counting leases *)

LEMMA HoldersFinite ==
  ASSUME NEW e
  PROVE  IsFiniteSet(Holders(e)) /\ Cardinality(Holders(e)) \in Nat
<1>1. Holders(e) \subseteq Calls
  BY DEF Holders
<1> QED  BY <1>1, FS_Subset, FS_CardinalityType

\* A lease is counted, and so is the lease of another call.
LEMMA LeaseHeld ==
  ASSUME TypeOK, HeldOK, LeasesCounted, NEW c \in Calls, pc[c] \in Leasing
  PROVE  /\ held[c] \in Entries
         /\ entry[held[c]].leases >= 1
         /\ \A d \in Calls \ {c} : pc[d] \in Leasing /\ held[d] = held[c] => entry[held[c]].leases >= 2
<1>1. held[c] \in Entries
  BY DEF HeldOK, Leasing, Bound
<1> DEFINE H == Holders(held[c])
<1>2. c \in H /\ IsFiniteSet(H) /\ entry[held[c]].leases = Cardinality(H)
  BY <1>1, HoldersFinite DEF Holders, Leasing, Past, LeasesCounted
<1>3. IsFiniteSet(H \ {c}) /\ Cardinality(H \ {c}) = Cardinality(H) - 1 /\ Cardinality(H \ {c}) \in Nat
  BY <1>2, FS_RemoveElement, FS_CardinalityType
<1>4. ASSUME NEW d \in Calls \ {c}, pc[d] \in Leasing, held[d] = held[c]
      PROVE  entry[held[c]].leases - 1 # 0
  <2>1. d \in H \ {c}
    BY <1>4 DEF Holders, Leasing, Past
  <2> HIDE DEF H
  <2>2. Cardinality(H \ {c}) # 0
    BY <2>1, <1>3, FS_EmptySet, Zenon
  <2> QED  BY <1>2, <1>3, <2>2, Zenon
<1>5. entry[held[c]].leases - 1 \in Nat /\ entry[held[c]] \in Entry
  <2> HIDE DEF H
  <2> QED  BY <1>1, <1>2, <1>3 DEF TypeOK
<1>6. entry[held[c]].leases \in Nat
  BY <1>5 DEF Entry
<1>7. entry[held[c]].leases >= 1
  BY <1>5, <1>6
<1>8. ASSUME NEW d \in Calls \ {c}, pc[d] \in Leasing, held[d] = held[c]
      PROVE  entry[held[c]].leases >= 2
  BY <1>4, <1>5, <1>6, <1>8
<1> QED  BY <1>1, <1>7, <1>8

\* What a step means for the count: one call may come to hold e, or cease to.
OthersHold(c) == \A d \in Calls \ {c} : pc'[d] = pc[d] /\ held'[d] = held[d]

LEMMA JoinCounted ==
  ASSUME TypeOK, LeasesCounted, NEW c \in Calls, NEW e \in Entries, OthersHold(c),
         pc[c] \notin Leasing, pc'[c] = "awaiting", held'[c] = e,
         \A f \in Entries \ {e} : entry'[f] = entry[f],
         entry'[e].leases = entry[e].leases + 1
  PROVE  LeasesCounted'
<1>1. ASSUME NEW f \in Entries \ {e}
      PROVE  entry'[f].leases = Cardinality(Holders(f)')
  <2>1. Holders(f)' = Holders(f)
    BY DEF Holders, OthersHold, Leasing, Past
  <2> QED  BY <2>1 DEF LeasesCounted
<1>2. entry'[e].leases = Cardinality(Holders(e)')
  <2>1. Holders(e)' = Holders(e) \cup {c} /\ c \notin Holders(e)
    BY DEF Holders, OthersHold, Leasing, Past
  <2>2. Cardinality(Holders(e)') = Cardinality(Holders(e)) + 1
    <3>1. IsFiniteSet(Holders(e))
      BY HoldersFinite
    <3>2. Cardinality(Holders(e) \cup {c}) = Cardinality(Holders(e)) + 1
      BY <2>1, <3>1, FS_AddElement
    <3> QED  BY <2>1, <3>2, Zenon
  <2>3. entry[e].leases = Cardinality(Holders(e))
    BY DEF LeasesCounted
  <2> QED  BY <2>2, <2>3, Zenon
<1> QED  BY <1>1, <1>2 DEF LeasesCounted

LEMMA LeaveCounted ==
  ASSUME TypeOK, LeasesCounted, NEW c \in Calls, NEW e \in Entries, OthersHold(c),
         pc[c] \in Leasing, pc'[c] \notin Leasing, held[c] = e,
         \A f \in Entries \ {e} : entry'[f] = entry[f],
         entry'[e].leases = entry[e].leases - 1
  PROVE  LeasesCounted'
<1>1. ASSUME NEW f \in Entries \ {e}
      PROVE  entry'[f].leases = Cardinality(Holders(f)')
  <2>1. Holders(f)' = Holders(f)
    BY DEF Holders, OthersHold, Leasing, Past
  <2> QED  BY <2>1 DEF LeasesCounted
<1>2. entry'[e].leases = Cardinality(Holders(e)')
  <2>1. Holders(e)' = Holders(e) \ {c} /\ c \in Holders(e)
    BY DEF Holders, OthersHold, Leasing, Past
  <2>2. Cardinality(Holders(e)') = Cardinality(Holders(e)) - 1
    <3>1. IsFiniteSet(Holders(e))
      BY HoldersFinite
    <3>2. Cardinality(Holders(e) \ {c}) = Cardinality(Holders(e)) - 1
      BY <2>1, <3>1, FS_RemoveElement
    <3> QED  BY <2>1, <3>2, Zenon
  <2>3. entry[e].leases = Cardinality(Holders(e))
    BY DEF LeasesCounted
  <2> QED  BY <2>2, <2>3, Zenon
<1> QED  BY <1>1, <1>2 DEF LeasesCounted

LEMMA SameCounted ==
  ASSUME TypeOK, LeasesCounted, UNCHANGED held,
         \A d \in Calls : pc'[d] \in Leasing <=> pc[d] \in Leasing,
         \A f \in Entries : entry'[f].leases = entry[f].leases
  PROVE  LeasesCounted'
<1> SUFFICES ASSUME NEW f \in Entries
             PROVE  entry'[f].leases = Cardinality(Holders(f)')
  BY DEF LeasesCounted
<1>1. Holders(f)' = Holders(f)
  BY DEF Holders, Leasing, Past
<1> QED  BY <1>1 DEF LeasesCounted

-----------------------------------------------------------------------------
(* A call gets a lease *)

LEMMA JoinKeeps ==
  ASSUME Inv, TypeOK', HeldOK', StampOK', NEW c \in Calls, NEW e \in Entries, Join(c, e),
         pc[c] \in {"lookup", "waiting"}, e = capabilityHandles[HelperOf(c)],
         torn \/ entry[e].disposePromise = "none",
         UNCHANGED <<world, torn, stamp>>
  PROVE  Inv'
<1> USE DEF world
<1>1. /\ entry'[e] = [entry[e] EXCEPT !.leases = @ + 1]
      /\ \A f \in Entries \ {e} : entry'[f] = entry[f]
      /\ entry[e] \in Entry
      /\ OthersHold(c) /\ pc'[c] = "awaiting" /\ held'[c] = e /\ presetId' = presetId
      /\ capabilityHandles' = capabilityHandles
  BY DEF Join, Goto, Hold, OthersHold, Inv, TypeOK
<1>2. ASSUME NEW r \in Entry
      PROVE  LET s == [r EXCEPT !.leases = @ + 1] IN
             /\ s.helper = r.helper /\ s.life = r.life /\ s.stale = r.stale
             /\ s.disposePromise = r.disposePromise /\ s.doomed = r.doomed /\ s.mounted = r.mounted
             /\ s.leases = r.leases + 1 /\ s.leases > 0
  BY DEF Entry
<1>3. \A f \in Entries :
        /\ entry'[f].helper = entry[f].helper /\ entry'[f].life = entry[f].life
        /\ entry'[f].stale = entry[f].stale /\ entry'[f].disposePromise = entry[f].disposePromise
        /\ entry'[f].doomed = entry[f].doomed /\ entry'[f].mounted = entry[f].mounted
        /\ entry'[f].leases = IF f = e THEN entry[e].leases + 1 ELSE entry[f].leases
        /\ Mapped(f)' <=> Mapped(f)
  <2> TAKE f \in Entries
  <2>1. CASE f = e
    BY <1>1, <1>2, <2>1 DEF Mapped
  <2>2. CASE f # e
    BY <1>1, <2>2 DEF Mapped
  <2> QED  BY <2>1, <2>2
<1>4. entry'[e].leases > 0
  BY <1>1, <1>2
<1>5. LeasesCounted'
  BY <1>1, <1>3, JoinCounted DEF Inv, Leasing, Past
<1>6. MapOK'
  BY <1>1, <1>3 DEF Inv, MapOK, TypeOK
<1>7. SettledOK' /\ ComposedOK'
  BY <1>3 DEF Inv, SettledOK, ComposedOK
<1>8. InMapOrEnding'
  BY <1>3, <1>4 DEF Inv, InMapOrEnding
<1>9. LeaseOK'
  <2>1. HelperOf(c) \in Helpers /\ e # None
    BY HelperTyped DEF Inv
  <2>2. \A d \in Calls : HelperOf(d)' = HelperOf(d)
    BY <1>1 DEF HelperOf
  <2>3. /\ entry[e].helper = HelperOf(c) /\ entry[e].life \in {"listing", "creating", "mounted", "live"}
        /\ ~entry[e].doomed /\ Mapped(e)
    BY <2>1 DEF Inv, MapOK, Mapped
  <2>4. CASE torn
    BY <1>1, <1>3, <2>2, <2>3, <2>4 DEF Inv, LeaseOK, OthersHold, Past, Leasing, HeldOK, Bound
  <2>5. CASE ~torn
    BY <1>1, <1>3, <2>2, <2>3, <2>5 DEF Inv, LeaseOK, OthersHold, Past, Leasing, HeldOK, Bound
  <2> QED  BY <2>4, <2>5
<1>10. WaitOK'
  <2> SUFFICES ASSUME NEW d \in Calls, pc'[d] = "waiting", ~torn
               PROVE  LET r == entry'[held'[d]]
                          g == capabilityHandles'[HelperOf(d)'] IN
                      \/ r.disposePromise = "pending" /\ g = held'[d]
                      \/ r.disposePromise = "settled" /\ (g = None \/ entry'[g].disposePromise = "none")
    BY DEF WaitOK
  <2>1. d # c /\ pc[d] = "waiting" /\ held'[d] = held[d] /\ HelperOf(d)' = HelperOf(d)
    BY <1>1 DEF OthersHold, HelperOf
  <2>2. held[d] \in Entries /\ capabilityHandles[HelperOf(d)] \in Entries \cup {None}
    BY <2>1, HelperTyped DEF Inv, HeldOK, Bound, TypeOK
  <2> QED  BY <1>1, <1>3, <2>1, <2>2 DEF Inv, WaitOK
<1>11. KeptOK'
  <2>1. ASSUME NEW f \in Entries, Kept(f)'
        PROVE  Kept(f)
    <3>1. \A d \in Calls : pc'[d] = "using" => pc[d] = "using" /\ held'[d] = held[d]
      BY <1>1 DEF OthersHold
    <3> QED  BY <2>1, <3>1, <1>3, <1>4 DEF Kept
  <2> QED  BY <2>1 DEF Inv, KeptOK
<1> QED  BY <1>5, <1>6, <1>7, <1>8, <1>9, <1>10, <1>11 DEF Inv

LEMMA CreateKeeps ==
  ASSUME Inv, TypeOK', HeldOK', StampOK', NEW c \in Calls, Create(c),
         pc[c] \in {"lookup", "waiting"}, capabilityHandles[HelperOf(c)] = None,
         UNCHANGED <<world, torn, stamp>>
  PROVE  Inv'
<1> USE DEF world
<1>1. PICK e \in Entries, l \in {"listing", "creating"} :
        /\ Unused(e)
        /\ entry' = [entry EXCEPT ![e] =
                  [helper |-> HelperOf(c), life |-> l, leases |-> 1, stale |-> FALSE,
                   disposePromise |-> "none", doomed |-> FALSE, creator |-> c, mounted |-> 1]]
        /\ capabilityHandles' = [capabilityHandles EXCEPT ![HelperOf(c)] = e]
        /\ Goto(c, "awaiting") /\ Hold(c, e)
        /\ UNCHANGED presetId
  BY DEF Create
<1>2. /\ entry'[e].helper = HelperOf(c) /\ entry'[e].life \in {"listing", "creating"}
      /\ entry'[e].leases = 1 /\ ~entry'[e].stale /\ ~entry'[e].doomed
      /\ entry'[e].disposePromise = "none"
      /\ \A f \in Entries \ {e} : entry'[f] = entry[f]
  BY <1>1 DEF Inv, TypeOK
<1>3. /\ HelperOf(c) \in Helpers /\ e # None
      /\ capabilityHandles'[HelperOf(c)] = e
      /\ \A h \in Helpers \ {HelperOf(c)} : capabilityHandles'[h] = capabilityHandles[h]
      /\ \A h \in Helpers : capabilityHandles[h] # e
  <2>1. HelperOf(c) \in Helpers /\ e # None
    BY HelperTyped DEF Inv
  <2>2. \A h \in Helpers : capabilityHandles[h] # e
    BY <1>1, <2>1 DEF Inv, MapOK, Unused
  <2> QED  BY <1>1, <2>1, <2>2 DEF Inv, TypeOK
<1>4. /\ OthersHold(c) /\ pc'[c] = "awaiting" /\ held'[c] = e
      /\ \A d \in Calls : held[d] # e /\ HelperOf(d)' = HelperOf(d)
  BY <1>1 DEF Unused, OthersHold, Goto, Hold, HelperOf, Inv, TypeOK
<1>5. Mapped(e)' /\ \A f \in Entries \ {e} : Mapped(f)' <=> Mapped(f)
  <2>1. Mapped(e)'
    BY <1>2, <1>3 DEF Mapped
  <2>2. ASSUME NEW f \in Entries \ {e}
        PROVE  Mapped(f)' <=> Mapped(f)
    <3>1. entry'[f] = entry[f] /\ entry[f].helper \in Helpers
      BY <1>2 DEF Inv, TypeOK, Entry
    <3>2. f # None
      OBVIOUS
    <3> QED  BY <1>3, <3>1, <3>2 DEF Mapped
  <2> QED  BY <2>1, <2>2
<1>6. LeasesCounted'
  <2> SUFFICES ASSUME NEW f \in Entries
               PROVE  entry'[f].leases = Cardinality(Holders(f)')
    BY DEF LeasesCounted
  <2>1. CASE f = e
    <3>1. Holders(e)' = {c}
      BY <1>4 DEF Holders, OthersHold
    <3> QED  BY <1>2, <2>1, <3>1, FS_Singleton
  <2>2. CASE f # e
    <3>1. Holders(f)' = Holders(f)
      BY <1>4, <2>2 DEF Holders, OthersHold
    <3> QED  BY <1>2, <2>2, <3>1 DEF Inv, LeasesCounted
  <2> QED  BY <2>1, <2>2
<1>7. MapOK'
  <2> SUFFICES ASSUME NEW h \in Helpers, capabilityHandles'[h] # None
               PROVE  LET r == entry'[capabilityHandles'[h]] IN
                      /\ r.helper = h
                      /\ r.life \in {"listing", "creating", "mounted", "live"}
                      /\ ~r.doomed /\ r.disposePromise # "settled"
    BY DEF MapOK
  <2>1. CASE h = HelperOf(c)
    BY <1>2, <1>3, <2>1
  <2>2. CASE h # HelperOf(c)
    <3>1. capabilityHandles'[h] = capabilityHandles[h] /\ capabilityHandles[h] \in Entries \ {e}
      BY <1>3, <2>2 DEF Inv, TypeOK
    <3> QED  BY <1>2, <3>1 DEF Inv, MapOK
  <2> QED  BY <2>1, <2>2
<1>8. SettledOK'
  BY <1>2 DEF Inv, SettledOK
<1>9. ComposedOK'
  <2>1. HelperOf(c)[2] <= version[HelperOf(c)[1]]
    BY DEF Inv, StampOK, HelperOf, Bound
  <2> QED  BY <1>2, <2>1 DEF Inv, ComposedOK
<1>10. InMapOrEnding'
  BY <1>2, <1>5 DEF Inv, InMapOrEnding
<1>11. LeaseOK'
  <2> SUFFICES ASSUME NEW d \in Calls, pc'[d] \in Leasing
               PROVE  LET r == entry'[held'[d]] IN
                      /\ r.helper = HelperOf(d)
                      /\ r.life # "none"
                      /\ pc'[d] \in Past => r.life \in {"live", "gone"}
                      /\ ~torn => /\ ~r.doomed /\ r.disposePromise = "none" /\ r.life # "gone"
                                  /\ r.life = "failed" \/ Mapped(held[d])'
    BY <1>4 DEF LeaseOK
  <2>1. CASE d = c
    BY <1>2, <1>4, <1>5, <2>1 DEF Past
  <2>2. CASE d # c
    <3>1. pc'[d] = pc[d] /\ held'[d] = held[d] /\ held[d] \in Entries \ {e}
      BY <1>4, <2>2 DEF Inv, HeldOK, Leasing, Bound, OthersHold
    <3> QED  BY <1>2, <1>5, <3>1 DEF Inv, LeaseOK
  <2> QED  BY <2>1, <2>2
<1>12. WaitOK'
  <2> SUFFICES ASSUME NEW d \in Calls, pc'[d] = "waiting", ~torn
               PROVE  LET r == entry'[held'[d]]
                          g == capabilityHandles'[HelperOf(d)] IN
                      \/ r.disposePromise = "pending" /\ g = held'[d]
                      \/ r.disposePromise = "settled" /\ (g = None \/ entry'[g].disposePromise = "none")
    BY <1>4 DEF WaitOK
  <2>1. d # c /\ pc[d] = "waiting" /\ held'[d] = held[d] /\ held[d] \in Entries \ {e}
    BY <1>4 DEF Inv, HeldOK, Bound, OthersHold
  <2>2. HelperOf(d) \in Helpers
    BY HelperTyped DEF Inv
  <2>3. \/ entry[held[d]].disposePromise = "pending" /\ capabilityHandles[HelperOf(d)] = held[d]
        \/ /\ entry[held[d]].disposePromise = "settled"
           /\ \/ capabilityHandles[HelperOf(d)] = None
              \/ entry[capabilityHandles[HelperOf(d)]].disposePromise = "none"
    BY <2>1 DEF Inv, WaitOK
  <2>4. CASE HelperOf(d) = HelperOf(c)
    BY <1>2, <1>3, <2>1, <2>3, <2>4
  <2>5. CASE HelperOf(d) # HelperOf(c)
    <3>1. capabilityHandles'[HelperOf(d)] = capabilityHandles[HelperOf(d)]
      BY <1>3, <2>2, <2>5
    <3>2. capabilityHandles[HelperOf(d)] \in (Entries \ {e}) \cup {None}
      BY <1>3, <2>2 DEF Inv, TypeOK
    <3> QED  BY <1>2, <2>1, <2>3, <3>1, <3>2
  <2> QED  BY <2>4, <2>5
<1>13. KeptOK'
  <2>1. ASSUME NEW f \in Entries, Kept(f)'
        PROVE  f # e /\ Kept(f)
    <3>1. \A d \in Calls : pc'[d] = "using" => pc[d] = "using" /\ held'[d] = held[d] /\ held[d] # e
      BY <1>4 DEF OthersHold
    <3>2. f # e
      BY <2>1, <3>1, <1>2 DEF Kept
    <3> QED  BY <2>1, <3>1, <3>2, <1>2, <1>5 DEF Kept
  <2> QED  BY <2>1 DEF Inv, KeptOK
<1> QED  BY <1>6, <1>7, <1>8, <1>9, <1>10, <1>11, <1>12, <1>13 DEF Inv

-----------------------------------------------------------------------------
(* A call gives its lease back *)

LEMMA LessIs ==
  ASSUME NEW s \in Entry, s.leases >= 1, NEW r \in {Less(s), Dropped(s)}
  PROVE  LET t == MaybeDispose(r) IN
         /\ t.helper = s.helper /\ t.life = s.life /\ t.doomed = s.doomed /\ t.mounted = s.mounted
         /\ t.leases = s.leases - 1
         /\ r = Less(s) => t.stale = s.stale
         /\ s.disposePromise # "none" \/ s.leases >= 2 => t.disposePromise = s.disposePromise
         /\ t.disposePromise = "settled" => s.disposePromise = "settled" \/ s.life \in {"failed", "gone"}
         /\ t.stale /\ t.leases = 0 => t.disposePromise # "none"
<1>1. r \in Entry
  BY LessTyped
<1>2. /\ r.helper = s.helper /\ r.life = s.life /\ r.doomed = s.doomed /\ r.mounted = s.mounted
      /\ r.disposePromise = s.disposePromise /\ r.leases = s.leases - 1
      /\ r = Less(s) => r.stale = s.stale
      /\ r = Dropped(s) => r.stale
  BY DEF Less, Dropped, Entry
<1>3. ASSUME NEW v \in {"none", "pending", "settled"}
      PROVE  LET t == [r EXCEPT !.disposePromise = v] IN
             /\ t.helper = r.helper /\ t.life = r.life /\ t.doomed = r.doomed /\ t.mounted = r.mounted
             /\ t.leases = r.leases /\ t.stale = r.stale
  BY <1>1 DEF Entry
<1>4. MaybeDispose(r).disposePromise \in {"none", "pending", "settled"} /\ s.leases \in Nat
      /\ s.stale \in BOOLEAN /\ r.stale \in BOOLEAN
  BY <1>1, MaybeDisposeTyped DEF Entry
<1>5. LET t == MaybeDispose(r) IN
      /\ t.helper = r.helper /\ t.life = r.life /\ t.doomed = r.doomed /\ t.mounted = r.mounted
      /\ t.leases = r.leases /\ t.stale = r.stale
  BY <1>1, <1>3, <1>4, MaybeDisposeTyped
<1>6. MaybeDispose(r).disposePromise =
        IF r.stale /\ r.leases = 0 /\ r.disposePromise = "none"
        THEN IF r.life \in {"failed", "gone"} THEN "settled" ELSE "pending"
        ELSE r.disposePromise
  BY <1>1, MaybeDisposeTyped
<1> DEFINE t == MaybeDispose(r)
<1> HIDE DEF t
<1>7. s.disposePromise # "none" \/ s.leases >= 2 => t.disposePromise = s.disposePromise
  BY <1>2, <1>4, <1>6 DEF t
<1>8. t.disposePromise = "settled" => s.disposePromise = "settled" \/ s.life \in {"failed", "gone"}
  BY <1>2, <1>4, <1>6 DEF t
<1>9. t.stale /\ t.leases = 0 => t.disposePromise # "none"
  BY <1>5, <1>6 DEF t
<1>10. t.leases = s.leases - 1 /\ (r = Less(s) => t.stale = s.stale)
  BY <1>2, <1>5 DEF t
<1>11. t.helper = s.helper /\ t.life = s.life /\ t.doomed = s.doomed /\ t.mounted = s.mounted
  BY <1>2, <1>5 DEF t
<1> QED  BY <1>7, <1>8, <1>9, <1>10, <1>11 DEF t

LEMMA DropKeeps ==
  ASSUME Inv, TypeOK', HeldOK', StampOK', ~Resuming, NEW c \in Calls, pc[c] \in Leasing,
         pc'[c] \in {"stamping", "retiring", "leaving", "done"}, OthersHold(c),
         \A d \in Calls \ {c} : HelperOf(d)' = HelperOf(d),
         NEW r, r = Dropped(entry[held[c]]) \/ (r = Less(entry[held[c]]) /\ pc[c] = "using"),
         entry' = [entry EXCEPT ![held[c]] = MaybeDispose(r)],
         UNCHANGED <<capabilityHandles, torn, version>>
  PROVE  Inv'
<1> DEFINE e == held[c]
<1> DEFINE s == entry[held[c]]
<1>1. /\ e \in Entries /\ s \in Entry /\ s.leases >= 1
      /\ \A d \in Calls \ {c} : pc[d] \in Leasing /\ held[d] = e => s.leases >= 2
  BY LeaseHeld DEF Inv, TypeOK
<1>2. /\ entry'[e] = MaybeDispose(r)
      /\ \A f \in Entries \ {e} : entry'[f] = entry[f]
  BY <1>1 DEF Inv, TypeOK
<1>3. LET t == entry'[e] IN
      /\ t.helper = s.helper /\ t.life = s.life /\ t.doomed = s.doomed /\ t.mounted = s.mounted
      /\ t.leases = s.leases - 1
      /\ r = Dropped(s) => t.stale
      /\ r = Less(s) => t.stale = s.stale
      /\ s.disposePromise # "none" \/ s.leases >= 2 => t.disposePromise = s.disposePromise
      /\ t.disposePromise = "settled" => s.disposePromise = "settled" \/ s.life \in {"failed", "gone"}
      /\ t.stale /\ t.leases = 0 => t.disposePromise # "none"
      /\ t.leases \in Nat
  <2>1. r \in {Less(s), Dropped(s)}
    OBVIOUS
  <2>2. s.leases - 1 \in Nat
    BY <1>1 DEF Entry
  <2>3. r = Dropped(s) => MaybeDispose(r).stale
    <3>1. r = Dropped(s) => r.stale /\ r \in Entry
      BY <1>1, LessTyped DEF Dropped, Entry
    <3> QED  BY <3>1 DEF MaybeDispose, Entry
  <2>4. LET t == MaybeDispose(r) IN
        /\ t.helper = s.helper /\ t.life = s.life /\ t.doomed = s.doomed /\ t.mounted = s.mounted
        /\ t.leases = s.leases - 1
        /\ r = Less(s) => t.stale = s.stale
        /\ s.disposePromise # "none" \/ s.leases >= 2 => t.disposePromise = s.disposePromise
        /\ t.disposePromise = "settled" => s.disposePromise = "settled" \/ s.life \in {"failed", "gone"}
        /\ t.stale /\ t.leases = 0 => t.disposePromise # "none"
    <3> HIDE DEF s, e
    <3> QED  BY <1>1, <2>1, LessIs
  <2> QED  BY <1>2, <2>2, <2>3, <2>4
<1>4. \A f \in Entries :
        /\ entry'[f].helper = entry[f].helper /\ entry'[f].life = entry[f].life
        /\ entry'[f].doomed = entry[f].doomed /\ entry'[f].mounted = entry[f].mounted
        /\ Mapped(f)' <=> Mapped(f)
  <2> TAKE f \in Entries
  <2>1. CASE f = e
    BY <1>3, <2>1 DEF Mapped
  <2>2. CASE f # e
    BY <1>2, <2>2 DEF Mapped
  <2> QED  BY <2>1, <2>2
<1>5. pc'[c] \notin Leasing
  BY DEF Leasing, Past
<1>6. LeasesCounted'
  <2>1. held[c] = e /\ entry'[e].leases = entry[e].leases - 1
    BY <1>3
  <2> HIDE DEF e, s
  <2> QED  BY <1>1, <1>2, <1>5, <2>1, LeaveCounted DEF Inv
<1>7. MapOK' /\ SettledOK'
  <2>1. \A f \in Entries : entry'[f].disposePromise = "settled" =>
            entry[f].disposePromise = "settled" \/ entry[f].life \in {"failed", "gone"}
    BY <1>2, <1>3
  <2>2. \A h \in Helpers : capabilityHandles[h] # None => capabilityHandles[h] \in Entries
    BY DEF Inv, TypeOK
  <2> HIDE DEF e, s
  <2> QED  BY <1>4, <2>1, <2>2 DEF Inv, MapOK, SettledOK
<1>8. ComposedOK'
  BY <1>4 DEF Inv, ComposedOK
<1>9. InMapOrEnding'
  <2> SUFFICES ASSUME NEW f \in Entries, entry[f].life \in {"listing", "creating", "mounted", "live"}
               PROVE  \/ entry'[f].doomed \/ entry'[f].disposePromise = "pending"
                      \/ Mapped(f)' /\ (entry'[f].stale => entry'[f].leases > 0)
    BY <1>4 DEF InMapOrEnding
  <2>1. \/ entry[f].doomed \/ entry[f].disposePromise = "pending"
        \/ Mapped(f) /\ (entry[f].stale => entry[f].leases > 0)
    BY DEF Inv, InMapOrEnding
  <2>2. CASE f # e
    BY <1>2, <1>4, <2>1, <2>2
  <2>3. CASE f = e
    <3>1. entry'[e].disposePromise \in {"none", "pending", "settled"}
      BY <1>1 DEF TypeOK, Entry
    <3>2. entry'[e].disposePromise # "settled"
      BY <1>3, <2>3 DEF Inv, SettledOK
    <3> QED  BY <1>3, <1>4, <2>1, <2>3, <3>1, <3>2
  <2> QED  BY <2>2, <2>3
<1>10. LeaseOK'
  <2> SUFFICES ASSUME NEW d \in Calls, pc'[d] \in Leasing
               PROVE  LET t == entry'[held'[d]] IN
                      /\ t.helper = HelperOf(d)'
                      /\ t.life # "none"
                      /\ pc'[d] \in Past => t.life \in {"live", "gone"}
                      /\ ~torn => /\ ~t.doomed /\ t.disposePromise = "none" /\ t.life # "gone"
                                  /\ t.life = "failed" \/ Mapped(held[d])'
    <3>1. \A d \in Calls : pc'[d] \in Leasing => held'[d] = held[d]
      BY <1>5 DEF OthersHold
    <3> QED  BY <3>1 DEF LeaseOK
  <2>1. d # c /\ pc'[d] = pc[d] /\ held'[d] = held[d] /\ HelperOf(d)' = HelperOf(d)
        /\ held[d] \in Entries
    BY <1>5 DEF OthersHold, Inv, HeldOK, Bound, Leasing
  <2>2. entry'[held[d]].disposePromise = entry[held[d]].disposePromise
    BY <1>1, <1>2, <1>3, <2>1
  <2> HIDE DEF e, s
  <2> QED  BY <1>4, <2>1, <2>2 DEF Inv, LeaseOK
<1>11. WaitOK'
  <2> SUFFICES ASSUME NEW d \in Calls, pc'[d] = "waiting", ~torn
               PROVE  /\ entry'[held'[d]].disposePromise = "pending"
                      /\ capabilityHandles[HelperOf(d)'] = held'[d]
    BY DEF WaitOK
  <2>1. d # c /\ pc[d] = "waiting" /\ held'[d] = held[d] /\ HelperOf(d)' = HelperOf(d)
        /\ held[d] \in Entries
    BY DEF OthersHold, Inv, HeldOK, Bound
  <2>2. entry[held[d]].disposePromise = "pending" /\ capabilityHandles[HelperOf(d)] = held[d]
    BY <2>1 DEF Inv, WaitOK, Resuming
  <2>3. entry'[held[d]].disposePromise = entry[held[d]].disposePromise
    BY <1>2, <1>3, <2>1, <2>2
  <2> HIDE DEF e, s
  <2> QED  BY <2>1, <2>2, <2>3
<1>12. KeptOK'
  <2>1. ASSUME NEW f \in Entries, Kept(f)'
        PROVE  Kept(f)
    <3>1. \A d \in Calls : pc'[d] = "using" => pc[d] = "using" /\ held'[d] = held[d]
      BY DEF OthersHold
    <3>2. CASE f # e
      BY <2>1, <3>1, <3>2, <1>2, <1>4 DEF Kept
    <3>3. CASE f = e
      <4>1. r = Less(s) /\ pc[c] = "using"
        BY <2>1, <3>3, <1>3 DEF Kept
      <4> QED  BY <2>1, <3>3, <4>1, <1>3, <1>4 DEF Kept
    <3> QED  BY <3>2, <3>3
  <2> QED  BY <2>1 DEF Inv, KeptOK
<1> QED  BY <1>6, <1>7, <1>8, <1>9, <1>10, <1>11, <1>12 DEF Inv

\* What happens to the map when an entry is taken out of it.
LEMMA UnmapIs ==
  ASSUME Inv, NEW e \in Entries, capabilityHandles' = Unmap(e),
         \A f \in Entries : entry'[f].helper = entry[f].helper
  PROVE  /\ ~Mapped(e)'
         /\ \A f \in Entries \ {e} : Mapped(f)' <=> Mapped(f)
         /\ \A h \in Helpers : capabilityHandles'[h] =
              IF capabilityHandles[h] = e THEN None ELSE capabilityHandles[h]
<1>1. entry[e].helper \in Helpers
  BY DEF Inv, TypeOK, Entry
<1>2. \A h \in Helpers : capabilityHandles'[h] =
        IF h = entry[e].helper /\ capabilityHandles[h] = e THEN None ELSE capabilityHandles[h]
  BY <1>1 DEF Unmap, Inv, TypeOK
<1>3. \A h \in Helpers : capabilityHandles[h] = e => h = entry[e].helper
  BY DEF Inv, MapOK
<1>4. \A h \in Helpers : capabilityHandles'[h] =
        IF capabilityHandles[h] = e THEN None ELSE capabilityHandles[h]
  BY <1>2, <1>3
<1>5. \A f \in Entries : entry[f].helper \in Helpers /\ f # None
  BY DEF Inv, TypeOK, Entry
<1> QED  BY <1>4, <1>5 DEF Mapped

LEMMA AbandonKeeps ==
  ASSUME Inv, TypeOK', HeldOK', StampOK', ~Resuming, NEW c \in Calls, pc[c] \in Leasing,
         pc'[c] = "done", OthersHold(c), \A d \in Calls \ {c} : HelperOf(d)' = HelperOf(d),
         entry[held[c]].leases = 1,
         entry' = [entry EXCEPT ![held[c]] = Abandoned(held[c])],
         capabilityHandles' = Unmap(held[c]),
         UNCHANGED <<torn, version>>
  PROVE  Inv'
<1> PICK e \in Entries : e = held[c]
  BY LeaseHeld DEF Inv
<1>1. /\ entry[e].leases = 1 /\ entry[e] \in Entry
      /\ \A d \in Calls \ {c} : pc[d] \in Leasing => held[d] # e
      /\ torn \/ entry[e].disposePromise = "none"
  BY LeaseHeld DEF Inv, TypeOK, LeaseOK
<1>2. /\ entry'[e].helper = entry[e].helper /\ entry'[e].life = entry[e].life
      /\ entry'[e].mounted = entry[e].mounted /\ entry'[e].disposePromise = entry[e].disposePromise
      /\ entry'[e].doomed /\ entry'[e].stale /\ entry'[e].leases = 0
      /\ \A f \in Entries \ {e} : entry'[f] = entry[f]
  BY <1>1 DEF Inv, TypeOK, Abandoned, Entry
<1>3. \A f \in Entries :
        /\ entry'[f].helper = entry[f].helper /\ entry'[f].life = entry[f].life
        /\ entry'[f].mounted = entry[f].mounted /\ entry'[f].disposePromise = entry[f].disposePromise
  BY <1>2
<1>4. /\ ~Mapped(e)'
      /\ \A f \in Entries \ {e} : Mapped(f)' <=> Mapped(f)
      /\ \A h \in Helpers : capabilityHandles'[h] =
           IF capabilityHandles[h] = e THEN None ELSE capabilityHandles[h]
  BY <1>3, UnmapIs
<1>5. LeasesCounted'
  <2>1. pc'[c] \notin Leasing /\ entry'[e].leases = entry[e].leases - 1
    BY <1>1, <1>2 DEF Leasing, Past
  <2> QED  BY <1>2, <2>1, LeaveCounted DEF Inv
<1>6. MapOK' /\ SettledOK' /\ ComposedOK'
  <2>1. \A h \in Helpers : capabilityHandles[h] # None => capabilityHandles[h] \in Entries
    BY DEF Inv, TypeOK
  <2>2. MapOK'
    BY <1>2, <1>4, <2>1 DEF Inv, MapOK
  <2> QED  BY <1>3, <2>2 DEF Inv, SettledOK, ComposedOK
<1>7. InMapOrEnding'
  BY <1>2, <1>4 DEF Inv, InMapOrEnding
<1>8. LeaseOK'
  <2> SUFFICES ASSUME NEW d \in Calls, pc'[d] \in Leasing
               PROVE  LET t == entry'[held'[d]] IN
                      /\ t.helper = HelperOf(d)'
                      /\ t.life # "none"
                      /\ pc'[d] \in Past => t.life \in {"live", "gone"}
                      /\ ~torn => /\ ~t.doomed /\ t.disposePromise = "none" /\ t.life # "gone"
                                  /\ t.life = "failed" \/ Mapped(held[d])'
    <3>1. \A d \in Calls : pc'[d] \in Leasing => held'[d] = held[d]
      BY DEF OthersHold, Leasing, Past
    <3> QED  BY <3>1 DEF LeaseOK
  <2>1. d # c /\ pc'[d] = pc[d] /\ held'[d] = held[d] /\ HelperOf(d)' = HelperOf(d)
        /\ held[d] \in Entries
    BY DEF OthersHold, Inv, HeldOK, Bound, Leasing, Past
  <2>2. held[d] # e
    BY <1>1, <2>1
  <2> QED  BY <1>2, <1>4, <2>1, <2>2 DEF Inv, LeaseOK
<1>9. WaitOK'
  <2> SUFFICES ASSUME NEW d \in Calls, pc'[d] = "waiting", ~torn
               PROVE  /\ entry'[held'[d]].disposePromise = "pending"
                      /\ capabilityHandles'[HelperOf(d)'] = held'[d]
    BY DEF WaitOK
  <2>1. d # c /\ pc[d] = "waiting" /\ held'[d] = held[d] /\ HelperOf(d)' = HelperOf(d)
        /\ held[d] \in Entries /\ HelperOf(d) \in Helpers
    BY HelperTyped DEF OthersHold, Inv, HeldOK, Bound
  <2>2. entry[held[d]].disposePromise = "pending" /\ capabilityHandles[HelperOf(d)] = held[d]
    BY <2>1 DEF Inv, WaitOK, Resuming
  <2> QED  BY <1>1, <1>3, <1>4, <2>1, <2>2
<1>10. KeptOK'
  <2>1. ASSUME NEW f \in Entries, Kept(f)'
        PROVE  Kept(f)
    <3>1. \A d \in Calls : pc'[d] = "using" => pc[d] = "using" /\ held'[d] = held[d]
      BY DEF OthersHold
    <3>2. f # e
      BY <2>1, <1>2 DEF Kept
    <3> QED  BY <2>1, <3>1, <3>2, <1>2, <1>4 DEF Kept
  <2> QED  BY <2>1 DEF Inv, KeptOK
<1> QED  BY <1>5, <1>6, <1>7, <1>8, <1>9, <1>10 DEF Inv

-----------------------------------------------------------------------------
(* A call verifies its entry *)

LEMMA VerifyKeeps ==
  ASSUME Inv, ~Resuming, TypeOK', HeldOK', StampOK', NEW c \in Calls, Verify(c)
  PROVE  Inv'
<1> USE DEF world
<1> DEFINE e == held[c]
<1>1. /\ e \in Entries /\ pc[c] = "same" /\ entry[e].leases >= 1
      /\ OthersHold(c) /\ pc'[c] = "using" /\ held' = held /\ stamp' = stamp
      /\ \A d \in Calls : HelperOf(d)' = HelperOf(d)
      /\ version' = version /\ torn' = torn /\ capabilityHandles' = capabilityHandles
  BY LeaseHeld DEF Inv, Verify, Goto, OthersHold, HelperOf, TypeOK, Leasing, Past
<1>2. entry'[e] = [entry[e] EXCEPT !.stale = FALSE]
      /\ \A f \in Entries \ {e} : entry'[f] = RetiredOther(f)
  BY <1>1 DEF Verify
<1>3. ASSUME NEW f \in Entries \ {e}
      PROVE  LET r == entry[f]  t == entry'[f] IN
             /\ t.helper = r.helper /\ t.life = r.life /\ t.doomed = r.doomed /\ t.mounted = r.mounted
             /\ t.leases = r.leases
             /\ r.disposePromise # "none" \/ r.leases # 0 => t.disposePromise = r.disposePromise
             /\ t.disposePromise = "settled" => r.disposePromise = "settled" \/ r.life \in {"failed", "gone"}
             /\ Mapped(f) => /\ t.stale
                             /\ t.leases = 0 => t.disposePromise # "none"
             /\ ~Mapped(f) => t = r
  <2>1. ASSUME NEW r \in Entry
        PROVE  LET s == [r EXCEPT !.stale = TRUE]
                   t == MaybeDispose(s) IN
             /\ t.helper = r.helper /\ t.life = r.life /\ t.doomed = r.doomed /\ t.mounted = r.mounted
             /\ t.leases = r.leases
             /\ r.disposePromise # "none" \/ r.leases # 0 => t.disposePromise = r.disposePromise
             /\ t.disposePromise = "settled" => r.disposePromise = "settled" \/ r.life \in {"failed", "gone"}
             /\ t.stale
             /\ t.leases = 0 => t.disposePromise # "none"
    BY DEF MaybeDispose, Entry
  <2>2. entry[f] \in Entry
    BY DEF Inv, TypeOK
  <2>3. CASE Mapped(f)
    <3>1. entry'[f] = MaybeDispose([entry[f] EXCEPT !.stale = TRUE])
      BY <1>2, <2>3 DEF RetiredOther
    <3> QED  BY <2>1, <2>2, <2>3, <3>1
  <2>4. CASE ~Mapped(f)
    BY <1>2, <2>2, <2>4 DEF RetiredOther, Inv, SettledOK
  <2> QED  BY <2>3, <2>4
<1>4. LET r == entry[e]  t == entry'[e] IN
      /\ t.helper = r.helper /\ t.life = r.life /\ t.doomed = r.doomed /\ t.mounted = r.mounted
      /\ t.leases = r.leases /\ t.disposePromise = r.disposePromise /\ ~t.stale
  BY <1>1, <1>2 DEF Inv, TypeOK, Entry
<1>5. \A f \in Entries :
        LET r == entry[f]  t == entry'[f] IN
        /\ t.helper = r.helper /\ t.life = r.life /\ t.doomed = r.doomed /\ t.mounted = r.mounted
        /\ t.leases = r.leases /\ (Mapped(f)' <=> Mapped(f))
        /\ r.disposePromise # "none" \/ r.leases # 0 => t.disposePromise = r.disposePromise
        /\ t.disposePromise = "settled" => r.disposePromise = "settled" \/ r.life \in {"failed", "gone"}
  <2> TAKE f \in Entries
  <2>1. CASE f = e
    BY <1>1, <1>4, <2>1 DEF Mapped
  <2>2. CASE f # e
    BY <1>1, <1>3, <2>2 DEF Mapped
  <2> QED  BY <2>1, <2>2
<1>6. LeasesCounted'
  <2>1. \A d \in Calls : pc'[d] \in Leasing <=> pc[d] \in Leasing
    BY <1>1 DEF OthersHold, Leasing, Past
  <2> HIDE DEF e
  <2> QED  BY <1>1, <1>5, <2>1, SameCounted DEF Inv
<1>7. MapOK' /\ SettledOK' /\ ComposedOK'
  <2>1. \A h \in Helpers : capabilityHandles[h] # None => capabilityHandles[h] \in Entries
    BY DEF Inv, TypeOK
  <2> HIDE DEF e
  <2>2. MapOK'
    BY <1>1, <1>5, <2>1 DEF Inv, MapOK
  <2>3. SettledOK' /\ ComposedOK'
    BY <1>1, <1>5 DEF Inv, SettledOK, ComposedOK
  <2> QED  BY <2>2, <2>3
<1>8. InMapOrEnding'
  <2> SUFFICES ASSUME NEW f \in Entries, entry[f].life \in {"listing", "creating", "mounted", "live"}
               PROVE  \/ entry'[f].doomed \/ entry'[f].disposePromise = "pending"
                      \/ Mapped(f)' /\ (entry'[f].stale => entry'[f].leases > 0)
    BY <1>5 DEF InMapOrEnding
  <2>1. \/ entry[f].doomed \/ entry[f].disposePromise = "pending"
        \/ Mapped(f) /\ (entry[f].stale => entry[f].leases > 0)
    BY DEF Inv, InMapOrEnding
  <2>2. CASE f = e
    BY <1>4, <1>5, <2>1, <2>2
  <2>3. CASE f # e /\ Mapped(f)
    <3>1. entry'[f].disposePromise \in {"none", "pending", "settled"} /\ entry'[f].leases \in Nat
      BY DEF TypeOK, Entry
    <3>2. entry'[f].disposePromise # "settled"
      BY <1>5 DEF Inv, SettledOK
    <3> QED  BY <1>3, <1>5, <2>1, <2>3, <3>1, <3>2
  <2>4. CASE f # e /\ ~Mapped(f)
    BY <1>3, <1>5, <2>1, <2>4
  <2> QED  BY <2>2, <2>3, <2>4
<1>9. LeaseOK'
  <2> SUFFICES ASSUME NEW d \in Calls, pc'[d] \in Leasing
               PROVE  LET t == entry'[held[d]] IN
                      /\ t.helper = HelperOf(d)
                      /\ t.life # "none"
                      /\ pc'[d] \in Past => t.life \in {"live", "gone"}
                      /\ ~torn => /\ ~t.doomed /\ t.disposePromise = "none" /\ t.life # "gone"
                                  /\ t.life = "failed" \/ Mapped(held[d])'
    BY <1>1 DEF LeaseOK
  <2>1. pc[d] \in Leasing /\ (pc'[d] \in Past <=> pc[d] \in Past)
    BY <1>1 DEF OthersHold, Leasing, Past
  <2>2. held[d] \in Entries /\ entry[held[d]].leases >= 1
    BY <2>1, LeaseHeld DEF Inv
  <2>3. entry[held[d]].leases # 0
    BY <2>2
  <2>4. Mapped(held[d])' <=> Mapped(held[d])
    BY <1>1, <1>5, <2>2 DEF Mapped
  <2> HIDE DEF e
  <2> QED  BY <1>5, <2>1, <2>2, <2>3, <2>4 DEF Inv, LeaseOK
<1>10. WaitOK'
  <2> SUFFICES ASSUME NEW d \in Calls, pc'[d] = "waiting", ~torn
               PROVE  /\ entry'[held[d]].disposePromise = "pending"
                      /\ capabilityHandles[HelperOf(d)] = held[d]
    BY <1>1 DEF WaitOK
  <2>1. pc[d] = "waiting" /\ held[d] \in Entries
    BY <1>1 DEF OthersHold, Inv, HeldOK, Bound
  <2>2. entry[held[d]].disposePromise = "pending" /\ capabilityHandles[HelperOf(d)] = held[d]
    BY <2>1 DEF Inv, WaitOK, Resuming
  <2> QED  BY <1>5, <2>1, <2>2
<1>11. KeptOK'
  <2>1. ASSUME NEW f \in Entries, Kept(f)'
        PROVE  f = e
    <3>1. Mapped(f) /\ ~entry'[f].stale
      BY <2>1, <1>5 DEF Kept
    <3> QED  BY <3>1, <1>3
  <2> QED  BY <2>1 DEF KeptOK
<1> QED  BY <1>6, <1>7, <1>8, <1>9, <1>10, <1>11 DEF Inv

-----------------------------------------------------------------------------
(* An entry's promise *)

\* What a promise leaves alone.
SameButLife(r, s) ==
  /\ s.helper = r.helper /\ s.leases = r.leases /\ s.stale = r.stale /\ s.doomed = r.doomed

LEMMA PromiseQuiet ==
  ASSUME Inv, NEW e \in Entries, NEW r \in Entry, NEW map, Promise(e, r, map),
         SameButLife(entry[e], r)
  PROVE  /\ LeasesCounted' /\ HeldOK' /\ StampOK'
         /\ UNCHANGED <<version, torn, held, pc, presetId, stamp>>
         /\ \A d \in Calls : HelperOf(d)' = HelperOf(d)
         /\ entry'[e] = r /\ \A f \in Entries \ {e} : entry'[f] = entry[f]
         /\ \A f \in Entries : SameButLife(entry[f], entry'[f])
         /\ capabilityHandles' = map
<1>1. /\ UNCHANGED <<version, torn, held, pc, presetId, stamp, since>>
      /\ entry'[e] = r /\ \A f \in Entries \ {e} : entry'[f] = entry[f]
      /\ capabilityHandles' = map
  BY DEF Promise, world, calls, Inv, TypeOK
<1>2. \A f \in Entries : SameButLife(entry[f], entry'[f])
  BY <1>1 DEF SameButLife
<1>3. LeasesCounted'
  BY <1>1, <1>2, SameCounted DEF SameButLife, Inv
<1>4. HeldOK' /\ StampOK'
  BY <1>1 DEF Inv, HeldOK, StampOK
<1> QED  BY <1>1, <1>2, <1>3, <1>4 DEF HelperOf

LEMMA GrowKeeps ==
  ASSUME Inv, TypeOK', ComposedOK', NEW e \in Entries, NEW r \in Entry,
         Promise(e, r, capabilityHandles), SameButLife(entry[e], r),
         entry[e].life \in {"listing", "creating", "mounted"},
         r.life \in {"creating", "mounted", "live"}, r.disposePromise = entry[e].disposePromise
  PROVE  Inv'
<1>1. /\ LeasesCounted' /\ HeldOK' /\ StampOK'
      /\ UNCHANGED <<version, torn, held, pc, presetId, stamp>>
      /\ \A d \in Calls : HelperOf(d)' = HelperOf(d)
      /\ entry'[e] = r /\ \A f \in Entries \ {e} : entry'[f] = entry[f]
      /\ \A f \in Entries : SameButLife(entry[f], entry'[f])
      /\ capabilityHandles' = capabilityHandles
  BY PromiseQuiet
<1>2. \A f \in Entries :
        /\ SameButLife(entry[f], entry'[f]) /\ entry'[f].disposePromise = entry[f].disposePromise
        /\ Mapped(f)' <=> Mapped(f)
  BY <1>1 DEF Mapped, SameButLife
<1>3. MapOK' /\ SettledOK'
  <2>1. \A h \in Helpers : capabilityHandles[h] # None => capabilityHandles[h] \in Entries
    BY DEF Inv, TypeOK
  <2> QED  BY <1>1, <1>2, <2>1 DEF Inv, MapOK, SettledOK, SameButLife
<1>4. InMapOrEnding'
  BY <1>1, <1>2 DEF Inv, InMapOrEnding, SameButLife
<1>5. LeaseOK'
  <2> SUFFICES ASSUME NEW d \in Calls, pc[d] \in Leasing
               PROVE  LET t == entry'[held[d]] IN
                      /\ t.helper = HelperOf(d)
                      /\ t.life # "none"
                      /\ pc[d] \in Past => t.life \in {"live", "gone"}
                      /\ ~torn => /\ ~t.doomed /\ t.disposePromise = "none" /\ t.life # "gone"
                                  /\ t.life = "failed" \/ Mapped(held[d])'
    BY <1>1 DEF LeaseOK
  <2>1. held[d] \in Entries
    BY LeaseHeld DEF Inv
  <2>2. Mapped(held[d])' <=> Mapped(held[d])
    BY <1>1, <1>2, <2>1 DEF Mapped
  <2>3. entry'[held[d]].life = entry[held[d]].life \/ (held[d] = e /\ entry'[held[d]].life = r.life)
    BY <1>1, <2>1
  <2> QED  BY <1>2, <2>1, <2>2, <2>3 DEF Inv, LeaseOK, SameButLife
<1>6. WaitOK'
  <2> SUFFICES ASSUME NEW d \in Calls, pc[d] = "waiting", ~torn
               PROVE  LET t == entry'[held[d]]
                          g == capabilityHandles[HelperOf(d)] IN
                      \/ t.disposePromise = "pending" /\ g = held[d]
                      \/ t.disposePromise = "settled" /\ (g = None \/ entry'[g].disposePromise = "none")
    BY <1>1 DEF WaitOK
  <2>1. held[d] \in Entries /\ capabilityHandles[HelperOf(d)] \in Entries \cup {None}
    BY HelperTyped DEF Inv, HeldOK, Bound, TypeOK
  <2> QED  BY <1>2, <2>1 DEF Inv, WaitOK
<1>7. KeptOK'
  BY <1>1, <1>2 DEF Inv, KeptOK, Kept, SameButLife
<1> QED  BY <1>1, <1>3, <1>4, <1>5, <1>6, <1>7 DEF Inv

LEMMA EndKeeps ==
  ASSUME Inv, TypeOK', ~Resuming, NEW e \in Entries, NEW r \in Entry,
         Promise(e, r, Unmap(e)), SameButLife(entry[e], r), r.mounted = entry[e].mounted,
         r.disposePromise = IF entry[e].disposePromise = "pending" THEN "settled"
                            ELSE entry[e].disposePromise,
         \/ entry[e].life \in {"listing", "creating", "mounted"} /\ r.life = "failed"
         \/ /\ entry[e].life = "live" /\ r.life = "gone"
            /\ entry[e].doomed \/ entry[e].disposePromise = "pending"
  PROVE  Inv'
<1>1. /\ LeasesCounted' /\ HeldOK' /\ StampOK'
      /\ UNCHANGED <<version, torn, held, pc, presetId, stamp>>
      /\ \A d \in Calls : HelperOf(d)' = HelperOf(d)
      /\ entry'[e] = r /\ \A f \in Entries \ {e} : entry'[f] = entry[f]
      /\ \A f \in Entries : SameButLife(entry[f], entry'[f])
      /\ capabilityHandles' = Unmap(e)
  BY PromiseQuiet
<1>2. /\ ~Mapped(e)'
      /\ \A f \in Entries \ {e} : Mapped(f)' <=> Mapped(f)
      /\ \A h \in Helpers : capabilityHandles'[h] =
           IF capabilityHandles[h] = e THEN None ELSE capabilityHandles[h]
  BY <1>1, UnmapIs DEF SameButLife
<1>3. MapOK' /\ SettledOK' /\ ComposedOK'
  <2>1. \A h \in Helpers : capabilityHandles[h] # None => capabilityHandles[h] \in Entries
    BY DEF Inv, TypeOK
  <2>2. MapOK'
    BY <1>1, <1>2, <2>1 DEF Inv, MapOK
  <2>3. SettledOK'
    BY <1>1 DEF Inv, SettledOK
  <2>4. ComposedOK'
    BY <1>1 DEF Inv, ComposedOK, SameButLife
  <2> QED  BY <2>2, <2>3, <2>4
<1>4. InMapOrEnding'
  BY <1>1, <1>2 DEF Inv, InMapOrEnding
<1>5. LeaseOK'
  <2> SUFFICES ASSUME NEW d \in Calls, pc[d] \in Leasing
               PROVE  LET t == entry'[held[d]] IN
                      /\ t.helper = HelperOf(d)
                      /\ t.life # "none"
                      /\ pc[d] \in Past => t.life \in {"live", "gone"}
                      /\ ~torn => /\ ~t.doomed /\ t.disposePromise = "none" /\ t.life # "gone"
                                  /\ t.life = "failed" \/ Mapped(held[d])'
    BY <1>1 DEF LeaseOK
  <2>1. held[d] \in Entries
    BY LeaseHeld DEF Inv
  <2>2. CASE held[d] # e
    <3>1. entry'[held[d]] = entry[held[d]] /\ (Mapped(held[d])' <=> Mapped(held[d]))
      BY <1>1, <1>2, <2>1, <2>2 DEF Mapped
    <3> QED  BY <3>1 DEF Inv, LeaseOK
  <2>3. CASE held[d] = e
    BY <1>1, <2>3 DEF Inv, LeaseOK, SameButLife
  <2> QED  BY <2>2, <2>3
<1>6. WaitOK'
  <2> SUFFICES ASSUME NEW d \in Calls, pc[d] = "waiting", ~torn
               PROVE  LET t == entry'[held[d]]
                          g == capabilityHandles'[HelperOf(d)] IN
                      \/ t.disposePromise = "pending" /\ g = held[d]
                      \/ t.disposePromise = "settled" /\ (g = None \/ entry'[g].disposePromise = "none")
    BY <1>1 DEF WaitOK
  <2>1. held[d] \in Entries /\ HelperOf(d) \in Helpers
    BY HelperTyped DEF Inv, HeldOK, Bound
  <2>2. entry[held[d]].disposePromise = "pending" /\ capabilityHandles[HelperOf(d)] = held[d]
    BY DEF Inv, WaitOK, Resuming
  <2>3. CASE held[d] # e
    BY <1>1, <1>2, <2>1, <2>2, <2>3
  <2>4. CASE held[d] = e
    BY <1>1, <1>2, <2>1, <2>2, <2>4
  <2> QED  BY <2>3, <2>4
<1>7. KeptOK'
  <2>1. ASSUME NEW f \in Entries, Kept(f)'
        PROVE  Kept(f)
    <3>1. f # e
      BY <2>1, <1>2 DEF Kept
    <3> QED  BY <2>1, <3>1, <1>1, <1>2 DEF Kept
  <2> QED  BY <2>1 DEF Inv, KeptOK
<1> QED  BY <1>1, <1>3, <1>4, <1>5, <1>6, <1>7 DEF Inv

\* What the promise's steps make of an entry.
WithLife(s, l)       == [s EXCEPT !.life = l]
WithMounted(s, v)    == [s EXCEPT !.life = "mounted", !.mounted = v]
WithDisposal(s, l, d) == [s EXCEPT !.life = l, !.disposePromise = d]

LEMMA LifeIs ==
  ASSUME NEW s \in Entry, NEW v \in Versions,
         NEW l \in {"creating", "mounted", "live", "failed", "gone"},
         NEW d \in {"none", "pending", "settled"}
  PROVE  /\ LET r == WithLife(s, l) IN
            /\ r \in Entry /\ SameButLife(s, r) /\ r.life = l /\ r.mounted = s.mounted
            /\ r.disposePromise = s.disposePromise
         /\ LET r == WithMounted(s, v) IN
            /\ r \in Entry /\ SameButLife(s, r) /\ r.life = "mounted" /\ r.mounted = v
            /\ r.disposePromise = s.disposePromise
         /\ LET r == WithDisposal(s, l, d) IN
            /\ r \in Entry /\ SameButLife(s, r) /\ r.life = l /\ r.mounted = s.mounted
            /\ r.disposePromise = d
  BY DEF Entry, SameButLife, WithLife, WithMounted, WithDisposal

\* The types of the world and the table after a step of a promise.
LEMMA PromiseTyped ==
  ASSUME Inv, NEW e \in Entries, NEW r \in Entry, NEW map,
         map \in [Helpers -> Entries \cup {None}], Promise(e, r, map)
  PROVE  TypeOK'
  BY DEF Inv, TypeOK, Promise, world, calls

LEMMA EntryStepKeeps ==
  ASSUME Inv, ~Resuming, NEW e \in Entries, EntryStep(e)
  PROVE  Inv'
<1> DEFINE s == entry[e]
<1>1. s \in Entry /\ s.helper \in Helpers /\ s.disposePromise \in {"none", "pending", "settled"}
  BY DEF Inv, TypeOK, Entry
<1>2. capabilityHandles \in [Helpers -> Entries \cup {None}] /\ Unmap(e) \in [Helpers -> Entries \cup {None}]
  BY <1>1 DEF Inv, TypeOK, Unmap
<1>3. ASSUME s.life \in {"listing", "creating", "mounted"}, Promise(e, Failed(e), Unmap(e))
      PROVE  Inv'
  <2>1. PICK d \in {"none", "pending", "settled"} :
          d = IF s.disposePromise = "pending" THEN "settled" ELSE s.disposePromise
    BY <1>1
  <2>2. Failed(e) = WithDisposal(s, "failed", d)
    BY <1>1, <2>1 DEF Failed, WithDisposal
  <2>3. 1 \in Versions
    BY DEF Versions
  <2>4. LET r == Failed(e) IN
        /\ r \in Entry /\ SameButLife(s, r) /\ r.life = "failed" /\ r.mounted = s.mounted
        /\ r.disposePromise = d
    BY <1>1, <2>2, <2>3, LifeIs
  <2> QED  BY <1>2, <1>3, <2>1, <2>4, PromiseTyped, EndKeeps
<1>4. CASE Listed(e)
  <2>1. CASE s.creator \in aborted
    BY <1>3, <1>4, <2>1 DEF Listed
  <2>2. CASE s.creator \notin aborted
    <3> DEFINE r == WithLife(s, "creating")
    <3>1. 1 \in Versions
      BY DEF Versions
    <3>2. r \in Entry /\ SameButLife(s, r) /\ r.life = "creating" /\ r.disposePromise = s.disposePromise
      BY <1>1, <3>1, LifeIs
    <3>3. s.life = "listing" /\ Promise(e, r, capabilityHandles)
      BY <1>4, <2>2 DEF Listed, WithLife
    <3> HIDE DEF r
    <3>4. ComposedOK'
      BY <3>2, <3>3 DEF Promise, world, Inv, TypeOK, ComposedOK, SameButLife
    <3> QED  BY <1>2, <3>2, <3>3, <3>4, PromiseTyped, GrowKeeps
  <2> QED  BY <2>1, <2>2
<1>5. CASE Mount(e)
  <2> DEFINE v == version[s.helper[1]]
  <2> DEFINE r == WithMounted(s, v)
  <2>1. v \in Versions
    BY <1>1 DEF Inv, TypeOK, Helpers
  <2>2. 1 \in Versions /\ Versions \subseteq Nat
    BY DEF Versions
  <2>3. r \in Entry /\ SameButLife(s, r) /\ r.life = "mounted" /\ r.mounted = v
        /\ r.disposePromise = s.disposePromise
    <3> HIDE DEF s, v
    <3> QED  BY <1>1, <2>1, LifeIs
  <2>4. s.life = "creating" /\ Promise(e, r, capabilityHandles)
    BY <1>5 DEF Mount, WithMounted
  <2>5. s.helper[2] <= v
    BY <2>4 DEF Inv, ComposedOK
  <2> HIDE DEF r
  <2>6. ComposedOK'
    <3>1. version' = version /\ entry'[e] = r /\ \A f \in Entries \ {e} : entry'[f] = entry[f]
      BY <2>4 DEF Promise, world, Inv, TypeOK
    <3>2. \A w \in Versions : w <= w
      BY DEF Versions
    <3> HIDE DEF s
    <3>3. LET t == entry'[e] IN
          /\ t.life = "mounted" /\ t.helper[2] <= version'[t.helper[1]]
          /\ t.helper[2] <= t.mounted /\ t.mounted <= version'[t.helper[1]]
      BY <2>1, <2>3, <2>5, <3>1, <3>2 DEF SameButLife
    <3> QED  BY <3>1, <3>3 DEF Inv, ComposedOK
  <2> QED  BY <1>2, <2>3, <2>4, <2>6, PromiseTyped, GrowKeeps
<1>6. CASE Composed(e)
  <2>1. CASE version[s.helper[1]] # s.helper[2]
    BY <1>3, <1>6, <2>1 DEF Composed
  <2>2. CASE version[s.helper[1]] = s.helper[2]
    <3> DEFINE r == WithLife(s, "live")
    <3>1. 1 \in Versions /\ Versions \subseteq Nat
      BY DEF Versions
    <3>2. r \in Entry /\ SameButLife(s, r) /\ r.life = "live" /\ r.disposePromise = s.disposePromise
          /\ r.mounted = s.mounted
      BY <1>1, <3>1, LifeIs
    <3>3. s.life = "mounted" /\ Promise(e, r, capabilityHandles)
      BY <1>6, <2>2 DEF Composed, WithLife
    <3>4. s.mounted = s.helper[2]
      <4>1. s.helper[2] \in Nat /\ s.mounted \in Nat
        BY <1>1, <3>1 DEF Helpers, Entry
      <4>2. s.helper[2] <= s.mounted /\ s.mounted <= s.helper[2]
        BY <2>2, <3>3 DEF Inv, ComposedOK
      <4> QED  BY <4>1, <4>2
    <3> HIDE DEF r
    <3>5. ComposedOK'
      BY <3>2, <3>3, <3>4 DEF Promise, world, Inv, TypeOK, ComposedOK, SameButLife
    <3> QED  BY <1>2, <3>2, <3>3, <3>5, PromiseTyped, GrowKeeps
  <2> QED  BY <2>1, <2>2
<1>7. CASE CreateFails(e)
  BY <1>3, <1>7 DEF CreateFails
<1>8. CASE DisposeEnds(e)
  <2>1. PICK d \in {"none", "pending", "settled"} :
          d = IF s.disposePromise = "pending" THEN "settled" ELSE s.disposePromise
    BY <1>1
  <2> DEFINE r == WithDisposal(s, "gone", d)
  <2>2. Promise(e, r, Unmap(e)) /\ s.life = "live" /\ (s.doomed \/ s.disposePromise = "pending")
    BY <1>1, <1>8, <2>1 DEF DisposeEnds, WithDisposal
  <2>3. 1 \in Versions
    BY DEF Versions
  <2>4. r \in Entry /\ SameButLife(s, r) /\ r.life = "gone" /\ r.mounted = s.mounted
        /\ r.disposePromise = d
    BY <1>1, <2>3, LifeIs
  <2> HIDE DEF r
  <2> QED  BY <1>2, <2>1, <2>2, <2>4, PromiseTyped, EndKeeps
<1> QED  BY <1>4, <1>5, <1>6, <1>7, <1>8 DEF EntryStep

-----------------------------------------------------------------------------
(* The plugin goes; the world changes *)

LEMMA TeardownKeeps ==
  ASSUME Inv, Teardown
  PROVE  Inv'
<1>1. /\ torn' /\ UNCHANGED <<world, calls>>
      /\ \A h \in Helpers : capabilityHandles'[h] = None
      /\ \A e \in Entries : entry'[e] = IF Mapped(e) THEN [entry[e] EXCEPT !.doomed = TRUE] ELSE entry[e]
      /\ capabilityHandles' \in [Helpers -> Entries \cup {None}]
  BY DEF Teardown
<1>2. ASSUME NEW s \in Entry
      PROVE  LET r == [s EXCEPT !.doomed = TRUE] IN
             /\ r \in Entry /\ r.helper = s.helper /\ r.life = s.life /\ r.leases = s.leases
             /\ r.stale = s.stale /\ r.disposePromise = s.disposePromise /\ r.mounted = s.mounted
             /\ r.doomed
  BY DEF Entry
<1>3. \A e \in Entries :
        LET s == entry[e]  r == entry'[e] IN
        /\ r \in Entry /\ r.helper = s.helper /\ r.life = s.life /\ r.leases = s.leases
        /\ r.stale = s.stale /\ r.disposePromise = s.disposePromise /\ r.mounted = s.mounted
        /\ s.doomed \/ Mapped(e) => r.doomed
        /\ ~Mapped(e)'
  <2> TAKE e \in Entries
  <2>1. entry[e] \in Entry /\ entry[e].helper \in Helpers
    BY DEF Inv, TypeOK, Entry
  <2>2. entry'[e].helper = entry[e].helper
    BY <1>1, <1>2, <2>1
  <2>3. ~Mapped(e)'
    BY <1>1, <2>1, <2>2 DEF Mapped
  <2> QED  BY <1>1, <1>2, <2>1, <2>3
<1>4. TypeOK'
  <2>1. entry' \in [Entries -> Entry]
    BY <1>3 DEF Teardown
  <2> QED  BY <1>1, <2>1 DEF Inv, TypeOK, world, calls
<1>5. HeldOK' /\ StampOK'
  BY <1>1 DEF Inv, HeldOK, StampOK, world, calls
<1>6. LeasesCounted'
  BY <1>1, <1>3, SameCounted DEF Inv, calls
<1>7. MapOK' /\ SettledOK' /\ ComposedOK' /\ InMapOrEnding' /\ KeptOK' /\ WaitOK'
  BY <1>1, <1>3 DEF Inv, MapOK, SettledOK, ComposedOK, InMapOrEnding, KeptOK, Kept, WaitOK, world
<1>8. LeaseOK'
  <2> SUFFICES ASSUME NEW d \in Calls, pc[d] \in Leasing
               PROVE  LET t == entry'[held[d]] IN
                      /\ t.helper = HelperOf(d)
                      /\ t.life # "none"
                      /\ pc[d] \in Past => t.life \in {"live", "gone"}
    BY <1>1 DEF LeaseOK, calls, HelperOf
  <2>1. held[d] \in Entries
    BY LeaseHeld DEF Inv
  <2> QED  BY <1>3, <2>1 DEF Inv, LeaseOK
<1> QED  BY <1>4, <1>5, <1>6, <1>7, <1>8 DEF Inv

\* The preset files only get newer, and nothing else changes.
LEMMA WorldKeeps ==
  ASSUME Inv, UNCHANGED <<table, calls>>, TypeOK',
         \A p \in Presets : version[p] <= version'[p]
  PROVE  Inv'
<1>1. /\ UNCHANGED <<capabilityHandles, entry, torn, pc, presetId, stamp, held, since>>
  BY DEF table, calls
<1>2. \A v, u, w \in Versions : v <= u /\ u <= w => v <= w
  BY DEF Versions
<1>3. StampOK'
  <2> SUFFICES ASSUME NEW c \in Calls
               PROVE  /\ pc[c] \in {"lookup"} \cup Bound => stamp[c] <= version'[presetId[c]]
                      /\ pc[c] \in Past => since[c] <= version'[presetId[c]]
                      /\ pc[c] \in {"same", "using"} => since[c] <= stamp[c]
    BY <1>1 DEF StampOK
  <2>1. /\ presetId[c] \in Presets /\ stamp[c] \in Versions /\ since[c] \in Versions
        /\ version[presetId[c]] \in Versions /\ version'[presetId[c]] \in Versions
    BY DEF Inv, TypeOK
  <2> QED  BY <1>2, <2>1 DEF Inv, StampOK
<1>4. ComposedOK'
  <2> SUFFICES ASSUME NEW e \in Entries
               PROVE  LET r == entry[e] IN
                      /\ r.life # "none" => r.helper[2] <= version'[r.helper[1]]
                      /\ r.life = "mounted" => r.helper[2] <= r.mounted /\ r.mounted <= version'[r.helper[1]]
                      /\ r.life \in {"live", "gone"} => r.mounted = r.helper[2]
    BY <1>1 DEF ComposedOK
  <2>1. LET r == entry[e] IN
        /\ r.helper[1] \in Presets /\ r.helper[2] \in Versions /\ r.mounted \in Versions
        /\ version[r.helper[1]] \in Versions /\ version'[r.helper[1]] \in Versions
    BY DEF Inv, TypeOK, Entry, Helpers
  <2> QED  BY <1>2, <2>1 DEF Inv, ComposedOK
<1>5. HeldOK' /\ MapOK' /\ SettledOK' /\ KeptOK' /\ InMapOrEnding'
  BY <1>1 DEF Inv, HeldOK, MapOK, SettledOK, KeptOK, Kept, Mapped, InMapOrEnding
<1>6. LeasesCounted'
  BY <1>1, SameCounted DEF Inv
<1>7. LeaseOK' /\ WaitOK'
  BY <1>1 DEF Inv, LeaseOK, WaitOK, HelperOf, Mapped
<1> QED  BY <1>3, <1>4, <1>5, <1>6, <1>7 DEF Inv

LEMMA WorldSteps ==
  ASSUME Inv, NEW p \in Presets, SetDefault(p) \/ Edit(p)
  PROVE  Inv'
<1>1. \A v \in Versions : v <= v /\ v <= v + 1 /\ (v < MaxVersion => v + 1 \in Versions)
  BY DEF Versions
<1>2. CASE SetDefault(p)
  <2>1. changes + 1 \in 0 .. MaxChanges
    BY <1>2 DEF SetDefault, Inv, TypeOK
  <2>2. TypeOK'
    BY <1>2, <2>1 DEF SetDefault, Inv, TypeOK, table, calls
  <2>3. \A q \in Presets : version[q] <= version'[q]
    BY <1>1, <1>2 DEF SetDefault, Inv, TypeOK
  <2> QED  BY <1>2, <2>2, <2>3, WorldKeeps DEF SetDefault
<1>3. CASE Edit(p)
  <2>1. version[p] + 1 \in Versions
    BY <1>1, <1>3 DEF Edit, Inv, TypeOK
  <2>2. TypeOK'
    BY <1>3, <2>1 DEF Edit, Inv, TypeOK, table, calls
  <2>3. \A q \in Presets : version[q] <= version'[q]
    BY <1>1, <1>3 DEF Edit, Inv, TypeOK
  <2> QED  BY <1>3, <2>2, <2>3, WorldKeeps DEF Edit
<1> QED  BY <1>2, <1>3

-----------------------------------------------------------------------------
(* A call *)

\* A call that begins again or gives up.
LEMMA MovesOn ==
  ASSUME Inv, NEW c \in Calls, pc[c] \notin Leasing, Restart(c) \/ Fail(c),
         UNCHANGED <<world, table, stamp, aborted, since>>
  PROVE  Inv'
<1> USE DEF world
<1>1. /\ pc'[c] \in {"stamping", "done"} /\ held'[c] = None
      /\ \A d \in Calls \ {c} : pc'[d] = pc[d] /\ held'[d] = held[d] /\ presetId'[d] = presetId[d]
      /\ UNCHANGED <<version, stamp, since, table>>
  BY DEF Restart, Fail, Goto, Hold, Inv, TypeOK
<1>2. TypeOK'
  BY RestartTyped, FailTyped DEF Inv, TypeOK, CallTyped, table
<1>3. HeldOK' /\ StampOK'
  <2>1. HeldOK'
    BY <1>1 DEF Inv, HeldOK, Bound, Past
  <2>2. StampOK'
    BY <1>1 DEF Inv, StampOK, Bound, Past
  <2> QED  BY <2>1, <2>2
<1>4. Moves(c)
  BY <1>1 DEF Moves, Leasing, Past
<1> QED  BY <1>1, <1>2, <1>3, <1>4, QuietStep

LEMMA StartKeeps ==
  ASSUME Inv, NEW c \in Calls, Start(c)
  PROVE  Inv'
  BY MovesOn DEF Start, Leasing, Past

LEMMA StampKeeps ==
  ASSUME Inv, NEW c \in Calls, Stamp(c)
  PROVE  Inv'
<1> USE DEF world
<1>1. /\ pc[c] = "stamping" /\ pc'[c] = "lookup"
      /\ stamp'[c] = version[presetId[c]]
      /\ \A d \in Calls \ {c} : pc'[d] = pc[d] /\ stamp'[d] = stamp[d]
      /\ UNCHANGED <<version, held, presetId, since, table>>
  BY DEF Stamp, Goto, Inv, TypeOK
<1>2. version[presetId[c]] \in Versions /\ \A v \in Versions : v <= v
  BY DEF Inv, TypeOK, Versions
<1>3. TypeOK'
  BY <1>2 DEF Stamp, Goto, Inv, TypeOK, table, Pcs
<1>4. HeldOK' /\ StampOK'
  <2>1. HeldOK'
    BY <1>1 DEF Inv, HeldOK, Bound, Past
  <2>2. StampOK'
    BY <1>1, <1>2 DEF Inv, StampOK, Bound, Past
  <2> QED  BY <2>1, <2>2
<1>5. Moves(c)
  BY <1>1 DEF Moves, Leasing, Past
<1> QED  BY <1>1, <1>3, <1>4, <1>5, QuietStep

\* The parts that a step of one call keeps, whatever it does to the table.
LEMMA CallKeeps ==
  ASSUME Inv, NEW c \in Calls, EntriesTyped, CallTyped, OthersHold(c),
         \A d \in Calls \ {c} : presetId'[d] = presetId[d],
         UNCHANGED <<world, torn, stamp, aborted, since>>,
         held'[c] \in Entries <=> pc'[c] \in Bound,
         pc'[c] \in Bound => pc[c] \in {"lookup"} \cup Bound /\ presetId'[c] = presetId[c],
         pc'[c] \notin {"lookup"} \cup Past
  PROVE  TypeOK' /\ HeldOK' /\ StampOK'
<1> USE DEF world
<1>1. TypeOK'
  BY DEF Inv, TypeOK, EntriesTyped, CallTyped
<1>2. HeldOK'
  BY DEF Inv, HeldOK, OthersHold
<1>3. StampOK'
  <2>1. pc'[c] \notin {"same", "using"}
    BY DEF Past
  <2> QED  BY <2>1 DEF Inv, StampOK, OthersHold
<1> QED  BY <1>1, <1>2, <1>3

LEMMA LookupKeeps ==
  ASSUME Inv, ~Resuming, NEW c \in Calls, Lookup(c)
  PROVE  Inv'
<1> USE DEF world
<1> DEFINE e == capabilityHandles[HelperOf(c)]
<1>1. pc[c] = "lookup" /\ pc[c] \notin Leasing /\ pc[c] \notin Bound
      /\ HelperOf(c) \in Helpers /\ e \in Entries \cup {None}
  BY HelperTyped DEF Lookup, Leasing, Past, Bound, Inv, TypeOK
<1>2. CASE (Restart(c) \/ Fail(c)) /\ UNCHANGED table
  BY <1>1, <1>2, MovesOn DEF Lookup
<1>3. CASE e = None /\ Create(c) /\ UNCHANGED torn
  <2>1. EntriesTyped /\ CallTyped
    BY <1>3, CreateTyped DEF Inv
  <2>2. /\ OthersHold(c) /\ pc'[c] = "awaiting" /\ held'[c] \in Entries /\ presetId' = presetId
    BY <1>3 DEF Create, Goto, Hold, OthersHold, Inv, TypeOK
  <2>3. TypeOK' /\ HeldOK' /\ StampOK'
    BY <1>1, <1>3, <2>1, <2>2, CallKeeps DEF Lookup, Bound, Past
  <2> QED  BY <1>1, <1>3, <2>3, CreateKeeps DEF Lookup
<1>4. CASE e # None /\ entry[e].disposePromise = "none" /\ Join(c, e) /\ UNCHANGED torn
  <2>1. EntriesTyped /\ CallTyped
    BY <1>1, <1>4, JoinTyped DEF Inv
  <2>2. /\ OthersHold(c) /\ pc'[c] = "awaiting" /\ held'[c] \in Entries /\ presetId' = presetId
    BY <1>1, <1>4 DEF Join, Goto, Hold, OthersHold, Inv, TypeOK
  <2>3. TypeOK' /\ HeldOK' /\ StampOK'
    BY <1>1, <1>4, <2>1, <2>2, CallKeeps DEF Lookup, Bound, Past
  <2> QED  BY <1>1, <1>4, <2>3, JoinKeeps DEF Lookup
<1>5. CASE /\ e # None /\ entry[e].disposePromise # "none"
           /\ Goto(c, "waiting") /\ Hold(c, e)
           /\ UNCHANGED <<capabilityHandles, entry, presetId, torn>>
  <2>1. EntriesTyped /\ CallTyped
    BY <1>1, <1>5 DEF Inv, TypeOK, EntriesTyped, CallTyped, Goto, Hold, Pcs
  <2>2. /\ OthersHold(c) /\ pc'[c] = "waiting" /\ held'[c] = e /\ presetId' = presetId
    BY <1>1, <1>5 DEF Goto, Hold, OthersHold, Inv, TypeOK
  <2>3. TypeOK' /\ HeldOK' /\ StampOK'
    BY <1>1, <1>5, <2>1, <2>2, CallKeeps DEF Lookup, Bound, Past
  <2>4. entry[e].disposePromise = "pending"
    <3>1. entry[e].disposePromise \in {"none", "pending", "settled"}
      BY <1>1, <1>5 DEF Inv, TypeOK, Entry
    <3> QED  BY <1>1, <1>5, <3>1 DEF Inv, MapOK
  <2>5. stamp' = stamp /\ version' = version /\ table' = table
    BY <1>5 DEF Lookup, table
  <2>6. Moves(c)
    BY <1>1, <2>2, <2>4, <2>5 DEF Moves, OthersHold, HelperOf, Leasing, Past
  <2> QED  BY <2>3, <2>5, <2>6, QuietStep
<1> QED  BY <1>2, <1>3, <1>4, <1>5 DEF Lookup

LEMMA LookAgainKeeps ==
  ASSUME Inv, NEW c \in Calls, LookAgain(c)
  PROVE  Inv'
<1> USE DEF world
<1> DEFINE e == capabilityHandles[HelperOf(c)]
<1>1. pc[c] = "waiting" /\ pc[c] \notin Leasing
      /\ HelperOf(c) \in Helpers /\ e \in Entries \cup {None}
  BY HelperTyped DEF LookAgain, Leasing, Past, Inv, TypeOK
<1>2. CASE Fail(c) /\ UNCHANGED <<capabilityHandles, entry>>
  BY <1>1, <1>2, MovesOn DEF LookAgain, table
<1>3. CASE e = None /\ Create(c)
  <2>1. EntriesTyped /\ CallTyped
    BY <1>3, CreateTyped DEF Inv
  <2>2. /\ OthersHold(c) /\ pc'[c] = "awaiting" /\ held'[c] \in Entries /\ presetId' = presetId
    BY <1>3 DEF Create, Goto, Hold, OthersHold, Inv, TypeOK
  <2>3. TypeOK' /\ HeldOK' /\ StampOK'
    BY <1>1, <1>3, <2>1, <2>2, CallKeeps DEF LookAgain, Bound, Past
  <2> QED  BY <1>1, <1>3, <2>3, CreateKeeps DEF LookAgain
<1>4. CASE e # None /\ Join(c, e)
  <2>1. EntriesTyped /\ CallTyped
    BY <1>1, <1>4, JoinTyped DEF Inv
  <2>2. /\ OthersHold(c) /\ pc'[c] = "awaiting" /\ held'[c] \in Entries /\ presetId' = presetId
    BY <1>1, <1>4 DEF Join, Goto, Hold, OthersHold, Inv, TypeOK
  <2>3. TypeOK' /\ HeldOK' /\ StampOK'
    BY <1>1, <1>4, <2>1, <2>2, CallKeeps DEF LookAgain, Bound, Past
  <2>4. torn \/ entry[e].disposePromise = "none"
    BY <1>1, <1>4 DEF LookAgain, Inv, WaitOK
  <2> QED  BY <1>1, <1>4, <2>3, <2>4, JoinKeeps DEF LookAgain
<1> QED  BY <1>2, <1>3, <1>4 DEF LookAgain

\* A call that drops its lease, to start again or to give up.
LEMMA RetireKeeps ==
  ASSUME Inv, ~Resuming, NEW c \in Calls, pc[c] \in Leasing, Retire(c),
         UNCHANGED <<world, torn, stamp, aborted>>,
         since' = since \/ since' = [since EXCEPT ![c] = version[presetId[c]]]
  PROVE  Inv'
<1> USE DEF world
<1>1. held[c] \in Entries /\ entry[held[c]].leases >= 1
  BY LeaseHeld DEF Inv
<1>2. EntriesTyped /\ CallTyped
  BY <1>1, RetireTyped DEF Inv
<1>3. /\ OthersHold(c) /\ \A d \in Calls \ {c} : presetId'[d] = presetId[d]
      /\ capabilityHandles' = capabilityHandles
      /\ \/ pc'[c] = "retiring" /\ presetId' = presetId /\ held' = held
         \/ pc'[c] = "stamping" /\ held'[c] = None
  BY DEF Retire, Restart, Goto, Hold, OthersHold, Inv, TypeOK
<1>4. entry' = [entry EXCEPT ![held[c]] = MaybeDispose(Dropped(entry[held[c]]))]
  BY <1>1, DropLeaseIs DEF Retire, Inv
<1>5. version[presetId[c]] \in Versions /\ (\A v \in Versions : v <= v)
      /\ since' \in [Calls -> Versions]
  BY DEF Inv, TypeOK, Versions
<1>6. TypeOK'
  BY <1>2, <1>5 DEF Inv, TypeOK, EntriesTyped, CallTyped
<1>7. HeldOK'
  BY <1>1, <1>3 DEF Inv, HeldOK, OthersHold, Bound, Past
<1>8. StampOK'
  <2> SUFFICES ASSUME NEW d \in Calls
               PROVE  /\ pc'[d] \in {"lookup"} \cup Bound => stamp[d] <= version[presetId'[d]]
                      /\ pc'[d] \in Past => since'[d] <= version[presetId'[d]]
                      /\ pc'[d] \in {"same", "using"} => since'[d] <= stamp[d]
    BY DEF StampOK
  <2>1. CASE d = c
    BY <1>3, <2>1 DEF Inv, StampOK, Bound, Past, Leasing
  <2>2. CASE d # c
    <3>1. since'[d] = since[d]
      BY <2>2 DEF Inv, TypeOK
    <3> QED  BY <1>3, <2>2, <3>1 DEF Inv, StampOK, OthersHold
  <2> QED  BY <2>1, <2>2
<1>9. \A d \in Calls \ {c} : HelperOf(d)' = HelperOf(d)
  BY <1>3 DEF HelperOf
<1>10. pc'[c] \in {"stamping", "retiring", "leaving", "done"}
  BY <1>3
<1> QED  BY <1>3, <1>4, <1>6, <1>7, <1>8, <1>9, <1>10, DropKeeps

LEMMA CatchKeeps ==
  ASSUME Inv, ~Resuming, NEW c \in Calls, pc[c] \in Leasing, Catch(c),
         UNCHANGED <<world, torn, stamp, aborted, since>>
  PROVE  Inv'
<1> USE DEF world
<1>1. held[c] \in Entries /\ entry[held[c]].leases >= 1
  BY LeaseHeld DEF Inv
<1>2. EntriesTyped /\ CallTyped
  BY <1>1, CatchTyped DEF Inv
<1>3. /\ OthersHold(c) /\ presetId' = presetId
      /\ \/ pc'[c] = "leaving" /\ held' = held
         \/ pc'[c] = "done" /\ held'[c] = None
  BY DEF Catch, Fail, Goto, Hold, OthersHold, Inv, TypeOK
<1>4. TypeOK' /\ HeldOK' /\ StampOK'
  BY <1>1, <1>2, <1>3, CallKeeps DEF Bound, Past, Leasing
<1>5. \A d \in Calls \ {c} : HelperOf(d)' = HelperOf(d)
  BY <1>3 DEF HelperOf
<1>6. CASE c \in aborted /\ entry[held[c]].leases = 1 /\ Mapped(held[c])
  <2>1. /\ entry' = [entry EXCEPT ![held[c]] = Abandoned(held[c])]
        /\ capabilityHandles' = Unmap(held[c])
        /\ pc'[c] = "done"
    BY <1>6 DEF Catch, Fail, Goto, Inv, TypeOK
  <2> QED  BY <1>3, <1>4, <1>5, <1>6, <2>1, AbandonKeeps
<1>7. CASE ~(c \in aborted /\ entry[held[c]].leases = 1 /\ Mapped(held[c]))
  <2>1. DropLease(c) /\ capabilityHandles' = capabilityHandles
    BY <1>7 DEF Catch
  <2>2. entry' = [entry EXCEPT ![held[c]] = MaybeDispose(Dropped(entry[held[c]]))]
    BY <1>1, <2>1, DropLeaseIs DEF Inv
  <2>3. pc'[c] \in {"stamping", "retiring", "leaving", "done"}
    BY <1>3
  <2> QED  BY <1>3, <1>4, <1>5, <2>1, <2>2, <2>3, DropKeeps
<1> QED  BY <1>6, <1>7

\* The handle arrives, the file is compared, the disposal is waited for.
LEMMA ArriveKeeps ==
  ASSUME Inv, ~Resuming, NEW c \in Calls, Arrive(c)
  PROVE  Inv'
<1> USE DEF world
<1>1. CASE Retire(c)
  BY <1>1, RetireKeeps DEF Arrive, Leasing
<1>2. CASE Goto(c, "checking") /\ UNCHANGED <<capabilityHandles, entry, presetId, held>>
  <2>1. /\ pc[c] = "awaiting" /\ pc'[c] = "checking" /\ entry[held[c]].life \in {"live", "gone"}
        /\ OthersHold(c) /\ UNCHANGED <<version, table, presetId, stamp, held>>
    BY <1>2 DEF Arrive, Goto, OthersHold, table, Inv, TypeOK
  <2>2. version[presetId[c]] \in Versions /\ (\A v \in Versions : v <= v)
        /\ since' \in [Calls -> Versions]
    BY DEF Inv, TypeOK, Versions, Arrive
  <2>3. TypeOK'
    BY <1>2, <2>2 DEF Inv, TypeOK, Arrive, Goto, Pcs
  <2>4. HeldOK'
    BY <2>1 DEF Inv, HeldOK, OthersHold, Bound, Past
  <2>5. StampOK'
    <3> SUFFICES ASSUME NEW d \in Calls
                 PROVE  /\ pc'[d] \in {"lookup"} \cup Bound => stamp[d] <= version[presetId[d]]
                        /\ pc'[d] \in Past => since'[d] <= version[presetId[d]]
                        /\ pc'[d] \in {"same", "using"} => since'[d] <= stamp[d]
      BY <2>1 DEF StampOK
    <3>1. CASE d = c
      <4>1. since'[c] = version[presetId[c]]
        BY DEF Arrive, Inv, TypeOK
      <4> QED  BY <2>1, <2>2, <3>1, <4>1 DEF Inv, StampOK, Bound
    <3>2. CASE d # c
      <4>1. since'[d] = since[d]
        BY <3>2 DEF Arrive, Inv, TypeOK
      <4> QED  BY <2>1, <3>2, <4>1 DEF Inv, StampOK, OthersHold
    <3> QED  BY <3>1, <3>2
  <2>6. Moves(c)
    BY <2>1 DEF Moves, OthersHold, Leasing, Past
  <2> QED  BY <2>1, <2>3, <2>4, <2>5, <2>6, QuietStep
<1> QED  BY <1>1, <1>2 DEF Arrive

LEMMA CheckStampKeeps ==
  ASSUME Inv, NEW c \in Calls, CheckStamp(c)
  PROVE  Inv'
<1> USE DEF world
<1>1. /\ pc[c] = "checking" /\ pc'[c] \in {"same", "differs"}
      /\ pc'[c] = "same" => version[presetId[c]] = stamp[c]
      /\ OthersHold(c) /\ UNCHANGED <<version, table, presetId, stamp, held, since>>
  BY DEF CheckStamp, SameStamp, Goto, OthersHold, Inv, TypeOK
<1>2. TypeOK'
  BY DEF Inv, TypeOK, CheckStamp, Goto, Pcs, table
<1>3. HeldOK'
  BY <1>1 DEF Inv, HeldOK, OthersHold, Bound, Past
<1>4. StampOK'
  BY <1>1 DEF Inv, StampOK, OthersHold, Bound, Past
<1>5. Moves(c)
  BY <1>1 DEF Moves, OthersHold, Leasing, Past
<1> QED  BY <1>1, <1>2, <1>3, <1>4, <1>5, QuietStep

LEMMA VerifyKeepsAll ==
  ASSUME Inv, ~Resuming, NEW c \in Calls, Verify(c)
  PROVE  Inv'
<1> USE DEF world
<1>1. /\ pc[c] = "same" /\ pc'[c] = "using" /\ held[c] \in Entries
      /\ OthersHold(c) /\ UNCHANGED <<version, presetId, stamp, held, since>>
  BY LeaseHeld DEF Verify, Goto, OthersHold, Inv, TypeOK, Leasing, Past
<1>2. ASSUME NEW f \in Entries
      PROVE  RetiredOther(f) \in Entry /\ [entry[f] EXCEPT !.stale = FALSE] \in Entry
  <2>1. entry[f] \in Entry
    BY DEF Inv, TypeOK
  <2>2. ASSUME NEW r \in Entry
        PROVE  [r EXCEPT !.stale = FALSE] \in Entry /\ [r EXCEPT !.stale = TRUE] \in Entry
    BY DEF Entry
  <2> QED  BY <2>1, <2>2, MaybeDisposeTyped DEF RetiredOther
<1>3. TypeOK'
  BY <1>1, <1>2 DEF Inv, TypeOK, Verify, Goto, Pcs
<1>4. HeldOK'
  BY <1>1 DEF Inv, HeldOK, OthersHold, Bound, Past
<1>5. StampOK'
  BY <1>1 DEF Inv, StampOK, OthersHold, Bound, Past
<1> QED  BY <1>3, <1>4, <1>5, VerifyKeeps

LEMMA ReleaseKeeps ==
  ASSUME Inv, ~Resuming, NEW c \in Calls, Release(c)
  PROVE  Inv'
<1> USE DEF world
<1>1. /\ held[c] \in Entries /\ entry[held[c]].leases >= 1 /\ entry[held[c]] \in Entry
      /\ pc[c] = "using" /\ pc[c] \in Leasing
  BY LeaseHeld DEF Inv, Release, Leasing, Past, TypeOK
<1>2. /\ OthersHold(c) /\ presetId' = presetId /\ pc'[c] = "done" /\ held'[c] = None
      /\ capabilityHandles' = capabilityHandles
      /\ entry' = [entry EXCEPT ![held[c]] = MaybeDispose(Less(entry[held[c]]))]
  BY DEF Release, Goto, Hold, OthersHold, Less, Inv, TypeOK
<1>3. MaybeDispose(Less(entry[held[c]])) \in Entry
  BY <1>1, LessTyped, MaybeDisposeTyped
<1>4. EntriesTyped /\ CallTyped
  BY <1>1, <1>2, <1>3 DEF Release, Goto, Hold, Inv, TypeOK, EntriesTyped, CallTyped, Pcs
<1>5. TypeOK' /\ HeldOK' /\ StampOK'
  BY <1>2, <1>4, CallKeeps DEF Release, Bound, Past
<1>6. \A d \in Calls \ {c} : HelperOf(d)' = HelperOf(d)
  BY <1>2 DEF HelperOf, Release
<1> QED  BY <1>1, <1>2, <1>5, <1>6, DropKeeps DEF Release

LEMMA AbortKeeps ==
  ASSUME Inv, NEW c \in Calls, Abort(c)
  PROVE  Inv'
<1>1. UNCHANGED <<version, table, pc, presetId, stamp, held, since>>
  BY DEF Abort, world
<1>2. TypeOK'
  BY DEF Abort, Inv, TypeOK, world, table
<1>3. HeldOK' /\ StampOK'
  BY <1>1 DEF Inv, HeldOK, StampOK
<1>4. Moves(c)
  BY <1>1, HelperTyped DEF Moves, Leasing, Past, Bound
<1> QED  BY <1>1, <1>2, <1>3, <1>4, QuietStep

LEMMA CallStepKeeps ==
  ASSUME Inv, ~Resuming, NEW c \in Calls, CallStep(c)
  PROVE  Inv'
<1>1. CASE Stamp(c)
  BY <1>1, StampKeeps
<1>2. CASE StampFails(c)
  BY <1>2, MovesOn DEF StampFails, Leasing, Past
<1>3. CASE Lookup(c)
  BY <1>3, LookupKeeps
<1>4. CASE Arrive(c)
  BY <1>4, ArriveKeeps
<1>5. CASE Reject(c)
  BY <1>5, CatchKeeps DEF Reject, Leasing
<1>6. CASE CheckStamp(c)
  BY <1>6, CheckStampKeeps
<1>7. CASE CheckFails(c)
  BY <1>7, CatchKeeps DEF CheckFails, Leasing, Past
<1>8. CASE Verify(c)
  BY <1>8, VerifyKeepsAll
<1>9. CASE Mismatch(c)
  BY <1>9, RetireKeeps DEF Mismatch, Leasing, Past
<1>10. CASE Retry(c)
  BY <1>10, MovesOn DEF Retry, Leasing, Past
<1>11. CASE Leave(c)
  BY <1>11, MovesOn DEF Leave, Leasing, Past
<1>12. CASE Release(c)
  BY <1>12, ReleaseKeeps
<1> QED  BY <1>1, <1>2, <1>3, <1>4, <1>5, <1>6, <1>7, <1>8, <1>9, <1>10, <1>11, <1>12 DEF CallStep

-----------------------------------------------------------------------------
(* The invariant *)

LEMMA InitInv == Init => Inv
<1> SUFFICES ASSUME Init PROVE Inv
  OBVIOUS
<1>1. 1 \in Versions /\ Versions \subseteq Nat
  BY DEF Versions
<1>2. (CHOOSE h \in Helpers : TRUE) \in Helpers
  <2>1. PICK p \in Presets : TRUE
    BY PresetsAssumption
  <2>2. <<p, 1>> \in Helpers
    BY <1>1 DEF Helpers
  <2> QED  BY <2>2
<1>3. \A e \in Entries :
        LET r == entry[e] IN
        /\ r \in Entry /\ r.life = "none" /\ r.leases = 0 /\ r.disposePromise = "none"
  BY <1>1, <1>2 DEF Init, Entry
<1>4. TypeOK
  <2>1. entry \in [Entries -> Entry]
    BY <1>3 DEF Init
  <2>2. changes \in 0 .. MaxChanges
    BY BoundsAssumption DEF Init
  <2>3. capabilityHandles \in [Helpers -> Entries \cup {None}] /\ torn \in BOOLEAN
    BY DEF Init
  <2>4. /\ defaultId \in Presets /\ version \in [Presets -> Versions]
        /\ pc \in [Calls -> Pcs] /\ presetId \in [Calls -> Presets]
        /\ stamp \in [Calls -> Versions] /\ since \in [Calls -> Versions]
        /\ held \in [Calls -> Entries \cup {None}] /\ aborted \in SUBSET Calls
    BY <1>1 DEF Init, Pcs
  <2> QED  BY <2>1, <2>2, <2>3, <2>4 DEF TypeOK
<1>5. HeldOK /\ LeaseOK /\ WaitOK /\ StampOK
  BY DEF Init, HeldOK, LeaseOK, WaitOK, StampOK, Bound, Past, Leasing
<1>6. LeasesCounted
  <2>1. \A e \in Entries : Holders(e) = {}
    BY DEF Init, Holders
  <2> QED  BY <1>3, <2>1, FS_EmptySet DEF LeasesCounted
<1>7. MapOK /\ SettledOK /\ ComposedOK /\ InMapOrEnding
  BY <1>3 DEF Init, MapOK, SettledOK, ComposedOK, InMapOrEnding
<1>8. KeptOK
  <2>1. \A e \in Entries : ~Mapped(e)
    BY <1>3 DEF Init, Mapped, Entry
  <2> QED  BY <2>1 DEF KeptOK, Kept
<1> QED  BY <1>4, <1>5, <1>6, <1>7, <1>8 DEF Inv

LEMMA StepInv == Inv /\ [Next]_vars => Inv'
<1> SUFFICES ASSUME Inv, [Next]_vars PROVE Inv'
  OBVIOUS
<1>1. CASE UNCHANGED vars
  <2>1. UNCHANGED <<table, calls>> /\ version' = version
    BY <1>1 DEF vars, world
  <2>2. TypeOK'
    BY <1>1 DEF vars, world, table, calls, Inv, TypeOK
  <2>3. \A p \in Presets : version[p] <= version'[p]
    BY <2>1 DEF Inv, TypeOK, Versions
  <2> QED  BY <2>1, <2>2, <2>3, WorldKeeps
<1>2. ASSUME NEW c \in Calls, LookAgain(c)
      PROVE  Inv'
  BY <1>2, LookAgainKeeps
<1>3. ASSUME ~Resuming, NEW c \in Calls, Start(c) \/ CallStep(c) \/ Abort(c)
      PROVE  Inv'
  BY <1>3, StartKeeps, CallStepKeeps, AbortKeeps
<1>4. ASSUME ~Resuming, NEW e \in Entries, EntryStep(e)
      PROVE  Inv'
  BY <1>4, EntryStepKeeps
<1>5. CASE Teardown
  BY <1>5, TeardownKeeps
<1>6. ASSUME NEW p \in Presets, SetDefault(p) \/ Edit(p)
      PROVE  Inv'
  BY <1>6, WorldSteps
<1> QED  BY <1>1, <1>2, <1>3, <1>4, <1>5, <1>6 DEF Next

\* What every state of the bridge satisfies, and all the theorems below follow from.
THEOREM Invariant == Spec => []Inv
  BY InitInv, StepInv, PTL DEF Spec

\* The variables have their types.
THEOREM TypeCorrect == Spec => []TypeOK
  BY Invariant, PTL DEF Inv

\* An entry's leases counter is the number of calls that lease it.
THEOREM LeasesAreCounted == Spec => []LeasesCounted
  BY Invariant, PTL DEF Inv

\* No tool runs with an agent that is disposed of, or with another composition's.
THEOREM AgentsInUseAreAlive == Spec => []InUseAlive
<1>1. Inv => InUseAlive
  BY DEF Inv, LeaseOK, InUseAlive, Leasing, Past
<1> QED  BY <1>1, Invariant, PTL

\* The agent a tool runs with is not older than the preset file was when the
\* handle arrived.
THEOREM AgentsInUseAreCurrent == Spec => []UsesCurrent
<1>1. Inv => UsesCurrent
  <2> SUFFICES ASSUME Inv, NEW c \in Calls, pc[c] = "using"
               PROVE  /\ entry[held[c]].mounted = stamp[c]
                      /\ since[c] <= entry[held[c]].mounted
    BY DEF UsesCurrent
  <2>1. held[c] \in Entries
    BY DEF Inv, HeldOK, Bound, Past
  <2>2. entry[held[c]].life \in {"live", "gone"} /\ entry[held[c]].helper = HelperOf(c)
    BY DEF Inv, LeaseOK, Leasing, Past
  <2>3. entry[held[c]].mounted = stamp[c]
    BY <2>1, <2>2 DEF Inv, ComposedOK, HelperOf
  <2> QED  BY <2>3 DEF Inv, StampOK
<1> QED  BY <1>1, Invariant, PTL

\* Until the teardown no agent is left behind that no call finds and nobody
\* disposes of; from then on only one that was put into the map after it.
THEOREM NoAgentForgotten == Spec => []NoForgottenAgent
<1>1. Inv => NoForgottenAgent
  BY DEF Inv, InMapOrEnding, NoForgottenAgent, LeftInMap
<1> QED  BY <1>1, Invariant, PTL

\* At most one unused agent is kept.
THEOREM OneIdleAgent == Spec => []OneIdle
<1>1. Inv => OneIdle
  BY DEF Inv, KeptOK, Kept, OneIdle
<1> QED  BY <1>1, Invariant, PTL

\* A tool runs with an agent that is alive, the one of its composition, and of
\* the composition the preset file has.
THEOREM UsedAgentsAlwaysFit == Spec => []UsedAgentsFit
  BY AgentsInUseAreAlive, AgentsInUseAreCurrent, PTL DEF UsedAgentsFit

\* Leases are counted, at most one agent is spare, and every other is leased or
\* ends, but for what is put into the map after the teardown.
THEOREM AgentsAlwaysAccounted == Spec => []AgentsAccounted
  BY LeasesAreCounted, NoAgentForgotten, OneIdleAgent, PTL DEF AgentsAccounted

-----------------------------------------------------------------------------
(* The plugin implements SharedAgents *)

\* A step of the promised behaviour, or none.
SharedStep == [Shared!SharedNext]_(Shared!sharedVars)

LEMMA StutterIs ==
  ASSUME \A e \in Entries : Phase(entry[e])' = Phase(entry[e]) /\ entry'[e].helper = entry[e].helper,
         \A c \in Calls : pc'[c] = "using" \/ pc[c] = "using" => pc'[c] = pc[c] /\ held'[c] = held[c],
         torn' = torn
  PROVE  SharedStep
<1>1. \A e \in Entries : Borrowers(e)' = Borrowers(e)
  BY DEF Borrowers
<1>2. AgentNow' = AgentNow /\ MadeNow' = MadeNow /\ BorrowedNow' = BorrowedNow
  BY <1>1 DEF AgentNow, MadeNow, BorrowedNow
<1> QED  BY <1>2 DEF SharedStep, Shared!sharedVars, AgentNow, MadeNow, BorrowedNow

\* One agent that nobody uses ends.
LEMMA EndIs ==
  ASSUME NEW e \in Entries, Phase(entry[e]) \in {"coming", "offered"}, Borrowers(e) = {},
         Phase(entry[e])' = "ended",
         \A f \in Entries \ {e} : Phase(entry[f])' = Phase(entry[f]),
         \A f \in Entries : entry'[f].helper = entry[f].helper,
         \A c \in Calls : pc'[c] = "using" \/ pc[c] = "using" => pc'[c] = pc[c] /\ held'[c] = held[c],
         torn' = torn
  PROVE  SharedStep
<1>1. \A f \in Entries : Borrowers(f)' = Borrowers(f)
  BY DEF Borrowers
<1>2. Shared!End(e)
  <2>1. e \in Shared!Idle
    BY DEF Shared!Idle, Shared!Around, AgentNow, BorrowedNow
  <2>2. AgentNow' = [AgentNow EXCEPT ![e] = "ended"]
    BY DEF AgentNow
  <2>3. MadeNow' = MadeNow /\ BorrowedNow' = BorrowedNow
    BY <1>1 DEF MadeNow, BorrowedNow
  <2> QED  BY <2>1, <2>2, <2>3 DEF Shared!End, AgentNow, MadeNow, BorrowedNow
<1> QED  BY <1>2 DEF SharedStep, Shared!SharedNext

\* A call that was not using its agent drops the lease.
LEMMA DropSim ==
  ASSUME Inv, NEW c \in Calls, pc[c] \in Leasing \ {"using"},
         pc'[c] \in {"stamping", "retiring", "leaving", "done"}, OthersHold(c),
         \/ entry' = [entry EXCEPT ![held[c]] = MaybeDispose(Dropped(entry[held[c]]))]
         \/ /\ entry[held[c]].leases = 1
            /\ entry' = [entry EXCEPT ![held[c]] = Abandoned(held[c])],
         torn' = torn
  PROVE  SharedStep
<1> PICK e \in Entries : e = held[c]
  BY LeaseHeld DEF Inv
<1> PICK s \in Entry : s = entry[e]
  BY DEF Inv, TypeOK
<1>1. /\ s.leases >= 1 /\ s.life # "none"
      /\ \A d \in Calls \ {c} : pc[d] \in Leasing /\ held[d] = e => s.leases >= 2
  BY LeaseHeld DEF Inv, LeaseOK
<1>2. \A f \in Entries \ {e} : entry'[f] = entry[f]
  BY DEF Inv, TypeOK
<1>3. /\ entry'[e].helper = s.helper /\ entry'[e].life = s.life
      /\ s.doomed => entry'[e].doomed
      /\ s.disposePromise # "none" => entry'[e].disposePromise = s.disposePromise
      /\ s.leases >= 2 => entry'[e].doomed = s.doomed /\ entry'[e].disposePromise = s.disposePromise
  <2>1. CASE entry' = [entry EXCEPT ![e] = MaybeDispose(Dropped(s))]
    <3>1. entry'[e] = MaybeDispose(Dropped(s))
      BY <2>1 DEF Inv, TypeOK
    <3> QED  BY <1>1, <3>1, LessIs
  <2>2. CASE s.leases = 1 /\ entry' = [entry EXCEPT ![e] = Abandoned(e)]
    <3>1. entry'[e] = [s EXCEPT !.stale = TRUE, !.leases = 0, !.doomed = TRUE]
      BY <2>2 DEF Abandoned, Inv, TypeOK
    <3>2. ASSUME NEW r \in Entry
          PROVE  LET t == [r EXCEPT !.stale = TRUE, !.leases = 0, !.doomed = TRUE] IN
                 /\ t.helper = r.helper /\ t.life = r.life /\ t.doomed
                 /\ t.disposePromise = r.disposePromise
      BY DEF Entry
    <3>3. /\ entry'[e].helper = s.helper /\ entry'[e].life = s.life /\ entry'[e].doomed
          /\ entry'[e].disposePromise = s.disposePromise
      BY <3>1, <3>2
    <3> QED  BY <2>2, <3>3
  <2> QED  BY <2>1, <2>2
<1>4. /\ Phase(s) \in {"coming", "offered", "ended"}
      /\ Phase(entry'[e]) = Phase(s) \/ Phase(entry'[e]) = "ended"
      /\ s.leases >= 2 => Phase(entry'[e]) = Phase(s)
  BY <1>1, <1>3 DEF Phase, Ended, OnItsWay, Entry
<1>5. \A d \in Calls : pc'[d] = "using" \/ pc[d] = "using" => pc'[d] = pc[d] /\ held'[d] = held[d]
  BY DEF OthersHold, Leasing, Past
<1>6. \A f \in Entries : entry'[f].helper = entry[f].helper
  BY <1>2, <1>3
<1>7. \A f \in Entries \ {e} : Phase(entry[f])' = Phase(entry[f])
  BY <1>2 DEF Phase, Ended, OnItsWay
<1>8. Phase(entry[e])' = Phase(entry'[e])
  BY DEF Phase, Ended, OnItsWay
<1>9. CASE Phase(entry'[e]) = Phase(s)
  BY <1>5, <1>6, <1>7, <1>8, <1>9, StutterIs
<1>10. CASE Phase(entry'[e]) # Phase(s)
  <2>1. Borrowers(e) = {}
    BY <1>1, <1>4, <1>10 DEF Borrowers, Leasing, Past
  <2> QED  BY <1>4, <1>5, <1>6, <1>7, <1>8, <1>10, <2>1, EndIs
<1> QED  BY <1>9, <1>10

LEMMA ReleaseSim ==
  ASSUME Inv, NEW c \in Calls, Release(c)
  PROVE  SharedStep
<1> PICK e \in Entries : e = held[c]
  BY LeaseHeld DEF Inv, Release, Leasing, Past
<1> PICK s \in Entry : s = entry[e]
  BY DEF Inv, TypeOK
<1>1. /\ s.leases >= 1 /\ s.life # "none" /\ pc[c] = "using"
      /\ \A d \in Calls \ {c} : pc[d] \in Leasing /\ held[d] = e => s.leases >= 2
  BY LeaseHeld DEF Inv, LeaseOK, Release, Leasing, Past
<1>2. /\ entry'[e] = MaybeDispose(Less(s)) /\ \A f \in Entries \ {e} : entry'[f] = entry[f]
      /\ OthersHold(c) /\ pc'[c] = "done" /\ torn' = torn
  BY DEF Release, Goto, Hold, OthersHold, Less, Inv, TypeOK
<1>3. /\ entry'[e].helper = s.helper /\ entry'[e].life = s.life
      /\ entry'[e].doomed = s.doomed
      /\ s.disposePromise # "none" \/ s.leases >= 2 => entry'[e].disposePromise = s.disposePromise
  BY <1>1, <1>2, LessIs
<1>4. /\ Phase(s) \in {"coming", "offered", "ended"}
      /\ Phase(entry'[e]) = Phase(s) \/ Phase(entry'[e]) = "ended"
      /\ s.leases >= 2 => Phase(entry'[e]) = Phase(s)
  BY <1>1, <1>3 DEF Phase, Ended, OnItsWay, Entry
<1>5. MadeNow' = MadeNow
  BY <1>2, <1>3 DEF MadeNow
<1>6. \A f \in Entries \ {e} : Phase(entry[f])' = Phase(entry[f])
  BY <1>2 DEF Phase, Ended, OnItsWay
<1>7. Phase(entry[e])' = Phase(entry'[e])
  BY DEF Phase, Ended, OnItsWay
<1>8. /\ c \in Borrowers(e) /\ Borrowers(e)' = Borrowers(e) \ {c}
      /\ \A f \in Entries \ {e} : Borrowers(f)' = Borrowers(f)
  BY <1>1, <1>2 DEF Borrowers, OthersHold
<1>9. BorrowedNow' = [BorrowedNow EXCEPT ![e] = @ \ {c}] /\ c \in BorrowedNow[e]
      /\ BorrowedNow'[e] = Borrowers(e)'
  BY <1>8 DEF BorrowedNow
<1>10. Borrowers(e)' # {} => s.leases >= 2
  <2> SUFFICES ASSUME NEW d \in Borrowers(e)'
               PROVE  s.leases >= 2
    OBVIOUS
  <2>1. d \in Calls \ {c} /\ pc[d] = "using" /\ held[d] = e
    BY <1>8 DEF Borrowers
  <2> QED  BY <1>1, <2>1 DEF Leasing, Past
<1>11. /\ DOMAIN AgentNow' = Entries
       /\ \A a \in Entries : AgentNow'[a] = Phase(entry[a])' /\ AgentNow[a] = Phase(entry[a])
  BY DEF AgentNow
<1>12. Shared!EndSome(IF BorrowedNow'[e] = {} THEN {e} \cap Shared!Around ELSE {})
  <2> SUFFICES ASSUME NEW a \in Entries, AgentNow'[a] # AgentNow[a]
               PROVE  /\ BorrowedNow'[e] = {} /\ a = e /\ AgentNow'[a] = "ended"
                      /\ AgentNow[a] \in {"coming", "offered"}
    BY <1>11 DEF Shared!EndSome, Shared!Around, AgentNow
  <2>1. a = e
    BY <1>6, <1>11
  <2> QED  BY <1>4, <1>7, <1>9, <1>10, <1>11, <2>1
<1>13. Shared!Return(c, e)
  BY <1>2, <1>5, <1>9, <1>12 DEF Shared!Return, MadeNow, BorrowedNow
<1> QED  BY <1>13 DEF SharedStep, Shared!SharedNext

LEMMA VerifySim ==
  ASSUME Inv, NEW c \in Calls, Verify(c)
  PROVE  SharedStep
<1> PICK e \in Entries : e = held[c]
  BY LeaseHeld DEF Inv, Verify, Leasing, Past
<1>1. /\ pc[c] = "same" /\ pc'[c] = "using" /\ held' = held /\ torn' = torn /\ OthersHold(c)
      /\ entry'[e] = [entry[e] EXCEPT !.stale = FALSE]
      /\ \A f \in Entries \ {e} : entry'[f] = RetiredOther(f)
  BY DEF Verify, Goto, OthersHold, Inv, TypeOK
<1>2. ASSUME NEW f \in Entries
      PROVE  /\ entry'[f].helper = entry[f].helper /\ entry'[f].life = entry[f].life
             /\ entry'[f].doomed = entry[f].doomed
             /\ entry[f].disposePromise # "none" \/ entry[f].leases # 0 \/ f = e
                  => entry'[f].disposePromise = entry[f].disposePromise
  <2>1. ASSUME NEW r \in Entry
        PROVE  LET s == [r EXCEPT !.stale = TRUE]
                   t == MaybeDispose(s) IN
               /\ t.helper = r.helper /\ t.life = r.life /\ t.doomed = r.doomed
               /\ r.disposePromise # "none" \/ r.leases # 0 => t.disposePromise = r.disposePromise
    BY DEF MaybeDispose, Entry
  <2>2. entry[f] \in Entry
    BY DEF Inv, TypeOK
  <2>3. CASE f = e
    BY <1>1, <2>2, <2>3 DEF Entry
  <2>4. CASE f # e /\ Mapped(f)
    <3>1. entry'[f] = MaybeDispose([entry[f] EXCEPT !.stale = TRUE])
      BY <1>1, <2>4 DEF RetiredOther
    <3> QED  BY <2>1, <2>2, <2>4, <3>1
  <2>5. CASE f # e /\ ~Mapped(f)
    BY <1>1, <2>5 DEF RetiredOther
  <2> QED  BY <2>3, <2>4, <2>5
<1>3. MadeNow' = MadeNow
  BY <1>2 DEF MadeNow
<1>4. /\ BorrowedNow' = [BorrowedNow EXCEPT ![e] = @ \cup {c}]
      /\ \A b \in Entries : c \notin BorrowedNow[b]
  <2>1. /\ Borrowers(e)' = Borrowers(e) \cup {c}
        /\ \A f \in Entries \ {e} : Borrowers(f)' = Borrowers(f)
        /\ \A f \in Entries : c \notin Borrowers(f)
    BY <1>1 DEF Borrowers, OthersHold
  <2> QED  BY <2>1 DEF BorrowedNow
<1>5. AgentNow[e] = "offered" \/ torn
  BY <1>1 DEF AgentNow, Phase, Ended, OnItsWay, Inv, LeaseOK, Leasing, Past
<1>6. /\ DOMAIN AgentNow' = Entries
      /\ \A a \in Entries : AgentNow'[a] = Phase(entry[a])' /\ AgentNow[a] = Phase(entry[a])
  BY DEF AgentNow
<1>7. Shared!EndSome(Shared!Idle \ {e})
  <2> SUFFICES ASSUME NEW a \in Entries, AgentNow'[a] # AgentNow[a]
               PROVE  /\ BorrowedNow[a] = {} /\ a # e /\ AgentNow'[a] = "ended"
                      /\ AgentNow[a] \in {"coming", "offered"}
    BY <1>6 DEF Shared!EndSome, Shared!Around, Shared!Idle, AgentNow, BorrowedNow
  <2>1. Phase(entry'[a]) # Phase(entry[a])
    BY <1>6 DEF Phase, Ended, OnItsWay
  <2>2. /\ entry[a].disposePromise = "none" /\ entry[a].leases = 0 /\ a # e
        /\ entry'[a].disposePromise # "none" /\ entry[a].life # "none"
    BY <1>2, <2>1 DEF Phase, Ended, OnItsWay
  <2>3. Borrowers(a) = {}
    <3> SUFFICES ASSUME NEW d \in Calls, pc[d] = "using", held[d] = a
                 PROVE  FALSE
      BY DEF Borrowers
    <3>1. entry[a].leases >= 1
      BY LeaseHeld DEF Inv, Leasing, Past
    <3> QED  BY <2>2, <3>1
  <2>4. Phase(entry'[a]) = "ended" /\ Phase(entry[a]) \in {"coming", "offered"}
    BY <1>2, <2>1, <2>2 DEF Phase, Ended, OnItsWay
  <2>5. Phase(entry[a])' = Phase(entry'[a])
    BY DEF Phase, Ended, OnItsWay
  <2> QED  BY <1>6, <2>2, <2>3, <2>4, <2>5 DEF BorrowedNow
<1>8. Shared!Lend(c, e)
  BY <1>1, <1>3, <1>4, <1>5, <1>7 DEF Shared!Lend, MadeNow, BorrowedNow, AgentNow
<1> QED  BY <1>8 DEF SharedStep, Shared!SharedNext

LEMMA CreateSim ==
  ASSUME Inv, NEW c \in Calls, Create(c), pc[c] \in {"lookup", "waiting"},
         capabilityHandles[HelperOf(c)] = None, torn' = torn
  PROVE  SharedStep
<1>1. PICK e \in Entries, l \in {"listing", "creating"} :
        /\ Unused(e)
        /\ entry' = [entry EXCEPT ![e] =
                  [helper |-> HelperOf(c), life |-> l, leases |-> 1, stale |-> FALSE,
                   disposePromise |-> "none", doomed |-> FALSE, creator |-> c, mounted |-> 1]]
        /\ Goto(c, "awaiting") /\ Hold(c, e)
  BY DEF Create
<1>2. /\ entry'[e].helper = HelperOf(c) /\ entry'[e].life \in {"listing", "creating"}
      /\ ~entry'[e].doomed /\ entry'[e].disposePromise = "none"
      /\ \A f \in Entries \ {e} : entry'[f] = entry[f]
      /\ OthersHold(c) /\ pc'[c] = "awaiting" /\ held'[c] = e /\ HelperOf(c) \in Helpers
  BY <1>1, HelperTyped DEF Inv, TypeOK, Goto, Hold, OthersHold
<1>3. Phase(entry[e]) \in {"none", "ended"} /\ Phase(entry[e])' = "coming"
      /\ \A f \in Entries \ {e} : Phase(entry[f])' = Phase(entry[f])
  BY <1>1, <1>2 DEF Phase, Ended, OnItsWay, Unused
<1>4. AgentNow' = [AgentNow EXCEPT ![e] = "coming"] /\ AgentNow[e] \in {"none", "ended"}
  BY <1>3 DEF AgentNow
<1>5. MadeNow' = [MadeNow EXCEPT ![e] = HelperOf(c)]
  BY <1>2 DEF MadeNow
<1>6. BorrowedNow' = BorrowedNow /\ BorrowedNow[e] = {}
  <2>1. Borrowers(e) = {} /\ \A f \in Entries : Borrowers(f)' = Borrowers(f)
    BY <1>1, <1>2 DEF Borrowers, Unused, OthersHold
  <2> QED  BY <2>1 DEF BorrowedNow
<1>7. ASSUME NEW b \in Entries, AgentNow[b] \in {"coming", "offered"}
      PROVE  MadeNow[b] # HelperOf(c)
  <2>1. /\ entry[b].life \notin {"none", "failed", "gone"} /\ ~entry[b].doomed
        /\ entry[b].disposePromise = "none"
    BY <1>7 DEF AgentNow, Phase, Ended, OnItsWay
  <2>2. entry[b] \in Entry
    BY DEF Inv, TypeOK
  <2>3. Mapped(b)
    BY <2>1, <2>2 DEF Inv, InMapOrEnding, Entry
  <2> QED  BY <2>3 DEF MadeNow, Mapped
<1>8. Shared!Come(e, HelperOf(c))
  BY <1>4, <1>5, <1>6, <1>7 DEF Shared!Come, Shared!Around, AgentNow, MadeNow, BorrowedNow
<1> QED  BY <1>2, <1>8 DEF SharedStep, Shared!SharedNext

\* Steps of a call that leave the entries alone, or add a lease.
LEMMA PassSim ==
  ASSUME Inv, NEW c \in Calls, OthersHold(c), torn' = torn,
         pc[c] # "using", pc'[c] # "using",
         \/ entry' = entry
         \/ \E e \in Entries : entry' = [entry EXCEPT ![e].leases = @ + 1]
  PROVE  SharedStep
<1>1. ASSUME NEW r \in Entry
      PROVE  LET t == [r EXCEPT !.leases = @ + 1] IN
             /\ t.helper = r.helper /\ t.life = r.life /\ t.doomed = r.doomed
             /\ t.disposePromise = r.disposePromise
  BY DEF Entry
<1>2. \A f \in Entries :
        /\ entry'[f].helper = entry[f].helper /\ entry'[f].life = entry[f].life
        /\ entry'[f].doomed = entry[f].doomed /\ entry'[f].disposePromise = entry[f].disposePromise
  <2>1. CASE entry' = entry
    BY <2>1
  <2>2. ASSUME NEW e \in Entries, entry' = [entry EXCEPT ![e].leases = @ + 1]
        PROVE  \A f \in Entries :
                 /\ entry'[f].helper = entry[f].helper /\ entry'[f].life = entry[f].life
                 /\ entry'[f].doomed = entry[f].doomed /\ entry'[f].disposePromise = entry[f].disposePromise
    <3>1. entry[e] \in Entry
      BY DEF Inv, TypeOK
    <3>2. entry'[e] = [entry[e] EXCEPT !.leases = @ + 1] /\ \A f \in Entries \ {e} : entry'[f] = entry[f]
      BY <2>2 DEF Inv, TypeOK
    <3> TAKE f \in Entries
    <3>3. CASE f = e
      BY <1>1, <3>1, <3>2, <3>3
    <3>4. CASE f # e
      BY <3>2, <3>4
    <3> QED  BY <3>3, <3>4
  <2> QED  BY <2>1, <2>2
<1>3. \A f \in Entries : Phase(entry[f])' = Phase(entry[f]) /\ entry'[f].helper = entry[f].helper
  BY <1>2 DEF Phase, Ended, OnItsWay
<1>4. \A d \in Calls : pc'[d] = "using" \/ pc[d] = "using" => pc'[d] = pc[d] /\ held'[d] = held[d]
  BY DEF OthersHold
<1> QED  BY <1>3, <1>4, StutterIs

\* Steps that leave calls and entries alone.
LEMMA StillSim ==
  ASSUME UNCHANGED <<entry, pc, held, torn>>
  PROVE  SharedStep
  BY StutterIs DEF Phase, Ended, OnItsWay

LEMMA CallSim ==
  ASSUME Inv, NEW c \in Calls, Start(c) \/ CallStep(c) \/ Abort(c) \/ LookAgain(c)
  PROVE  SharedStep
<1> USE DEF table
<1>1. CASE Start(c) \/ StampFails(c) \/ Retry(c) \/ Leave(c)
  BY <1>1, PassSim DEF Start, StampFails, Retry, Leave, Restart, Fail, Goto, Hold, OthersHold, Inv, TypeOK
<1>2. CASE Stamp(c) \/ CheckStamp(c)
  BY <1>2, PassSim DEF Stamp, CheckStamp, Goto, OthersHold, Inv, TypeOK
<1>3. CASE Lookup(c) \/ LookAgain(c)
  <2> DEFINE e == capabilityHandles[HelperOf(c)]
  <2>1. pc[c] \in {"lookup", "waiting"} /\ torn' = torn /\ e \in Entries \cup {None}
    BY <1>3, HelperTyped DEF Lookup, LookAgain, Inv, TypeOK
  <2>2. CASE e = None /\ Create(c)
    BY <2>1, <2>2, CreateSim
  <2>3. CASE e # None /\ Join(c, e)
    <3>1. e \in Entries
      BY <2>1, <2>3
    <3>2. /\ entry' = [entry EXCEPT ![e].leases = @ + 1]
          /\ OthersHold(c) /\ pc'[c] = "awaiting"
      BY <2>3 DEF Join, Goto, Hold, OthersHold, Inv, TypeOK
    <3> HIDE DEF e
    <3> QED  BY <2>1, <3>1, <3>2, PassSim
  <2>4. CASE (Restart(c) \/ Fail(c) \/ (Goto(c, "waiting") /\ Hold(c, e))) /\ entry' = entry
    <3>1. OthersHold(c) /\ pc'[c] # "using" /\ pc[c] # "using"
      BY <2>1, <2>4 DEF Restart, Fail, Goto, Hold, OthersHold, Inv, TypeOK
    <3> QED  BY <2>1, <2>4, <3>1, PassSim
  <2> QED  BY <1>3, <2>2, <2>3, <2>4 DEF Lookup, LookAgain
<1>4. ASSUME pc[c] \in Leasing \ {"using"}, Retire(c), torn' = torn
      PROVE  SharedStep
  <2>1. held[c] \in Entries /\ entry[held[c]].leases >= 1
    BY <1>4, LeaseHeld DEF Inv
  <2>2. entry' = [entry EXCEPT ![held[c]] = MaybeDispose(Dropped(entry[held[c]]))]
    BY <1>4, <2>1, DropLeaseIs DEF Inv, Retire
  <2>3. OthersHold(c) /\ pc'[c] \in {"stamping", "retiring", "leaving", "done"}
    BY <1>4 DEF Retire, Restart, Goto, Hold, OthersHold, Inv, TypeOK
  <2> QED  BY <1>4, <2>2, <2>3, DropSim
<1>5. ASSUME pc[c] \in Leasing \ {"using"}, Catch(c), torn' = torn
      PROVE  SharedStep
  <2>1. held[c] \in Entries /\ entry[held[c]].leases >= 1
    BY <1>5, LeaseHeld DEF Inv
  <2>2. OthersHold(c) /\ pc'[c] \in {"stamping", "retiring", "leaving", "done"}
    BY <1>5 DEF Catch, Fail, Goto, Hold, OthersHold, Inv, TypeOK
  <2>3. CASE DropLease(c)
    <3>1. entry' = [entry EXCEPT ![held[c]] = MaybeDispose(Dropped(entry[held[c]]))]
      BY <2>1, <2>3, DropLeaseIs DEF Inv
    <3> QED  BY <1>5, <2>2, <3>1, DropSim
  <2>4. CASE entry[held[c]].leases = 1 /\ entry' = [entry EXCEPT ![held[c]] = Abandoned(held[c])]
    BY <1>5, <2>2, <2>4, DropSim
  <2> QED  BY <1>5, <2>3, <2>4 DEF Catch
<1>6. CASE Arrive(c)
  <2>1. CASE Retire(c)
    BY <1>4, <1>6, <2>1 DEF Arrive, Leasing
  <2>2. CASE Goto(c, "checking") /\ entry' = entry /\ held' = held
    BY <1>6, <2>2, PassSim DEF Arrive, Goto, OthersHold, Inv, TypeOK
  <2> QED  BY <1>6, <2>1, <2>2 DEF Arrive
<1>7. CASE Reject(c) \/ CheckFails(c)
  BY <1>5, <1>7 DEF Reject, CheckFails, Leasing, Past
<1>8. CASE Mismatch(c)
  BY <1>4, <1>8 DEF Mismatch, Leasing, Past
<1>9. CASE Abort(c)
  BY <1>9, StillSim DEF Abort
<1> QED  BY <1>1, <1>2, <1>3, <1>6, <1>7, <1>8, <1>9, VerifySim, ReleaseSim DEF CallStep

\* The promise of e takes r on; nobody uses an agent that is not live.
LEMMA PromiseSim ==
  ASSUME Inv, NEW e \in Entries, NEW r \in Entry, NEW map, Promise(e, r, map),
         SameButLife(entry[e], r), entry[e].life \in {"listing", "creating", "mounted"},
         \/ /\ r.life \in {"creating", "mounted", "live"}
            /\ r.disposePromise = entry[e].disposePromise
         \/ r.life = "failed"
  PROVE  SharedStep
<1>1. /\ UNCHANGED <<torn, held, pc>>
      /\ entry'[e] = r /\ \A f \in Entries \ {e} : entry'[f] = entry[f]
  BY DEF Promise, calls, Inv, TypeOK
<1>2. /\ \A f \in Entries \ {e} : Phase(entry[f])' = Phase(entry[f])
      /\ Phase(entry[e])' = Phase(r)
  BY <1>1 DEF Phase, Ended, OnItsWay
<1>3. \A f \in Entries : entry'[f].helper = entry[f].helper
  BY <1>1 DEF SameButLife
<1>4. Borrowers(e) = {}
  <2> SUFFICES ASSUME NEW d \in Calls, pc[d] = "using", held[d] = e
               PROVE  FALSE
    BY DEF Borrowers
  <2> QED  BY DEF Inv, LeaseOK, Leasing, Past
<1>5. CASE Phase(r) = Phase(entry[e])
  BY <1>1, <1>2, <1>3, <1>5, StutterIs
<1>6. CASE Phase(r) # Phase(entry[e]) /\ r.life = "failed"
  <2>1. Phase(r) = "ended" /\ Phase(entry[e]) \in {"coming", "offered"}
    BY <1>6 DEF Phase, Ended, OnItsWay
  <2> QED  BY <1>1, <1>2, <1>3, <1>4, <2>1, EndIs
<1>7. CASE Phase(r) # Phase(entry[e]) /\ r.life # "failed"
  <2>1. Phase(r) = "offered" /\ Phase(entry[e]) = "coming"
    BY <1>7 DEF Phase, Ended, OnItsWay, SameButLife
  <2>2. AgentNow' = [AgentNow EXCEPT ![e] = "offered"] /\ AgentNow[e] = "coming"
    BY <1>2, <2>1 DEF AgentNow
  <2>3. MadeNow' = MadeNow /\ BorrowedNow' = BorrowedNow
    BY <1>1, <1>3 DEF MadeNow, BorrowedNow, Borrowers
  <2>4. Shared!Offer(e)
    BY <1>1, <2>2, <2>3 DEF Shared!Offer
  <2> QED  BY <2>4 DEF SharedStep, Shared!SharedNext
<1> QED  BY <1>5, <1>6, <1>7

LEMMA EntrySim ==
  ASSUME Inv, NEW e \in Entries, EntryStep(e)
  PROVE  SharedStep
<1> DEFINE s == entry[e]
<1>1. s \in Entry /\ s.helper \in Helpers /\ s.disposePromise \in {"none", "pending", "settled"}
  BY DEF Inv, TypeOK, Entry
<1>2. 1 \in Versions
  BY DEF Versions
<1>3. PICK d \in {"none", "pending", "settled"} :
        d = IF s.disposePromise = "pending" THEN "settled" ELSE s.disposePromise
  BY <1>1
<1>4. ASSUME s.life \in {"listing", "creating", "mounted"}, NEW map, Promise(e, Failed(e), map)
      PROVE  SharedStep
  <2>1. Failed(e) = WithDisposal(s, "failed", d)
    BY <1>1, <1>3 DEF Failed, WithDisposal
  <2>2. Failed(e) \in Entry /\ SameButLife(s, Failed(e)) /\ Failed(e).life = "failed"
    BY <1>1, <1>2, <2>1, LifeIs
  <2> QED  BY <1>4, <2>2, PromiseSim
<1>5. CASE Listed(e)
  <2>1. CASE Promise(e, WithLife(s, "creating"), capabilityHandles) /\ s.life = "listing"
    <3>1. LET r == WithLife(s, "creating") IN
          /\ r \in Entry /\ SameButLife(s, r) /\ r.life = "creating" /\ r.disposePromise = s.disposePromise
      BY <1>1, <1>2, LifeIs
    <3> QED  BY <2>1, <3>1, PromiseSim
  <2> QED  BY <1>4, <1>5, <2>1 DEF Listed, WithLife
<1>6. CASE Mount(e)
  <2> DEFINE v == version[s.helper[1]]
  <2>1. v \in Versions
    BY <1>1 DEF Inv, TypeOK, Helpers
  <2>2. Promise(e, WithMounted(s, v), capabilityHandles) /\ s.life = "creating"
    BY <1>6 DEF Mount, WithMounted
  <2> HIDE DEF v
  <2>3. LET r == WithMounted(s, v) IN
        /\ r \in Entry /\ SameButLife(s, r) /\ r.life = "mounted" /\ r.disposePromise = s.disposePromise
    BY <1>1, <2>1, LifeIs
  <2> QED  BY <2>2, <2>3, PromiseSim
<1>7. CASE Composed(e)
  <2>1. CASE Promise(e, WithLife(s, "live"), capabilityHandles) /\ s.life = "mounted"
    <3>1. LET r == WithLife(s, "live") IN
          /\ r \in Entry /\ SameButLife(s, r) /\ r.life = "live" /\ r.disposePromise = s.disposePromise
      BY <1>1, <1>2, LifeIs
    <3> QED  BY <2>1, <3>1, PromiseSim
  <2> QED  BY <1>4, <1>7, <2>1 DEF Composed, WithLife
<1>8. CASE CreateFails(e)
  BY <1>4, <1>8 DEF CreateFails
<1>9. CASE DisposeEnds(e)
  <2> DEFINE r == WithDisposal(s, "gone", d)
  <2>1. Promise(e, r, Unmap(e)) /\ s.life = "live" /\ (s.doomed \/ s.disposePromise = "pending")
    BY <1>1, <1>3, <1>9 DEF DisposeEnds, WithDisposal
  <2>2. r \in Entry /\ SameButLife(s, r) /\ r.life = "gone"
    BY <1>1, <1>2, LifeIs
  <2> HIDE DEF r
  <2>3. /\ UNCHANGED <<torn, held, pc>>
        /\ entry'[e] = r /\ \A f \in Entries \ {e} : entry'[f] = entry[f]
    BY <2>1 DEF Promise, calls, Inv, TypeOK
  <2>4. \A f \in Entries : Phase(entry[f])' = Phase(entry[f]) /\ entry'[f].helper = entry[f].helper
    BY <2>1, <2>2, <2>3 DEF Phase, Ended, OnItsWay, SameButLife
  <2> QED  BY <2>3, <2>4, StutterIs
<1> QED  BY <1>5, <1>6, <1>7, <1>8, <1>9 DEF EntryStep

LEMMA TeardownSim ==
  ASSUME Inv, Teardown
  PROVE  SharedStep
<1>1. /\ torn' /\ ~torn /\ UNCHANGED <<pc, held>>
      /\ \A e \in Entries : entry'[e] = IF Mapped(e) THEN [entry[e] EXCEPT !.doomed = TRUE] ELSE entry[e]
  BY DEF Teardown, calls
<1>2. \A e \in Entries :
        /\ entry'[e].helper = entry[e].helper /\ entry'[e].life = entry[e].life
        /\ entry'[e].disposePromise = entry[e].disposePromise
        /\ entry'[e].doomed = (entry[e].doomed \/ Mapped(e))
  <2>1. ASSUME NEW s \in Entry
        PROVE  LET r == [s EXCEPT !.doomed = TRUE] IN
               /\ r.helper = s.helper /\ r.life = s.life /\ r.disposePromise = s.disposePromise
               /\ r.doomed = TRUE
    BY DEF Entry
  <2> TAKE e \in Entries
  <2>2. entry[e] \in Entry /\ entry[e].doomed \in BOOLEAN
    BY DEF Inv, TypeOK, Entry
  <2>3. CASE Mapped(e)
    <3>1. entry'[e] = [entry[e] EXCEPT !.doomed = TRUE]
      BY <1>1, <2>3
    <3> QED  BY <2>1, <2>2, <2>3, <3>1
  <2>4. CASE ~Mapped(e)
    BY <1>1, <2>2, <2>4
  <2> QED  BY <2>3, <2>4
<1>3. ASSUME NEW e \in Entries
      PROVE  Phase(entry[e])' = IF Phase(entry[e]) \in {"coming", "offered"} THEN "ended"
                                ELSE Phase(entry[e])
  <2>1. entry[e] \in Entry
    BY DEF Inv, TypeOK
  <2>2. Phase(entry[e]) \in {"coming", "offered"} => Mapped(e)
    BY <2>1 DEF Inv, InMapOrEnding, Phase, Ended, OnItsWay, Entry
  <2>3. Mapped(e) => entry[e].life # "none"
    <3>1. entry[e].helper \in Helpers /\ e # None
      BY <2>1 DEF Entry
    <3> QED  BY <3>1 DEF Inv, MapOK, Mapped
  <2>4. CASE Mapped(e)
    BY <1>2, <2>2, <2>3, <2>4 DEF Phase, Ended, OnItsWay
  <2>5. CASE ~Mapped(e)
    BY <1>2, <2>2, <2>5 DEF Phase, Ended, OnItsWay
  <2> QED  BY <2>4, <2>5
<1>4. AgentNow' = [a \in Entries |-> IF a \in Shared!Around THEN "ended" ELSE AgentNow[a]]
  BY <1>3 DEF AgentNow, Shared!Around
<1>5. MadeNow' = MadeNow /\ BorrowedNow' = BorrowedNow
  BY <1>1, <1>2 DEF MadeNow, BorrowedNow, Borrowers
<1>6. Shared!TearDown
  BY <1>1, <1>4, <1>5 DEF Shared!TearDown, Teardown
<1> QED  BY <1>6 DEF SharedStep, Shared!SharedNext

LEMMA InitSim == Init => Shared!SharedInit
<1> SUFFICES ASSUME Init PROVE Shared!SharedInit
  OBVIOUS
<1>1. \A e \in Entries : entry[e].helper \in Helpers /\ Phase(entry[e]) = "none" /\ Borrowers(e) = {}
  BY InitInv DEF Init, Inv, TypeOK, Entry, Phase, OnItsWay, Borrowers
<1> QED  BY <1>1 DEF Shared!SharedInit, AgentNow, MadeNow, BorrowedNow, Init

LEMMA StepSim == Inv /\ [Next]_vars => SharedStep
<1> SUFFICES ASSUME Inv, [Next]_vars PROVE SharedStep
  OBVIOUS
<1>1. CASE UNCHANGED vars
  BY <1>1, StillSim DEF vars, table, calls
<1>2. ASSUME NEW p \in Presets, SetDefault(p) \/ Edit(p)
      PROVE  SharedStep
  BY <1>2, StillSim DEF SetDefault, Edit, table, calls
<1> QED  BY <1>1, <1>2, CallSim, EntrySim, TeardownSim DEF Next

\* The plugin keeps what SharedAgents promises its callers.
THEOREM ImplementsShared == Spec => SharesAgents
  BY Invariant, InitSim, StepSim, PTL DEF Spec, SharesAgents, Shared!SharedSpec, SharedStep
=============================================================================
