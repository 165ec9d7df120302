--------------------------- MODULE MCCapabilityAgents ---------------------------
(* Finite instances of CapabilityAgents for TLC. *)
EXTENDS CapabilityAgents, TLC

CONSTANT First   \* the preset that is the default at the start

\* What a finished call and an entry nobody refers to leave behind is written
\* before it is read again.
Settled(c) == pc[c] \in {"idle", "done"}
CallView == [c \in Calls |->
  IF Settled(c) THEN <<pc[c]>>
  ELSE <<pc[c], presetId[c], held[c], c \in aborted,
         IF pc[c] = "stamping" THEN 0 ELSE stamp[c],
         IF pc[c] \in {"checking", "same", "differs", "using"} THEN since[c] ELSE 0>>]
EntryView == [e \in Entries |->
  IF Unused(e) THEN <<>>
  ELSE <<[entry[e] EXCEPT !.creator = None,
                          !.mounted = IF entry[e].life \in {"listing", "creating"} THEN 1 ELSE @],
         IF entry[e].life = "listing" THEN entry[e].creator ELSE None,
         entry[e].life = "listing" /\ entry[e].creator \in aborted>>]
Relevant == <<defaultId, version, changes, capabilityHandles, torn, CallView, EntryView>>

\* Presets only ever get compared: which one is the default first is the same.
StartInit == Init /\ defaultId = First
StartSpec == StartInit /\ [][Next]_vars /\ Fairness
=============================================================================
