----------------------------- MODULE SharedAgents -----------------------------
(***************************************************************************)
(* What the DSH bridge promises the tool calls it runs: each borrows an    *)
(* agent made for the composition the call asked for, at most one agent    *)
(* per composition is on offer, and an agent is not ended under a borrower *)
(* unless the whole bridge is torn down.                                   *)
(***************************************************************************)
CONSTANTS
  Calls, Agents,
  Compositions    \* what an agent is made for

VARIABLES
  agent,       \* per agent: "none", "coming", "offered" or "ended"
  made,        \* per agent: the composition it is made for
  borrowers,   \* per agent: the calls using it
  torn         \* the bridge has been torn down

sharedVars == <<agent, made, borrowers, torn>>

Around == {a \in Agents : agent[a] \in {"coming", "offered"}}
Idle   == {a \in Around : borrowers[a] = {}}

\* Some of E end, and the other agents stay as they are.
EndSome(E) ==
  /\ DOMAIN agent' = Agents
  /\ \A a \in Agents : agent'[a] = agent[a] \/ (a \in E /\ agent'[a] = "ended")

SharedInit ==
  /\ agent = [a \in Agents |-> "none"]
  /\ made \in [Agents -> Compositions]
  /\ borrowers = [a \in Agents |-> {}]
  /\ torn = FALSE

Come(a, k) ==
  /\ agent' = [agent EXCEPT ![a] = "coming"]
  /\ agent[a] \in {"none", "ended"} /\ borrowers[a] = {}
  /\ \A b \in Around : made[b] # k
  /\ made' = [made EXCEPT ![a] = k]
  /\ UNCHANGED <<borrowers, torn>>

Offer(a) ==
  /\ agent[a] = "coming"
  /\ agent' = [agent EXCEPT ![a] = "offered"]
  /\ UNCHANGED <<made, borrowers, torn>>

\* Lending an agent may end others that nobody uses.
Lend(c, a) ==
  /\ borrowers' = [borrowers EXCEPT ![a] = @ \cup {c}]
  /\ agent[a] = "offered" \/ torn
  /\ \A b \in Agents : c \notin borrowers[b]
  /\ EndSome(Idle \ {a})
  /\ UNCHANGED <<made, torn>>

\* The last borrower to return an agent may end it.
Return(c, a) ==
  /\ c \in borrowers[a]
  /\ borrowers' = [borrowers EXCEPT ![a] = @ \ {c}]
  /\ EndSome(IF borrowers'[a] = {} THEN {a} \cap Around ELSE {})
  /\ UNCHANGED <<made, torn>>

\* An agent that nobody uses may end at any time, before it is offered too.
End(a) ==
  /\ a \in Idle
  /\ agent' = [agent EXCEPT ![a] = "ended"]
  /\ UNCHANGED <<made, borrowers, torn>>

TearDown ==
  /\ ~torn /\ torn' = TRUE
  /\ agent' = [a \in Agents |-> IF a \in Around THEN "ended" ELSE agent[a]]
  /\ UNCHANGED <<made, borrowers>>

SharedNext ==
  \/ TearDown
  \/ \E a \in Agents :
       \/ Offer(a) \/ End(a)
       \/ \E k \in Compositions : Come(a, k)
       \/ \E c \in Calls : Lend(c, a) \/ Return(c, a)

SharedSpec == SharedInit /\ [][SharedNext]_sharedVars
=============================================================================
