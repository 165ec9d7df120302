----------------------------- MODULE OAuth_proofs -----------------------------
(* Proofs about OAuth: its type correctness, that no credential is good twice, *)
(* and that it keeps what GrantPromise says.                                   *)
EXTENDS OAuth, FiniteSetTheorems, TLAPS

-----------------------------------------------------------------------------
(* The inductive invariant *)

\* Cardinality means something only for finite sets.
Counted == IsFiniteSet(clients) /\ IsFiniteSet(Waiting)

\* What a call has done so far fits where it is.
CallsOK ==
  \A c \in Calls :
    /\ call[c].pc = "idle" => call[c] = NoCall
    /\ call[c].answer # "none" => call[c].pc = "done"
    /\ call[c].pc \in {"deciding", "approving", "retelling", "denying"} =>
         call[c].wish \in Posts
    /\ call[c].pc = "exchanging" => call[c].wish = "exchange"
    /\ call[c].pc = "rotating" => call[c].wish = "rotate"
    /\ call[c].pc = "revoking" => call[c].wish \in Revocations
    /\ call[c].wish \in Posts => call[c].request \in asked
    /\ call[c].wish \notin Posts => call[c].request = None
    /\ call[c].answer \in {"code", "denied"} => call[c].wish \in Posts
    /\ call[c].answer = "tokens" => call[c].wish \in {"exchange", "rotate"}
    /\ call[c].answer = "code" <=> call[c].code # None

\* A request has one code, or one denial, and is not pending any more.
CodesOK ==
  /\ \A r \in Requests : pending[r] # None => r \in asked
  /\ \A k \in Calls : codes[k] # None => call[k].code = k /\ call[k].request = codes[k]
  /\ \A d \in Calls : call[d].code # None \/ call[d].answer = "denied" =>
       pending[call[d].request] = None
  /\ \A d \in Calls : call[d].code # None =>
       LET k == call[d].code IN call[k].code = k /\ call[k].request = call[d].request
  /\ \A k, l \in Calls :
       call[k].code = k /\ call[l].code = l /\ call[k].request = call[l].request => k = l
  /\ \A c, d \in Calls :
       call[d].answer = "denied" /\ call[c].request = call[d].request =>
         call[c].code = None /\ (call[c].answer = "denied" => c = d)

\* Where token calls got their credentials, and which rows are gone for it.
UsesOK ==
  \A c \in Calls :
    /\ call[c].wish \in Revocations => call[c].used \in Calls
    /\ call[c].wish = "exchange" =>
         /\ call[c].used \in Calls /\ call[call[c].used].code = call[c].used
         /\ call[c].answer = "tokens" => codes[call[c].used] = None
    /\ call[c].wish = "rotate" =>
         /\ call[c].used \in Calls /\ call[call[c].used].answer = "tokens"
         /\ call[c].answer = "tokens" => refresh[call[c].used] = None

\* Token rows belong to grants that some exchange began and nobody revoked.
RowsOK ==
  /\ \A k \in Calls : \A g \in {access[k], refresh[k]} \ {None} :
       /\ call[k].answer = "tokens"
       /\ call[g].answer = "tokens" /\ call[g].wish = "exchange"
       /\ g \notin revoked
  /\ \A g \in revoked : call[g].answer = "tokens"
  /\ \A k, l \in Calls : refresh[k] # None /\ refresh[k] = refresh[l] => k = l

Inv == TypeOK /\ Counted /\ CallsOK /\ CodesOK /\ UsesOK /\ RowsOK /\ SpentOnce

USE NoneAssumption, BoundsAssumption

-----------------------------------------------------------------------------
(* Bounds *)

\* TypeOK without the bounds that count requests and clients.
Types ==
  /\ clients \subseteq Clients /\ asked \subseteq Requests
  /\ pending \in [Requests -> Clients \cup {None}]
  /\ codes \in [Calls -> Requests \cup {None}]
  /\ access \in [Calls -> Calls \cup {None}]
  /\ refresh \in [Calls -> Calls \cup {None}]
  /\ failures \in [Requests -> 0..PinLimit]
  /\ call \in [Calls -> CallState]
  /\ revoked \subseteq Calls

Bounds ==
  /\ Cardinality(clients) <= MaxClients
  /\ Cardinality(Waiting) <= MaxPending
  /\ \A cl \in Clients : Cardinality(WaitingFor(cl)) <= MaxPerClient

\* Nobody new waits.
LEMMA FewerWait ==
  ASSUME Types, Bounds, Counted, UNCHANGED clients,
         \A r \in Requests : pending'[r] \in {pending[r], None}
  PROVE  Bounds' /\ Counted'
<1>1. Waiting' \subseteq Waiting
  BY DEF Waiting
<1>2. ASSUME NEW cl \in Clients
      PROVE  WaitingFor(cl)' \subseteq WaitingFor(cl) /\ WaitingFor(cl) \subseteq Waiting
  BY DEF WaitingFor, Waiting
<1>3. ASSUME NEW S, NEW T, IsFiniteSet(S), T \subseteq S, NEW n \in Nat, Cardinality(S) <= n
      PROVE  IsFiniteSet(T) /\ Cardinality(T) <= n
  <2>1. IsFiniteSet(T) /\ Cardinality(T) <= Cardinality(S)
    BY <1>3, FS_Subset
  <2> QED  BY <1>3, <2>1, FS_CardinalityType
<1>4. ASSUME NEW cl \in Clients PROVE Cardinality(WaitingFor(cl)') <= MaxPerClient
  <2>1. IsFiniteSet(WaitingFor(cl))
    BY <1>2, FS_Subset DEF Counted
  <2> QED  BY <1>2, <1>3, <2>1 DEF Bounds
<1> QED  BY <1>1, <1>3, <1>4 DEF Bounds, Counted

LEMMA RegisterBounds ==
  ASSUME NEW cl \in Clients, Types, Bounds, Counted, Register(cl)
  PROVE  Bounds' /\ Counted'
<1>1. /\ IsFiniteSet(clients \cup {cl})
      /\ Cardinality(clients \cup {cl}) = IF cl \in clients THEN Cardinality(clients)
                                          ELSE Cardinality(clients) + 1
  BY FS_AddElement DEF Counted
<1>2. Cardinality(clients) \in Nat
  BY FS_CardinalityType DEF Counted
<1>3. Cardinality(clients') <= MaxClients
  BY <1>1, <1>2 DEF Register, Bounds
<1> QED  BY <1>1, <1>3 DEF Register, Bounds, Counted, Waiting, WaitingFor

LEMMA AuthorizeBounds ==
  ASSUME NEW r \in Requests, NEW cl \in Clients, Types, Bounds, Counted, CodesOK,
         Authorize(r, cl)
  PROVE  Bounds' /\ Counted'
<1>1. pending[r] = None /\ r \notin Waiting
  BY DEF Authorize, CodesOK, Waiting
<1>2. Waiting' = Waiting \cup {r}
  BY <1>1 DEF Authorize, Types, Waiting
<1>3. WaitingFor(cl)' = WaitingFor(cl) \cup {r} /\ r \notin WaitingFor(cl)
  BY <1>1 DEF Authorize, Types, WaitingFor
<1>4. \A x \in Clients \ {cl} : WaitingFor(x)' = WaitingFor(x)
  BY <1>1 DEF Authorize, Types, WaitingFor
<1>5. IsFiniteSet(WaitingFor(cl))
  BY FS_Subset DEF Counted, Waiting, WaitingFor
<1>6. IsFiniteSet(Waiting') /\ Cardinality(Waiting') = Cardinality(Waiting) + 1
  BY <1>1, <1>2, FS_AddElement DEF Counted
<1>7. Cardinality(WaitingFor(cl)') = Cardinality(WaitingFor(cl)) + 1
  BY <1>3, <1>5, FS_AddElement
<1>8. Cardinality(Waiting) \in Nat /\ Cardinality(WaitingFor(cl)) \in Nat
  BY <1>5, FS_CardinalityType DEF Counted
<1>9. Cardinality(Waiting') <= MaxPending /\ Cardinality(WaitingFor(cl)') <= MaxPerClient
  BY <1>6, <1>7, <1>8 DEF Authorize, HasRoom
<1> QED  BY <1>4, <1>6, <1>9 DEF Authorize, Bounds, Counted

-----------------------------------------------------------------------------
(* Types *)

LEMMA CallTypes ==
  ASSUME call \in [Calls -> CallState], NEW c \in Calls
  PROVE  /\ \A pc \in Running \cup {"done"} : Goes(c, pc) => call' \in [Calls -> CallState]
         /\ \A answer \in Answers : Replies(c, answer) => call' \in [Calls -> CallState]
         /\ \A k \in Calls : TellsCode(c, k) => call' \in [Calls -> CallState]
  BY DEF Goes, Replies, TellsCode, CallState, Running, Answers

LEMMA TypesStep ==
  ASSUME Types, CallsOK, UsesOK, RowsOK, [Next]_vars
  PROVE  Types'
<1> USE DEF Types
<1>1. ASSUME NEW cl \in Clients, Register(cl) PROVE Types'
  BY <1>1 DEF Register
<1>2. ASSUME NEW cl \in Clients, NEW r \in Requests, Authorize(r, cl) PROVE Types'
  BY <1>2 DEF Authorize
<1>3. ASSUME NEW c \in Calls, NEW r \in Requests, NEW wish \in Posts, Post(c, r, wish) PROVE Types'
  BY <1>3 DEF Post, CallState, NoCall, storeVars, Wishes, Running, Answers
<1>4. ASSUME NEW c \in Calls, NEW k \in Calls, NEW wish \in Wishes, NEW row,
             NEW pc \in Running, NEW answer \in Answers, Starts(c, wish, k, row, pc, answer)
      PROVE  Types'
  BY <1>4 DEF Starts, CallState, NoCall, storeVars, Wishes, Running, Answers
<1>5. ASSUME NEW c \in Calls, Decide(c) PROVE Types'
  BY <1>5, CallTypes DEF Decide, storeVars, Running, Answers
<1>6. ASSUME NEW c \in Calls, Approve(c) PROVE Types'
  BY <1>6, CallTypes DEF Approve, Withdraw, Running, CallState
<1>7. ASSUME NEW c \in Calls, Retell(c) PROVE Types'
  BY <1>7, CallTypes DEF Retell, storeVars, Answers
<1>8. ASSUME NEW c \in Calls, Deny(c) PROVE Types'
  BY <1>8, CallTypes DEF Deny, Withdraw, Answers
<1>9. ASSUME NEW c \in Calls, Exchange(c) PROVE Types'
  BY <1>9, CallTypes DEF Exchange, Spend, Answers
<1>10. ASSUME NEW c \in Calls, Rotate(c) PROVE Types'
  <2>1. call[c].used \in Calls
    BY <1>10 DEF Rotate, CallsOK, UsesOK
  <2> QED  BY <1>10, <2>1, CallTypes DEF Rotate, Spend, Answers
<1>11. ASSUME NEW c \in Calls, Revoke(c) PROVE Types'
  <2>1. call[c].used \in Calls /\ call[c].wish \in Revocations
    BY <1>11 DEF Revoke, CallsOK, UsesOK
  <2> DEFINE g == IF call[c].wish = "revoke access" THEN access[call[c].used]
                  ELSE refresh[call[c].used]
  <2>2. g \in Calls \cup {None}
    BY <2>1
  <2> HIDE DEF g
  <2>3. call' \in [Calls -> CallState]
    BY <1>11, CallTypes DEF Revoke, Answers
  <2>4. \/ UNCHANGED <<access, refresh, revoked>>
        \/ g # None /\ DeleteGrant(g) /\ revoked' = revoked \cup {g}
    BY <1>11 DEF Revoke, g
  <2> QED  BY <1>11, <2>2, <2>3, <2>4 DEF Revoke, DeleteGrant, WithoutGrant
<1>12. ASSUME NEW c \in Calls, StoreFails(c) PROVE Types'
  BY <1>12, CallTypes DEF StoreFails, storeVars, Answers
<1>13. ASSUME NEW k \in Calls, Expire(k) PROVE Types'
  BY <1>13 DEF Expire
<1>14. ASSUME NEW r \in Requests, ExpirePending(r) \/ ForgetFailure(r) PROVE Types'
  BY <1>14 DEF ExpirePending, ForgetFailure, storeVars
<1>15. ASSUME Restart PROVE Types'
  BY <1>15 DEF Restart, storeVars, CallState, Running, Answers
<1>16. ASSUME UNCHANGED vars PROVE Types'
  BY <1>16 DEF vars, storeVars
<1>17. ASSUME NEW c \in Calls, NEW k \in Calls,
              \/ PresentCode(c, k) \/ PresentRefresh(c, k)
              \/ \E wish \in Revocations : PresentRevoked(c, k, wish)
       PROVE  Types'
  <2>1. {"exchange", "rotate"} \cup Revocations \subseteq Wishes
        /\ {"exchanging", "rotating", "revoking"} \subseteq Running
        /\ {"refused", "revoked"} \subseteq Answers
    BY DEF Wishes, Running, Answers
  <2>2. CASE PresentCode(c, k)
    BY <1>4, <2>1, <2>2 DEF PresentCode
  <2>3. CASE PresentRefresh(c, k)
    BY <1>4, <2>1, <2>3 DEF PresentRefresh
  <2>4. ASSUME NEW wish \in Revocations, PresentRevoked(c, k, wish) PROVE Types'
    BY <1>4, <2>1, <2>4 DEF PresentRevoked
  <2> QED  BY <1>17, <2>2, <2>3, <2>4
<1> QED
  BY <1>1, <1>2, <1>3, <1>5, <1>6, <1>7, <1>8, <1>9, <1>10, <1>11, <1>12, <1>13, <1>14,
     <1>15, <1>16, <1>17 DEF Next

-----------------------------------------------------------------------------
(* What a step does to the calls *)

\* Only c goes on; its credentials stay.
Only(c) ==
  /\ \A d \in Calls \ {c} : call'[d] = call[d]
  /\ call[c].pc # "done"
  /\ call[c].pc # "idle" =>
       /\ call'[c].wish = call[c].wish /\ call'[c].request = call[c].request
       /\ call'[c].used = call[c].used

LEMMA GoesIs ==
  ASSUME Types, CallsOK, NEW c \in Calls, call[c].pc \in Running, NEW pc \in Running, Goes(c, pc)
  PROVE  /\ Only(c)
         /\ call'[c].wish = call[c].wish /\ call'[c].request = call[c].request
         /\ call'[c].used = call[c].used
         /\ call'[c].pc = pc /\ call'[c].answer = "none" /\ call'[c].code = None
  BY DEF Types, CallState, CallsOK, Only, Goes, Running

LEMMA RepliesIs ==
  ASSUME Types, CallsOK, NEW c \in Calls, call[c].pc \in Running, NEW answer, Replies(c, answer)
  PROVE  /\ Only(c)
         /\ call'[c].wish = call[c].wish /\ call'[c].request = call[c].request
         /\ call'[c].used = call[c].used
         /\ call'[c].pc = "done" /\ call'[c].answer = answer /\ call'[c].code = None
  BY DEF Types, CallState, CallsOK, Only, Replies, Running

LEMMA TellsIs ==
  ASSUME Types, CallsOK, NEW c \in Calls, call[c].pc \in Running, NEW k, TellsCode(c, k)
  PROVE  /\ Only(c)
         /\ call'[c].wish = call[c].wish /\ call'[c].request = call[c].request
         /\ call'[c].used = call[c].used
         /\ call'[c].pc = "done" /\ call'[c].answer = "code" /\ call'[c].code = k
  BY DEF Types, CallState, CallsOK, Only, TellsCode, Running

LEMMA PostIs ==
  ASSUME Types, NEW c \in Calls, NEW r \in Requests, NEW wish \in Posts, Post(c, r, wish)
  PROVE  /\ Only(c) /\ call[c].pc = "idle"
         /\ call'[c].wish = wish /\ call'[c].request = r /\ call'[c].used = None
         /\ call'[c].code = None
         /\ \/ call'[c].pc = "done" /\ call'[c].answer = "refused"
            \/ call'[c].pc \in {"deciding", "approving"} /\ call'[c].answer = "none"
  BY DEF Types, CallState, Only, Post, NoCall

LEMMA StartIs ==
  ASSUME Types, NEW c \in Calls, NEW wish, NEW k, NEW row, NEW pc, NEW answer,
         Starts(c, wish, k, row, pc, answer)
  PROVE  /\ Only(c) /\ call[c].pc = "idle"
         /\ call'[c].wish = wish /\ call'[c].request = None /\ call'[c].used = k
         /\ call'[c].code = None
         /\ \/ call'[c].pc = "done" /\ call'[c].answer = answer
            \/ call'[c].pc = pc /\ call'[c].answer = "none"
  BY DEF Types, CallState, Only, Starts, NoCall

\* CallsOK for the call that a step moves.
CallOK(c) ==
  /\ call[c].pc = "idle" => call[c] = NoCall
  /\ call[c].answer # "none" => call[c].pc = "done"
  /\ call[c].pc \in {"deciding", "approving", "retelling", "denying"} =>
       call[c].wish \in Posts
  /\ call[c].pc = "exchanging" => call[c].wish = "exchange"
  /\ call[c].pc = "rotating" => call[c].wish = "rotate"
  /\ call[c].pc = "revoking" => call[c].wish \in Revocations
  /\ call[c].wish \in Posts => call[c].request \in asked
  /\ call[c].wish \notin Posts => call[c].request = None
  /\ call[c].answer \in {"code", "denied"} => call[c].wish \in Posts
  /\ call[c].answer = "tokens" => call[c].wish \in {"exchange", "rotate"}
  /\ call[c].answer = "code" <=> call[c].code # None

LEMMA CallsOKIf ==
  ASSUME CallsOK, NEW c \in Calls, Only(c), CallOK(c)', asked' = asked
  PROVE  CallsOK'
  BY DEF CallsOK, CallOK, Only

\* The pages of /approve go on to one another.
ForPosts == {"deciding", "approving", "retelling", "denying"}

LEMMA GoesOK ==
  ASSUME Types, CallsOK, NEW c \in Calls, call[c].pc \in ForPosts, NEW pc \in ForPosts,
         Goes(c, pc), asked' = asked
  PROVE  CallsOK'
<1>1. call[c].pc \in Running /\ pc \in Running
  BY DEF Running, ForPosts
<1>2. CallOK(c)'
  BY <1>1, GoesIs DEF CallsOK, CallOK, ForPosts, Posts
<1> QED  BY <1>1, <1>2, GoesIs, CallsOKIf

LEMMA RepliesOK ==
  ASSUME Types, CallsOK, NEW c \in Calls, call[c].pc \in Running, NEW answer \in Answers \ {"code"},
         answer = "denied" => call[c].wish \in Posts,
         answer = "tokens" => call[c].wish \in {"exchange", "rotate"},
         Replies(c, answer), asked' = asked
  PROVE  CallsOK'
<1>1. /\ call[c].wish \in Posts => call[c].request \in asked
      /\ call[c].wish \notin Posts => call[c].request = None
  BY DEF CallsOK
<1>2. CallOK(c)'
  BY <1>1, RepliesIs DEF CallOK, Answers
<1> QED  BY <1>2, RepliesIs, CallsOKIf

LEMMA TellsOK ==
  ASSUME Types, CallsOK, NEW c \in Calls, call[c].pc \in ForPosts, NEW k \in Calls,
         TellsCode(c, k), asked' = asked
  PROVE  CallsOK'
<1>1. call[c].pc \in Running
  BY DEF Running, ForPosts
<1>2. call[c].wish \in Posts /\ call[c].request \in asked
  BY DEF CallsOK, ForPosts
<1>3. CallOK(c)'
  BY <1>1, <1>2, TellsIs DEF CallOK
<1> QED  BY <1>1, <1>3, TellsIs, CallsOKIf

LEMMA CallsOKStep ==
  ASSUME Types, CallsOK, UsesOK, [Next]_vars
  PROVE  CallsOK'
<1>1. ASSUME UNCHANGED call, asked \subseteq asked' PROVE CallsOK'
  BY <1>1 DEF CallsOK
<1>2. ASSUME NEW c \in Calls, NEW r \in Requests, NEW wish \in Posts, Post(c, r, wish) PROVE CallsOK'
  <2>1. asked' = asked /\ r \in asked
    BY <1>2 DEF Post, storeVars
  <2>2. CallOK(c)'
    BY <1>2, <2>1, PostIs DEF CallOK
  <2> QED  BY <1>2, <2>1, <2>2, PostIs, CallsOKIf
<1>3. ASSUME NEW c \in Calls, NEW k \in Calls, NEW wish, NEW row, NEW pc, NEW answer,
             \/ wish = "exchange" /\ pc = "exchanging"
             \/ wish = "rotate" /\ pc = "rotating"
             \/ wish \in Revocations /\ pc = "revoking",
             answer \in {"refused", "revoked"},
             Starts(c, wish, k, row, pc, answer)
      PROVE  CallsOK'
  <2>1. asked' = asked
    BY <1>3 DEF Starts, storeVars
  <2>2. /\ wish \notin Posts /\ pc # "idle"
        /\ pc \notin {"deciding", "approving", "retelling", "denying"}
    BY <1>3 DEF Posts, Revocations
  <2>3. /\ call'[c].wish = wish /\ call'[c].request = None /\ call'[c].code = None
        /\ \/ call'[c].pc = "done" /\ call'[c].answer \in {"refused", "revoked"}
           \/ call'[c].pc = pc /\ call'[c].answer = "none"
    BY <1>3, StartIs
  <2>4. CallOK(c)'
    BY <1>3, <2>2, <2>3 DEF CallOK
  <2> QED  BY <1>3, <2>1, <2>4, StartIs, CallsOKIf
<1>4. ASSUME NEW c \in Calls, NEW k \in Calls,
             \/ PresentCode(c, k) \/ PresentRefresh(c, k)
             \/ \E wish \in Revocations : PresentRevoked(c, k, wish)
      PROVE  CallsOK'
  <2>2. CASE PresentCode(c, k)
    BY <1>3, <2>2 DEF PresentCode
  <2>3. CASE PresentRefresh(c, k)
    BY <1>3, <2>3 DEF PresentRefresh
  <2>4. ASSUME NEW wish \in Revocations, PresentRevoked(c, k, wish) PROVE CallsOK'
    BY <1>3, <2>4 DEF PresentRevoked
  <2> QED  BY <1>4, <2>2, <2>3, <2>4
<1>6. ASSUME NEW c \in Calls, Decide(c) PROVE CallsOK'
  BY <1>6, GoesOK, RepliesOK DEF Decide, storeVars, ForPosts, Running, Answers
<1>7. ASSUME NEW c \in Calls, Approve(c) PROVE CallsOK'
  BY <1>7, GoesOK, TellsOK DEF Approve, ForPosts
<1>8. ASSUME NEW c \in Calls, Retell(c) PROVE CallsOK'
  BY <1>8, RepliesOK, TellsOK DEF Retell, storeVars, ForPosts, Running, Answers
<1>9. ASSUME NEW c \in Calls, Deny(c) PROVE CallsOK'
  <2>1. call[c].wish \in Posts /\ call[c].pc \in Running
    BY <1>9 DEF Deny, CallsOK, Running
  <2> QED  BY <1>9, <2>1, RepliesOK DEF Deny, Answers
<1>10. ASSUME NEW c \in Calls, Exchange(c) \/ Rotate(c) PROVE CallsOK'
  <2>1. call[c].wish \in {"exchange", "rotate"} /\ call[c].pc \in Running
    BY <1>10 DEF Exchange, Rotate, CallsOK, Running
  <2> QED  BY <1>10, <2>1, RepliesOK DEF Exchange, Rotate, Answers
<1>12. ASSUME NEW c \in Calls, Revoke(c) \/ StoreFails(c) PROVE CallsOK'
  BY <1>12, RepliesOK DEF Revoke, StoreFails, storeVars, Running, Answers
<1>14. ASSUME Restart PROVE CallsOK'
  <2>1. asked' = asked
    BY <1>14 DEF Restart, storeVars
  <2> SUFFICES ASSUME NEW c \in Calls PROVE CallOK(c)'
    BY DEF CallsOK, CallOK
  <2>2. CASE call[c].pc \in Running
    <3>1. /\ call'[c].pc = "done" /\ call'[c].answer = call[c].answer
          /\ call'[c].wish = call[c].wish /\ call'[c].request = call[c].request
          /\ call'[c].code = call[c].code
      BY <1>14, <2>2 DEF Restart, Types, CallState
    <3> QED  BY <2>1, <3>1 DEF CallsOK, CallOK
  <2>3. CASE call[c].pc \notin Running
    <3>1. call'[c] = call[c]
      BY <1>14, <2>3 DEF Restart
    <3> QED  BY <2>1, <3>1 DEF CallsOK, CallOK
  <2> QED  BY <2>2, <2>3
<1> QED
  BY <1>1, <1>2, <1>4, <1>6, <1>7, <1>8, <1>9, <1>10, <1>12, <1>14
  DEF Next, Register, Authorize, Expire, ExpirePending, ForgetFailure, vars, storeVars

-----------------------------------------------------------------------------
(* Steps that answer no call with a code, a denial or tokens *)

Fewer(rows, now) == \A k \in Calls : now[k] \in {rows[k], None}

\* What UsesOK says of a call that has no tokens yet.
Begun(c) ==
  /\ call[c].wish \in Revocations => call[c].used \in Calls
  /\ call[c].wish = "exchange" =>
       call[c].used \in Calls /\ call[call[c].used].code = call[c].used
  /\ call[c].wish = "rotate" =>
       call[c].used \in Calls /\ call[call[c].used].answer = "tokens"

QuietCalls ==
  \A d \in Calls :
    /\ call'[d].code = call[d].code
    /\ call'[d].answer = "denied" <=> call[d].answer = "denied"
    /\ call'[d].answer = "tokens" <=> call[d].answer = "tokens"
    /\ call[d].pc # "idle" => /\ call'[d].wish = call[d].wish
                              /\ call'[d].request = call[d].request
                              /\ call'[d].used = call[d].used
    /\ call[d].pc = "idle" => call'[d] = call[d] \/ Begun(d)'

QuietRows ==
  /\ \A r \in Requests :
       pending'[r] \in {pending[r], None} \/ r \in asked' \ asked
  /\ asked \subseteq asked' /\ revoked' = revoked
  /\ Fewer(codes, codes') /\ Fewer(access, access') /\ Fewer(refresh, refresh')

Quiet == QuietCalls /\ QuietRows

RowsStay == UNCHANGED <<pending, codes, access, refresh, asked, revoked>>

LEMMA RowsStayQuiet == RowsStay => QuietRows
  BY DEF RowsStay, QuietRows, Fewer

LEMMA CallsStayQuiet == UNCHANGED call => QuietCalls
  BY DEF QuietCalls

LEMMA QuietStep ==
  ASSUME Types, CallsOK, CodesOK, UsesOK, RowsOK, SpentOnce, Quiet
  PROVE  CodesOK' /\ UsesOK' /\ RowsOK' /\ SpentOnce'
<1>1. ASSUME NEW d \in Calls, call[d].pc = "idle"
      PROVE  call[d].code = None /\ call[d].answer = "none" /\ call[d].wish = "none"
  BY <1>1 DEF CallsOK, NoCall
<1>2. ASSUME NEW d \in Calls, call[d].code # None \/ call[d].answer = "denied"
      PROVE  /\ call'[d].request = call[d].request
             /\ call[d].request \in asked /\ call[d].request \in Requests
  <2>1. call[d].answer \in {"code", "denied"}
    BY <1>2 DEF CallsOK
  <2> QED  BY <1>1, <2>1 DEF Quiet, QuietCalls, QuietRows, CallsOK, Types
<1>3. CodesOK'
  <2>1. \A r \in Requests : pending'[r] # None => r \in asked'
    BY DEF Quiet, QuietCalls, QuietRows, CodesOK
  <2>2. \A k \in Calls : codes'[k] # None => call'[k].code = k /\ call'[k].request = codes'[k]
    BY <1>2 DEF Quiet, QuietCalls, QuietRows, Fewer, CodesOK, Types
  <2>3. \A d \in Calls : call'[d].code # None \/ call'[d].answer = "denied" =>
          pending'[call'[d].request] = None
    BY <1>2 DEF Quiet, QuietCalls, QuietRows, CodesOK
  <2>4. \A d \in Calls : call'[d].code # None =>
          LET k == call'[d].code IN call'[k].code = k /\ call'[k].request = call'[d].request
    BY <1>2 DEF Quiet, QuietCalls, QuietRows, CodesOK, Types, CallState
  <2>5. \A k, l \in Calls :
          call'[k].code = k /\ call'[l].code = l /\ call'[k].request = call'[l].request => k = l
    BY <1>2 DEF Quiet, QuietCalls, QuietRows, CodesOK
  <2>6. \A c, d \in Calls :
          call'[d].answer = "denied" /\ call'[c].request = call'[d].request =>
            call'[c].code = None /\ (call'[c].answer = "denied" => c = d)
    BY <1>2 DEF Quiet, QuietCalls, QuietRows, CodesOK
  <2> QED  BY <2>1, <2>2, <2>3, <2>4, <2>5, <2>6 DEF CodesOK
<1>4. UsesOK'
  <2> SUFFICES ASSUME NEW c \in Calls
               PROVE  /\ Begun(c)'
                      /\ call'[c].wish = "exchange" /\ call'[c].answer = "tokens" =>
                           codes'[call'[c].used] = None
                      /\ call'[c].wish = "rotate" /\ call'[c].answer = "tokens" =>
                           refresh'[call'[c].used] = None
    BY DEF UsesOK, Begun
  <2>1. CASE call[c].pc = "idle"
    <3>1. call'[c].answer # "tokens"
      BY <1>1, <2>1 DEF Quiet, QuietCalls, QuietRows
    <3>2. Begun(c)'
      BY <1>1, <2>1 DEF Quiet, QuietCalls, QuietRows, Begun, Revocations
    <3> QED  BY <3>1, <3>2
  <2>2. CASE call[c].pc # "idle"
    <3>1. Begun(c)'
      BY <2>2 DEF Quiet, QuietCalls, QuietRows, UsesOK, Begun
    <3> QED  BY <2>2, <3>1 DEF Quiet, QuietCalls, QuietRows, UsesOK, Fewer
  <2> QED  BY <2>1, <2>2
<1>5. ASSUME NEW d \in Calls, call'[d].answer = "tokens"
      PROVE  /\ call[d].answer = "tokens"
             /\ call'[d].wish = call[d].wish /\ call'[d].used = call[d].used
  BY <1>1, <1>5 DEF Quiet, QuietCalls, QuietRows
<1>6. RowsOK'
  BY <1>5 DEF Quiet, QuietCalls, QuietRows, Fewer, RowsOK, Types
<1>7. SpentOnce'
  BY <1>5 DEF SpentOnce
<1> QED  BY <1>3, <1>4, <1>6, <1>7

\* A running call goes on, or is refused, or its revocation is answered.
LEMMA MovesQuietly ==
  ASSUME Types, CallsOK, NEW c \in Calls, call[c].pc \in Running, RowsStay,
         \/ \E pc \in Running : Goes(c, pc)
         \/ \E answer \in {"refused", "revoked"} : Replies(c, answer)
  PROVE  Quiet
<1>1. call[c].answer = "none" /\ call[c].code = None /\ call[c].pc # "idle"
  BY DEF CallsOK, Running
<1>2. /\ Only(c) /\ call'[c].code = None /\ call'[c].answer \in {"none", "refused", "revoked"}
      /\ call'[c].wish = call[c].wish /\ call'[c].request = call[c].request
      /\ call'[c].used = call[c].used
  BY GoesIs, RepliesIs
<1>3. QuietCalls
  BY <1>1, <1>2 DEF QuietCalls, Only
<1> QED  BY <1>3, RowsStayQuiet DEF Quiet

\* A call begins.
LEMMA BeginsQuietly ==
  ASSUME Types, CallsOK, NEW c \in Calls, call[c].pc = "idle", RowsStay, Only(c),
         Begun(c)', call'[c].code = None, call'[c].answer \in {"none", "refused", "revoked"}
  PROVE  Quiet
<1>1. call[c].answer = "none" /\ call[c].code = None
  BY DEF CallsOK, NoCall
<1>2. QuietCalls
  BY <1>1 DEF QuietCalls, Only
<1> QED  BY <1>2, RowsStayQuiet DEF Quiet

LEMMA PostQuietly ==
  ASSUME Types, CallsOK, NEW c \in Calls, NEW r \in Requests, NEW wish \in Posts,
         Post(c, r, wish)
  PROVE  Quiet
<1>1. Begun(c)'
  BY PostIs DEF Begun, Posts, Revocations
<1> QED  BY <1>1, PostIs, BeginsQuietly DEF Post, storeVars, RowsStay

LEMMA PresentQuietly ==
  ASSUME Types, CallsOK, CodesOK, NEW c \in Calls, NEW k \in Calls,
         \/ PresentCode(c, k) \/ PresentRefresh(c, k)
         \/ \E wish \in Revocations : PresentRevoked(c, k, wish)
  PROVE  Quiet
<1>1. ASSUME NEW wish, NEW row, NEW pc, NEW answer \in {"refused", "revoked"},
             Starts(c, wish, k, row, pc, answer),
             wish \in Revocations \cup {"exchange", "rotate"},
             wish = "exchange" => call[k].code = k,
             wish = "rotate" => call[k].answer = "tokens"
      PROVE  Quiet
  <2>1. /\ Only(c) /\ call[c].pc = "idle" /\ call'[c].wish = wish /\ call'[c].used = k
        /\ call'[c].code = None /\ call'[c].answer \in {"none", "refused", "revoked"}
    BY <1>1, StartIs
  <2>2. call[c].code = None /\ call[c].answer = "none"
    BY <2>1 DEF CallsOK, NoCall
  <2>3. /\ wish = "exchange" => call'[k].code = k
        /\ wish = "rotate" => call'[k].answer = "tokens"
    BY <1>1, <2>1, <2>2 DEF Only
  <2>4. Begun(c)'
    BY <2>1, <2>3 DEF Begun, Revocations
  <2> QED  BY <1>1, <2>1, <2>4, BeginsQuietly DEF Starts, storeVars, RowsStay
<1>2. CASE PresentCode(c, k)
  <2>1. call[k].code = k
    BY <1>2 DEF PresentCode, CodesOK
  <2> QED  BY <1>1, <1>2, <2>1 DEF PresentCode, Revocations
<1>3. CASE PresentRefresh(c, k)
  BY <1>1, <1>3 DEF PresentRefresh, Revocations
<1>4. ASSUME NEW wish \in Revocations, PresentRevoked(c, k, wish) PROVE Quiet
  <2>1. wish \notin {"exchange", "rotate"}
    BY DEF Revocations
  <2> QED  BY <1>1, <1>4, <2>1 DEF PresentRevoked
<1> QED  BY <1>2, <1>3, <1>4

\* Time, and the gateway's restart.
LEMMA WorldQuietly ==
  ASSUME Types, CallsOK, CodesOK,
         \/ \E cl \in Clients : Register(cl) \/ \E r \in Requests : Authorize(r, cl)
         \/ \E k \in Calls : Expire(k)
         \/ \E r \in Requests : ExpirePending(r) \/ ForgetFailure(r)
         \/ Restart \/ UNCHANGED vars
  PROVE  Quiet
<1>1. ASSUME NEW r \in Requests, NEW cl \in Clients, Authorize(r, cl) PROVE Quiet
  <2>1. QuietRows
    BY <1>1 DEF Authorize, QuietRows, Fewer, Types
  <2> QED  BY <1>1, <2>1, CallsStayQuiet DEF Authorize, Quiet
<1>2. ASSUME NEW k \in Calls, Expire(k) PROVE Quiet
  <2>1. QuietRows
    BY <1>2 DEF Expire, QuietRows, Fewer, Types
  <2> QED  BY <1>2, <2>1, CallsStayQuiet DEF Expire, Quiet
<1>3. ASSUME NEW r \in Requests, ExpirePending(r) PROVE Quiet
  <2>1. QuietRows
    BY <1>3 DEF ExpirePending, QuietRows, Fewer, Types
  <2> QED  BY <1>3, <2>1, CallsStayQuiet DEF ExpirePending, Quiet
<1>4. CASE Restart
  <2>1. ASSUME NEW d \in Calls
        PROVE  \/ call'[d] = call[d]
               \/ /\ call[d].pc # "idle" /\ call'[d].answer = call[d].answer
                  /\ call'[d].wish = call[d].wish /\ call'[d].request = call[d].request
                  /\ call'[d].used = call[d].used /\ call'[d].code = call[d].code
    BY <1>4 DEF Restart, Types, CallState, Running
  <2>2. QuietCalls
    BY <2>1 DEF QuietCalls
  <2> QED  BY <1>4, <2>2, RowsStayQuiet DEF Restart, storeVars, RowsStay, Quiet
<1>5. ASSUME UNCHANGED call, RowsStay PROVE Quiet
  BY <1>5, RowsStayQuiet, CallsStayQuiet DEF Quiet
<1>6. ASSUME NEW cl \in Clients, Register(cl) PROVE Quiet
  BY <1>5, <1>6 DEF Register, RowsStay
<1>7. ASSUME NEW r \in Requests, ForgetFailure(r) PROVE Quiet
  BY <1>5, <1>7 DEF ForgetFailure, RowsStay, storeVars
<1>8. CASE UNCHANGED vars
  BY <1>5, <1>8 DEF vars, RowsStay, storeVars
<1> QED
  BY <1>1, <1>2, <1>3, <1>4, <1>6, <1>7, <1>8

-----------------------------------------------------------------------------
(* Steps that answer a call with a code, a denial or tokens *)

Rest == CodesOK /\ UsesOK /\ RowsOK /\ SpentOnce

LEMMA DecideQuietly ==
  ASSUME Types, CallsOK, NEW c \in Calls, Decide(c) \/ StoreFails(c)
  PROVE  Quiet
<1>1. call[c].pc \in Running /\ RowsStay
  BY DEF Decide, StoreFails, storeVars, RowsStay, Running
<1>2. (\E pc \in Running : Goes(c, pc)) \/ Replies(c, "refused")
  BY DEF Decide, StoreFails, Running
<1> QED  BY <1>1, <1>2, MovesQuietly

\* What a post is told is nothing to the token calls.
LEMMA PostAnswersRest ==
  ASSUME Types, CallsOK, Rest, NEW c \in Calls, call[c].pc \in Running, call[c].wish \in Posts,
         Only(c), call'[c].wish = call[c].wish, call'[c].answer \in {"code", "denied"},
         UNCHANGED <<access, refresh, revoked>>, \A k \in Calls \ {c} : codes'[k] = codes[k]
  PROVE  UsesOK' /\ RowsOK' /\ SpentOnce'
<1>1. call[c].answer = "none" /\ call[c].code = None
  BY DEF CallsOK, Running
<1>2. \A d \in Calls : call'[d].answer = "tokens" => d # c /\ call'[d] = call[d]
  BY DEF Only
<1>3. UsesOK'
  <2> SUFFICES ASSUME NEW d \in Calls, d # c, call'[d] = call[d], call[d].wish \notin Posts
               PROVE  /\ Begun(d)'
                      /\ call[d].wish = "exchange" /\ call[d].answer = "tokens" =>
                           codes'[call[d].used] = None
                      /\ call[d].wish = "rotate" /\ call[d].answer = "tokens" =>
                           refresh'[call[d].used] = None
    BY DEF UsesOK, Begun, Only, Posts, Revocations
  <2>1. Begun(d)
    BY DEF Rest, UsesOK, Begun
  <2>2. /\ call[d].wish = "exchange" => call[d].used \in Calls \ {c}
        /\ call[d].wish = "rotate" => call[d].used \in Calls \ {c}
    BY <1>1, <2>1 DEF Begun
  <2>3. Begun(d)'
    BY <2>1, <2>2 DEF Begun, Only
  <2> QED  BY <2>2, <2>3 DEF Rest, UsesOK
<1>4. SpentOnce'
  BY <1>2 DEF Rest, SpentOnce
<1>5. RowsOK'
  BY <1>1 DEF Rest, RowsOK, Only, Types
<1> QED  BY <1>3, <1>4, <1>5

LEMMA ApproveRest ==
  ASSUME Types, CallsOK, Rest, NEW c \in Calls, Approve(c)
  PROVE  Rest'
<1> DEFINE r == call[c].request
<1>1. call[c].pc \in Running /\ call[c].wish \in Posts /\ r \in asked /\ r \in Requests
  BY DEF Approve, CallsOK, Types, Running
<1>2. CASE pending[r] = None
  <2>1. Goes(c, "retelling") /\ RowsStay
    BY <1>2 DEF Approve, RowsStay
  <2>2. Quiet
    BY <1>1, <2>1, MovesQuietly DEF Running
  <2> QED  BY <2>2, QuietStep DEF Rest
<1>3. CASE pending[r] # None
  <2>1. /\ pending' = [pending EXCEPT ![r] = None]
        /\ codes' = [codes EXCEPT ![c] = r]
        /\ UNCHANGED <<asked, access, refresh, revoked>>
        /\ TellsCode(c, c)
    BY <1>3 DEF Approve, Withdraw
  <2>2. /\ Only(c)
        /\ call'[c].wish = call[c].wish /\ call'[c].request = r
        /\ call'[c].used = call[c].used
        /\ call'[c].answer = "code" /\ call'[c].code = c
    BY <1>1, <2>1, TellsIs
  <2>3. call[c].answer = "none" /\ call[c].code = None
    BY <1>1 DEF CallsOK, Running
  <2>4. \A d \in Calls : call[d].code # None \/ call[d].answer = "denied" =>
          d # c /\ call[d].request # r
    BY <1>3, <2>3 DEF Rest, CodesOK
  <2>5. \A k \in Calls : codes[k] # None => k # c /\ codes[k] # r
    BY <2>3, <2>4 DEF Rest, CodesOK
  <2> HIDE DEF r
  <2>6. CodesOK'
    <3>1. \A s \in Requests : pending'[s] # None => s \in asked'
      BY <1>1, <2>1 DEF Rest, CodesOK, Types
    <3>2. \A k \in Calls : codes'[k] # None => call'[k].code = k /\ call'[k].request = codes'[k]
      BY <2>1, <2>2, <2>5 DEF Rest, CodesOK, Only, Types
    <3>3. \A d \in Calls : call'[d].code # None \/ call'[d].answer = "denied" =>
            pending'[call'[d].request] = None
      <4>1. pending'[r] = None
        BY <1>1, <2>1 DEF Types
      <4>2. \A d \in Calls \ {c} : call[d].code # None \/ call[d].answer = "denied" =>
              pending'[call[d].request] = pending[call[d].request]
        BY <1>1, <2>1, <2>4 DEF Types
      <4> QED  BY <2>2, <4>1, <4>2 DEF Rest, CodesOK, Only
    <3>4. \A d \in Calls : call'[d].code # None =>
            LET k == call'[d].code IN call'[k].code = k /\ call'[k].request = call'[d].request
      BY <2>2, <2>3 DEF Rest, CodesOK, Only, Types, CallState
    <3>5. \A k, l \in Calls :
            call'[k].code = k /\ call'[l].code = l /\ call'[k].request = call'[l].request => k = l
      BY <2>2, <2>4 DEF Rest, CodesOK, Only
    <3>6. \A e, d \in Calls :
            call'[d].answer = "denied" /\ call'[e].request = call'[d].request =>
              call'[e].code = None /\ (call'[e].answer = "denied" => e = d)
      BY <2>2, <2>4 DEF Rest, CodesOK, Only
    <3> QED  BY <3>1, <3>2, <3>3, <3>4, <3>5, <3>6 DEF CodesOK
  <2>7. UsesOK' /\ RowsOK' /\ SpentOnce'
    BY <1>1, <2>1, <2>2, PostAnswersRest DEF Types
  <2> QED  BY <2>6, <2>7 DEF Rest
<1> QED  BY <1>2, <1>3

LEMMA RetellRest ==
  ASSUME Types, CallsOK, Rest, NEW c \in Calls, Retell(c)
  PROVE  Rest'
<1>1. call[c].pc \in Running /\ call[c].wish \in Posts /\ RowsStay
  BY DEF Retell, CallsOK, Running, storeVars, RowsStay
<1>2. CASE Replies(c, "refused")
  BY <1>1, <1>2, MovesQuietly, QuietStep DEF Rest
<1>3. ASSUME NEW k \in Calls, codes[k] = call[c].request, TellsCode(c, k)
      PROVE  Rest'
  <2>1. /\ Only(c)
        /\ call'[c].wish = call[c].wish /\ call'[c].request = call[c].request
        /\ call'[c].used = call[c].used
        /\ call'[c].answer = "code" /\ call'[c].code = k
    BY <1>1, <1>3, TellsIs
  <2>2. call[c].answer = "none" /\ call[c].code = None
    BY <1>1 DEF CallsOK, Running
  <2>3. codes[k] # None
    BY <1>1, <1>3 DEF CallsOK, Types
  <2>4. /\ k # c /\ call[k].code = k /\ call[k].request = call[c].request
        /\ pending[call[c].request] = None
    BY <1>3, <2>2, <2>3 DEF Rest, CodesOK
  <2>5. CodesOK'
    <3>1. \A d \in Calls : call'[d].code # None \/ call'[d].answer = "denied" =>
            pending'[call'[d].request] = None
      BY <1>1, <2>1, <2>4 DEF Rest, CodesOK, Only, RowsStay
    <3>2. \A d \in Calls : codes'[d] # None => call'[d].code = d /\ call'[d].request = codes'[d]
      BY <1>1, <2>1, <2>2 DEF Rest, CodesOK, Only, RowsStay
    <3>3. \A d \in Calls : call'[d].code # None =>
            LET l == call'[d].code IN call'[l].code = l /\ call'[l].request = call'[d].request
      <4>1. ASSUME NEW d \in Calls, d # c, call[d].code # None
            PROVE  LET l == call[d].code IN
                   l \in Calls \ {c} /\ call[l].code = l /\ call[l].request = call[d].request
        BY <2>2, <4>1 DEF Rest, CodesOK, Types, CallState
      <4> QED  BY <2>1, <2>4, <4>1 DEF Only
    <3>4. \A d, l \in Calls :
            call'[d].code = d /\ call'[l].code = l /\ call'[d].request = call'[l].request => d = l
      BY <2>1, <2>2, <2>4 DEF Rest, CodesOK, Only
    <3>5. \A e, d \in Calls :
            call'[d].answer = "denied" /\ call'[e].request = call'[d].request =>
              call'[e].code = None /\ (call'[e].answer = "denied" => e = d)
      BY <2>1, <2>2, <2>4 DEF Rest, CodesOK, Only
    <3> QED  BY <1>1, <3>1, <3>2, <3>3, <3>4, <3>5 DEF Rest, CodesOK, RowsStay
  <2>6. UsesOK' /\ RowsOK' /\ SpentOnce'
    BY <1>1, <2>1, PostAnswersRest DEF RowsStay
  <2> QED  BY <2>5, <2>6 DEF Rest
<1> QED  BY <1>2, <1>3 DEF Retell

LEMMA DenyRest ==
  ASSUME Types, CallsOK, Rest, NEW c \in Calls, Deny(c)
  PROVE  Rest'
<1> DEFINE r == call[c].request
<1>1. call[c].pc \in Running /\ call[c].wish \in Posts /\ r \in asked /\ r \in Requests
  BY DEF Deny, CallsOK, Types, Running
<1>2. CASE pending[r] = None
  <2>1. Replies(c, "refused") /\ RowsStay
    BY <1>2 DEF Deny, RowsStay
  <2> QED  BY <1>1, <2>1, MovesQuietly, QuietStep DEF Rest
<1>3. CASE pending[r] # None
  <2>1. /\ pending' = [pending EXCEPT ![r] = None]
        /\ UNCHANGED <<asked, codes, access, refresh, revoked>>
        /\ Replies(c, "denied")
    BY <1>3 DEF Deny, Withdraw
  <2>2. /\ Only(c)
        /\ call'[c].wish = call[c].wish /\ call'[c].request = r
        /\ call'[c].used = call[c].used
        /\ call'[c].answer = "denied" /\ call'[c].code = None
    BY <1>1, <2>1, RepliesIs
  <2>3. call[c].answer = "none" /\ call[c].code = None
    BY <1>1 DEF CallsOK, Running
  <2>4. \A d \in Calls : call[d].code # None \/ call[d].answer = "denied" =>
          d # c /\ call[d].request # r
    BY <1>3, <2>3 DEF Rest, CodesOK
  <2> HIDE DEF r
  <2>5. \A s \in Requests : pending'[s] \in {pending[s], None} /\ pending'[r] = None
    BY <1>1, <2>1 DEF Types
  <2>6. CodesOK'
    <3>1. \A s \in Requests : pending'[s] # None => s \in asked'
      BY <2>1, <2>5 DEF Rest, CodesOK
    <3>2. \A k \in Calls : codes'[k] # None => call'[k].code = k /\ call'[k].request = codes'[k]
      BY <2>1, <2>2, <2>3 DEF Rest, CodesOK, Only
    <3>3. \A d \in Calls : call'[d].code # None \/ call'[d].answer = "denied" =>
            pending'[call'[d].request] = None
      <4>1. \A d \in Calls \ {c} : call[d].code # None \/ call[d].answer = "denied" =>
              pending'[call[d].request] = pending[call[d].request]
        BY <1>1, <2>1, <2>4 DEF Types
      <4> QED  BY <2>2, <2>5, <4>1, <1>1 DEF Rest, CodesOK, Only
    <3>4. \A d \in Calls : call'[d].code # None =>
            LET k == call'[d].code IN call'[k].code = k /\ call'[k].request = call'[d].request
      BY <2>2, <2>3 DEF Rest, CodesOK, Only, Types, CallState
    <3>5. \A k, l \in Calls :
            call'[k].code = k /\ call'[l].code = l /\ call'[k].request = call'[l].request => k = l
      BY <2>2, <2>4 DEF Rest, CodesOK, Only
    <3>6. \A e, d \in Calls :
            call'[d].answer = "denied" /\ call'[e].request = call'[d].request =>
              call'[e].code = None /\ (call'[e].answer = "denied" => e = d)
      BY <2>2, <2>4 DEF Rest, CodesOK, Only
    <3> QED  BY <3>1, <3>2, <3>3, <3>4, <3>5, <3>6 DEF CodesOK
  <2>7. UsesOK' /\ RowsOK' /\ SpentOnce'
    BY <1>1, <2>1, <2>2, PostAnswersRest
  <2> QED  BY <2>6, <2>7 DEF Rest
<1> QED  BY <1>2, <1>3

\* What a token call is told is nothing to the posts.
LEMMA TokensCodes ==
  ASSUME Types, CallsOK, CodesOK, NEW c \in Calls, call[c].pc \in Running,
         Only(c), call'[c].request = call[c].request, call'[c].code = None,
         call'[c].answer \notin {"code", "denied"},
         UNCHANGED <<asked, pending>>, Fewer(codes, codes')
  PROVE  CodesOK'
<1>1. call[c].answer = "none" /\ call[c].code = None
  BY DEF CallsOK, Running
<1>2. \A d \in Calls : /\ call'[d].code = call[d].code /\ call'[d].request = call[d].request
                       /\ call'[d].answer = "denied" <=> call[d].answer = "denied"
  BY <1>1 DEF Only
<1> QED  BY <1>2 DEF CodesOK, Fewer, Types, CallState

LEMMA ExchangeRest ==
  ASSUME Types, CallsOK, Rest, NEW c \in Calls, Exchange(c)
  PROVE  Rest'
<1> DEFINE k == call[c].used
<1>1. call[c].pc \in Running /\ call[c].wish = "exchange" /\ k \in Calls
  BY DEF Exchange, CallsOK, Running, Rest, UsesOK
<1>2. CASE codes[k] = None
  <2>1. Replies(c, "refused") /\ RowsStay
    BY <1>2 DEF Exchange, RowsStay
  <2> QED  BY <1>1, <2>1, MovesQuietly, QuietStep DEF Rest
<1>3. CASE codes[k] # None
  <2>1. /\ codes' = [codes EXCEPT ![k] = None]
        /\ access' = [access EXCEPT ![c] = c]
        /\ refresh' = [refresh EXCEPT ![c] = c]
        /\ UNCHANGED <<asked, pending, revoked>>
        /\ Replies(c, "tokens")
    BY <1>3 DEF Exchange, Spend
  <2>2. /\ Only(c)
        /\ call'[c].wish = "exchange" /\ call'[c].request = call[c].request
        /\ call'[c].used = k
        /\ call'[c].answer = "tokens" /\ call'[c].code = None
    BY <1>1, <2>1, RepliesIs
  <2>3. call[c].answer = "none" /\ call[c].code = None
    BY <1>1 DEF CallsOK, Running
  <2>4. k # c /\ call[k].code = k
    BY <1>1, <1>3, <2>3 DEF Rest, CodesOK
  <2>5. \A d \in Calls : call[d].answer = "tokens" /\ call[d].wish = "exchange" =>
          call[d].used # k
    BY <1>3 DEF Rest, UsesOK
  <2> HIDE DEF k
  <2>6. /\ codes'[k] = None /\ access'[c] = c /\ refresh'[c] = c
        /\ \A l \in Calls : codes'[l] \in {codes[l], None}
        /\ \A l \in Calls \ {c} : access'[l] = access[l] /\ refresh'[l] = refresh[l]
    BY <1>1, <2>1 DEF Types
  <2>7. CodesOK'
    BY <1>1, <2>1, <2>2, <2>6, TokensCodes DEF Rest, Fewer
  <2>8. UsesOK'
    <3> SUFFICES ASSUME NEW d \in Calls
                 PROVE  /\ Begun(d)'
                        /\ call'[d].wish = "exchange" /\ call'[d].answer = "tokens" =>
                             codes'[call'[d].used] = None
                        /\ call'[d].wish = "rotate" /\ call'[d].answer = "tokens" =>
                             refresh'[call'[d].used] = None
      BY DEF UsesOK, Begun
    <3>1. CASE d = c
      BY <1>1, <2>2, <2>4, <2>6, <3>1 DEF Begun, Revocations, Only
    <3>2. CASE d # c
      <4>1. call'[d] = call[d] /\ Begun(d)
        BY <2>2, <3>2 DEF Only, Rest, UsesOK, Begun
      <4>2. /\ call[d].wish = "exchange" => call[d].used \in Calls \ {c}
            /\ call[d].wish = "rotate" => call[d].used \in Calls \ {c}
        BY <2>3, <4>1 DEF Begun
      <4>3. Begun(d)'
        BY <2>2, <4>1, <4>2 DEF Begun, Only
      <4> QED  BY <2>6, <4>1, <4>2, <4>3 DEF Rest, UsesOK
    <3> QED  BY <3>1, <3>2
  <2>9. RowsOK'
    <3>1. c \notin revoked /\ \A l \in Calls \ {c} : access[l] # c /\ refresh[l] # c
      BY <2>3 DEF Rest, RowsOK
    <3>2. \A l \in Calls \ {c} : \A g \in {access'[l], refresh'[l]} \ {None} :
            g # c /\ g \in Calls /\ l # c
      BY <2>6, <3>1 DEF Types
    <3>3. \A l \in Calls : \A g \in {access'[l], refresh'[l]} \ {None} :
            /\ call'[l].answer = "tokens"
            /\ call'[g].answer = "tokens" /\ call'[g].wish = "exchange"
            /\ g \notin revoked'
      BY <2>1, <2>2, <2>6, <3>1, <3>2 DEF Rest, RowsOK, Only
    <3>4. \A g \in revoked' : call'[g].answer = "tokens"
      BY <2>1, <2>2, <3>1 DEF Rest, RowsOK, Only, Types
    <3>5. \A l, m \in Calls : refresh'[l] # None /\ refresh'[l] = refresh'[m] => l = m
      BY <2>6, <3>1 DEF Rest, RowsOK
    <3> QED  BY <3>3, <3>4, <3>5 DEF RowsOK
  <2>10. SpentOnce'
    BY <2>2, <2>5 DEF Rest, SpentOnce, Only
  <2> QED  BY <2>7, <2>8, <2>9, <2>10 DEF Rest
<1> QED  BY <1>2, <1>3

LEMMA RotateRest ==
  ASSUME Types, CallsOK, Rest, NEW c \in Calls, Rotate(c)
  PROVE  Rest'
<1> DEFINE k == call[c].used
<1>1. call[c].pc \in Running /\ call[c].wish = "rotate" /\ k \in Calls
      /\ call[k].answer = "tokens"
  BY DEF Rotate, CallsOK, Running, Rest, UsesOK
<1>2. CASE refresh[k] = None
  <2>1. Replies(c, "refused") /\ RowsStay
    BY <1>2 DEF Rotate, RowsStay
  <2> QED  BY <1>1, <2>1, MovesQuietly, QuietStep DEF Rest
<1>3. CASE refresh[k] # None
  <2> DEFINE g == refresh[k]
  <2>1. /\ access' = [access EXCEPT ![c] = g]
        /\ refresh' = [[refresh EXCEPT ![k] = None] EXCEPT ![c] = g]
        /\ UNCHANGED <<asked, pending, codes, revoked>>
        /\ Replies(c, "tokens")
    BY <1>3 DEF Rotate, Spend
  <2>2. /\ Only(c)
        /\ call'[c].wish = "rotate" /\ call'[c].request = call[c].request
        /\ call'[c].used = k
        /\ call'[c].answer = "tokens" /\ call'[c].code = None
    BY <1>1, <2>1, RepliesIs
  <2>3. call[c].answer = "none" /\ call[c].code = None /\ k # c
    BY <1>1 DEF CallsOK, Running
  <2>4. /\ g \in Calls /\ g # None /\ g # c /\ g \notin revoked
        /\ call[g].answer = "tokens" /\ call[g].wish = "exchange"
        /\ \A l \in Calls \ {k} : refresh[l] # g
    BY <1>1, <1>3, <2>3 DEF Rest, RowsOK, Types
  <2>5. \A d \in Calls : call[d].answer = "tokens" /\ call[d].wish = "rotate" =>
          call[d].used # k
    BY <1>3 DEF Rest, UsesOK
  <2>6. /\ refresh'[k] = None /\ access'[c] = g /\ refresh'[c] = g
        /\ \A l \in Calls \ {c} : access'[l] = access[l] /\ refresh'[l] \in {refresh[l], None}
    BY <1>1, <2>1, <2>3 DEF Types
  <2> HIDE DEF k, g
  <2>7. CodesOK'
    BY <1>1, <2>1, <2>2, TokensCodes DEF Rest, Fewer
  <2>8. UsesOK'
    <3> SUFFICES ASSUME NEW d \in Calls
                 PROVE  /\ Begun(d)'
                        /\ call'[d].wish = "exchange" /\ call'[d].answer = "tokens" =>
                             codes'[call'[d].used] = None
                        /\ call'[d].wish = "rotate" /\ call'[d].answer = "tokens" =>
                             refresh'[call'[d].used] = None
      BY DEF UsesOK, Begun
    <3>1. CASE d = c
      <4>1. call'[k] = call[k]
        BY <1>1, <2>2, <2>3 DEF Only
      <4> QED  BY <1>1, <2>2, <2>6, <3>1, <4>1 DEF Begun, Revocations
    <3>2. CASE d # c
      <4>1. call'[d] = call[d] /\ Begun(d)
        BY <2>2, <3>2 DEF Only, Rest, UsesOK, Begun
      <4>2. /\ call[d].wish = "exchange" => call[d].used \in Calls \ {c}
            /\ call[d].wish = "rotate" => call[d].used \in Calls \ {c}
        BY <2>3, <4>1 DEF Begun
      <4>3. Begun(d)'
        BY <2>2, <4>1, <4>2 DEF Begun, Only
      <4> QED  BY <2>1, <2>6, <4>1, <4>2, <4>3 DEF Rest, UsesOK
    <3> QED  BY <3>1, <3>2
  <2>9. RowsOK'
    <3>1. \A l \in Calls \ {c} : \A h \in {access'[l], refresh'[l]} \ {None} :
            h \in {access[l], refresh[l]} \ {None} /\ h # c /\ h \in Calls
      BY <2>3, <2>6 DEF Rest, RowsOK, Types
    <3>2. \A l \in Calls : \A h \in {access'[l], refresh'[l]} \ {None} :
            /\ call'[l].answer = "tokens"
            /\ call'[h].answer = "tokens" /\ call'[h].wish = "exchange"
            /\ h \notin revoked'
      <4> TAKE l \in Calls
      <4>1. CASE l = c
        <5>1. {access'[c], refresh'[c]} = {g} /\ call'[g] = call[g]
          BY <2>2, <2>4, <2>6 DEF Only
        <5> QED  BY <2>1, <2>2, <2>4, <4>1, <5>1
      <4>2. CASE l # c
        BY <2>1, <2>2, <3>1, <4>2 DEF Rest, RowsOK, Only
      <4> QED  BY <4>1, <4>2
    <3>3. \A h \in revoked' : call'[h].answer = "tokens"
      BY <2>1, <2>2, <2>3 DEF Rest, RowsOK, Only, Types
    <3>4. \A l, m \in Calls : refresh'[l] # None /\ refresh'[l] = refresh'[m] => l = m
      BY <2>4, <2>6 DEF Rest, RowsOK
    <3> QED  BY <3>2, <3>3, <3>4 DEF RowsOK
  <2>10. SpentOnce'
    BY <2>2, <2>5 DEF Rest, SpentOnce, Only
  <2> QED  BY <2>7, <2>8, <2>9, <2>10 DEF Rest
<1> QED  BY <1>2, <1>3

LEMMA RevokeRest ==
  ASSUME Types, CallsOK, Rest, NEW c \in Calls, Revoke(c)
  PROVE  Rest'
<1> DEFINE k == call[c].used
           g == IF call[c].wish = "revoke access" THEN access[k] ELSE refresh[k]
<1>1. call[c].pc \in Running /\ call[c].wish \in Revocations /\ k \in Calls
  BY DEF Revoke, CallsOK, Running, Rest, UsesOK
<1>2. CASE g = None
  <2>1. Replies(c, "revoked") /\ RowsStay
    BY <1>2 DEF Revoke, RowsStay
  <2> QED  BY <1>1, <2>1, MovesQuietly, QuietStep DEF Rest
<1>3. CASE g # None
  <2>1. /\ DeleteGrant(g) /\ revoked' = revoked \cup {g}
        /\ UNCHANGED <<asked, pending, codes>>
        /\ Replies(c, "revoked")
    BY <1>3 DEF Revoke
  <2>2. /\ Only(c)
        /\ call'[c].wish = call[c].wish /\ call'[c].request = call[c].request
        /\ call'[c].used = k
        /\ call'[c].answer = "revoked" /\ call'[c].code = None
    BY <1>1, <2>1, RepliesIs
  <2>3. call[c].answer = "none" /\ call[c].code = None
    BY <1>1 DEF CallsOK, Running
  <2>4. call[g].answer = "tokens" /\ g \in Calls
    BY <1>1, <1>3 DEF Rest, RowsOK, Types
  <2> HIDE DEF k, g
  <2>5. \A l \in Calls : /\ access'[l] \in {access[l], None} \ {g}
                         /\ refresh'[l] \in {refresh[l], None} \ {g}
    BY <1>3, <2>1 DEF DeleteGrant, WithoutGrant
  <2>6. CodesOK'
    BY <1>1, <2>1, <2>2, TokensCodes DEF Rest, Fewer
  <2>7. UsesOK'
    <3> SUFFICES ASSUME NEW d \in Calls
                 PROVE  /\ Begun(d)'
                        /\ call'[d].wish = "exchange" /\ call'[d].answer = "tokens" =>
                             codes'[call'[d].used] = None
                        /\ call'[d].wish = "rotate" /\ call'[d].answer = "tokens" =>
                             refresh'[call'[d].used] = None
      BY DEF UsesOK, Begun
    <3>1. CASE d = c
      BY <1>1, <2>2, <3>1 DEF Begun, Revocations
    <3>2. CASE d # c
      <4>1. call'[d] = call[d] /\ Begun(d)
        BY <2>2, <3>2 DEF Only, Rest, UsesOK, Begun
      <4>2. /\ call[d].wish = "exchange" => call[d].used \in Calls \ {c}
            /\ call[d].wish = "rotate" => call[d].used \in Calls \ {c}
        BY <2>3, <4>1 DEF Begun
      <4>3. Begun(d)'
        BY <2>2, <4>1, <4>2 DEF Begun, Only
      <4> QED  BY <2>1, <2>5, <4>1, <4>2, <4>3 DEF Rest, UsesOK
    <3> QED  BY <3>1, <3>2
  <2>8. RowsOK'
    <3>1. \A l \in Calls : \A h \in {access'[l], refresh'[l]} \ {None} :
            h \in {access[l], refresh[l]} \ {None} /\ h # g /\ h # c /\ l # c /\ h \in Calls
      BY <2>3, <2>5 DEF Rest, RowsOK, Types
    <3>2. \A l \in Calls : \A h \in {access'[l], refresh'[l]} \ {None} :
            /\ call'[l].answer = "tokens"
            /\ call'[h].answer = "tokens" /\ call'[h].wish = "exchange"
            /\ h \notin revoked'
      BY <2>1, <2>2, <3>1 DEF Rest, RowsOK, Only
    <3>3. \A h \in revoked' : call'[h].answer = "tokens"
      BY <2>1, <2>2, <2>3, <2>4 DEF Rest, RowsOK, Only, Types
    <3>4. \A l, m \in Calls : refresh'[l] # None /\ refresh'[l] = refresh'[m] => l = m
      BY <2>5 DEF Rest, RowsOK
    <3> QED  BY <3>2, <3>3, <3>4 DEF RowsOK
  <2>9. SpentOnce'
    BY <2>2 DEF Rest, SpentOnce, Only
  <2> QED  BY <2>6, <2>7, <2>8, <2>9 DEF Rest
<1> QED  BY <1>2, <1>3

-----------------------------------------------------------------------------
(* The invariant holds *)

LEMMA InvIs == Inv <=> Types /\ Bounds /\ Counted /\ CallsOK /\ Rest
  BY DEF Inv, TypeOK, Types, Bounds, Rest

LEMMA InitInv == Init => Inv
<1> SUFFICES ASSUME Init PROVE Inv
  OBVIOUS
<1>1. Types
  <2>1. NoCall \in CallState
    BY DEF NoCall, CallState, Answers
  <2>2. failures \in [Requests -> 0..PinLimit]
    <3>1. PinLimit \in Nat
      OBVIOUS
    <3> QED  BY <3>1 DEF Init
  <2> QED  BY <2>1, <2>2 DEF Init, Types
<1>2. \A c \in Calls : call[c] = NoCall
  BY DEF Init
<1>3. CallsOK
  <2>1. "none" \notin Posts
    BY DEF Posts
  <2>2. /\ NoCall.pc = "idle" /\ NoCall.answer = "none" /\ NoCall.wish = "none"
        /\ NoCall.request = None /\ NoCall.code = None
    BY DEF NoCall
  <2> QED  BY <1>2, <2>1, <2>2 DEF CallsOK
<1>4. CodesOK /\ UsesOK
  BY <1>2 DEF Init, CodesOK, UsesOK, NoCall, Revocations
<1>5. RowsOK /\ SpentOnce
  BY <1>2 DEF Init, RowsOK, SpentOnce, NoCall
<1>6. Waiting = {} /\ \A cl \in Clients : WaitingFor(cl) = {}
  BY DEF Init, Waiting, WaitingFor
<1>7. Bounds /\ Counted
  BY <1>6, FS_EmptySet DEF Init, Bounds, Counted
<1> QED  BY <1>1, <1>3, <1>4, <1>5, <1>7, InvIs DEF Rest

LEMMA BoundsStep ==
  ASSUME Types, Bounds, Counted, CallsOK, CodesOK, [Next]_vars
  PROVE  Bounds' /\ Counted'
<1>1. ASSUME UNCHANGED <<clients, pending>> PROVE Bounds' /\ Counted'
  BY <1>1, FewerWait DEF Types
<1>2. ASSUME NEW r, pending' = [pending EXCEPT ![r] = None], UNCHANGED clients
      PROVE  Bounds' /\ Counted'
  <2>1. \A s \in Requests : pending'[s] \in {pending[s], None}
    BY <1>2 DEF Types
  <2> QED  BY <1>2, <2>1, FewerWait
<1>3. ASSUME NEW c \in Calls, Approve(c) \/ Deny(c) PROVE Bounds' /\ Counted'
  BY <1>1, <1>2, <1>3 DEF Approve, Deny, Withdraw
<1>4. ASSUME NEW c \in Calls, NEW k \in Calls,
             \/ PresentCode(c, k) \/ PresentRefresh(c, k)
             \/ \E wish \in Revocations : PresentRevoked(c, k, wish)
      PROVE  Bounds' /\ Counted'
  BY <1>1, <1>4 DEF PresentCode, PresentRefresh, PresentRevoked, Starts, storeVars
<1>5. ASSUME NEW c \in Calls, NEW r \in Requests, NEW wish \in Posts, Post(c, r, wish)
      PROVE  Bounds' /\ Counted'
  BY <1>1, <1>5 DEF Post, storeVars
<1>6. ASSUME NEW c \in Calls,
             \/ Decide(c) \/ Retell(c) \/ Exchange(c) \/ Rotate(c) \/ Revoke(c)
             \/ StoreFails(c) \/ Expire(c)
      PROVE  Bounds' /\ Counted'
  BY <1>1, <1>6 DEF Decide, Retell, Exchange, Rotate, Revoke, StoreFails, Expire, storeVars
<1>7. ASSUME NEW r \in Requests, ExpirePending(r) \/ ForgetFailure(r) PROVE Bounds' /\ Counted'
  BY <1>1, <1>2, <1>7 DEF ExpirePending, ForgetFailure, storeVars
<1>8. ASSUME Restart \/ UNCHANGED vars PROVE Bounds' /\ Counted'
  BY <1>1, <1>8 DEF Restart, vars, storeVars
<1> QED
  BY <1>3, <1>4, <1>5, <1>6, <1>7, <1>8, RegisterBounds, AuthorizeBounds DEF Next

LEMMA RestStep ==
  ASSUME Types, CallsOK, Rest, [Next]_vars
  PROVE  Rest'
<1>1. ASSUME Quiet PROVE Rest'
  BY <1>1, QuietStep DEF Rest
<1>2. ASSUME NEW c \in Calls, NEW r \in Requests, NEW wish \in Posts, Post(c, r, wish) PROVE Rest'
  BY <1>1, <1>2, PostQuietly
<1>3. ASSUME NEW c \in Calls, NEW k \in Calls,
             \/ PresentCode(c, k) \/ PresentRefresh(c, k)
             \/ \E wish \in Revocations : PresentRevoked(c, k, wish)
      PROVE  Rest'
  BY <1>1, <1>3, PresentQuietly DEF Rest
<1>4. ASSUME NEW c \in Calls, Decide(c) \/ StoreFails(c) PROVE Rest'
  BY <1>1, <1>4, DecideQuietly
<1>5. ASSUME \/ \E cl \in Clients : Register(cl) \/ \E r \in Requests : Authorize(r, cl)
             \/ \E k \in Calls : Expire(k)
             \/ \E r \in Requests : ExpirePending(r) \/ ForgetFailure(r)
             \/ Restart \/ UNCHANGED vars
      PROVE  Rest'
  BY <1>1, <1>5, WorldQuietly DEF Rest
<1> QED
  BY <1>2, <1>3, <1>4, <1>5, ApproveRest, RetellRest, DenyRest, ExchangeRest, RotateRest, RevokeRest
  DEF Next

LEMMA InvStep == Inv /\ [Next]_vars => Inv'
<1> SUFFICES ASSUME Inv, [Next]_vars PROVE Inv'
  OBVIOUS
<1>1. Types /\ Bounds /\ Counted /\ CallsOK /\ Rest
  BY InvIs
<1>2. Types'
  BY <1>1, TypesStep DEF Rest
<1>3. Bounds' /\ Counted'
  BY <1>1, BoundsStep DEF Rest
<1>4. CallsOK'
  BY <1>1, CallsOKStep DEF Rest
<1>5. Rest'
  BY <1>1, RestStep
<1> QED  BY <1>2, <1>3, <1>4, <1>5 DEF Inv, TypeOK, Types, Bounds, Rest

\* What every state of the server satisfies.
THEOREM Invariant == Spec => []Inv
  BY InitInv, InvStep, PTL DEF Spec

\* The variables have their types, and strangers cannot make the server keep
\* more clients, waiting requests or wrong PINs than its limits.
THEOREM TypeCorrect == Spec => []TypeOK
  BY Invariant, PTL DEF Inv

\* However its requests overlap, a request gets one verdict, a code and a
\* refresh token one use each, and a revoked grant no token again.
THEOREM NothingIsSpentTwice == Spec => []CredentialsSpent
<1>1. Inv => OneVerdict
  <2> SUFFICES ASSUME Inv, NEW c \in Calls, NEW d \in Calls, call[c].request = call[d].request,
                      call[c].answer \in {"code", "denied"}, call[d].answer \in {"code", "denied"}
               PROVE  call[c].code = call[d].code /\ (call[c].answer = "denied" => c = d)
    BY DEF OneVerdict
  <2>1. CASE call[c].answer = "denied" \/ call[d].answer = "denied"
    BY <2>1 DEF Inv, CallsOK, CodesOK
  <2>2. CASE call[c].answer = "code" /\ call[d].answer = "code"
    <3>1. call[c].code \in Calls /\ call[d].code \in Calls
      BY <2>2 DEF Inv, TypeOK, CallState, CallsOK
    <3> QED  BY <2>2, <3>1 DEF Inv, CallsOK, CodesOK
  <2> QED  BY <2>1, <2>2
<1>2. Inv => OneFamily
  <2> SUFFICES ASSUME Inv, NEW k \in Calls, NEW l \in Calls
               PROVE  /\ refresh[k] # None /\ refresh[k] = refresh[l] => k = l
                      /\ {access[k], refresh[k]} \cap revoked = {}
    BY DEF OneFamily
  <2>1. \A g \in {access[k], refresh[k]} \ {None} : g \notin revoked
    BY DEF Inv, RowsOK
  <2>2. None \notin revoked
    BY DEF Inv, TypeOK
  <2>3. refresh[k] # None /\ refresh[k] = refresh[l] => k = l
    BY DEF Inv, RowsOK
  <2> QED  BY <2>1, <2>2, <2>3
<1>3. Inv => CredentialsSpent
  BY <1>1, <1>2 DEF Inv, CredentialsSpent
<1> QED  BY <1>3, Invariant, PTL

-----------------------------------------------------------------------------
(* The tables keep the promise *)

Coded(r) == \E k \in Calls : codes[k] = r

\* An answered call does not change.
LEMMA AnswersStay ==
  ASSUME Inv, [Next]_vars, NEW d \in Calls, call[d].answer # "none"
  PROVE  call'[d] = call[d]
<1>1. call[d].pc = "done" /\ Types /\ CallsOK
  BY DEF Inv, CallsOK, TypeOK, Types
<1>2. ASSUME NEW c \in Calls, call[c].pc # "done", \A e \in Calls \ {c} : call'[e] = call[e]
      PROVE  call'[d] = call[d]
  BY <1>1, <1>2
<1>3. ASSUME NEW c \in Calls,
             \/ \E r \in Requests, wish \in Posts : Post(c, r, wish)
             \/ \E k \in Calls : PresentCode(c, k) \/ PresentRefresh(c, k)
             \/ \E k \in Calls : \E wish \in Revocations : PresentRevoked(c, k, wish)
      PROVE  call'[d] = call[d]
  BY <1>1, <1>2, <1>3
  DEF Post, PresentCode, PresentRefresh, PresentRevoked, Starts, Types
<1>4. ASSUME NEW c \in Calls,
             \/ Decide(c) \/ Approve(c) \/ Retell(c) \/ Deny(c)
             \/ Exchange(c) \/ Rotate(c) \/ Revoke(c) \/ StoreFails(c)
      PROVE  call'[d] = call[d]
  <2>1. call[c].pc # "done"
    BY <1>4 DEF Decide, Approve, Retell, Deny, Exchange, Rotate, Revoke, StoreFails, Running
  <2>2. \/ \E pc \in Running : Goes(c, pc)
        \/ \E answer \in Answers : Replies(c, answer)
        \/ \E k \in Calls : TellsCode(c, k)
    BY <1>4 DEF Decide, Approve, Retell, Deny, Exchange, Rotate, Revoke, StoreFails, Running, Answers
  <2>3. \A e \in Calls \ {c} : call'[e] = call[e]
    BY <1>1, <2>2 DEF Goes, Replies, TellsCode, Types
  <2> QED  BY <1>2, <2>1, <2>3
<1>5. CASE Restart
  BY <1>1, <1>5 DEF Restart, Running
<1> QED
  BY <1>3, <1>4, <1>5
  DEF Next, Register, Authorize, Expire, ExpirePending, ForgetFailure, vars, storeVars

\* The grants in the rows go back to requests that stay what they are.
LEMMA GrantFacts ==
  ASSUME Inv, NEW k \in Calls, NEW g \in {access[k], refresh[k]} \ {None}
  PROVE  LET h == call[g].used IN
         /\ g \in Calls /\ call[g].answer = "tokens" /\ call[g].wish = "exchange"
         /\ h \in Calls /\ call[h].code = h /\ codes[h] = None
         /\ call[h].answer = "code"
         /\ RequestOf(g) \in asked /\ RequestOf(g) \in Requests
         /\ pending[RequestOf(g)] = None /\ ~Coded(RequestOf(g))
<1> DEFINE h == call[g].used
<1>1. g \in Calls /\ call[g].answer = "tokens" /\ call[g].wish = "exchange"
  BY DEF Inv, TypeOK, RowsOK
<1>2. h \in Calls /\ call[h].code = h /\ codes[h] = None
  BY <1>1 DEF Inv, UsesOK
<1>3. call[h].answer = "code" /\ call[h].wish \in Posts
  BY <1>2 DEF Inv, CallsOK
<1>4. call[h].request \in asked /\ call[h].request \in Requests /\ pending[call[h].request] = None
  BY <1>2, <1>3 DEF Inv, CallsOK, CodesOK, TypeOK
<1>5. ASSUME NEW l \in Calls, codes[l] = call[h].request PROVE FALSE
  <2>1. call[l].code = l /\ call[l].request = call[h].request
    BY <1>4, <1>5 DEF Inv, CodesOK
  <2>2. l = h
    BY <1>2, <2>1 DEF Inv, CodesOK
  <2> QED  BY <1>2, <1>4, <1>5, <2>2
<1> QED  BY <1>1, <1>2, <1>3, <1>4, <1>5 DEF RequestOf, Coded

LEMMA GrantStays ==
  ASSUME Inv, [Next]_vars, NEW k \in Calls, NEW g \in {access[k], refresh[k]} \ {None}
  PROVE  RequestOf(g)' = RequestOf(g)
  BY GrantFacts, AnswersStay DEF RequestOf

\* A waiting request has no code, and a request with a code no grant.
LEMMA StagesApart ==
  ASSUME Inv, NEW r \in Requests
  PROVE  /\ pending[r] # None => r \in asked /\ ~Coded(r) /\ ~Granted(r)
         /\ Coded(r) => r \in asked /\ pending[r] = None /\ ~Granted(r)
         /\ Granted(r) => r \in asked
<1>1. ASSUME NEW k \in Calls, codes[k] = r
      PROVE  r \in asked /\ pending[r] = None
  <2>1. call[k].code = k /\ call[k].request = r
    BY <1>1 DEF Inv, CodesOK
  <2>2. call[k].answer = "code" /\ call[k].wish \in Posts
    BY <2>1 DEF Inv, CallsOK
  <2> QED  BY <2>1, <2>2 DEF Inv, CallsOK, CodesOK
<1>2. Granted(r) => r \in asked /\ pending[r] = None /\ ~Coded(r)
  BY GrantFacts DEF Granted
<1> QED  BY <1>1, <1>2 DEF Coded, Inv, CodesOK

\* The stages by what tells them.
Told ==
  \A r \in Requests :
    /\ r \notin asked => Stage(r) = "new"
    /\ pending[r] # None => Stage(r) = "waiting"
    /\ Coded(r) => Stage(r) = "approved"
    /\ Granted(r) => Stage(r) = "granted"
    /\ r \in asked /\ pending[r] = None /\ ~Coded(r) /\ ~Granted(r) => Stage(r) = "over"

LEMMA StageTold == Inv => Told
<1> SUFFICES ASSUME Inv PROVE Told
  OBVIOUS
<1> SUFFICES ASSUME NEW r \in Requests
             PROVE  /\ r \notin asked => Stage(r) = "new"
                    /\ pending[r] # None => Stage(r) = "waiting"
                    /\ Coded(r) => Stage(r) = "approved"
                    /\ Granted(r) => Stage(r) = "granted"
                    /\ r \in asked /\ pending[r] = None /\ ~Coded(r) /\ ~Granted(r) =>
                         Stage(r) = "over"
  BY DEF Told
<1>1. /\ r \notin asked => pending[r] = None /\ ~Coded(r) /\ ~Granted(r)
      /\ pending[r] # None => r \in asked /\ ~Coded(r) /\ ~Granted(r)
      /\ Coded(r) => r \in asked /\ pending[r] = None /\ ~Granted(r)
      /\ Granted(r) => r \in asked /\ pending[r] = None /\ ~Coded(r)
  BY StagesApart
<1>2. Stage(r) = CASE r \notin asked -> "new"
                   [] pending[r] # None -> "waiting"
                   [] Coded(r) -> "approved"
                   [] Granted(r) -> "granted"
                   [] OTHER -> "over"
  BY DEF Stage, Coded
<1> HIDE DEF Stage
<1> QED  BY <1>1, <1>2

LEMMA StageToldNext == ASSUME Inv, [Next]_vars PROVE Told'
<1>1. Inv'
  BY InvStep
<1>2. Inv' => Told'
  BY StageTold, PTL
<1> QED  BY <1>1, <1>2

LEMMA SameStage ==
  ASSUME NEW r \in Requests, r \in asked' <=> r \in asked,
         pending'[r] = None <=> pending[r] = None,
         Coded(r)' <=> Coded(r), Granted(r)' <=> Granted(r)
  PROVE  Stage(r)' = Stage(r)
  BY DEF Stage, Coded

LEMMA SameGranted ==
  ASSUME Inv, [Next]_vars, UNCHANGED <<access, refresh>>, NEW r
  PROVE  Granted(r)' <=> Granted(r)
  BY GrantStays DEF Granted

\* Nothing happened to the requests.
Nothing == \A r \in Requests : Stage(r)' = Stage(r)

LEMMA NothingHappens ==
  ASSUME Inv, [Next]_vars, UNCHANGED <<asked, pending, codes, access, refresh>>
  PROVE  Nothing
  BY SameStage, SameGranted DEF Nothing, Coded

\* One request went on.
Forward(r) ==
  /\ \A s \in Requests \ {r} : Stage(s)' = Stage(s)
  /\ \/ Stage(r)' = Stage(r)
     \/ Stage(r) = "new" /\ Stage(r)' = "waiting"
     \/ Stage(r) = "waiting" /\ Stage(r)' \in {"approved", "over"}
     \/ Stage(r) = "approved" /\ Stage(r)' \in {"granted", "over"}
     \/ Stage(r) = "granted" /\ Stage(r)' = "over"

LEMMA ForwardNext ==
  ASSUME NEW r \in Requests, Forward(r)
  PROVE  [Promise!GrantNext]_[s \in Requests |-> Stage(s)]
<1> DEFINE stage == [s \in Requests |-> Stage(s)]
<1>1. CASE Stage(r)' = Stage(r)
  BY <1>1 DEF Forward
<1>2. CASE Stage(r)' # Stage(r)
  <2>1. Stage(r)' \in Promise!After[stage[r]] /\ Stage(r)' \in Promise!Stages
    BY <1>2 DEF Forward, Promise!After, Promise!Stages
  <2>2. stage' = [stage EXCEPT ![r] = Stage(r)']
    BY DEF Forward
  <2> QED  BY <2>1, <2>2 DEF Promise!GrantNext, Promise!Proceed
<1> QED  BY <1>1, <1>2

\* The row of a waiting request goes, and no code comes of it.
LEMMA WithdrawForward ==
  ASSUME Inv, [Next]_vars, NEW r \in Requests, pending[r] # None,
         pending' = [pending EXCEPT ![r] = None], UNCHANGED <<asked, codes, access, refresh>>
  PROVE  Forward(r)
<1>1. \A s \in Requests : (Granted(s)' <=> Granted(s)) /\ (Coded(s)' <=> Coded(s))
  BY SameGranted DEF Coded
<1>2. pending \in [Requests -> Clients \cup {None}]
  BY DEF Inv, TypeOK
<1>3. \A s \in Requests \ {r} : Stage(s)' = Stage(s)
  BY <1>1, <1>2, SameStage
<1>4. r \in asked /\ ~Coded(r) /\ ~Granted(r)
  BY StagesApart
<1>5. Stage(r) = "waiting" /\ Stage(r)' = "over"
  BY <1>1, <1>2, <1>4, StageTold, StageToldNext DEF Told
<1> QED  BY <1>3, <1>5 DEF Forward

LEMMA ApproveForward ==
  ASSUME Inv, [Next]_vars, NEW c \in Calls, Approve(c)
  PROVE  Nothing \/ \E r \in Requests : Forward(r)
<1>1. CASE pending[call[c].request] = None
  BY <1>1, NothingHappens DEF Approve
<1>2. CASE pending[call[c].request] # None
  <2>1. call[c].pc = "approving" /\ call[c].wish \in Posts
    BY DEF Approve, Inv, CallsOK
  <2>2. PICK r \in asked : r \in Requests /\ r = call[c].request
    BY <2>1 DEF Inv, CallsOK, TypeOK
  <2>3. codes[c] = None
    <3>1. call[c].code = None
      BY <2>1 DEF Inv, CallsOK
    <3> QED  BY <3>1 DEF Inv, CodesOK
  <2>4. /\ pending' = [pending EXCEPT ![r] = None] /\ codes' = [codes EXCEPT ![c] = r]
        /\ UNCHANGED <<asked, access, refresh>>
    BY <1>2, <2>2 DEF Approve, Withdraw
  <2>5. /\ pending \in [Requests -> Clients \cup {None}]
        /\ codes \in [Calls -> Requests \cup {None}]
    BY DEF Inv, TypeOK
  <2>6. ASSUME NEW s \in Requests \ {r} PROVE Stage(s)' = Stage(s)
    <3>1. Coded(s)' <=> Coded(s)
      BY <2>3, <2>4, <2>5 DEF Coded
    <3> QED  BY <2>4, <2>5, <3>1, SameStage, SameGranted
  <2>7. Stage(r) = "waiting"
    BY <1>2, <2>2, StageTold DEF Told
  <2>8. codes'[c] = r /\ pending'[r] = None
    BY <2>2, <2>4, <2>5
  <2>9. Stage(r)' = "approved"
    <3>1. Coded(r)'
      BY <2>8 DEF Coded
    <3> QED  BY <2>2, <3>1, StageToldNext DEF Told
  <2> QED  BY <2>2, <2>6, <2>7, <2>9 DEF Forward
<1> QED  BY <1>1, <1>2

LEMMA ExchangeForward ==
  ASSUME Inv, [Next]_vars, NEW c \in Calls, Exchange(c)
  PROVE  Nothing \/ \E r \in Requests : Forward(r)
<1> DEFINE k == call[c].used
<1>1. CASE codes[k] = None
  BY <1>1, NothingHappens DEF Exchange
<1>2. CASE codes[k] # None
  <2>1. call[c].pc = "exchanging" /\ call[c].answer = "none"
    BY DEF Exchange, Inv, CallsOK
  <2>2. PICK r \in Requests : k \in Calls /\ codes[k] = r /\ call[k].code = k /\ call[k].request = r
    BY <1>2, <2>1 DEF Inv, CallsOK, UsesOK, CodesOK, TypeOK
  <2>3. call[k].answer = "code"
    BY <2>2 DEF Inv, CallsOK
  <2>4. access[c] = None /\ refresh[c] = None
    BY <2>1 DEF Inv, RowsOK
  <2>5. /\ codes' = [codes EXCEPT ![k] = None]
        /\ access' = [access EXCEPT ![c] = c] /\ refresh' = [refresh EXCEPT ![c] = c]
        /\ Replies(c, "tokens") /\ UNCHANGED <<asked, pending>>
    BY <1>2 DEF Exchange, Spend
  <2>6. Types
    BY DEF Inv, TypeOK, Types
  <2>7. call'[k] = call[k]
    BY <2>2, <2>3, AnswersStay
  <2>8. call'[c].used = k
    BY <2>5, <2>6 DEF Replies, Types, CallState
  <2>9. RequestOf(c)' = r
    BY <2>2, <2>7, <2>8 DEF RequestOf
  <2>10. \A l \in Calls : codes[l] = r => l = k
    BY <1>2, <2>2 DEF Inv, CodesOK
  <2> HIDE DEF k
  <2>11. ASSUME NEW s \in Requests \ {r} PROVE Stage(s)' = Stage(s)
    <3>1. Coded(s)' <=> Coded(s)
      BY <2>2, <2>5, <2>6 DEF Coded, Types
    <3>2. Granted(s)' => Granted(s)
      <4> SUFFICES ASSUME NEW l \in Calls, NEW g \in {access'[l], refresh'[l]} \ {None},
                          RequestOf(g)' = s
                   PROVE  Granted(s)
        BY DEF Granted
      <4>1. l # c
        BY <2>5, <2>6, <2>9 DEF Types
      <4>2. g \in {access[l], refresh[l]} \ {None}
        BY <2>5, <2>6, <4>1 DEF Types
      <4> QED  BY <4>2, GrantStays DEF Granted
    <3>3. Granted(s) => Granted(s)'
      <4> SUFFICES ASSUME NEW l \in Calls, NEW g \in {access[l], refresh[l]} \ {None},
                          RequestOf(g) = s
                   PROVE  Granted(s)'
        BY DEF Granted
      <4>1. l # c
        BY <2>4
      <4>2. g \in {access'[l], refresh'[l]} \ {None}
        BY <2>5, <2>6, <4>1 DEF Types
      <4> QED  BY <4>2, GrantStays DEF Granted
    <3> QED  BY <2>5, <3>1, <3>2, <3>3, SameStage
  <2>12. Coded(r) /\ ~Coded(r)'
    <3>1. \A l \in Calls : codes'[l] # r
      BY <1>2, <2>5, <2>6, <2>10 DEF Types
    <3> QED  BY <2>2, <3>1 DEF Coded
  <2>13. r \in asked /\ pending[r] = None
    BY <2>2, <2>12, StagesApart
  <2>14. Granted(r)'
    <3>1. c \in {access'[c], refresh'[c]} \ {None}
      BY <2>5, <2>6 DEF Types
    <3> QED  BY <2>9, <3>1 DEF Granted
  <2>15. Stage(r) = "approved"
    BY <2>2, <2>12, StageTold DEF Told
  <2>16. Stage(r)' = "granted"
    BY <2>2, <2>14, StageToldNext DEF Told
  <2> QED  BY <2>2, <2>11, <2>15, <2>16 DEF Forward
<1> QED  BY <1>1, <1>2

\* The grant of a rotated token moves to the new row.
LEMMA RotateForward ==
  ASSUME Inv, [Next]_vars, NEW c \in Calls, Rotate(c)
  PROVE  Nothing
<1> DEFINE k == call[c].used
           h == refresh[k]
<1>1. CASE h = None
  BY <1>1, NothingHappens DEF Rotate
<1>2. CASE h # None
  <2>1. call[c].pc = "rotating" /\ call[c].answer = "none"
    BY DEF Rotate, Inv, CallsOK
  <2>2. k \in Calls
    BY <2>1 DEF Inv, CallsOK, UsesOK
  <2>3. access[c] = None /\ refresh[c] = None
    BY <2>1 DEF Inv, RowsOK
  <2>4. /\ access' = [access EXCEPT ![c] = h]
        /\ refresh' = [[refresh EXCEPT ![k] = None] EXCEPT ![c] = h]
        /\ UNCHANGED <<asked, pending, codes>>
    BY <1>2 DEF Rotate, Spend
  <2>5. access \in [Calls -> Calls \cup {None}] /\ refresh \in [Calls -> Calls \cup {None}]
    BY DEF Inv, TypeOK
  <2>6. refresh[k] = h
    OBVIOUS
  <2> HIDE DEF k, h
  <2>7. ASSUME NEW s \in Requests PROVE Granted(s)' <=> Granted(s)
    <3>1. ASSUME NEW l \in Calls, NEW g \in {access'[l], refresh'[l]} \ {None}, RequestOf(g)' = s
          PROVE  Granted(s)
      <4>1. \E m \in Calls : g \in {access[m], refresh[m]} \ {None}
        <5>1. CASE l = c
          BY <2>2, <2>4, <2>5, <2>6, <3>1, <5>1
        <5>2. CASE l # c
          BY <2>4, <2>5, <3>1, <5>2
        <5> QED  BY <5>1, <5>2
      <4> QED  BY <3>1, <4>1, GrantStays DEF Granted
    <3>2. ASSUME NEW l \in Calls, NEW g \in {access[l], refresh[l]} \ {None}, RequestOf(g) = s
          PROVE  Granted(s)'
      <4>1. l # c
        BY <2>3, <3>2
      <4>2. access'[l] = access[l] /\ (l # k => refresh'[l] = refresh[l]) /\ access'[c] = h
        BY <2>4, <2>5, <4>1
      <4>3. \E m \in Calls : g \in {access'[m], refresh'[m]} \ {None}
        BY <2>6, <3>2, <4>2
      <4> QED  BY <3>2, <4>3, GrantStays DEF Granted
    <3> QED  BY <3>1, <3>2 DEF Granted
  <2> QED  BY <2>4, <2>7, SameStage DEF Nothing, Coded
<1> QED  BY <1>1, <1>2

\* Rows of the grant g go, and of no other.
LEMMA RowsLost ==
  ASSUME Inv, [Next]_vars, UNCHANGED <<asked, pending, codes>>,
         NEW k \in Calls, NEW g \in {access[k], refresh[k]} \ {None},
         \A l \in Calls : /\ access'[l] # access[l] => access[l] = g /\ access'[l] = None
                          /\ refresh'[l] # refresh[l] => refresh[l] = g /\ refresh'[l] = None
  PROVE  \E r \in Requests : Forward(r)
<1>1. PICK r \in Requests : r = RequestOf(g) /\ r \in asked /\ pending[r] = None /\ ~Coded(r)
  BY GrantFacts
<1>2. Granted(r)
  BY <1>1 DEF Granted
<1>3. ASSUME NEW s \in Requests \ {r} PROVE Stage(s)' = Stage(s)
  <2>1. ASSUME NEW l \in Calls, NEW h \in {access'[l], refresh'[l]} \ {None}, RequestOf(h)' = s
        PROVE  Granted(s)
    <3>1. access'[l] \in {access[l], None} /\ refresh'[l] \in {refresh[l], None}
      OBVIOUS
    <3>2. h \in {access[l], refresh[l]} \ {None}
      BY <3>1
    <3> QED  BY <2>1, <3>2, GrantStays DEF Granted
  <2>2. ASSUME NEW l \in Calls, NEW h \in {access[l], refresh[l]} \ {None}, RequestOf(h) = s
        PROVE  Granted(s)'
    <3>1. h # g
      BY <1>1, <1>3, <2>2
    <3>2. /\ h = access[l] => access'[l] = h
          /\ h = refresh[l] => refresh'[l] = h
      BY <3>1
    <3>3. h \in {access'[l], refresh'[l]} \ {None}
      BY <3>2
    <3> QED  BY <2>2, <3>3, GrantStays DEF Granted
  <2>3. Granted(s)' <=> Granted(s)
    BY <2>1, <2>2 DEF Granted
  <2> QED  BY <2>3, SameStage DEF Coded
<1>4. Stage(r) = "granted"
  BY <1>1, <1>2, StageTold DEF Told
<1>5. Stage(r)' \in {"granted", "over"}
  <2>1. r \in asked' /\ pending'[r] = None /\ ~Coded(r)'
    BY <1>1 DEF Coded
  <2> QED  BY <1>1, <2>1, StageToldNext DEF Told
<1> QED  BY <1>1, <1>3, <1>4, <1>5 DEF Forward

LEMMA RevokeForward ==
  ASSUME Inv, [Next]_vars, NEW c \in Calls, Revoke(c)
  PROVE  Nothing \/ \E r \in Requests : Forward(r)
<1> DEFINE k == call[c].used
           g == IF call[c].wish = "revoke access" THEN access[k] ELSE refresh[k]
<1>1. CASE g = None
  BY <1>1, NothingHappens DEF Revoke
<1>2. CASE g # None
  <2>1. k \in Calls
    BY DEF Revoke, Inv, CallsOK, UsesOK
  <2>2. g \in {access[k], refresh[k]} \ {None}
    BY <1>2
  <2>3. DeleteGrant(g) /\ UNCHANGED <<asked, pending, codes>>
    BY <1>2 DEF Revoke
  <2> HIDE DEF k, g
  <2>4. \A l \in Calls : /\ access'[l] # access[l] => access[l] = g /\ access'[l] = None
                         /\ refresh'[l] # refresh[l] => refresh[l] = g /\ refresh'[l] = None
    BY <2>3 DEF DeleteGrant, WithoutGrant
  <2> QED  BY <2>1, <2>2, <2>3, <2>4, RowsLost
<1> QED  BY <1>1, <1>2

LEMMA ExpireForward ==
  ASSUME Inv, [Next]_vars, NEW k \in Calls, Expire(k)
  PROVE  \E r \in Requests : Forward(r)
<1>1. /\ codes \in [Calls -> Requests \cup {None}]
      /\ access \in [Calls -> Calls \cup {None}] /\ refresh \in [Calls -> Calls \cup {None}]
  BY DEF Inv, TypeOK
<1>2. CASE codes[k] # None /\ codes' = [codes EXCEPT ![k] = None] /\ UNCHANGED <<access, refresh>>
  <2>1. PICK r \in Requests : codes[k] = r /\ Coded(r) /\ UNCHANGED <<asked, pending>>
    BY <1>1, <1>2 DEF Coded, Expire
  <2>2. r \in asked /\ pending[r] = None /\ ~Granted(r)
    BY <2>1, StagesApart
  <2>3. call[k].code = k /\ call[k].request = r
    BY <1>2, <2>1 DEF Inv, CodesOK
  <2>4. \A l \in Calls : codes[l] = r => l = k
    BY <2>1, <2>3 DEF Inv, CodesOK
  <2>5. ~Coded(r)'
    BY <1>1, <1>2, <2>1, <2>4 DEF Coded
  <2>6. ASSUME NEW s \in Requests \ {r} PROVE Stage(s)' = Stage(s)
    <3>1. Coded(s)' <=> Coded(s)
      BY <1>1, <1>2, <2>1 DEF Coded
    <3> QED  BY <1>2, <2>1, <3>1, SameStage, SameGranted
  <2>7. ~Granted(r)'
    BY <1>2, <2>2, SameGranted
  <2>8. Stage(r) = "approved"
    BY <2>1, StageTold DEF Told
  <2>9. Stage(r)' = "over"
    BY <2>1, <2>2, <2>5, <2>7, StageToldNext DEF Told
  <2> QED  BY <2>1, <2>6, <2>8, <2>9 DEF Forward
<1>3. CASE access[k] # None /\ access' = [access EXCEPT ![k] = None] /\ UNCHANGED <<codes, refresh>>
  <2> DEFINE g == access[k]
  <2>1. g \in {access[k], refresh[k]} \ {None}
    BY <1>3
  <2>2. \A l \in Calls : /\ access'[l] # access[l] => access[l] = g /\ access'[l] = None
                         /\ refresh'[l] = refresh[l]
    BY <1>1, <1>3
  <2>3. UNCHANGED <<asked, pending, codes>>
    BY <1>3 DEF Expire
  <2> QED  BY <2>1, <2>2, <2>3, RowsLost
<1>4. CASE refresh[k] # None /\ refresh' = [refresh EXCEPT ![k] = None] /\ UNCHANGED <<codes, access>>
  <2> DEFINE g == refresh[k]
  <2>1. g \in {access[k], refresh[k]} \ {None}
    BY <1>4
  <2>2. \A l \in Calls : /\ access'[l] = access[l]
                         /\ refresh'[l] # refresh[l] => refresh[l] = g /\ refresh'[l] = None
    BY <1>1, <1>4
  <2>3. UNCHANGED <<asked, pending, codes>>
    BY <1>4 DEF Expire
  <2> QED  BY <2>1, <2>2, <2>3, RowsLost
<1> QED  BY <1>2, <1>3, <1>4 DEF Expire

LEMMA AuthorizeForward ==
  ASSUME Inv, [Next]_vars, NEW r \in Requests, NEW cl \in Clients, Authorize(r, cl)
  PROVE  Forward(r)
<1>1. pending \in [Requests -> Clients \cup {None}] /\ None \notin Clients
  BY DEF Inv, TypeOK
<1>2. /\ asked' = asked \cup {r} /\ r \notin asked /\ pending' = [pending EXCEPT ![r] = cl]
      /\ UNCHANGED <<codes, access, refresh>>
  BY DEF Authorize
<1>3. ASSUME NEW s \in Requests \ {r} PROVE Stage(s)' = Stage(s)
  BY <1>1, <1>2, SameStage, SameGranted DEF Coded
<1>4. Stage(r) = "new"
  BY <1>2, StageTold DEF Told
<1>5. pending'[r] # None /\ r \in asked'
  BY <1>1, <1>2
<1>6. Stage(r)' = "waiting"
  BY <1>5, StageToldNext DEF Told
<1> QED  BY <1>3, <1>4, <1>6 DEF Forward

LEMMA StepIsForward ==
  ASSUME Inv, [Next]_vars
  PROVE  Nothing \/ \E r \in Requests : Forward(r)
<1>1. ASSUME NEW c \in Calls, Deny(c) PROVE Nothing \/ \E r \in Requests : Forward(r)
  <2> DEFINE r == call[c].request
  <2>1. call[c].wish \in Posts
    BY <1>1 DEF Deny, Inv, CallsOK
  <2>2. r \in Requests
    BY <2>1 DEF Inv, TypeOK, CallsOK
  <2>3. CASE pending[r] = None
    BY <1>1, <2>3, NothingHappens DEF Deny
  <2>4. CASE pending[r] # None
    BY <1>1, <2>2, <2>4, WithdrawForward DEF Deny, Withdraw
  <2> QED  BY <2>3, <2>4
<1>2. ASSUME NEW r \in Requests, ExpirePending(r) PROVE Forward(r)
  BY <1>2, WithdrawForward DEF ExpirePending
<1>3. ASSUME UNCHANGED storeVars PROVE Nothing
  BY <1>3, NothingHappens DEF storeVars
<1>4. ASSUME NEW c \in Calls, NEW k \in Calls,
             \/ PresentCode(c, k) \/ PresentRefresh(c, k)
             \/ \E wish \in Revocations : PresentRevoked(c, k, wish)
      PROVE  Nothing
  BY <1>3, <1>4 DEF PresentCode, PresentRefresh, PresentRevoked, Starts
<1>5. ASSUME NEW c \in Calls,
             \/ \E r \in Requests, wish \in Posts : Post(c, r, wish)
             \/ Decide(c) \/ Retell(c) \/ StoreFails(c)
      PROVE  Nothing
  BY <1>3, <1>5 DEF Post, Decide, Retell, StoreFails
<1>6. ASSUME \/ \E r \in Requests : ForgetFailure(r)
             \/ Restart \/ UNCHANGED vars
      PROVE  Nothing
  BY <1>3, <1>6 DEF ForgetFailure, Restart, vars
<1>7. ASSUME NEW cl \in Clients, Register(cl) PROVE Nothing
  BY <1>7, NothingHappens DEF Register
<1> QED
  BY <1>1, <1>2, <1>4, <1>5, <1>6, <1>7, AuthorizeForward, ApproveForward, ExchangeForward,
     RotateForward, RevokeForward, ExpireForward
  DEF Next

\* Every request goes through its stages forward: approved once, turned into
\* tokens once, and never back once it is over, whatever calls overlap.
THEOREM ImplementsPromise == Spec => GrantKept
<1> DEFINE stage == [r \in Requests |-> Stage(r)]
<1>1. Init => Promise!GrantInit
  <2> SUFFICES ASSUME Init PROVE \A r \in Requests : Stage(r) = "new"
    BY Zenon DEF Promise!GrantInit
  <2> QED  BY InitInv, StageTold DEF Init, Told
<1>2. Inv /\ [Next]_vars => [Promise!GrantNext]_stage
  <2> SUFFICES ASSUME Inv, [Next]_vars PROVE [Promise!GrantNext]_stage
    OBVIOUS
  <2>1. CASE Nothing
    BY <2>1 DEF Nothing
  <2> QED  BY <2>1, StepIsForward, ForwardNext
<1> QED  BY <1>1, <1>2, Invariant, PTL DEF Spec, GrantKept, Promise!GrantSpec
=============================================================================
