--------------------------------- MODULE OAuth ---------------------------------
(***************************************************************************)
(* The embedded OAuth authorization server (oauth.py): authorization       *)
(* requests that the owner approves or denies with a PIN, authorization    *)
(* codes, and access and refresh tokens.                                   *)
(*                                                                         *)
(* Each method of OAuthStore is one SQLite transaction, run in a thread    *)
(* while its HTTP request awaits it; other requests run in between.  So a  *)
(* call reads a row in one step (the approval page, or the loader the SDK  *)
(* calls first) and uses it in a later one.  Retried posts and requests    *)
(* sent twice are different calls that carry the same credential.          *)
(*                                                                         *)
(* Codes, tokens and grants are random strings; each is named by the call  *)
(* that drew it.  Expiry is the disappearance of a row: the queries do not *)
(* see it once its expires_at has passed.  (revoke does, until the row is  *)
(* pruned: then it does what it would have done before.)  Scopes, PKCE,    *)
(* redirect URIs and the client, issuer and resource a row is bound to are *)
(* left out: a query that does not match them finds no row.                *)
(***************************************************************************)
EXTENDS Naturals, FiniteSets

CONSTANTS
  Requests,      \* request ids that authorize may draw
  Clients,       \* client ids that registration may draw
  Calls,         \* HTTP requests to /approve, the token and revocation endpoints
  None,
  MaxClients,    \* max_registered_clients
  MaxPending,    \* max_pending_authorizations
  MaxPerClient,  \* max_pending_per_client
  PinLimit       \* the limit of PinAttemptLimiter

ASSUME NoneAssumption == None \notin Requests \cup Clients \cup Calls
ASSUME BoundsAssumption == {MaxClients, MaxPending, MaxPerClient, PinLimit} \subseteq Nat \ {0}

VARIABLES
  clients,    \* oauth_clients
  asked,      \* request ids drawn so far
  pending,    \* pending_authorizations: request -> its client, None without a row
  codes,      \* authorization_codes: code -> its request, None without a row
  access,     \* access_tokens: token -> its grant, None without a row
  refresh,    \* refresh_tokens: likewise
  failures,   \* PinAttemptLimiter._failures, counted; in memory
  call,       \* the HTTP requests, running or answered
  revoked     \* history: grants a revocation has deleted

storeVars == <<clients, asked, pending, codes, access, refresh>>
vars == <<storeVars, failures, call, revoked>>

Posts == {"approve", "deny", "guess"}     \* guess: approve with a wrong PIN
Revocations == {"revoke access", "revoke refresh"}
Wishes == Posts \cup Revocations \cup {"exchange", "rotate"}

Running == {"deciding", "approving", "retelling", "denying",
            "exchanging", "rotating", "revoking"}
Answers == {"none", "code", "denied", "tokens", "revoked", "refused"}

NoCall == [pc |-> "idle", wish |-> "none", request |-> None, known |-> FALSE,
           used |-> None, answer |-> "none", code |-> None]

CallState == [pc : Running \cup {"idle", "done"}, wish : Wishes \cup {"none"},
              request : Requests \cup {None}, known : BOOLEAN,
              used : Calls \cup {None}, answer : Answers, code : Calls \cup {None}]

Waiting == {r \in Requests : pending[r] # None}
WaitingFor(cl) == {r \in Requests : pending[r] = cl}

\* Types, and the bounds on what strangers can make the server keep: clients,
\* requests waiting in all and per client, wrong PINs per request.
TypeOK ==
  /\ clients \subseteq Clients /\ Cardinality(clients) <= MaxClients
  /\ asked \subseteq Requests
  /\ pending \in [Requests -> Clients \cup {None}]
  /\ Cardinality(Waiting) <= MaxPending
  /\ \A cl \in Clients : Cardinality(WaitingFor(cl)) <= MaxPerClient
  /\ codes \in [Calls -> Requests \cup {None}]
  /\ access \in [Calls -> Calls \cup {None}]
  /\ refresh \in [Calls -> Calls \cup {None}]
  /\ failures \in [Requests -> 0..PinLimit]
  /\ call \in [Calls -> CallState]
  /\ revoked \subseteq Calls

-----------------------------------------------------------------------------
(* Clients and requests *)

\* save_client_limited; nothing ever deletes a client.
Register(cl) ==
  /\ cl \in clients \/ Cardinality(clients) < MaxClients
  /\ clients' = clients \cup {cl}
  /\ UNCHANGED <<asked, pending, codes, access, refresh, failures, call, revoked>>

\* Mutant of HasRoom: off by one.
HasRoomForOneMore(cl) ==
  Cardinality(Waiting) <= MaxPending /\ Cardinality(WaitingFor(cl)) <= MaxPerClient

\* save_pending_limited, after it has pruned the expired rows.
HasRoom(cl) ==
  Cardinality(Waiting) < MaxPending /\ Cardinality(WaitingFor(cl)) < MaxPerClient

Authorize(r, cl) ==
  /\ cl \in clients /\ r \notin asked /\ HasRoom(cl)
  /\ asked' = asked \cup {r}
  /\ pending' = [pending EXCEPT ![r] = cl]
  /\ UNCHANGED <<clients, codes, access, refresh, failures, call, revoked>>

-----------------------------------------------------------------------------
(* Calls.  Each step is the code between two awaits, with the transaction   *)
(* it has awaited.  That an answer is computed does not say it arrives.     *)

Goes(c, pc) == call' = [call EXCEPT ![c].pc = pc]
Replies(c, answer) == call' = [call EXCEPT ![c].pc = "done", ![c].answer = answer]
TellsCode(c, k) ==
  call' = [call EXCEPT ![c].pc = "done", ![c].answer = "code", ![c].code = k]

\* A token call begins: pc, unless the loader of the SDK finds no row.
Starts(c, wish, k, row, pc, answer) ==
  /\ call[c].pc = "idle"
  /\ call' = [call EXCEPT ![c] = [NoCall EXCEPT
       !.wish = wish, !.used = k,
       !.pc = IF row = None THEN "done" ELSE pc,
       !.answer = IF row = None THEN answer ELSE "none"]]
  /\ UNCHANGED <<storeVars, failures, revoked>>

-----------------------------------------------------------------------------
(* POST /approve *)

\* approval_page loads the pending request.  Without one, only the right PIN
\* goes on, to be told about an earlier approval.
Post(c, r, wish) ==
  LET known == pending[r] # None   lost == ~known /\ wish # "approve" IN
  /\ call[c].pc = "idle" /\ r \in asked
  /\ call' = [call EXCEPT ![c] = [NoCall EXCEPT
       !.wish = wish, !.request = r, !.known = known,
       !.pc = IF known THEN "deciding" ELSE IF lost THEN "done" ELSE "approving",
       !.answer = IF lost THEN "refused" ELSE "none"]]
  /\ UNCHANGED <<storeVars, failures, revoked>>

\* After get_client: deny, or ask the limiter and compare the PIN.
Decide(c) ==
  LET r == call[c].request IN
  /\ call[c].pc = "deciding"
  /\ \/ /\ call[c].wish = "deny"
        /\ failures' = [failures EXCEPT ![r] = 0]
        /\ Goes(c, "denying")
     \/ /\ call[c].wish # "deny" /\ failures[r] >= PinLimit
        /\ Replies(c, "refused")
        /\ UNCHANGED failures
     \/ /\ call[c].wish = "approve" /\ failures[r] < PinLimit
        /\ failures' = [failures EXCEPT ![r] = 0]
        /\ Goes(c, "approving")
     \/ /\ call[c].wish = "guess" /\ failures[r] < PinLimit
        /\ failures' = [failures EXCEPT ![r] = @ + 1]
        /\ Replies(c, "refused")
  /\ UNCHANGED <<storeVars, revoked>>

\* Mutant of Withdraw: the pending row stays.
WithdrawNothing(r) == UNCHANGED pending

\* DELETE FROM pending_authorizations.
Withdraw(r) == pending' = [pending EXCEPT ![r] = None]

\* consume_pending_for_code: turns the row, if it is still there, into a code.
Approve(c) ==
  LET r == call[c].request IN
  /\ call[c].pc = "approving"
  /\ IF pending[r] = None
     THEN Goes(c, "retelling") /\ UNCHANGED <<pending, codes>>
     ELSE /\ Withdraw(r)
          /\ codes' = [codes EXCEPT ![c] = r]
          /\ TellsCode(c, c)
  /\ UNCHANGED <<clients, asked, access, refresh, failures, revoked>>

\* load_completed_approval: the code of an earlier approval, while it lives.
Retell(c) ==
  LET r == call[c].request IN
  /\ call[c].pc = "retelling"
  /\ \/ \E k \in Calls :
          /\ codes[k] = r
          /\ TellsCode(c, k)
          /\ failures' = IF call[c].known THEN failures ELSE [failures EXCEPT ![r] = 0]
     \/ /\ \A k \in Calls : codes[k] # r
        /\ Replies(c, "refused")
        /\ UNCHANGED failures
  /\ UNCHANGED <<storeVars, revoked>>

\* delete_pending: the row, if it is still there, is gone without a code.
Deny(c) ==
  LET r == call[c].request IN
  /\ call[c].pc = "denying"
  /\ IF pending[r] = None
     THEN Replies(c, "refused") /\ UNCHANGED pending
     ELSE Withdraw(r) /\ Replies(c, "denied")
  /\ UNCHANGED <<clients, asked, codes, access, refresh, failures, revoked>>

-----------------------------------------------------------------------------
(* The token and revocation endpoints *)

\* load_authorization_code, with a code that some post was told.
PresentCode(c, k) ==
  /\ \E d \in Calls : call[d].code = k
  /\ Starts(c, "exchange", k, codes[k], "exchanging", "refused")

\* load_refresh_token, with a token that some call was given.
PresentRefresh(c, k) ==
  /\ call[k].answer = "tokens"
  /\ Starts(c, "rotate", k, refresh[k], "rotating", "refused")

\* The loaders of the revocation endpoint; it answers 200 in any case.
PresentRevoked(c, k, wish) ==
  /\ call[k].answer = "tokens"
  /\ Starts(c, wish, k, IF wish = "revoke access" THEN access[k] ELSE refresh[k],
            "revoking", "revoked")

\* Mutant of Spend: the row stays.
SpendNothing(rows, k) == rows

\* DELETE FROM authorization_codes or refresh_tokens: single use.
Spend(rows, k) == [rows EXCEPT ![k] = None]

\* consume_code_and_issue_tokens: reads the code again and starts a grant.
Exchange(c) ==
  LET k == call[c].used IN
  /\ call[c].pc = "exchanging"
  /\ IF codes[k] = None
     THEN Replies(c, "refused") /\ UNCHANGED <<codes, access, refresh>>
     ELSE /\ codes' = Spend(codes, k)
          /\ access' = [access EXCEPT ![c] = c]
          /\ refresh' = [refresh EXCEPT ![c] = c]
          /\ Replies(c, "tokens")
  /\ UNCHANGED <<clients, asked, pending, failures, revoked>>

\* rotate_refresh: reads the token again and replaces it in its grant; older
\* access tokens of the grant stay.
Rotate(c) ==
  LET k == call[c].used IN
  /\ call[c].pc = "rotating"
  /\ IF refresh[k] = None
     THEN Replies(c, "refused") /\ UNCHANGED <<access, refresh>>
     ELSE /\ access' = [access EXCEPT ![c] = refresh[k]]
          /\ refresh' = [Spend(refresh, k) EXCEPT ![c] = refresh[k]]
          /\ Replies(c, "tokens")
  /\ UNCHANGED <<clients, asked, pending, codes, failures, revoked>>

WithoutGrant(rows, g) == [k \in Calls |-> IF rows[k] = g THEN None ELSE rows[k]]

\* Mutant of DeleteGrant: its refresh token stays.
DeleteAccess(g) == access' = WithoutGrant(access, g) /\ UNCHANGED refresh

DeleteGrant(g) == access' = WithoutGrant(access, g) /\ refresh' = WithoutGrant(refresh, g)

\* revoke: deletes the whole grant of the token, if its row is still there.
Revoke(c) ==
  LET k == call[c].used
      g == IF call[c].wish = "revoke access" THEN access[k] ELSE refresh[k]
  IN
  /\ call[c].pc = "revoking"
  /\ IF g = None THEN UNCHANGED <<access, refresh, revoked>>
     ELSE DeleteGrant(g) /\ revoked' = revoked \cup {g}
  /\ Replies(c, "revoked")
  /\ UNCHANGED <<clients, asked, pending, codes, failures>>

-----------------------------------------------------------------------------
(* Time and failure *)

\* A transaction of the call fails, as when the database stays locked, and is
\* rolled back.
StoreFails(c) ==
  /\ call[c].pc \in Running
  /\ Replies(c, "refused")
  /\ UNCHANGED <<storeVars, failures, revoked>>

\* Rows whose expires_at passes.
ExpirePending(r) ==
  /\ pending[r] # None
  /\ pending' = [pending EXCEPT ![r] = None]
  /\ UNCHANGED <<clients, asked, codes, access, refresh, failures, call, revoked>>

Expire(k) ==
  /\ \/ codes[k] # None /\ codes' = [codes EXCEPT ![k] = None] /\ UNCHANGED <<access, refresh>>
     \/ access[k] # None /\ access' = [access EXCEPT ![k] = None] /\ UNCHANGED <<codes, refresh>>
     \/ refresh[k] # None /\ refresh' = [refresh EXCEPT ![k] = None] /\ UNCHANGED <<codes, access>>
  /\ UNCHANGED <<clients, asked, pending, failures, call, revoked>>

\* PinAttemptLimiter._prune: the oldest failure leaves the window.
ForgetFailure(r) ==
  /\ failures[r] > 0
  /\ failures' = [failures EXCEPT ![r] = @ - 1]
  /\ UNCHANGED <<storeVars, call, revoked>>

\* The gateway restarts: the database stays.
Restart ==
  /\ failures' = [r \in Requests |-> 0]
  /\ call' = [c \in Calls |-> IF call[c].pc \in Running
                              THEN [call[c] EXCEPT !.pc = "done"] ELSE call[c]]
  /\ UNCHANGED <<storeVars, revoked>>

Init ==
  /\ clients = {} /\ asked = {} /\ revoked = {}
  /\ pending = [r \in Requests |-> None]
  /\ codes = [k \in Calls |-> None]
  /\ access = [k \in Calls |-> None]
  /\ refresh = [k \in Calls |-> None]
  /\ failures = [r \in Requests |-> 0]
  /\ call = [c \in Calls |-> NoCall]

Next ==
  \/ \E cl \in Clients : Register(cl) \/ \E r \in Requests : Authorize(r, cl)
  \/ \E c \in Calls, r \in Requests, wish \in Posts : Post(c, r, wish)
  \/ \E c, k \in Calls :
       \/ PresentCode(c, k)
       \/ PresentRefresh(c, k)
       \/ \E wish \in Revocations : PresentRevoked(c, k, wish)
  \/ \E c \in Calls :
       \/ Decide(c) \/ Approve(c) \/ Retell(c) \/ Deny(c)
       \/ Exchange(c) \/ Rotate(c) \/ Revoke(c)
       \/ StoreFails(c) \/ Expire(c)
  \/ \E r \in Requests : ExpirePending(r) \/ ForgetFailure(r)
  \/ Restart

Spec == Init /\ [][Next]_vars

-----------------------------------------------------------------------------
(* Properties *)

\* The posts of one request are all told the same: one code, or one of them
\* that it is denied.
OneVerdict ==
  \A c, d \in Calls :
    /\ call[c].request = call[d].request
    /\ call[c].answer \in {"code", "denied"} /\ call[d].answer \in {"code", "denied"}
    => call[c].code = call[d].code /\ (call[c].answer = "denied" => c = d)

\* A code, or a refresh token, is answered with tokens once.
SpentOnce ==
  \A c, d \in Calls :
    /\ call[c].answer = "tokens" /\ call[d].answer = "tokens"
    /\ call[c].wish = call[d].wish /\ call[c].used = call[d].used
    => c = d

\* A grant has one refresh token at most, and no token once it is revoked:
\* a rotation that overlaps the revocation does not bring it back.
OneFamily ==
  \A k, l \in Calls :
    /\ refresh[k] # None /\ refresh[k] = refresh[l] => k = l
    /\ {access[k], refresh[k]} \cap revoked = {}

\* All three: no credential is good twice, however its requests overlap.
CredentialsSpent == OneVerdict /\ SpentOnce /\ OneFamily

\* The request a grant g goes back to, through the code its exchange used.
RequestOf(g) == call[call[g].used].request
Granted(r) == \E k \in Calls : \E g \in {access[k], refresh[k]} \ {None} : RequestOf(g) = r

\* What GrantPromise sees of the tables.
Stage(r) ==
  CASE r \notin asked -> "new"
    [] pending[r] # None -> "waiting"
    [] \E k \in Calls : codes[k] = r -> "approved"
    [] Granted(r) -> "granted"
    [] OTHER -> "over"

\* The tables keep the promise of GrantPromise.
Promise == INSTANCE GrantPromise WITH stage <- [r \in Requests |-> Stage(r)]
GrantKept == Promise!GrantSpec
=============================================================================
