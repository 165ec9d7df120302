------------------------------ MODULE GrantPromise ------------------------------
(***************************************************************************)
(* What the authorization server promises about one authorization request: *)
(* it waits for the owner once, is approved at most once, its code is      *)
(* turned into tokens at most once, and when it is denied, expired or      *)
(* revoked nothing brings it back.                                         *)
(***************************************************************************)
CONSTANT Requests

VARIABLE stage   \* per request

Stages == {"new", "waiting", "approved", "granted", "over"}

\* Where a request may go from each stage: always forward.
After == [new      |-> {"waiting"},
          waiting  |-> {"approved", "over"},
          approved |-> {"granted", "over"},
          granted  |-> {"over"},
          over     |-> {}]

GrantInit == stage = [r \in Requests |-> "new"]

Proceed(r, s) ==
  /\ s \in After[stage[r]]
  /\ stage' = [stage EXCEPT ![r] = s]

GrantNext == \E r \in Requests : \E s \in Stages : Proceed(r, s)

GrantSpec == GrantInit /\ [][GrantNext]_stage
=============================================================================
