----------------------------- MODULE CurrentUser ------------------------------
(***************************************************************************)
(* A request by an access token: get_current_user                          *)
(* (domain/users/auth_service.py, api/deps.py) and then require_role, over *)
(* the users table while repository calls change it.  The role is a row's  *)
(* `data`; the token carries the role of the day it was issued.            *)
(*                                                                         *)
(* Between decode_token and get_by_id a request awaits is_blacklisted,     *)
(* which nobody makes true of an access token; after get_by_id it reads    *)
(* nothing that changes.  So it stops once, at "load".  A caller that uses *)
(* its token again is another one here.                                    *)
(***************************************************************************)
EXTENDS UserRepository

CONSTANTS Caller,    \* holders of an access token
          Allowed    \* the roles of a require_role(...)

ASSUME AllowedAssumption == Allowed \subseteq Data

VARIABLE req    \* req[r]: where r's request is, its token's subject and role
                \* claim, and (ghost) the roles the subject has had since
                \* decode_token, None for no account

allVars == <<row, spent, call, pc, old, req>>

NoToken == [at |-> "out", sub |-> None, claim |-> None, seen |-> {}]
Verdicts == {"ok", "forbidden", "unauthorized"}

Answered == [at : {"out"} \union Verdicts, sub : {None}, claim : {None}, seen : {{}}]
Asking == [at : {"ready", "load"}, sub : User, claim : Data, seen : SUBSET (Data \union {None})]
RequestOK == req \in [Caller -> Answered \union Asking]

CurrentInit == Init /\ req = [r \in Caller |-> NoToken]

RoleOf(u) == row[u].data

\* Mutant: a pair for an account nobody looked up.
LoginPairUnchecked(r, u) ==
    /\ req[r].at = "out"
    /\ req' = [req EXCEPT ![r] = [at |-> "ready", sub |-> u, claim |-> RoleOf(u), seen |-> {}]]
    /\ UNCHANGED vars

\* login() or refresh(): a pair for the row as it is read; or the pair expires.
LoginPair(r, u) ==
    /\ req[r].at = "out" /\ row[u] # NoRow
    /\ req' = [req EXCEPT ![r] = [at |-> "ready", sub |-> u, claim |-> RoleOf(u), seen |-> {}]]
    /\ UNCHANGED vars
Expire(r) ==
    /\ req[r].at = "ready"
    /\ req' = [req EXCEPT ![r] = NoToken]
    /\ UNCHANGED vars

\* decode_token accepts the token.
Decode(r) ==
    /\ req[r].at = "ready"
    /\ req' = [req EXCEPT ![r].at = "load", ![r].seen = {RoleOf(req[r].sub)}]
    /\ UNCHANGED vars

\* require_role, and the user that it asks.
RequireRole(role) == IF role \in Allowed THEN "ok" ELSE "forbidden"

\* Mutant: the user is made up from the token's claims.
LoadFromClaim(r) ==
    /\ req[r].at = "load"
    /\ req' = [req EXCEPT ![r] = [NoToken EXCEPT !.at = RequireRole(req[r].claim)]]
    /\ UNCHANGED vars

\* get_by_id, then the dependency's verdict.
LoadUser(r) ==
    /\ req[r].at = "load"
    /\ req' = [req EXCEPT ![r] = [NoToken EXCEPT !.at =
                 IF row[req[r].sub] = NoRow THEN "unauthorized"
                 ELSE RequireRole(RoleOf(req[r].sub))]]
    /\ UNCHANGED vars

\* The response, or an exception out of Redis or Postgres.
Respond(r) ==
    /\ req[r].at \in {"load"} \union Verdicts
    /\ req' = [req EXCEPT ![r] = NoToken]
    /\ UNCHANGED vars

\* A step of the repository, which the pending requests live through.
RepositoryStep ==
    /\ Next
    /\ req' = [r \in Caller |-> IF req[r].at = "load"
                                THEN [req[r] EXCEPT !.seen = @ \union {row'[req[r].sub].data}]
                                ELSE req[r]]

CurrentNext ==
    \/ RepositoryStep
    \/ \E r \in Caller : \/ \E u \in User : LoginPair(r, u)
                         \/ Expire(r) \/ Decode(r) \/ LoadUser(r) \/ Respond(r)

CurrentSpec == CurrentInit /\ [][CurrentNext]_allVars

-----------------------------------------------------------------------------
(* Properties                                                              *)

\* Each verdict is one that the account deserved at some instant of its
\* request: a demotion or deletion that was committed before the request began
\* is never overlooked, whatever role the token claims (auth_service.py:151-158,
\* deps.py:69-75).
Deserves(verdict, roles) ==
    \/ verdict = "ok" /\ roles \intersect Allowed # {}
    \/ verdict = "forbidden" /\ roles \ (Allowed \union {None}) # {}
    \/ verdict = "unauthorized" /\ None \in roles
VerdictDeserved ==
    [][\A r \in Caller : req[r].at = "load" /\ req'[r].at \in Verdicts
                            => Deserves(req'[r].at, req[r].seen)]_allVars
=============================================================================
