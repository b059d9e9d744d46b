-------------------------- MODULE CurrentUserProofs ---------------------------
(***************************************************************************)
(* Machine-checked theorems of CurrentUser, for every set of callers,      *)
(* roles and repository calls.                                             *)
(***************************************************************************)
EXTENDS CurrentUser, UserRepositoryProofs

\* The ghost is up to date: a request that waits for its user has seen the
\* role the subject has now.
SeenNow == \A r \in Caller : req[r].at = "load" => /\ req[r].sub \in User
                                                   /\ RoleOf(req[r].sub) \in req[r].seen

\* Requests leave the repository alone: its theorems hold here.
THEOREM KeepsRepository == CurrentSpec => Spec
<1>1. CurrentInit => Init
  BY DEF CurrentInit
<1>2. [CurrentNext]_allVars => [Next]_vars
  BY DEF CurrentNext, allVars, vars, RepositoryStep, LoginPair, Expire, Decode, LoadUser, Respond
<1> QED BY <1>1, <1>2, PTL DEF CurrentSpec, Spec

LEMMA ColumnType ==
    ASSUME TypeOK, NEW u \in User
    PROVE  RoleOf(u) \in Data \union {None} /\ (row[u] # NoRow => RoleOf(u) \in Data)
BY DEF TypeOK, RoleOf, Row, NoRow

\* What a request knows at each step (auth_service.py:143-158).
THEOREM RequestTypes == CurrentSpec => [](RequestOK /\ SeenNow)
<1>1. CurrentInit => RequestOK /\ SeenNow
  BY DEF CurrentInit, RequestOK, Answered, SeenNow, NoToken
<1>2. TypeOK /\ TypeOK' /\ RequestOK /\ SeenNow /\ [CurrentNext]_allVars => RequestOK' /\ SeenNow'
  <2> SUFFICES ASSUME TypeOK, TypeOK', RequestOK, SeenNow, [CurrentNext]_allVars
               PROVE  RequestOK' /\ SeenNow'
    OBVIOUS
  <2>1. ASSUME NEW r \in Caller, NEW u \in User, LoginPair(r, u) PROVE RequestOK' /\ SeenNow'
    <3>1. RoleOf(u) \in Data
      BY <2>1, ColumnType DEF LoginPair
    <3> QED BY <2>1, <3>1 DEF LoginPair, RequestOK, Asking, SeenNow, RoleOf, vars
  <2>2. ASSUME NEW r \in Caller, Expire(r) \/ Respond(r) PROVE RequestOK' /\ SeenNow'
    BY <2>2 DEF Expire, Respond, NoToken, RequestOK, Answered, SeenNow, RoleOf, vars
  <2>3. ASSUME NEW r \in Caller, Decode(r) PROVE RequestOK' /\ SeenNow'
    <3>1. req[r] \in Asking
      BY <2>3 DEF Decode, RequestOK, Answered, Verdicts
    <3>2. RoleOf(req[r].sub) \in Data \union {None}
      BY <3>1, ColumnType DEF Asking
    <3>3. req' = [req EXCEPT ![r] = [req[r] EXCEPT !.at = "load", !.seen = {RoleOf(req[r].sub)}]]
      BY <2>3, <3>1 DEF Decode, RequestOK
    <3>4. [req[r] EXCEPT !.at = "load", !.seen = {RoleOf(req[r].sub)}]
             \in Asking
      BY <3>1, <3>2 DEF Asking
    <3>5. req'[r].sub = req[r].sub /\ req'[r].seen = {RoleOf(req[r].sub)}
      BY <3>1, <3>3 DEF RequestOK, Asking
    <3>6. row' = row
      BY <2>3 DEF Decode, vars
    <3>7. RequestOK'
      BY <3>3, <3>4 DEF RequestOK
    <3>8. ASSUME NEW q \in Caller, req'[q].at = "load"
          PROVE  req'[q].sub \in User /\ row[req'[q].sub].data \in req'[q].seen
      <4>1. CASE q = r
        BY <3>1, <3>5, <4>1 DEF Asking, RoleOf
      <4>2. CASE q # r
        <5>1. req'[q] = req[q]
          BY <3>3, <4>2 DEF RequestOK
        <5> QED BY <3>8, <5>1 DEF SeenNow, RoleOf
      <4> QED BY <4>1, <4>2
    <3> QED BY <3>6, <3>7, <3>8 DEF SeenNow, RoleOf
  <2>4. ASSUME NEW r \in Caller, LoadUser(r) PROVE RequestOK' /\ SeenNow'
    <3>1. PICK v \in Verdicts : req' = [req EXCEPT ![r] = [NoToken EXCEPT !.at = v]]
      BY <2>4 DEF LoadUser, RequireRole, Verdicts
    <3>2. UNCHANGED row
      BY <2>4 DEF LoadUser, vars
    <3> QED BY <3>1, <3>2 DEF NoToken, RequestOK, Answered, SeenNow, RoleOf, Verdicts
  <2>5. ASSUME RepositoryStep PROVE RequestOK' /\ SeenNow'
    <3>1. ASSUME NEW r \in Caller, req[r].at = "load"
          PROVE  /\ req'[r] = [req[r] EXCEPT !.seen = @ \union {row'[req[r].sub].data}]
                 /\ req[r] \in Asking
                 /\ row'[req[r].sub].data \in Data \union {None}
      <4>1. req[r] \in Asking
        BY <3>1 DEF RequestOK, Answered, Verdicts
      <4>2. row'[req[r].sub].data \in Data \union {None}
        BY <4>1 DEF TypeOK, Row, NoRow, Asking
      <4> QED BY <2>5, <3>1, <4>1, <4>2 DEF RepositoryStep, RoleOf
    <3>2. ASSUME NEW r \in Caller, req[r].at # "load" PROVE req'[r] = req[r]
      BY <2>5, <3>2 DEF RepositoryStep
    <3>3. ASSUME NEW r \in Caller PROVE req'[r] \in Answered \union Asking
      <4>1. CASE req[r].at = "load"
        <5>1. req'[r] = [req[r] EXCEPT !.seen = @ \union {row'[req[r].sub].data}]
          BY <3>1, <4>1
        <5>2. req[r] \in Asking /\ row'[req[r].sub].data \in Data \union {None}
          BY <3>1, <4>1
        <5> QED BY <5>1, <5>2 DEF Asking
      <4>2. CASE req[r].at # "load"
        BY <3>2, <4>2 DEF RequestOK
      <4> QED BY <4>1, <4>2
    <3>4. RequestOK'
      BY <2>5, <3>3 DEF RepositoryStep, RequestOK
    <3>5. ASSUME NEW r \in Caller, req'[r].at = "load"
          PROVE  req'[r].sub \in User /\ row'[req'[r].sub].data \in req'[r].seen
      <4>1. req[r].at = "load"
        BY <3>2, <3>5
      <4>2. req'[r] = [req[r] EXCEPT !.seen = @ \union {row'[req[r].sub].data}] /\ req[r] \in Asking
        BY <3>1, <4>1
      <4> QED BY <4>2 DEF Asking
    <3> QED BY <3>4, <3>5 DEF SeenNow, RoleOf
  <2>6. CASE UNCHANGED allVars
    BY <2>6 DEF allVars, RequestOK, SeenNow, RoleOf
  <2> QED BY <2>1, <2>2, <2>3, <2>4, <2>5, <2>6 DEF CurrentNext
<1>3. Spec => []TypeOK
  BY TypeCorrect
<1> QED BY <1>1, <1>2, <1>3, KeepsRepository, PTL DEF CurrentSpec

\* A request is judged by a role its account had while it ran.
THEOREM VerdictsDeserved == CurrentSpec => VerdictDeserved
<1>1. TypeOK /\ RequestOK /\ SeenNow /\ [CurrentNext]_allVars
        => [\A r \in Caller : req[r].at = "load" /\ req'[r].at \in Verdicts
                                 => Deserves(req'[r].at, req[r].seen)]_allVars
  <2> SUFFICES ASSUME TypeOK, RequestOK, SeenNow, CurrentNext, NEW r \in Caller,
                      req[r].at = "load", req'[r].at \in Verdicts
               PROVE  Deserves(req'[r].at, req[r].seen)
    OBVIOUS
  <2>1. RoleOf(req[r].sub) \in req[r].seen /\ req[r].sub \in User
    BY DEF SeenNow
  <2>2. LoadUser(r)
    <3>1. ASSUME NEW q \in Caller, NEW u \in User, LoginPair(q, u) PROVE FALSE
      BY <3>1 DEF LoginPair, RequestOK, Verdicts
    <3>2. ASSUME NEW q \in Caller, Expire(q) \/ Decode(q) \/ Respond(q) \/ (LoadUser(q) /\ q # r)
          PROVE  FALSE
      BY <3>2 DEF Expire, Decode, Respond, LoadUser, NoToken, RequestOK, Verdicts
    <3>3. ASSUME RepositoryStep PROVE FALSE
      <4>1. req[r] \in Asking
        BY DEF RequestOK, Answered, Verdicts
      <4> QED BY <3>3, <4>1 DEF RepositoryStep, Asking, Verdicts
    <3> QED BY <3>1, <3>2, <3>3 DEF CurrentNext
  <2>3. req'[r].at = IF row[req[r].sub] = NoRow THEN "unauthorized"
                     ELSE RequireRole(RoleOf(req[r].sub))
    BY <2>2 DEF LoadUser, NoToken, RequestOK
  <2>4. CASE row[req[r].sub] = NoRow
    BY <2>1, <2>3, <2>4 DEF Deserves, RoleOf, NoRow
  <2>5. CASE row[req[r].sub] # NoRow
    <3>1. RoleOf(req[r].sub) \in Data /\ RoleOf(req[r].sub) # None
      BY <2>1, <2>5, ColumnType, NoneAssumption
    <3> QED BY <2>1, <2>3, <2>5, <3>1 DEF Deserves, RequireRole
  <2> QED BY <2>4, <2>5
<1> QED BY <1>1, RequestTypes, KeepsRepository, TypeCorrect, PTL DEF CurrentSpec, VerdictDeserved
=============================================================================
