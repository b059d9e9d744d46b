-------------------------- MODULE AuthServiceProofs --------------------------
(***************************************************************************)
(* Machine-checked theorems of AuthService, for every set of accounts,     *)
(* slots and grants, every token lifetime and clock resolution.            *)
(***************************************************************************)
EXTENDS AuthService, TLAPS

USE NoneAssumption, ClockAssumption

\* The values the actions build are of the declared types.
LEMMA BuiltTypes ==
    /\ Idle \in Handler /\ NoKey \in Instant
    /\ Unissued \in Pair
    /\ \A u \in User : [Idle EXCEPT !.at = "email", !.who = u] \in Handler
    /\ \A g \in Grant : [Idle EXCEPT !.at = "check", !.tok = g] \in Handler
    /\ \A g \in Grant, n \in Nat :
          [Idle EXCEPT !.at = "logout", !.tok = g, !.ttl = n] \in Handler
<1>1. Idle \in Handler /\ NoKey \in Instant /\ Unissued \in Pair
  BY DEF Idle, Handler, NoKey, Instant, Unissued, Pair, At
<1>2. ASSUME NEW u \in User PROVE [Idle EXCEPT !.at = "email", !.who = u] \in Handler
  BY DEF Idle, Handler, At
<1>3. ASSUME NEW g \in Grant PROVE [Idle EXCEPT !.at = "check", !.tok = g] \in Handler
  BY DEF Idle, Handler, At
<1>4. ASSUME NEW g \in Grant, NEW n \in Nat
      PROVE  [Idle EXCEPT !.at = "logout", !.tok = g, !.ttl = n] \in Handler
  BY DEF Idle, Handler, At
<1> QED BY <1>1, <1>2, <1>3, <1>4

\* What truncation leaves of a TTL: it reaches exp, or falls short of it by one
\* second when the clock is past the beginning of a second.
LEMMA RevokeTtlBounds ==
    ASSUME TypeOK, NEW g \in Grant
    PROVE  /\ RevokeTtl(g) \in Nat /\ RevokeTtl(g) >= 1
           /\ \/ now.sec + RevokeTtl(g) >= Exp(g)
              \/ now.sec + RevokeTtl(g) = Exp(g) - 1 /\ now.sub > 0
<1>1. now.sec \in Nat /\ now.sub \in Nat /\ grant[g].iat \in Nat
  BY DEF TypeOK, Instant, Pair
<1> QED BY <1>1 DEF RevokeTtl, Exp

\* Only the fields an action assigns change, and to values of their type.
LEMMA ReqType ==
    ASSUME TypeOK, NEW r \in Req
    PROVE  /\ req[r] \in Handler
           /\ \A at \in At : Goto(r, at) => req' \in [Req -> Handler]
           /\ End(r) => req' \in [Req -> Handler]
<1>1. \A at \in At : [req[r] EXCEPT !.at = at] \in Handler
  BY DEF TypeOK, Handler
<1> QED BY <1>1, BuiltTypes DEF Goto, End, TypeOK

\* A new pair is of the declared type.
LEMMA IssueType ==
    ASSUME TypeOK, NEW r \in Req, NEW u \in User, NEW from \in Grant \union {None},
           Issue(r, u, from)
    PROVE  grant' \in [Grant -> Pair]
<1>1. [sub |-> u, iat |-> now.sec, from |-> from, by |-> r] \in Pair
  BY DEF TypeOK, Instant, Pair
<1> QED BY <1>1 DEF Issue, TypeOK

\* An issued grant is never rewritten.
LEMMA IssueEffect ==
    ASSUME TypeOK, NEW r \in Req, NEW u \in User, NEW from \in Grant \union {None},
           Issue(r, u, from)
    PROVE  \E n \in Grant :
              /\ ~Issued(n) /\ Issued(n)'
              /\ grant'[n] = [sub |-> u, iat |-> now.sec, from |-> from, by |-> r]
              /\ \A g \in Grant \ {n} : grant'[g] = grant[g]
<1>1. PICK n \in Grant : /\ ~Issued(n)
                         /\ grant' = [grant EXCEPT ![n] =
                              [sub |-> u, iat |-> now.sec, from |-> from, by |-> r]]
  BY DEF Issue
<1> QED BY <1>1 DEF TypeOK, Issued

\* How a step can change one handler; the rest of req stays.
LEMMA GotoEffect ==
    ASSUME TypeOK, NEW r \in Req
    PROVE  /\ \A at \in At : Goto(r, at) =>
                 /\ req'[r] = [req[r] EXCEPT !.at = at]
                 /\ \A s \in Req \ {r} : req'[s] = req[s]
           /\ End(r) => req'[r] = Idle /\ \A s \in Req \ {r} : req'[s] = req[s]
BY DEF TypeOK, Goto, End

\* Sane depends on which tokens handlers hold and which grants are issued.
LEMMA SaneFrame ==
    ASSUME TypeOK, Sane,
           \A g \in Grant : Issued(g) => grant'[g] = grant[g],
           \A g \in Grant : grant'[g] = grant[g]
                \/ grant'[g].from = None \/ (Issued(g)' /\ grant'[grant'[g].from].sub # None),
           \A g \in revoked' : g \in revoked \/ Issued(g),
           revoked' \subseteq Grant,
           \A r \in Req :
              \/ req'[r] = req[r]
              \/ req'[r].at = "idle"
              \/ /\ req'[r].at \notin {"email", "password"}
                 /\ req'[r].tok \in Grant /\ Issued(req'[r].tok)
              \/ req'[r].at \in {"email", "password"} /\ req'[r].who \in User
    PROVE  Sane'
<1>1. \A g \in Grant : Issued(g) => grant'[g].sub # None
  BY DEF Issued
<1>2. ASSUME NEW r \in Req
      PROVE  /\ HoldsToken(r)' => req'[r].tok \in Grant /\ grant'[req'[r].tok].sub # None
             /\ req'[r].at \in {"email", "password"} => req'[r].who \in User
  <2>1. CASE req'[r] = req[r]
    BY <1>1, <2>1 DEF Sane, HoldsToken
  <2>2. CASE req'[r] # req[r]
    BY <1>1, <2>2 DEF HoldsToken
  <2> QED BY <2>1, <2>2
<1>3. ASSUME NEW g \in Grant, grant'[g].from # None
      PROVE  Issued(g)' /\ grant'[grant'[g].from].sub # None
  <2>1. CASE grant'[g] = grant[g]
    <3>1. Issued(g) /\ Issued(grant[g].from) /\ grant[g].from # None
      BY <1>3, <2>1 DEF Sane
    <3>2. grant[g].from \in Grant
      BY <3>1 DEF TypeOK, Pair
    <3> QED BY <1>1, <2>1, <3>1, <3>2 DEF Issued
  <2> QED BY <1>3, <2>1
<1>4. \A g \in revoked' : Issued(g)'
  BY <1>1 DEF Sane, Issued
<1> QED BY <1>2, <1>3, <1>4 DEF Sane, Issued

\* Every step keeps it: only Issue makes grants, from a token that is held.
LEMMA SaneStep == TypeOK /\ Sane /\ [Next]_vars => Sane'
<1> SUFFICES ASSUME TypeOK, Sane, [Next]_vars PROVE Sane'
  OBVIOUS
<1> DEFINE GrantsKept == UNCHANGED <<grant, revoked>>
           ReqOK(r) == \/ req'[r] = req[r]
                       \/ req'[r].at = "idle"
                       \/ /\ req'[r].at \notin {"email", "password"}
                          /\ req'[r].tok \in Grant /\ Issued(req'[r].tok)
                       \/ req'[r].at \in {"email", "password"} /\ req'[r].who \in User
<1>1. ASSUME GrantsKept, \A r \in Req : ReqOK(r) PROVE Sane'
  BY <1>1, SaneFrame DEF TypeOK, Sane
<1>2. ASSUME \/ Tick \/ UNCHANGED vars
             \/ \E g \in Grant : LoseKey(g)
             \/ \E u \in User : Signup(u) \/ DeleteUser(u)
      PROVE  Sane'
  <2>1. UNCHANGED <<grant, revoked, req>>
    BY <1>2 DEF Tick, LoseKey, vars, Signup, DeleteUser
  <2> QED BY <1>1, <2>1
<1>3. ASSUME NEW r \in Req, Start(r) PROVE Sane'
  <2>1. CASE \E u \in User : LoginStart(r, u)
    BY <1>1, <2>1 DEF LoginStart, TypeOK, Idle
  <2>2. CASE \E g \in Grant : RefreshStart(r, g) \/ LogoutStart(r, g)
    <3>1. PICK g \in Grant : RefreshStart(r, g) \/ LogoutStart(r, g)
      BY <2>2
    <3>2. /\ req'[r].at \in {"check", "logout"} /\ req'[r].tok = g
          /\ \A s \in Req \ {r} : req'[s] = req[s]
      BY <3>1, ZenonT(30) DEF RefreshStart, LogoutStart, TypeOK, Idle
    <3>3. Issued(g) /\ GrantsKept
      BY <3>1 DEF RefreshStart, LogoutStart, Accepted
    <3> QED BY <1>1, <3>2, <3>3
  <2> QED BY <1>3, <2>1, <2>2 DEF Start
<1>4. ASSUME NEW r \in Req, LoadByEmail(r) \/ Check(r) \/ LoadById(r) \/ Abort(r)
      PROVE  Sane'
  <2>1. /\ GrantsKept
        /\ \/ End(r)
           \/ Goto(r, "password") /\ req[r].at = "email"
           \/ \E at \in {"load", "revoke", "late"} : Goto(r, at) /\ HoldsToken(r)
    BY <1>4 DEF LoadByEmail, Check, LoadById, Abort, HoldsToken
  <2>2. req[r] \in Handler /\ Idle.at = "idle"
    BY DEF TypeOK, Idle
  <2>3. CASE End(r)
    BY <1>1, <2>1, <2>2, <2>3, GotoEffect
  <2>4. CASE Goto(r, "password") /\ req[r].at = "email"
    <3>A. req'[r] = [req[r] EXCEPT !.at = "password"] /\ req[r].who \in User
      BY <2>4, GotoEffect DEF Sane, At
    <3>1. req'[r].at = "password" /\ req'[r].who \in User
      BY <2>2, <3>A DEF Handler
    <3> QED BY <1>1, <2>1, <2>4, <3>1, GotoEffect DEF At
  <2>5. ASSUME NEW at \in {"load", "revoke", "late"}, Goto(r, at), HoldsToken(r)
        PROVE  Sane'
    <3>A. req'[r] = [req[r] EXCEPT !.at = at] /\ req[r].tok \in Grant /\ Issued(req[r].tok)
      BY <2>5, GotoEffect DEF Sane, At
    <3>1. req'[r].at = at /\ req'[r].tok \in Grant /\ Issued(req'[r].tok)
      BY <2>2, <3>A DEF Handler
    <3> QED BY <1>1, <2>1, <2>5, <3>1, GotoEffect, ZenonT(30) DEF At
  <2> QED BY <2>1, <2>3, <2>4, <2>5
<1>5. ASSUME NEW r \in Req, Revoke(r) PROVE Sane'
  <2>1. req[r].tok \in Grant /\ Issued(req[r].tok)
    BY <1>5 DEF Revoke, Sane, HoldsToken
  <2>2. /\ req'[r].at = "set" /\ req'[r].tok = req[r].tok
        /\ \A s \in Req \ {r} : req'[s] = req[s]
    BY <1>5 DEF Revoke, TypeOK, Handler
  <2> QED BY <1>1, <1>5, <2>1, <2>2 DEF Revoke
<1>6. ASSUME NEW r \in Req, Blacklist(r) PROVE Sane'
  <2>1. req[r].tok \in Grant /\ Issued(req[r].tok)
    BY <1>6 DEF Blacklist, Sane, HoldsToken
  <2>2. req[r] \in Handler /\ Idle.at = "idle"
    BY DEF TypeOK, Idle
  <2>3. \A s \in Req : ReqOK(s)
    <3>1. CASE End(r)
      BY <2>2, <3>1, GotoEffect
    <3>2. CASE Goto(r, "issue")
      <4>1. req'[r] = [req[r] EXCEPT !.at = "issue"] /\ \A s \in Req \ {r} : req'[s] = req[s]
        BY <3>2, GotoEffect DEF At
      <4>2. req'[r].at = "issue" /\ req'[r].tok = req[r].tok
        BY <2>2, <4>1 DEF Handler
      <4> QED BY <2>1, <4>1, <4>2
    <3> QED BY <1>6, <3>1, <3>2 DEF Blacklist
  <2>4. grant' = grant /\ revoked' \subseteq revoked \union {req[r].tok}
    BY <1>6 DEF Blacklist
  <2> QED BY <2>1, <2>3, <2>4, SaneFrame DEF TypeOK
<1>7. ASSUME NEW r \in Req, NEW u \in User, NEW from \in Grant \union {None},
             Issue(r, u, from), End(r), revoked' = revoked,
             from # None => Issued(from)
      PROVE  Sane'
  <2>1. PICK n \in Grant :
              /\ ~Issued(n) /\ Issued(n)'
              /\ grant'[n] = [sub |-> u, iat |-> now.sec, from |-> from, by |-> r]
              /\ \A g \in Grant \ {n} : grant'[g] = grant[g]
    BY <1>7, IssueEffect
  <2>2. \A g \in Grant : Issued(g) => grant'[g] = grant[g]
    BY <2>1
  <2>3. from # None => Issued(from)'
    BY <1>7, <2>2 DEF Issued
  <2>4. \A s \in Req : ReqOK(s)
    BY <1>7, GotoEffect DEF Idle
  <2>5. \A g \in Grant : grant'[g] = grant[g] \/ grant'[g].from = None
                            \/ (Issued(g)' /\ grant'[grant'[g].from].sub # None)
    BY <2>1, <2>3 DEF Issued
  <2> QED BY <1>7, <2>2, <2>4, <2>5, SaneFrame DEF TypeOK
<1>8. ASSUME NEW r \in Req, LoginDone(r) PROVE Sane'
  <2>1. req[r].who \in User
    BY <1>8 DEF LoginDone, Sane
  <2>2. CASE Issue(r, req[r].who, None)
    BY <1>7, <1>8, <2>1, <2>2 DEF LoginDone
  <2>3. CASE UNCHANGED grant
    BY <1>1, <1>8, <2>3, GotoEffect DEF LoginDone, Idle
  <2> QED BY <1>8, <2>2, <2>3 DEF LoginDone
<1>9. ASSUME NEW r \in Req, RefreshDone(r) PROVE Sane'
  <2>1. req[r].tok \in Grant /\ Issued(req[r].tok) /\ grant[req[r].tok].sub \in User
    BY <1>9 DEF RefreshDone, Sane, HoldsToken, Issued, TypeOK, Pair
  <2> QED BY <1>7, <1>9, <2>1 DEF RefreshDone
<1> QED BY <1>2, <1>3, <1>4, <1>5, <1>6, <1>8, <1>9 DEF Next, Step

\* Type correctness, with the facts about which fields are set when.
THEOREM TypeCorrect == Spec => [](TypeOK /\ Sane)
<1>1. Init => TypeOK /\ Sane
  <2> SUFFICES ASSUME Init PROVE TypeOK /\ Sane
    OBVIOUS
  <2>1. now \in Instant
    BY DEF Init, Instant
  <2>2. TypeOK
    BY <2>1, BuiltTypes DEF Init, TypeOK
  <2>3. Sane
    BY DEF Init, Sane, HoldsToken, Idle, Unissued
  <2> QED BY <2>2, <2>3
<1>2. TypeOK /\ Sane /\ [Next]_vars => TypeOK'
  <2> SUFFICES ASSUME TypeOK, Sane, [Next]_vars PROVE TypeOK'
    OBVIOUS
  <2> USE ReqType
  <2>1. ASSUME Tick PROVE TypeOK'
    <3>1. now' \in Instant
      <4>1. now \in [sec : Nat, sub : 0..(SubTicks - 1)]
        BY DEF TypeOK, Instant
      <4>2. CASE now.sub < SubTicks - 1
        BY <2>1, <4>1, <4>2 DEF Tick, Instant
      <4>3. CASE ~(now.sub < SubTicks - 1)
        BY <2>1, <4>1, <4>3 DEF Tick, Instant
      <4> QED BY <4>2, <4>3
    <3> QED BY <2>1, <3>1 DEF Tick, TypeOK
  <2>2. ASSUME NEW u \in User, Signup(u) \/ DeleteUser(u) PROVE TypeOK'
    BY <2>2 DEF Signup, DeleteUser, TypeOK
  <2>3. ASSUME NEW r \in Req, NEW u \in User, LoginStart(r, u) PROVE TypeOK'
    BY <2>3, BuiltTypes DEF LoginStart, TypeOK
  <2>4. ASSUME NEW r \in Req, NEW g \in Grant, RefreshStart(r, g) PROVE TypeOK'
    BY <2>4, BuiltTypes DEF RefreshStart, TypeOK
  <2>5. ASSUME NEW r \in Req, NEW g \in Grant, LogoutStart(r, g) PROVE TypeOK'
    BY <2>5, BuiltTypes, RevokeTtlBounds DEF LogoutStart, TypeOK
  <2>6. ASSUME NEW r \in Req, LoadByEmail(r) \/ Check(r) \/ LoadById(r) \/ Abort(r)
        PROVE  TypeOK'
    <3>1. "password" \in At /\ "load" \in At /\ "revoke" \in At /\ "late" \in At
      BY DEF At
    <3> QED BY <2>6, <3>1 DEF LoadByEmail, Check, LoadById, Abort, TypeOK
  <2>7. ASSUME NEW r \in Req, Revoke(r) PROVE TypeOK'
    <3>1. req[r].tok \in Grant
      BY <2>7 DEF Revoke, Sane, HoldsToken
    <3>2. [req[r] EXCEPT !.at = "set", !.ttl = RevokeTtl(req[r].tok)] \in Handler
      BY <3>1, RevokeTtlBounds DEF Handler, At
    <3>3. req' = [req EXCEPT ![r] = [req[r] EXCEPT !.at = "set", !.ttl = RevokeTtl(req[r].tok)]]
      BY <2>7 DEF Revoke, TypeOK
    <3> QED BY <2>7, <3>2, <3>3 DEF Revoke, TypeOK
  <2>8. ASSUME NEW r \in Req, Blacklist(r) PROVE TypeOK'
    <3>1. req[r].tok \in Grant /\ req[r].ttl \in Nat
      BY <2>8 DEF Blacklist, Sane, HoldsToken, Handler
    <3>2. [now EXCEPT !.sec = @ + req[r].ttl] \in Instant
      BY <3>1 DEF TypeOK, Instant
    <3>3. key' \in [Grant -> Instant] /\ revoked' \in SUBSET Grant /\ loggedOut' \in SUBSET Grant
      BY <2>8, <3>1, <3>2 DEF Blacklist, TypeOK
    <3>4. req' \in [Req -> Handler]
      BY <2>8 DEF Blacklist, At
    <3> QED BY <2>8, <3>3, <3>4 DEF Blacklist, TypeOK
  <2>9. ASSUME NEW r \in Req, LoginDone(r) PROVE TypeOK'
    <3>1. req[r].who \in User
      BY <2>9 DEF LoginDone, Sane
    <3>2. grant' \in [Grant -> Pair]
      BY <2>9, <3>1, IssueType DEF LoginDone, TypeOK
    <3> QED BY <2>9, <3>2 DEF LoginDone, TypeOK
  <2>10. ASSUME NEW r \in Req, RefreshDone(r) PROVE TypeOK'
    <3>1. req[r].tok \in Grant /\ grant[req[r].tok].sub \in User
      BY <2>10 DEF RefreshDone, Sane, HoldsToken, Issued, TypeOK, Pair
    <3>2. grant' \in [Grant -> Pair]
      BY <2>10, <3>1, IssueType DEF RefreshDone
    <3> QED BY <2>10, <3>2 DEF RefreshDone, TypeOK
  <2>11. CASE UNCHANGED vars
    BY <2>11 DEF vars, TypeOK
  <2>12. ASSUME NEW r \in Req, Step(r) PROVE TypeOK'
    BY <2>6, <2>7, <2>8, <2>9, <2>10, <2>12 DEF Step
  <2>13. ASSUME NEW r \in Req, Start(r) PROVE TypeOK'
    BY <2>3, <2>4, <2>5, <2>13 DEF Start
  <2>14. ASSUME NEW g \in Grant, LoseKey(g) PROVE TypeOK'
    BY <2>14, BuiltTypes DEF LoseKey, TypeOK
  <2> QED BY <2>1, <2>2, <2>11, <2>12, <2>13, <2>14 DEF Next
<1> QED BY <1>1, <1>2, SaneStep, PTL DEF Spec

-----------------------------------------------------------------------------
\* What one step does to the clock, the grants and the blacklist.
LEMMA StepEffect ==
    ASSUME TypeOK, Sane, [Next]_vars
    PROVE  /\ \/ now' = now
              \/ now'.sec = now.sec /\ now'.sub = now.sub + 1
              \/ now'.sec = now.sec + 1
           /\ \E n \in Grant \union {None} :
                 /\ \A g \in Grant \ {n} : grant'[g] = grant[g]
                 /\ n # None => ~Issued(n)
                 /\ n # None /\ grant'[n].from # None =>
                       \E r \in Req : /\ req[r].at = "issue" /\ req'[r] = Idle
                                      /\ grant'[n].from = req[r].tok
                                      /\ grant'[n].by = r
           /\ \A g \in revoked' :
                 \/ g \in revoked /\ key'[g] = key[g]
                 \/ /\ now' = now
                    /\ \E r \in Req :
                         /\ req[r].at \in {"set", "logout", "late"} /\ req[r].tok = g
                         /\ key'[g] = [sec |-> now.sec + req[r].ttl, sub |-> now.sub]
                 \/ g \in revoked /\ key'[g] = NoKey /\ g \in lost'
           /\ revoked \subseteq revoked' /\ lost \subseteq lost'
<1> DEFINE Quiet == UNCHANGED <<now, grant, key, revoked, lost>>
<1>1. CASE Quiet
  BY <1>1
<1>2. ASSUME (\E u \in User : Signup(u) \/ DeleteUser(u))
             \/ (\E r \in Req : Start(r)) \/ UNCHANGED vars
      PROVE  Quiet
  BY <1>2 DEF Signup, DeleteUser, Start, LoginStart, RefreshStart, LogoutStart, vars
<1>3. ASSUME NEW r \in Req,
             LoadByEmail(r) \/ Check(r) \/ LoadById(r) \/ Revoke(r) \/ Abort(r)
      PROVE  Quiet
  BY <1>3 DEF LoadByEmail, Check, LoadById, Revoke, Abort
<1>4. CASE Tick
  <2>1. UNCHANGED <<grant, key, revoked, lost>>
    BY <1>4 DEF Tick
  <2>2. \/ now'.sec = now.sec /\ now'.sub = now.sub + 1
        \/ now'.sec = now.sec + 1
    BY <1>4 DEF Tick, TypeOK, Instant
  <2> QED BY <2>1, <2>2
<1>5. ASSUME NEW r \in Req, Blacklist(r)
      PROVE  /\ UNCHANGED <<now, grant, lost>> /\ revoked \subseteq revoked'
             /\ \A g \in revoked' :
                  \/ g \in revoked /\ key'[g] = key[g]
                  \/ /\ req[r].at \in {"set", "logout", "late"} /\ req[r].tok = g
                     /\ key'[g] = [sec |-> now.sec + req[r].ttl, sub |-> now.sub]
  <2>1. [now EXCEPT !.sec = @ + req[r].ttl] = [sec |-> now.sec + req[r].ttl, sub |-> now.sub]
    BY DEF TypeOK, Instant
  <2>2. req[r].tok \in Grant /\ req[r].at \in {"set", "logout", "late"}
    BY <1>5 DEF Blacklist, Sane, HoldsToken
  <2>3. CASE req[r].ttl > 0
    <3>1. /\ key' = [key EXCEPT ![req[r].tok] = [sec |-> now.sec + req[r].ttl, sub |-> now.sub]]
          /\ revoked' = revoked \union {req[r].tok}
      BY <1>5, <2>1, <2>3 DEF Blacklist
    <3> QED BY <1>5, <2>2, <3>1 DEF Blacklist, TypeOK
  <2>4. CASE ~(req[r].ttl > 0)
    BY <1>5, <2>4 DEF Blacklist
  <2> QED BY <2>3, <2>4
<1>6. ASSUME NEW r \in Req, NEW u \in User, NEW from \in Grant \union {None},
             Issue(r, u, from), from # None => req[r].at = "issue" /\ from = req[r].tok, End(r)
      PROVE  \E n \in Grant :
                 /\ \A g \in Grant \ {n} : grant'[g] = grant[g]
                 /\ ~Issued(n)
                 /\ grant'[n].from # None => /\ req[r].at = "issue" /\ req'[r] = Idle
                                            /\ grant'[n].from = req[r].tok
                                            /\ grant'[n].by = r
  <2>1. req'[r] = Idle
    BY <1>6, GotoEffect
  <2>2. PICK n \in Grant :
              /\ ~Issued(n) /\ Issued(n)'
              /\ grant'[n] = [sub |-> u, iat |-> now.sec, from |-> from, by |-> r]
              /\ \A g \in Grant \ {n} : grant'[g] = grant[g]
    BY <1>6, IssueEffect
  <2> QED BY <1>6, <2>1, <2>2
<1>7. CASE \E r \in Req : Blacklist(r)
  <2>1. PICK r \in Req : Blacklist(r)
    BY <1>7
  <2>2. /\ UNCHANGED <<now, grant, lost>> /\ revoked \subseteq revoked'
        /\ \A g \in revoked' :
                  \/ g \in revoked /\ key'[g] = key[g]
                  \/ /\ req[r].at \in {"set", "logout", "late"} /\ req[r].tok = g
                     /\ key'[g] = [sec |-> now.sec + req[r].ttl, sub |-> now.sub]
    BY <1>5, <2>1
  <2> QED BY <2>2
<1>8. CASE \E r \in Req : LoginDone(r)
  <2>1. PICK r \in Req : LoginDone(r)
    BY <1>8
  <2>2. req[r].who \in User /\ UNCHANGED <<now, key, revoked, lost>>
    BY <2>1 DEF LoginDone, Sane
  <2>3. CASE Issue(r, req[r].who, None)
    <3>1. PICK n \in Grant : /\ \A g \in Grant \ {n} : grant'[g] = grant[g]
                             /\ ~Issued(n) /\ grant'[n].from = None
      <4>1. PICK n \in Grant :
                  /\ ~Issued(n) /\ Issued(n)'
                  /\ grant'[n] = [sub |-> req[r].who, iat |-> now.sec, from |-> None, by |-> r]
                  /\ \A g \in Grant \ {n} : grant'[g] = grant[g]
        BY <2>2, <2>3, IssueEffect
      <4> QED BY <4>1
    <3> QED BY <2>2, <3>1
  <2>4. CASE UNCHANGED grant
    BY <1>1, <2>2, <2>4
  <2> QED BY <2>1, <2>3, <2>4 DEF LoginDone
<1>9. CASE \E r \in Req : RefreshDone(r)
  <2>1. PICK r \in Req : RefreshDone(r)
    BY <1>9
  <2>2. /\ req[r].tok \in Grant /\ grant[req[r].tok].sub \in User
        /\ UNCHANGED <<now, key, revoked, lost>>
    BY <2>1 DEF RefreshDone, Sane, HoldsToken, Issued, TypeOK, Pair
  <2>3. Issue(r, grant[req[r].tok].sub, req[r].tok) /\ End(r) /\ req[r].at = "issue"
    BY <2>1 DEF RefreshDone
  <2>4. PICK n \in Grant :
                 /\ \A g \in Grant \ {n} : grant'[g] = grant[g]
                 /\ ~Issued(n)
                 /\ grant'[n].from # None => /\ req[r].at = "issue" /\ req'[r] = Idle
                                            /\ grant'[n].from = req[r].tok
                                            /\ grant'[n].by = r
    BY <1>6, <2>2, <2>3
  <2> QED BY <2>2, <2>4
<1>10. CASE \E g \in Grant : LoseKey(g)
  <2>1. UNCHANGED <<now, grant, revoked>> /\ lost \subseteq lost'
    BY <1>10 DEF LoseKey
  <2>2. \A g \in Grant : key'[g] = key[g] \/ (key'[g] = NoKey /\ g \in lost')
    BY <1>10 DEF LoseKey, TypeOK
  <2>3. revoked \subseteq Grant
    BY DEF TypeOK
  <2> QED BY <2>1, <2>2, <2>3
<1> QED BY <1>1, <1>2, <1>3, <1>4, <1>7, <1>8, <1>9, <1>10 DEF Next, Step

\* What one step does to a handler.
LEMMA HandlerEffect ==
    ASSUME TypeOK, Sane, [Next]_vars, NEW r \in Req
    PROVE  /\ req'[r].at \in {"load", "revoke", "set", "issue"} =>
                 /\ req'[r].tok = req[r].tok
                 /\ \/ req[r].at \in {"load", "revoke", "set", "issue"}
                    \/ req[r].at = "check" /\ ~Blacklisted(req[r].tok)
           /\ req'[r].at = "issue" =>
                 \/ req'[r] = req[r]
                 \/ Blacklist(r) /\ req'[r].tok = req[r].tok /\ req[r].at = "set"
           /\ req'[r].at \in {"set", "logout", "late"} =>
                 \/ /\ req[r].at \in {"set", "logout", "late"}
                    /\ req'[r].tok = req[r].tok /\ req'[r].ttl = req[r].ttl
                 \/ /\ UNCHANGED <<now, grant>>
                    /\ req'[r].tok \in Grant /\ req'[r].ttl = RevokeTtl(req'[r].tok)
<1> DEFINE Goal == /\ req'[r].at \in {"load", "revoke", "set", "issue"} =>
                         /\ req'[r].tok = req[r].tok
                         /\ \/ req[r].at \in {"load", "revoke", "set", "issue"}
                            \/ req[r].at = "check" /\ ~Blacklisted(req[r].tok)
                   /\ req'[r].at = "issue" =>
                         \/ req'[r] = req[r]
                         \/ Blacklist(r) /\ req'[r].tok = req[r].tok /\ req[r].at = "set"
                   /\ req'[r].at \in {"set", "logout", "late"} =>
                         \/ /\ req[r].at \in {"set", "logout", "late"}
                            /\ req'[r].tok = req[r].tok /\ req'[r].ttl = req[r].ttl
                         \/ /\ UNCHANGED <<now, grant>>
                            /\ req'[r].tok \in Grant /\ req'[r].ttl = RevokeTtl(req'[r].tok)
<1>1. CASE req'[r] = req[r]
  BY <1>1
<1>2. CASE req'[r].at \in {"idle", "email", "password", "check"}
  BY <1>2
<1>3. ASSUME NEW at \in At, Goto(r, at)
      PROVE  req'[r].at = at /\ req'[r].tok = req[r].tok /\ req'[r].ttl = req[r].ttl
  <2>1. req[r] \in Handler /\ req'[r] = [req[r] EXCEPT !.at = at]
    BY <1>3, GotoEffect DEF TypeOK
  <2> QED BY <2>1 DEF Handler
<1>4. End(r) => Goal
  BY <1>2, GotoEffect DEF Idle
<1>5. ASSUME NEW s \in Req, s # r, Start(s) \/ Step(s) PROVE req'[r] = req[r]
  BY <1>5 DEF TypeOK, Start, LoginStart, RefreshStart, LogoutStart, Step, LoadByEmail, LoginDone,
          Check, LoadById, Revoke, Blacklist, RefreshDone, Abort, Goto, End
<1>6. ASSUME \/ Tick \/ UNCHANGED vars
             \/ \E g \in Grant : LoseKey(g)
             \/ \E u \in User : Signup(u) \/ DeleteUser(u)
      PROVE  req'[r] = req[r]
  BY <1>6 DEF Tick, LoseKey, Signup, DeleteUser, vars
<1>7. ASSUME Start(r) PROVE Goal
  <2>1. ASSUME NEW u \in User, LoginStart(r, u) PROVE Goal
    <3>1. req'[r].at = "email"
      BY <2>1 DEF LoginStart, TypeOK, Idle
    <3> QED BY <1>2, <3>1
  <2>2. ASSUME NEW g \in Grant, RefreshStart(r, g) PROVE Goal
    <3>1. req'[r].at = "check"
      BY <2>2 DEF RefreshStart, TypeOK, Idle
    <3> QED BY <1>2, <3>1
  <2>3. ASSUME NEW g \in Grant, LogoutStart(r, g) PROVE Goal
    <3>1. req'[r].at = "logout" /\ req'[r].tok = g /\ req'[r].ttl = RevokeTtl(g)
          /\ UNCHANGED <<now, grant>>
      BY <2>3 DEF LogoutStart, TypeOK, Idle
    <3> QED BY <3>1
  <2> QED BY <1>7, <2>1, <2>2, <2>3 DEF Start
<1>8. ASSUME LoadByEmail(r) \/ LoginDone(r) \/ RefreshDone(r) PROVE Goal
  <2>1. End(r) \/ Goto(r, "password")
    BY <1>8 DEF LoadByEmail, LoginDone, RefreshDone
  <2>2. Goto(r, "password") => req'[r].at = "password"
    BY <1>3 DEF At
  <2> QED BY <1>2, <1>4, <2>1, <2>2
<1>9. ASSUME Check(r) \/ LoadById(r) \/ Blacklist(r) \/ Abort(r) PROVE Goal
  <2>1. CASE Goto(r, "load") /\ Check(r) /\ ~Blacklisted(req[r].tok)
    <3>1. req[r].at = "check"
      BY <2>1 DEF Check
    <3> QED BY <1>3, <2>1, <3>1 DEF At
  <2>2. CASE Goto(r, "revoke") /\ LoadById(r)
    <3>1. req[r].at = "load"
      BY <2>2 DEF LoadById
    <3> QED BY <1>3, <2>2, <3>1 DEF At
  <2>3. CASE Goto(r, "issue") /\ Blacklist(r) /\ req[r].at = "set"
    BY <1>3, <2>3 DEF At
  <2>4. CASE Goto(r, "late") /\ req[r].at \in {"set", "logout"}
    BY <1>3, <2>4 DEF At
  <2> QED BY <1>4, <1>9, <2>1, <2>2, <2>3, <2>4 DEF Check, LoadById, Blacklist, Abort
<1>10. ASSUME Revoke(r) PROVE Goal
  <2>1. /\ req'[r].at = "set" /\ req'[r].tok = req[r].tok /\ req[r].at = "revoke"
        /\ req'[r].ttl = RevokeTtl(req[r].tok) /\ UNCHANGED <<now, grant>>
    BY <1>10 DEF Revoke, TypeOK, Handler
  <2>2. req[r].tok \in Grant
    BY <2>1 DEF Sane, HoldsToken
  <2> QED BY <2>1, <2>2
<1>11. Start(r) \/ Step(r) => Goal
  BY <1>7, <1>8, <1>9, <1>10 DEF Step
<1> HIDE DEF Goal
<1>12. Goal
  BY <1>1, <1>5, <1>6, <1>11 DEF Next, Goal
<1> QED BY <1>12 DEF Goal

-----------------------------------------------------------------------------
\* Reaching the last second of a token's life is for ever, and so is having
\* lost its key.
LEMMA LastStable ==
    ASSUME TypeOK, TypeOK', Sane, [Next]_vars, NEW g \in Grant, Issued(g)
    PROVE  /\ grant'[g] = grant[g] /\ Exp(g)' = Exp(g) /\ Exp(g) \in Nat
           /\ Reusable(g) => Reusable(g)'
<1>1. grant'[g] = grant[g]
  BY StepEffect
<1>2. now.sec \in Nat /\ now'.sec \in Nat /\ now'.sec >= now.sec
  BY StepEffect DEF TypeOK, Instant
<1>3. grant[g].iat \in Nat
  BY DEF TypeOK, Pair
<1>4. Last(g) => Last(g)'
  BY <1>1, <1>2, <1>3 DEF Exp, Last
<1>5. lost \subseteq lost'
  BY StepEffect
<1> QED BY <1>1, <1>3, <1>4, <1>5 DEF Exp, Reusable

\* A revoked token that passes is_blacklisted is in its last second, or Redis
\* has lost its key.
LEMMA PassedCheck ==
    ASSUME TypeOK, Sane, KeyOutlasts, NEW g \in revoked, ~Blacklisted(g)
    PROVE  Reusable(g)
<1>1. /\ now.sec \in Nat /\ now.sub \in Nat /\ key[g].sec \in Nat /\ key[g].sub \in Nat
      /\ grant[g].iat \in Nat
  BY DEF TypeOK, Instant, Pair
<1> QED BY <1>1 DEF KeyOutlasts, Blacklisted, After, Reusable, Last, Exp

LEMMA RotationStep ==
    ASSUME TypeOK, TypeOK', RotationInv, Sane', [Next]_vars
    PROVE  RotationInv'
<1> USE DEF RotationInv
\* How a grant with a parent came to be, or that it was there.
<1>1. ASSUME NEW g \in Grant, grant'[g].from # None, grant'[g] # grant[g]
      PROVE  /\ \A h \in Grant \ {g} : grant'[h] = grant[h]
             /\ \E r \in Req : /\ req[r].at = "issue" /\ req'[r] = Idle
                               /\ grant'[g].from = req[r].tok /\ grant'[g].by = r
  BY <1>1, StepEffect
\* Reusable in the next state, for an argument of the next state.
<1> DEFINE ReusableNext(g) == now'.sec >= (grant'[g].iat + RefreshLife) - 1 \/ g \in lost'
<1>A. ASSUME NEW g \in Grant, Issued(g), Reusable(g) PROVE ReusableNext(g)
  <2>1. Reusable(g)'
    BY <1>A, LastStable
  <2> QED BY <2>1 DEF Reusable, Last, Exp
<1>2. RevokedBeforeIssued'
  <2> SUFFICES ASSUME NEW g \in Grant, Issued(g)', grant'[g].from # None
               PROVE  grant'[g].from \in revoked'
    BY DEF RevokedBeforeIssued
  <2>1. CASE grant'[g] = grant[g]
    BY <2>1, StepEffect DEF RevokedBeforeIssued, Issued
  <2>2. CASE grant'[g] # grant[g]
    BY <1>1, <2>2, StepEffect
  <2> QED BY <2>1, <2>2
<1>3. \A r \in Req : req'[r].at = "issue" => req'[r].tok \in revoked'
  <2> SUFFICES ASSUME NEW r \in Req, req'[r].at = "issue"
               PROVE  req'[r].tok \in revoked'
    OBVIOUS
  <2>1. CASE req'[r] = req[r]
    BY <2>1, StepEffect
  <2>2. CASE Blacklist(r) /\ req'[r].tok = req[r].tok /\ req[r].at = "set"
    <3>1. req[r].ttl \in Nat /\ req[r].ttl >= 1
      BY <2>2 DEF TtlSuffices, TypeOK, Handler
    <3> QED BY <2>2, <3>1 DEF Blacklist
  <2> QED BY <2>1, <2>2, HandlerEffect
<1>4. TtlSuffices'
  <2> SUFFICES ASSUME NEW r \in Req, req'[r].at \in {"set", "logout", "late"}
               PROVE  (/\ req[r].ttl >= 1
                       /\ \/ now.sec + req[r].ttl >= Exp(req[r].tok)
                          \/ now.sec + req[r].ttl = Exp(req[r].tok) - 1 /\ now.sub > 0)'
    BY DEF TtlSuffices
  <2>1. CASE /\ req[r].at \in {"set", "logout", "late"}
             /\ req'[r].tok = req[r].tok /\ req'[r].ttl = req[r].ttl
    <3>1. req[r].tok \in Grant /\ Issued(req[r].tok)
      BY <2>1 DEF Sane, HoldsToken
    <3>2. Exp(req[r].tok)' = Exp(req[r].tok) /\ Exp(req[r].tok) \in Nat
      BY <2>1, <3>1, LastStable DEF Exp
    <3>3. now.sec \in Nat /\ now.sub \in Nat /\ req[r].ttl \in Nat
      BY DEF TypeOK, Instant, Handler
    <3>4. /\ req[r].ttl >= 1
          /\ \/ now.sec + req[r].ttl >= Exp(req[r].tok)
             \/ now.sec + req[r].ttl = Exp(req[r].tok) - 1 /\ now.sub > 0
      BY <2>1 DEF TtlSuffices
    <3>5. \/ now' = now
          \/ now'.sec = now.sec /\ now'.sub = now.sub + 1
          \/ now'.sec = now.sec + 1
      BY StepEffect
    <3> QED BY <2>1, <3>2, <3>3, <3>4, <3>5
  <2>2. CASE /\ UNCHANGED <<now, grant>>
             /\ req'[r].tok \in Grant /\ req'[r].ttl = RevokeTtl(req'[r].tok)
    <3> DEFINE g == req'[r].tok
    <3>1. /\ RevokeTtl(g) >= 1
          /\ \/ now.sec + RevokeTtl(g) >= Exp(g)
             \/ now.sec + RevokeTtl(g) = Exp(g) - 1 /\ now.sub > 0
      BY <2>2, RevokeTtlBounds
    <3>2. Exp(req[r].tok)' = Exp(g)
      BY <2>2 DEF Exp
    <3> QED BY <2>2, <3>1, <3>2
  <2> QED BY <2>1, <2>2, HandlerEffect
<1>5. KeyOutlasts'
  <2> SUFFICES ASSUME NEW g \in revoked'
               PROVE  \/ key'[g] = NoKey /\ g \in lost'
                      \/ key'[g].sec >= Exp(g)
                      \/ key'[g].sec = Exp(g) - 1 /\ key'[g].sub > 0
    <3>1. \A g \in revoked' : g \in Grant /\ Exp(g)' = Exp(g)
      <4>1. ASSUME NEW g \in revoked' PROVE g \in Grant /\ Issued(g)
        <5>1. CASE g \in revoked
          BY <5>1 DEF TypeOK, Sane
        <5>2. ASSUME NEW r \in Req, req[r].at \in {"set", "logout", "late"}, req[r].tok = g
              PROVE  g \in Grant /\ Issued(g)
          BY <5>2 DEF Sane, HoldsToken
        <5> QED BY <4>1, <5>1, <5>2, StepEffect
      <4> QED BY <4>1, LastStable
    <3> QED BY <3>1 DEF KeyOutlasts
  <2>1. CASE g \in revoked /\ key'[g] = key[g]
    BY <2>1, StepEffect DEF KeyOutlasts
  <2>2. ASSUME NEW r \in Req, req[r].at \in {"set", "logout", "late"}, req[r].tok = g,
               key'[g] = [sec |-> now.sec + req[r].ttl, sub |-> now.sub]
        PROVE  \/ key'[g].sec >= Exp(g)
               \/ key'[g].sec = Exp(g) - 1 /\ key'[g].sub > 0
    BY <2>2 DEF TtlSuffices
  <2> QED BY <2>1, <2>2, StepEffect
<1>6. FirstUse'
  <2> SUFFICES ASSUME NEW r \in Req, NEW h \in Grant,
                      req'[r].at \in {"load", "revoke", "set", "issue"},
                      grant'[h].from = req'[r].tok, grant'[h].by = r
               PROVE  ReusableNext(req'[r].tok)
    BY DEF FirstUse, Reusable, Last, Exp
  <2>1. /\ req'[r].tok = req[r].tok
        /\ \/ req[r].at \in {"load", "revoke", "set", "issue"}
           \/ req[r].at = "check" /\ ~Blacklisted(req[r].tok)
    BY HandlerEffect
  <2>2. req[r].tok \in Grant /\ Issued(req[r].tok)
    BY <2>1 DEF Sane, HoldsToken
  <2>3. grant'[h] = grant[h]
    <3>1. SUFFICES ASSUME grant'[h] # grant[h] PROVE FALSE
      OBVIOUS
    <3>2. req'[r] = Idle
      BY <1>1, <2>1, <2>2, <3>1
    <3> QED BY <3>2 DEF Idle
  <2>4. Reusable(req[r].tok)
    <3>1. CASE req[r].at \in {"load", "revoke", "set", "issue"}
      BY <2>1, <2>3, <3>1 DEF FirstUse
    <3>2. CASE ~Blacklisted(req[r].tok)
      <4>1. req[r].tok \in revoked
        BY <2>1, <2>2, <2>3 DEF RevokedBeforeIssued, Sane
      <4> QED BY <3>2, <4>1, PassedCheck
    <3> QED BY <2>1, <3>1, <3>2
  <2> QED BY <1>A, <2>1, <2>2, <2>4
<1>7. OneRotation'
  <2> SUFFICES ASSUME NEW g \in Grant, NEW h \in Grant, g # h, Issued(g)', Issued(h)',
                      grant'[g].from = grant'[h].from, grant'[g].from # None,
                      grant'[g].by = grant'[h].by
               PROVE  ReusableNext(grant'[g].from)
    BY DEF OneRotation, Reusable, Last, Exp
  <2>1. ASSUME grant'[g].from \in Grant, Issued(grant'[g].from), Reusable(grant'[g].from)
        PROVE  ReusableNext(grant'[g].from)
    BY <1>A, <2>1
  <2>2. ASSUME NEW x \in Grant, NEW y \in Grant, x # y, grant'[x] # grant[x],
               grant'[x].from = grant'[y].from, grant'[x].from # None,
               grant'[x].by = grant'[y].by
        PROVE  Reusable(grant'[x].from) /\ Issued(grant'[x].from) /\ grant'[x].from \in Grant
    <3>1. PICK r \in Req : /\ req[r].at = "issue"
                          /\ grant'[x].from = req[r].tok /\ grant'[x].by = r
      BY <1>1, <2>2
    <3>2. grant'[y] = grant[y]
      BY <1>1, <2>2
    <3>3. Reusable(req[r].tok)
      BY <2>2, <3>1, <3>2 DEF FirstUse
    <3> QED BY <3>1, <3>3 DEF Sane, HoldsToken
  <2>3. CASE grant'[g] = grant[g] /\ grant'[h] = grant[h]
    <3>1. Issued(g) /\ Issued(h) /\ Issued(grant[g].from) /\ grant[g].from \in Grant
      BY <2>3 DEF Sane, TypeOK, Pair, Issued
    <3>2. Reusable(grant[g].from)
      BY <2>3, <3>1 DEF OneRotation
    <3> QED BY <2>3, <2>1, <3>1, <3>2
  <2>4. CASE grant'[g] # grant[g] \/ grant'[h] # grant[h]
    <3>1. Reusable(grant'[g].from) /\ Issued(grant'[g].from) /\ grant'[g].from \in Grant
      BY <2>2, <2>4
    <3> QED BY <2>1, <3>1
  <2> QED BY <2>3, <2>4
<1> QED BY <1>2, <1>3, <1>4, <1>5, <1>6, <1>7

\* However requests overlap and fail: what was rotated was blacklisted first, a
\* blacklist key outlasts its token but for less than its last second, and a
\* client that awaits its answers gets one pair out of a token; all of it up to
\* the keys that Redis loses.
THEOREM RotationInvariant == Spec => []RotationInv
<1>1. Init => RotationInv
  <2> SUFFICES ASSUME Init PROVE RotationInv
    OBVIOUS
  <2> QED BY DEF Init, RotationInv, Sane, HoldsToken, RevokedBeforeIssued, TtlSuffices, KeyOutlasts,
               FirstUse, OneRotation, Idle, Unissued, Issued
<1>2. TypeOK /\ TypeOK' /\ Sane /\ Sane' /\ RotationInv /\ [Next]_vars => RotationInv'
  BY RotationStep
<1> QED BY <1>1, <1>2, TypeCorrect, PTL DEF Spec

\* No pair comes out of a refresh whose token is not blacklisted first.
THEOREM RevokedFirst == Spec => []RevokedBeforeIssued
BY RotationInvariant, PTL DEF RotationInv

\* A blacklist key lasts into the last second before its token's exp, whichever
\* SET of it reached Redis last, unless Redis has lost it since.
THEOREM KeysOutlast == Spec => []KeyOutlasts
BY RotationInvariant, PTL DEF RotationInv

\* A slot that awaits its answers rotates a token once, unless Redis lost its key.
THEOREM RotatesOnce == Spec => []OneRotation
BY RotationInvariant, PTL DEF RotationInv

\* Up to its last second a revoked token never passes is_blacklisted again, but
\* for a key that Redis lost.
THEOREM RejectsReuse == Spec => ReuseRejected
<1>1. TypeOK /\ RotationInv /\ [Next]_vars =>
        [\A r \in Req : LET g == req[r].tok
                        IN  req[r].at = "check" /\ req'[r].at = "load" /\ g \in revoked \ lost
                               => now.sec >= Exp(g) - 1]_vars
  <2> SUFFICES ASSUME TypeOK, RotationInv, [Next]_vars, NEW r \in Req,
                      req[r].at = "check", req'[r].at = "load", req[r].tok \in revoked \ lost
               PROVE  now.sec >= Exp(req[r].tok) - 1
    OBVIOUS
  <2>1. ~Blacklisted(req[r].tok)
    BY HandlerEffect DEF RotationInv
  <2> QED BY <2>1, PassedCheck DEF RotationInv, Reusable, Last
<1> QED BY <1>1, TypeCorrect, RotationInvariant, PTL DEF Spec, ReuseRejected

-----------------------------------------------------------------------------
\* A handler that acts for u after a step did so before, unless u had a row.
LEMMA ActingEffect ==
    ASSUME TypeOK, Sane, [Next]_vars, NEW u \in User, user[u] # "live",
           NEW r \in Req, Acting(r, u)'
    PROVE  Acting(r, u)
<1> DEFINE Late(at) == at \in {"revoke", "set", "issue"}
<1>0. /\ req[r] \in Handler
      /\ \A g \in Grant : Issued(g) => grant'[g] = grant[g]
  BY StepEffect DEF TypeOK
<1>1. ASSUME req'[r] = req[r] PROVE Acting(r, u)
  <2>1. CASE req[r].at = "password" /\ req[r].who = u
    BY <2>1 DEF Acting
  <2>2. CASE Late(req[r].at) /\ grant'[req[r].tok].sub = u
    <3>1. req[r].tok \in Grant /\ Issued(req[r].tok)
      BY <2>2 DEF Sane, HoldsToken
    <3> QED BY <1>0, <2>2, <3>1 DEF Acting
  <2> QED BY <1>1, <2>1, <2>2 DEF Acting
<1>2. ASSUME Late(req[r].at), Late(req'[r].at), req'[r].tok = req[r].tok PROVE Acting(r, u)
  <2>1. req[r].tok \in Grant /\ Issued(req[r].tok)
    BY <1>2 DEF Sane, HoldsToken
  <2>2. grant'[req[r].tok].sub = u
    BY <1>2 DEF Acting
  <2> QED BY <1>0, <1>2, <2>1, <2>2 DEF Acting
<1>3. ASSUME req'[r].at \in {"idle", "email", "check", "load", "logout", "late"} PROVE FALSE
  BY <1>3 DEF Acting
<1>4. ASSUME NEW at \in At, Goto(r, at)
      PROVE  req'[r].at = at /\ req'[r].tok = req[r].tok /\ req'[r].who = req[r].who
  <2>1. req'[r] = [req[r] EXCEPT !.at = at]
    BY <1>4, GotoEffect
  <2> QED BY <1>0, <2>1 DEF Handler
<1>5. End(r) => req'[r].at = "idle"
  BY GotoEffect DEF Idle
<1>6. ASSUME NEW s \in Req, s # r, Start(s) \/ Step(s) PROVE req'[r] = req[r]
  BY <1>6 DEF TypeOK, Start, LoginStart, RefreshStart, LogoutStart, Step, LoadByEmail, LoginDone,
          Check, LoadById, Revoke, Blacklist, RefreshDone, Abort, Goto, End
<1>7. ASSUME \/ Tick \/ UNCHANGED vars
             \/ \E g \in Grant : LoseKey(g)
             \/ \E v \in User : Signup(v) \/ DeleteUser(v)
      PROVE  req'[r] = req[r]
  BY <1>7 DEF Tick, LoseKey, Signup, DeleteUser, vars
<1>8. Start(r) => req'[r].at \in {"email", "check", "logout"}
  BY DEF Start, LoginStart, RefreshStart, LogoutStart, TypeOK, Idle
<1>9. ASSUME LoadByEmail(r) PROVE Acting(r, u)
  <2>1. End(r) \/ (Goto(r, "password") /\ user[req[r].who] = "live")
    BY <1>9 DEF LoadByEmail
  <2>2. ASSUME Goto(r, "password"), user[req[r].who] = "live" PROVE FALSE
    BY <1>4, <2>2 DEF Acting, At
  <2> QED BY <1>3, <1>5, <2>1, <2>2
<1>10. ASSUME LoadById(r) PROVE Acting(r, u)
  <2>1. End(r) \/ (Goto(r, "revoke") /\ user[grant[req[r].tok].sub] = "live")
    BY <1>10 DEF LoadById
  <2>2. ASSUME Goto(r, "revoke"), user[grant[req[r].tok].sub] = "live" PROVE FALSE
    <3>1. grant' = grant /\ req'[r].at = "revoke" /\ req'[r].tok = req[r].tok
      BY <1>4, <1>10, <2>2 DEF LoadById, At
    <3>2. grant'[req'[r].tok].sub = u
      BY <3>1 DEF Acting
    <3> QED BY <2>2, <3>1, <3>2
  <2> QED BY <1>3, <1>5, <2>1, <2>2
<1>11. ASSUME Revoke(r) PROVE Acting(r, u)
  <2>1. req[r].at = "revoke" /\ req'[r].at = "set" /\ req'[r].tok = req[r].tok
    BY <1>0, <1>11 DEF Revoke, TypeOK, Handler
  <2> QED BY <1>2, <2>1
<1>12. ASSUME Check(r) \/ LoginDone(r) \/ Blacklist(r) \/ RefreshDone(r) \/ Abort(r)
       PROVE  Acting(r, u)
  <2>1. \/ End(r) \/ Goto(r, "load") \/ Goto(r, "late")
        \/ Goto(r, "issue") /\ req[r].at = "set"
    BY <1>12 DEF Check, LoginDone, Blacklist, RefreshDone, Abort
  <2>2. Goto(r, "issue") => req'[r].at = "issue" /\ req'[r].tok = req[r].tok
    BY <1>4 DEF At
  <2>3. /\ Goto(r, "load") => req'[r].at = "load"
        /\ Goto(r, "late") => req'[r].at = "late"
    BY <1>4 DEF At
  <2> QED BY <1>2, <1>3, <1>5, <2>1, <2>2, <2>3
<1>13. Start(r) \/ Step(r) => Acting(r, u)
  BY <1>3, <1>8, <1>9, <1>10, <1>11, <1>12 DEF Step
<1> QED BY <1>1, <1>6, <1>7, <1>13 DEF Next

\* A pair is issued for u by the last step of a request that acted for u.
LEMMA IssuesForActing ==
    ASSUME TypeOK, Sane, [Next]_vars, NEW g \in Grant, ~Issued(g), Issued(g)'
    PROVE  \E r \in Req : Acting(r, grant'[g].sub) /\ req'[r] = Idle
<1>1. \E r \in Req : \/ LoginDone(r) /\ Issue(r, req[r].who, None)
                     \/ RefreshDone(r)
  <2>1. grant' # grant
    BY DEF Issued
  <2> QED BY <2>1 DEF Next, Start, Step, Tick, LoseKey, Signup, DeleteUser, LoginStart, RefreshStart,
            LogoutStart, LoadByEmail, LoginDone, Check, LoadById, Revoke, Blacklist, Abort, vars
<1>2. PICK r \in Req : \/ LoginDone(r) /\ Issue(r, req[r].who, None)
                       \/ RefreshDone(r)
  BY <1>1
<1>3. req'[r] = Idle
  BY <1>2, GotoEffect DEF LoginDone, RefreshDone
<1>4. CASE LoginDone(r) /\ Issue(r, req[r].who, None)
  <2>1. req[r].at = "password" /\ req[r].who \in User
    BY <1>4 DEF LoginDone, Sane
  <2>2. PICK n \in Grant :
              /\ grant'[n] = [sub |-> req[r].who, iat |-> now.sec, from |-> None, by |-> r]
              /\ \A h \in Grant \ {n} : grant'[h] = grant[h]
    BY <1>4, <2>1, IssueEffect
  <2>3. g = n
    BY <2>2 DEF Issued
  <2> QED BY <1>3, <2>1, <2>2, <2>3 DEF Acting
<1>5. CASE RefreshDone(r)
  <2>1. /\ req[r].at = "issue" /\ req[r].tok \in Grant
        /\ grant[req[r].tok].sub \in User
        /\ Issue(r, grant[req[r].tok].sub, req[r].tok)
    BY <1>5 DEF RefreshDone, Sane, HoldsToken, Issued, TypeOK, Pair
  <2>2. PICK n \in Grant :
              /\ grant'[n] = [sub |-> grant[req[r].tok].sub, iat |-> now.sec,
                              from |-> req[r].tok, by |-> r]
              /\ \A h \in Grant \ {n} : grant'[h] = grant[h]
    BY <2>1, IssueEffect
  <2>3. g = n
    BY <2>2 DEF Issued
  <2> QED BY <1>3, <2>1, <2>2, <2>3 DEF Acting
<1> QED BY <1>2, <1>4, <1>5

\* A deleted account is acted for by the requests that had read it, each of which
\* issues at most one more pair, and by no other (auth_service.py:94-128).
THEOREM DeletionCloses == Spec => DeletedStaysOut
<1>1. TypeOK /\ Sane /\ [Next]_vars =>
        [\A u \in User : user[u] = "deleted" =>
            /\ \A r \in Req : Acting(r, u)' => Acting(r, u)
            /\ \A g \in Grant : ~Issued(g) /\ grant'[g].sub = u =>
                  \E r \in Req : Acting(r, u) /\ ~Acting(r, u)']_vars
  <2> SUFFICES ASSUME TypeOK, Sane, [Next]_vars, NEW u \in User, user[u] = "deleted"
               PROVE  /\ \A r \in Req : Acting(r, u)' => Acting(r, u)
                      /\ \A g \in Grant : ~Issued(g) /\ grant'[g].sub = u =>
                            \E r \in Req : Acting(r, u) /\ ~Acting(r, u)'
    OBVIOUS
  <2>1. \A r \in Req : Acting(r, u)' => Acting(r, u)
    BY ActingEffect
  <2>2. ASSUME NEW g \in Grant, ~Issued(g), grant'[g].sub = u
        PROVE  \E r \in Req : Acting(r, u) /\ ~Acting(r, u)'
    <3>1. Issued(g)'
      BY <2>2 DEF Issued
    <3>2. PICK r \in Req : Acting(r, u) /\ req'[r] = Idle
      BY <2>2, <3>1, IssuesForActing
    <3>3. ~Acting(r, u)'
      BY <3>2 DEF Acting, Idle
    <3> QED BY <3>2, <3>3
  <2> QED BY <2>1, <2>2
<1> QED BY <1>1, TypeCorrect, PTL DEF Spec, DeletedStaysOut

-----------------------------------------------------------------------------
\* What the mapping to the abstract rotation makes of a step that issues nothing
\* and spends nothing.
LEMMA AbstractFrame ==
    ASSUME TypeOK, TypeOK', Sane, [Next]_vars, grant' = grant
    PROVE  /\ Handed' = Handed /\ Lineage' = Lineage
           /\ Void \subseteq Void' /\ Void' \subseteq Handed
           /\ UNCHANGED <<now, lost>> => Void' = Void
<1>1. \A g \in Grant : /\ Issued(g)' <=> Issued(g)
                       /\ grant'[g] = grant[g] /\ Exp(g)' = Exp(g)
  BY DEF Issued, Exp
<1>2. Handed' = Handed /\ Lineage' = Lineage
  BY DEF Handed, Lineage, Issued
<1>3. \A g \in Handed : g \in Grant /\ Issued(g) /\ (Reusable(g) => Reusable(g)')
  BY LastStable DEF Handed
<1>4. UNCHANGED <<now, lost>> => \A g \in Handed : Reusable(g)' <=> Reusable(g)
  BY <1>1, <1>3 DEF Reusable, Last
<1>5. /\ Void = {g \in Handed : Reusable(g)}
      /\ Void' = {g \in Handed' : Reusable(g)'}
  BY DEF Void
<1> QED BY <1>2, <1>3, <1>4, <1>5

\* What it makes of a step that changes one handler.
LEMMA AbstractHandler ==
    ASSUME TypeOK, NEW r \in Req, \A s \in Req \ {r} : req'[s] = req[s]
    PROVE  /\ req'[r].at \in {"load", "revoke", "set", "issue"} =>
                 Admitted' = [Admitted EXCEPT ![r] = req'[r].tok]
           /\ req'[r].at \notin {"load", "revoke", "set", "issue"} =>
                 Admitted' = [Admitted EXCEPT ![r] = None]
           /\ Admitted[r] = IF req[r].at \in {"load", "revoke", "set", "issue"}
                            THEN req[r].tok ELSE None
BY DEF Admitted

\* A new grant appears in the abstract state as a new token.
LEMMA AbstractIssue ==
    ASSUME TypeOK, TypeOK', Sane, [Next]_vars, UNCHANGED <<now, lost>>,
           NEW r \in Req, NEW u \in User, NEW from \in Grant \union {None}, Issue(r, u, from)
    PROVE  Rotation!Issue(r, from)
<1>1. PICK n \in Grant :
              /\ ~Issued(n) /\ Issued(n)'
              /\ grant'[n] = [sub |-> u, iat |-> now.sec, from |-> from, by |-> r]
              /\ \A g \in Grant \ {n} : grant'[g] = grant[g]
  BY IssueEffect
<1>2. n \in Grant \ Handed
  BY <1>1 DEF Handed
<1>3. Handed' = Handed \union {n}
  <2>1. \A g \in Grant : Issued(g)' <=> Issued(g) \/ g = n
    BY <1>1 DEF Issued
  <2> QED BY <1>1, <2>1 DEF Handed
<1>4. Lineage' = [Lineage EXCEPT ![n] = [from |-> from, by |-> r]]
  <2>1. \A g \in Grant : [from |-> grant'[g].from, by |-> grant'[g].by]
           = IF g = n THEN [from |-> from, by |-> r] ELSE [from |-> grant[g].from, by |-> grant[g].by]
    BY <1>1
  <2> QED BY <2>1 DEF Lineage
<1>5. Void' \in {Void, Void \union {n}}
  <2>1. \A g \in Grant \ {n} : Reusable(g)' <=> Reusable(g)
    BY <1>1 DEF Reusable, Last, Exp
  <2>2. /\ Void = {g \in Handed : Reusable(g)} /\ Handed \subseteq Grant
        /\ Void' = {g \in Handed' : Reusable(g)'}
    BY DEF Void, Handed
  <2>3. CASE Reusable(n)'
    <3>1. Void' = Void \union {n}
      BY <1>2, <1>3, <2>1, <2>2, <2>3
    <3> QED BY <3>1
  <2>4. CASE ~Reusable(n)'
    <3>1. Void' = Void
      BY <1>2, <1>3, <2>1, <2>2, <2>4
    <3> QED BY <3>1
  <2> QED BY <2>3, <2>4
<1> QED BY <1>2, <1>3, <1>4, <1>5 DEF Rotation!Issue

\* Every step of a handler is one of the abstract rotation, or none.
LEMMA RotationSimulates ==
    ASSUME TypeOK, TypeOK', Sane, RotationInv, [Next]_vars
    PROVE  [Rotation!Next]_(Rotation!vars)
<1> DEFINE Busy == {"load", "revoke", "set", "issue"}
           Same == UNCHANGED <<Handed, Lineage, revoked, Void>>
           Stutter == UNCHANGED Rotation!vars
<1>0. \A r \in Req : /\ req[r] \in Handler
                     /\ Idle.at \notin Busy
                     /\ HoldsToken(r) => req[r].tok \in Grant /\ Issued(req[r].tok)
  BY DEF TypeOK, Idle, Sane
<1>1. ASSUME UNCHANGED <<now, grant, lost, revoked>> PROVE Same
  BY <1>1, AbstractFrame
<1>2. ASSUME Same, Admitted' = Admitted PROVE Stutter
  BY <1>2 DEF Rotation!vars
<1>3. ASSUME NEW r \in Req, Same, End(r) PROVE Rotation!GiveUp(r)
  <2>1. req'[r] = Idle /\ \A s \in Req \ {r} : req'[s] = req[s]
    BY <1>3, GotoEffect
  <2>2. Admitted' = [Admitted EXCEPT ![r] = None]
    BY <1>0, <2>1, AbstractHandler
  <2> QED BY <1>3, <2>2 DEF Rotation!GiveUp
<1>4. ASSUME NEW r \in Req, \A s \in Req \ {r} : req'[s] = req[s],
             \/ req[r].at \notin Busy /\ req'[r].at \notin Busy
             \/ req[r].at \in Busy /\ req'[r].at \in Busy /\ req'[r].tok = req[r].tok
      PROVE  Admitted' = Admitted
  <2>1. Admitted' = [Admitted EXCEPT ![r] = Admitted[r]]
    BY <1>4, AbstractHandler
  <2> QED BY <2>1 DEF Admitted
<1>5. ASSUME NEW r \in Req, NEW at \in At, Goto(r, at)
      PROVE  /\ req'[r].at = at /\ req'[r].tok = req[r].tok
             /\ \A s \in Req \ {r} : req'[s] = req[s]
  <2>1. req'[r] = [req[r] EXCEPT !.at = at] /\ \A s \in Req \ {r} : req'[s] = req[s]
    BY <1>5, GotoEffect
  <2> QED BY <1>0, <2>1 DEF Handler
<1>6. ASSUME Tick \/ \E g \in Grant : LoseKey(g) PROVE Rotation!Lapse
  <2>1. UNCHANGED <<grant, revoked, req>>
    BY <1>6 DEF Tick, LoseKey
  <2>2. Admitted' = Admitted
    BY <2>1 DEF Admitted
  <2> QED BY <2>1, <2>2, AbstractFrame DEF Rotation!Lapse
<1>7. ASSUME UNCHANGED vars \/ \E u \in User : Signup(u) \/ DeleteUser(u) PROVE Stutter
  <2>1. UNCHANGED <<now, grant, lost, revoked, req>>
    BY <1>7 DEF vars, Signup, DeleteUser
  <2>2. Admitted' = Admitted
    BY <2>1 DEF Admitted
  <2> QED BY <1>1, <1>2, <2>1, <2>2
<1>8. ASSUME NEW r \in Req, Start(r) PROVE Stutter
  <2>1. /\ UNCHANGED <<now, grant, lost, revoked>> /\ req[r].at = "idle"
        /\ req'[r].at \in {"email", "check", "logout"}
        /\ \A s \in Req \ {r} : req'[s] = req[s]
    <3>1. CASE \E u \in User : LoginStart(r, u)
      BY <3>1 DEF LoginStart, TypeOK, Idle
    <3>2. CASE \E g \in Grant : RefreshStart(r, g)
      BY <3>2 DEF RefreshStart, TypeOK, Idle
    <3>3. CASE \E g \in Grant : LogoutStart(r, g)
      BY <3>3 DEF LogoutStart, TypeOK, Idle
    <3> QED BY <1>8, <3>1, <3>2, <3>3 DEF Start
  <2> QED BY <1>1, <1>2, <1>4, <2>1
<1>9. ASSUME NEW r \in Req, LoadByEmail(r) PROVE Rotation!GiveUp(r) \/ Stutter
  <2>1. /\ UNCHANGED <<now, grant, lost, revoked>> /\ req[r].at = "email"
        /\ End(r) \/ Goto(r, "password")
    BY <1>9 DEF LoadByEmail
  <2>2. ASSUME Goto(r, "password") PROVE Stutter
    <3>1. req'[r].at = "password" /\ \A s \in Req \ {r} : req'[s] = req[s]
      BY <1>5, <2>2 DEF At
    <3> QED BY <1>1, <1>2, <1>4, <2>1, <3>1
  <2> QED BY <1>1, <1>3, <2>1, <2>2
<1>10. ASSUME NEW r \in Req, LoginDone(r) PROVE Rotation!Login(r) \/ Rotation!GiveUp(r)
  <2>1. /\ UNCHANGED <<now, lost, revoked>> /\ req[r].at = "password" /\ req[r].who \in User
        /\ End(r) /\ (Issue(r, req[r].who, None) \/ UNCHANGED grant)
    BY <1>10 DEF LoginDone, Sane
  <2>2. Admitted[r] = None /\ Admitted' = Admitted
    <3>1. req'[r] = Idle /\ \A s \in Req \ {r} : req'[s] = req[s]
      BY <2>1, GotoEffect
    <3> QED BY <1>0, <1>4, <2>1, <3>1, AbstractHandler
  <2>3. CASE Issue(r, req[r].who, None)
    <3>1. Rotation!Issue(r, None)
      BY <2>1, <2>3, AbstractIssue
    <3> QED BY <2>1, <2>2, <3>1 DEF Rotation!Login
  <2>4. CASE UNCHANGED grant
    BY <1>1, <1>3, <2>1, <2>4
  <2> QED BY <2>1, <2>3, <2>4
<1>11. ASSUME NEW r \in Req, Check(r)
       PROVE  Rotation!GiveUp(r) \/ Rotation!Admit(r, req[r].tok)
  <2> DEFINE t == req[r].tok
  <2>1. /\ UNCHANGED <<now, grant, lost, revoked>> /\ req[r].at = "check"
        /\ End(r) \/ (Goto(r, "load") /\ ~Blacklisted(t))
    BY <1>11 DEF Check
  <2>2. ASSUME Goto(r, "load"), ~Blacklisted(t) PROVE Rotation!Admit(r, t)
    <3>1. t \in Grant /\ Issued(t)
      BY <1>0, <2>1 DEF HoldsToken
    <3>2. t \in Handed
      BY <3>1 DEF Handed
    <3>3. t \notin revoked \/ t \in Void
      <4>1. t \in revoked => Reusable(t)
        BY <2>2, PassedCheck DEF RotationInv
      <4> QED BY <3>2, <4>1 DEF Void
    <3>4. Admitted[r] = None /\ Admitted' = [Admitted EXCEPT ![r] = t]
      <4>1. req'[r].at = "load" /\ req'[r].tok = t /\ \A s \in Req \ {r} : req'[s] = req[s]
        BY <1>5, <2>2 DEF At
      <4> QED BY <2>1, <4>1, AbstractHandler
    <3> QED BY <1>1, <2>1, <3>2, <3>3, <3>4 DEF Rotation!Admit
  <2> QED BY <1>1, <1>3, <2>1, <2>2
<1>12. ASSUME NEW r \in Req, LoadById(r) PROVE Rotation!GiveUp(r) \/ Stutter
  <2>1. /\ UNCHANGED <<now, grant, lost, revoked>> /\ req[r].at = "load"
        /\ End(r) \/ Goto(r, "revoke")
    BY <1>12 DEF LoadById
  <2>2. ASSUME Goto(r, "revoke") PROVE Stutter
    <3>1. /\ req'[r].at = "revoke" /\ req'[r].tok = req[r].tok
          /\ \A s \in Req \ {r} : req'[s] = req[s]
      BY <1>5, <2>2 DEF At
    <3> QED BY <1>1, <1>2, <1>4, <2>1, <3>1
  <2> QED BY <1>1, <1>3, <2>1, <2>2
<1>13. ASSUME NEW r \in Req, Revoke(r) PROVE Stutter
  <2>1. /\ UNCHANGED <<now, grant, lost, revoked>> /\ req[r].at = "revoke"
        /\ req'[r].at = "set" /\ req'[r].tok = req[r].tok
        /\ \A s \in Req \ {r} : req'[s] = req[s]
    BY <1>13 DEF Revoke, TypeOK, Handler
  <2> QED BY <1>1, <1>2, <1>4, <2>1
<1>14. ASSUME NEW r \in Req, Blacklist(r)
       PROVE  Rotation!Spend(req[r].tok) /\ req[r].tok \in Grant
  <2>1. req[r].tok \in Grant /\ req[r].tok \in Handed
    BY <1>0, <1>14 DEF Blacklist, HoldsToken, Handed
  <2>2. req[r].ttl > 0
    <3>1. req[r].ttl \in Nat /\ req[r].ttl >= 1
      BY <1>0, <1>14 DEF Blacklist, RotationInv, TtlSuffices, Handler
    <3> QED BY <3>1
  <2>3. /\ revoked' = revoked \union {req[r].tok} /\ UNCHANGED <<now, grant, lost>>
        /\ IF req[r].at = "set" THEN Goto(r, "issue") ELSE End(r)
    BY <1>14, <2>2 DEF Blacklist
  <2>4. Admitted' = Admitted
    <3>1. CASE req[r].at = "set"
      <4>1. /\ req'[r].at = "issue" /\ req'[r].tok = req[r].tok
            /\ \A s \in Req \ {r} : req'[s] = req[s]
        BY <1>5, <2>3, <3>1 DEF At
      <4> QED BY <1>4, <3>1, <4>1
    <3>2. CASE req[r].at \in {"logout", "late"}
      <4>1. req'[r] = Idle /\ \A s \in Req \ {r} : req'[s] = req[s]
        BY <2>3, <3>2, GotoEffect
      <4> QED BY <1>0, <1>4, <3>2, <4>1
    <3> QED BY <1>14, <3>1, <3>2 DEF Blacklist
  <2> QED BY <2>1, <2>3, <2>4, AbstractFrame DEF Rotation!Spend
<1>15. ASSUME NEW r \in Req, RefreshDone(r) PROVE Rotation!Exchange(r)
  <2>1. /\ UNCHANGED <<now, lost, revoked>> /\ req[r].at = "issue" /\ End(r)
        /\ Issue(r, grant[req[r].tok].sub, req[r].tok)
    BY <1>15 DEF RefreshDone
  <2>2. req[r].tok \in Grant /\ grant[req[r].tok].sub \in User /\ req[r].tok \in revoked
    BY <1>0, <2>1 DEF HoldsToken, Issued, TypeOK, Pair, RotationInv
  <2>3. Rotation!Issue(r, req[r].tok)
    BY <2>1, <2>2, AbstractIssue
  <2>4. Admitted[r] = req[r].tok /\ Admitted' = [Admitted EXCEPT ![r] = None]
    <3>1. req'[r] = Idle /\ \A s \in Req \ {r} : req'[s] = req[s]
      BY <2>1, GotoEffect
    <3> QED BY <1>0, <2>1, <3>1, AbstractHandler
  <2> QED BY <2>1, <2>2, <2>3, <2>4 DEF Rotation!Exchange
<1>16. ASSUME NEW r \in Req, Abort(r) PROVE Rotation!GiveUp(r)
  <2>1. /\ UNCHANGED <<now, grant, lost, revoked>>
        /\ End(r) \/ Goto(r, "late")
    BY <1>16 DEF Abort
  <2>2. ASSUME Goto(r, "late") PROVE Rotation!GiveUp(r)
    <3>1. req'[r].at = "late" /\ \A s \in Req \ {r} : req'[s] = req[s]
      BY <1>5, <2>2 DEF At
    <3>2. Admitted' = [Admitted EXCEPT ![r] = None]
      BY <3>1, AbstractHandler
    <3> QED BY <1>1, <2>1, <3>2 DEF Rotation!GiveUp
  <2> QED BY <1>1, <1>3, <2>1, <2>2
<1> HIDE DEF Stutter, Same
<1>17. ASSUME NEW r \in Req, Step(r) PROVE Rotation!Next \/ Stutter
  BY <1>9, <1>10, <1>11, <1>12, <1>13, <1>14, <1>15, <1>16, <1>17, <1>0
     DEF Step, Rotation!Next, Check, HoldsToken
<1>18. Rotation!Next \/ Stutter
  BY <1>6, <1>7, <1>8, <1>17 DEF Next, Rotation!Next
<1> QED BY <1>18 DEF Stutter

\* AuthService implements the rotation that auth_service.py:110-141 promises, as
\* far as requests that overlap allow: LoginDone and RefreshDone issue, Check
\* admits, the SET of a refresh or a logout spends, time and lost keys make void.
THEOREM ImplementsRotation == Spec => RotationSpec
<1>1. Init => Rotation!Init
  <2> SUFFICES ASSUME Init PROVE Rotation!Init
    OBVIOUS
  <2>1. /\ \A g \in Grant : ~Issued(g) /\ grant[g].from = None /\ grant[g].by = None
        /\ \A r \in Req : req[r].at = "idle"
    BY DEF Init, Issued, Unissued, Idle
  <2>2. Handed = {} /\ Void = {}
    BY <2>1 DEF Handed, Void
  <2>3. Lineage = [t \in Grant |-> [from |-> None, by |-> None]]
    BY <2>1 DEF Lineage
  <2>4. Admitted = [c \in Req |-> None]
    BY <2>1 DEF Admitted
  <2> QED BY <2>2, <2>3, <2>4 DEF Init, Rotation!Init
<1>2. TypeOK /\ TypeOK' /\ Sane /\ RotationInv /\ [Next]_vars => [Rotation!Next]_(Rotation!vars)
  BY RotationSimulates
<1> QED BY <1>1, <1>2, TypeCorrect, RotationInvariant, PTL DEF Spec, RotationSpec, Rotation!Spec

\* The theorems about the abstract rotation, read through the same mapping.
Abstract == INSTANCE TokenRotationProofs
              WITH Client <- Req, Token <- Grant, issued <- Handed, pair <- Lineage,
                   spent <- revoked, void <- Void, using <- Admitted

\* After the SET of a refresh or a logout, only the refreshes that had passed
\* is_blacklisted before issue from the token, each once.
THEOREM RevocationCloses == Spec => RevokedStaysOut
<1>1. Abstract!Spec => Abstract!SpentStaysOut
  BY NoneAssumption, Abstract!StaysOut
<1> QED BY <1>1, ImplementsRotation, PTL
        DEF RotationSpec, RevokedStaysOut, Rotation!Spec, Abstract!Spec,
            Rotation!SpentStaysOut, Abstract!SpentStaysOut, Rotation!vars, Abstract!vars,
            Rotation!Init, Abstract!Init, Rotation!Next, Abstract!Next,
            Rotation!Lapse, Abstract!Lapse, Rotation!Spend, Abstract!Spend,
            Rotation!Login, Abstract!Login, Rotation!Exchange, Abstract!Exchange,
            Rotation!GiveUp, Abstract!GiveUp, Rotation!Admit, Abstract!Admit,
            Rotation!Issue, Abstract!Issue
=============================================================================
