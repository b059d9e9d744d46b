----------------------------- MODULE AuthService -----------------------------
(***************************************************************************)
(* Sign-up, login, refresh-token rotation and logout: auth_service.py over *)
(* security.py (the JWTs), redis_token_blacklist.py (revoked jtis as Redis *)
(* keys with a time to live) and the user table.                           *)
(*                                                                         *)
(* A request handler is a slot of Req that stops at every await: the call  *)
(* it waits for is executed by Redis or Postgres as one step, and the code *)
(* up to the next await runs with it unless it reads the clock.  A request *)
(* that decode_token or is_blacklisted rejects changes nothing and ends.   *)
(*                                                                         *)
(* The clock is a second and a position inside it: JWTs carry whole        *)
(* seconds, Redis deadlines and datetime.now() do not.  A grant is one     *)
(* issued token pair, named by the jti of its refresh token; the access    *)
(* half is not used here.  Redis is external: it may lose keys (LoseKey).  *)
(***************************************************************************)
EXTENDS Naturals, FiniteSets

CONSTANTS User,         \* accounts, named by their email address
          Req,          \* request slots; a slot is a client that awaits its answer
          Grant,        \* bound: refresh tokens ever issued
          None,         \* no user, no grant, no slot
          SubTicks,     \* positions of the clock within a second
          RefreshLife,  \* lifetime of a refresh token, in seconds
          MaxSec,       \* bound: the last second of the clock
          MaxLost       \* bound: tokens whose blacklist key Redis may lose

ASSUME NoneAssumption  == None \notin User /\ None \notin Req /\ None \notin Grant
ASSUME FaultAssumption == MaxLost \in Nat
ASSUME ClockAssumption == SubTicks \in Nat \ {0} /\ RefreshLife \in Nat \ {0} /\ MaxSec \in Nat

Instant == [sec : Nat, sub : 0..(SubTicks - 1)]
After(a, b) == a.sec > b.sec \/ (a.sec = b.sec /\ a.sub > b.sub)

VARIABLES now,        \* the clock
          user,       \* rows of the users table
          grant,      \* grant[g]: subject, second of issue; ghosts: rotated from, by whom
          key,        \* key[g]: deadline of g's blacklist key in Redis
          req,        \* req[r]: where the handler is, its token, its user, its TTL
          revoked,    \* ghost: grants whose key was ever set
          loggedOut,  \* ghost: grants whose logout was answered 204
          lost        \* ghost: grants whose key Redis has lost

vars == <<now, user, grant, key, req, revoked, loggedOut, lost>>

\* "late": the caller is gone but its SET may still reach Redis.
At == {"idle", "email", "password",                 \* login
       "check", "load", "revoke", "set", "issue",   \* refresh
       "logout", "late"}                            \* logout, abandoned SET

Unissued == [sub |-> None, iat |-> 0, from |-> None, by |-> None]
Idle == [at |-> "idle", tok |-> None, who |-> None, ttl |-> 0]
NoKey == [sec |-> 0, sub |-> 0]

Handler == [at : At, tok : Grant \union {None}, who : User \union {None}, ttl : Nat]
Pair == [sub : User \union {None}, iat : Nat,
         from : Grant \union {None}, by : Req \union {None}]

TypeOK ==
    /\ now \in Instant
    /\ user \in [User -> {"free", "live", "deleted"}]
    /\ grant \in [Grant -> Pair]
    /\ key \in [Grant -> Instant]
    /\ req \in [Req -> Handler]
    /\ revoked \in SUBSET Grant
    /\ loggedOut \in SUBSET Grant
    /\ lost \in SUBSET Grant

Issued(g) == grant[g].sub # None

\* jose truncates exp to whole seconds and accepts through that whole second.
Exp(g) == grant[g].iat + RefreshLife
Accepted(g) == Issued(g) /\ now.sec <= Exp(g)

\* Redis drops a key once the clock is past its deadline.
Blacklisted(g) == ~After(now, key[g])

\* Mutants: the lifetime without max(..., 1), and one second short.
RevokeTtlUnclamped(g) == Exp(g) - now.sec - (IF now.sub > 0 THEN 1 ELSE 0)
RevokeTtlShort(g) == IF Exp(g) > now.sec + 2 THEN Exp(g) - now.sec - 2 ELSE 1

\* _revoke: int() cuts the fraction of the remaining lifetime; at least 1.
RevokeTtl(g) ==
    LET elapsed == now.sec + (IF now.sub > 0 THEN 1 ELSE 0)
    IN  IF Exp(g) > elapsed THEN Exp(g) - elapsed ELSE 1

-----------------------------------------------------------------------------
\* The clock starts at the end of a second, later than NoKey.
Init ==
    /\ now = [sec |-> 1, sub |-> SubTicks - 1]
    /\ user = [u \in User |-> "free"]
    /\ grant = [g \in Grant |-> Unissued]
    /\ key = [g \in Grant |-> NoKey]
    /\ req = [r \in Req |-> Idle]
    /\ revoked = {}
    /\ loggedOut = {}
    /\ lost = {}

Goto(r, at) == req' = [req EXCEPT ![r].at = at]
End(r) == req' = [req EXCEPT ![r] = Idle]

\* signup: one INSERT; a taken email is refused by the unique index.
Signup(u) ==
    /\ user[u] = "free"
    /\ user' = [user EXCEPT ![u] = "live"]
    /\ UNCHANGED <<now, grant, key, req, revoked, loggedOut, lost>>

\* IUserRepository.delete, by whoever administers accounts.
DeleteUser(u) ==
    /\ user[u] = "live"
    /\ user' = [user EXCEPT ![u] = "deleted"]
    /\ UNCHANGED <<now, grant, key, req, revoked, loggedOut, lost>>

LoginStart(r, u) ==
    /\ req[r].at = "idle"
    /\ req' = [req EXCEPT ![r] = [Idle EXCEPT !.at = "email", !.who = u]]
    /\ UNCHANGED <<now, user, grant, key, revoked, loggedOut, lost>>

\* get_by_email
LoadByEmail(r) ==
    /\ req[r].at = "email"
    /\ IF user[req[r].who] = "live" THEN Goto(r, "password") ELSE End(r)
    /\ UNCHANGED <<now, user, grant, key, revoked, loggedOut, lost>>

\* create_token_pair for u, stamped with the present second.
Issue(r, u, from) ==
    \E g \in Grant :
        /\ ~Issued(g)
        /\ grant' = [grant EXCEPT ![g] =
                       [sub |-> u, iat |-> now.sec, from |-> from, by |-> r]]

\* verify_password, then the pair.
LoginDone(r) ==
    /\ req[r].at = "password"
    /\ Issue(r, req[r].who, None) \/ UNCHANGED grant
    /\ End(r)
    /\ UNCHANGED <<now, user, key, revoked, loggedOut, lost>>

RefreshStart(r, g) ==
    /\ req[r].at = "idle"
    /\ Accepted(g)
    /\ req' = [req EXCEPT ![r] = [Idle EXCEPT !.at = "check", !.tok = g]]
    /\ UNCHANGED <<now, user, grant, key, revoked, loggedOut, lost>>

\* Mutant: refresh() does not ask the blacklist.
CheckSkipped(r) ==
    /\ req[r].at = "check"
    /\ Goto(r, "load")
    /\ UNCHANGED <<now, user, grant, key, revoked, loggedOut, lost>>

\* is_blacklisted
Check(r) ==
    /\ req[r].at = "check"
    /\ IF Blacklisted(req[r].tok) THEN End(r) ELSE Goto(r, "load")
    /\ UNCHANGED <<now, user, grant, key, revoked, loggedOut, lost>>

\* Mutant: the pair is issued for the token's subject, whether it exists or not.
LoadByIdUnchecked(r) ==
    /\ req[r].at = "load"
    /\ Goto(r, "revoke")
    /\ UNCHANGED <<now, user, grant, key, revoked, loggedOut, lost>>

\* get_by_id
LoadById(r) ==
    /\ req[r].at = "load"
    /\ IF user[grant[req[r].tok].sub] = "live" THEN Goto(r, "revoke") ELSE End(r)
    /\ UNCHANGED <<now, user, grant, key, revoked, loggedOut, lost>>

\* Mutant: the pair is issued without waiting for the SET.
RevokeSkipped(r) ==
    /\ req[r].at = "revoke"
    /\ Goto(r, "issue")
    /\ UNCHANGED <<now, user, grant, key, revoked, loggedOut, lost>>

\* _revoke reads the clock, then sends the SET.
Revoke(r) ==
    /\ req[r].at = "revoke"
    /\ req' = [req EXCEPT ![r].at = "set", ![r].ttl = RevokeTtl(req[r].tok)]
    /\ UNCHANGED <<now, user, grant, key, revoked, loggedOut, lost>>

\* logout: decode_token and _revoke, no look at the blacklist or the user.
LogoutStart(r, g) ==
    /\ req[r].at = "idle"
    /\ Accepted(g)
    /\ req' = [req EXCEPT ![r] = [Idle EXCEPT !.at = "logout", !.tok = g, !.ttl = RevokeTtl(g)]]
    /\ UNCHANGED <<now, user, grant, key, revoked, loggedOut, lost>>

\* Redis executes SET ... EX ttl, which blacklist() sends for a positive ttl.
Blacklist(r) ==
    /\ req[r].at \in {"set", "logout", "late"}
    /\ IF req[r].ttl > 0
       THEN /\ key' = [key EXCEPT ![req[r].tok] = [now EXCEPT !.sec = @ + req[r].ttl]]
            /\ revoked' = revoked \union {req[r].tok}
       ELSE UNCHANGED <<key, revoked>>
    /\ IF req[r].at = "set" THEN Goto(r, "issue") ELSE End(r)
    /\ loggedOut' = IF req[r].at = "logout" THEN loggedOut \union {req[r].tok} ELSE loggedOut
    /\ UNCHANGED <<now, user, grant, lost>>

RefreshDone(r) ==
    /\ req[r].at = "issue"
    /\ Issue(r, grant[req[r].tok].sub, req[r].tok)
    /\ End(r)
    /\ UNCHANGED <<now, user, key, revoked, loggedOut, lost>>

\* An await raises (Redis, Postgres) or the process dies: no answer.  A SET
\* that was sent may still be executed.
Abort(r) ==
    /\ req[r].at \notin {"idle", "late"}
    /\ \/ End(r)
       \/ req[r].at \in {"set", "logout"} /\ Goto(r, "late")
    /\ UNCHANGED <<now, user, grant, key, revoked, loggedOut, lost>>

\* Redis restarts from a snapshot that lacks the key, or evicts it.
LoseKey(g) ==
    /\ Blacklisted(g)
    /\ Cardinality(lost \union {g}) <= MaxLost
    /\ key' = [key EXCEPT ![g] = NoKey]
    /\ lost' = lost \union {g}
    /\ UNCHANGED <<now, user, grant, req, revoked, loggedOut>>

Tick ==
    /\ now.sec < MaxSec \/ now.sub < SubTicks - 1
    /\ now' = IF now.sub < SubTicks - 1 THEN [now EXCEPT !.sub = @ + 1]
                                        ELSE [sec |-> now.sec + 1, sub |-> 0]
    /\ UNCHANGED <<user, grant, key, req, revoked, loggedOut, lost>>

Start(r) == \/ \E u \in User : LoginStart(r, u)
            \/ \E g \in Grant : RefreshStart(r, g) \/ LogoutStart(r, g)

Step(r) == \/ LoadByEmail(r) \/ LoginDone(r)
           \/ Check(r) \/ LoadById(r) \/ Revoke(r) \/ Blacklist(r) \/ RefreshDone(r)
           \/ Abort(r)

Next == \/ Tick \/ \E g \in Grant : LoseKey(g)
        \/ \E u \in User : Signup(u) \/ DeleteUser(u)
        \/ \E r \in Req : Start(r) \/ Step(r)

\* No fairness: neither the Redis client nor the database engine is given a
\* timeout (redis_token_blacklist.py:53, session.py:41), so an await may never end.
Spec == Init /\ [][Next]_vars

-----------------------------------------------------------------------------
(* Properties                                                              *)

\* No pair comes out of a refresh whose token is not blacklisted first, however
\* handlers fail or overlap (auth_service.py:125-126).
RevokedBeforeIssued == \A g \in Grant : Issued(g) /\ grant[g].from # None
                                           => grant[g].from \in revoked

\* The key of a revoked token lives into the last second before exp, past its
\* beginning, or longer: truncating the TTL (auth_service.py:172) costs less
\* than a second, whenever the SET arrives and whoever sets it again, also after
\* Redis has lost it.
KeyOutlasts ==
    \A g \in revoked : \/ key[g] = NoKey /\ g \in lost
                       \/ key[g].sec >= Exp(g)
                       \/ key[g].sec = Exp(g) - 1 /\ key[g].sub > 0

\* Up to that last second a revoked token never passes is_blacklisted again,
\* unless Redis has lost its key.
ReuseRejected ==
    [][\A r \in Req : LET g == req[r].tok
                      IN  req[r].at = "check" /\ req'[r].at = "load" /\ g \in revoked \ lost
                             => now.sec >= Exp(g) - 1]_vars

\* A client that waits for each answer never gets two pairs out of one token,
\* even when some of its requests fail or others use the same token meanwhile.
Last(g) == now.sec >= Exp(g) - 1
Reusable(g) == Last(g) \/ g \in lost
OneRotation ==
    \A g, h \in Grant :
        /\ g # h /\ Issued(g) /\ Issued(h)
        /\ grant[g].from = grant[h].from /\ grant[g].from # None
        /\ grant[g].by = grant[h].by
        => Reusable(grant[g].from)

\* The inductive invariant behind the three above.
HoldsToken(r) == req[r].at \in {"check", "load", "revoke", "set", "issue", "logout", "late"}
Sane ==
    /\ \A r \in Req : /\ HoldsToken(r) => req[r].tok \in Grant /\ Issued(req[r].tok)
                      /\ req[r].at \in {"email", "password"} => req[r].who \in User
    /\ \A g \in Grant : grant[g].from # None => Issued(g) /\ Issued(grant[g].from)
    /\ \A g \in revoked : Issued(g)

\* A TTL computed and not yet sent to Redis is long enough if it is sent now.
TtlSuffices ==
    \A r \in Req : req[r].at \in {"set", "logout", "late"} =>
        /\ req[r].ttl >= 1
        /\ \/ now.sec + req[r].ttl >= Exp(req[r].tok)
           \/ now.sec + req[r].ttl = Exp(req[r].tok) - 1 /\ now.sub > 0

\* A slot past is_blacklisted holds a token it has not rotated yet.
FirstUse ==
    \A r \in Req, h \in Grant :
        /\ req[r].at \in {"load", "revoke", "set", "issue"}
        /\ grant[h].from = req[r].tok
        /\ grant[h].by = r
        => Reusable(req[r].tok)

RotationInv ==
    /\ Sane
    /\ RevokedBeforeIssued
    /\ \A r \in Req : req[r].at = "issue" => req[r].tok \in revoked
    /\ TtlSuffices
    /\ KeyOutlasts
    /\ FirstUse
    /\ OneRotation

\* Implements the abstract rotation: is_blacklisted admits, the SET spends, and
\* a token in its last second or with a lost key is void.
Handed   == {g \in Grant : Issued(g)}
Lineage  == [g \in Grant |-> [from |-> grant[g].from, by |-> grant[g].by]]
Void     == {g \in Handed : Reusable(g)}
Admitted == [r \in Req |-> IF req[r].at \in {"load", "revoke", "set", "issue"}
                           THEN req[r].tok ELSE None]
Rotation == INSTANCE TokenRotation
              WITH Client <- Req, Token <- Grant, issued <- Handed, pair <- Lineage,
                   spent <- revoked, void <- Void, using <- Admitted
RotationSpec == Rotation!Spec

\* What remains true of rotation and logout when requests overlap: once a token's
\* blacklist key is set, only the refreshes that had passed is_blacklisted before
\* can still issue from it, one pair each (auth_service.py:110-141).
RevokedStaysOut == Rotation!SpentStaysOut

\* A request that has read u's row and has not answered (auth_service.py:94-98, 121-123).
Acting(r, u) == \/ req[r].at = "password" /\ req[r].who = u
                \/ /\ req[r].at \in {"revoke", "set", "issue"}
                   /\ grant[req[r].tok].sub = u

\* Once an account is deleted no request begins to act for it, and every pair
\* issued for it still ends a request that had read it before: a deletion is
\* outrun by requests in flight and by nothing else (auth_service.py:94-128).
DeletedStaysOut ==
    [][\A u \in User : user[u] = "deleted" =>
          /\ \A r \in Req : Acting(r, u)' => Acting(r, u)
          /\ \A g \in Grant : ~Issued(g) /\ grant'[g].sub = u =>
                \E r \in Req : Acting(r, u) /\ ~Acting(r, u)']_vars

\* auth_service.py:110-115: rotation; a token is exchanged for one pair only.
RotatedOnce ==
    \A g, h \in Grant : g # h /\ grant[g].from = grant[h].from => grant[g].from = None

\* auth_service.py:133: after logout the token can no longer be used to refresh.
LogoutFinal ==
    [][\A g \in Grant : Issued(g)' /\ ~Issued(g) => grant'[g].from \notin loggedOut]_vars
=============================================================================
