---------------------------- MODULE TokenRotation ----------------------------
(***************************************************************************)
(* What refresh-token rotation promises, without clock, Redis or accounts. *)
(* A client is admitted with a token that nobody has spent and exchanges   *)
(* it for a new one after it is spent.  Admission and spending are not one *)
(* step, so clients admitted in time exchange the token each once.  Tokens *)
(* become void, in which case even a spent one may admit again: those at   *)
(* the end of their life, and those whose revocation was lost.             *)
(* AuthService implements this (AuthService!Rotation).                     *)
(***************************************************************************)
CONSTANTS Client, Token,
          None       \* no token, no client

VARIABLES issued,    \* tokens handed out so far
          pair,      \* pair[t]: what t was exchanged from, and by whom
          spent,     \* tokens exchanged or logged out
          void,      \* tokens whose spending no longer counts
          using      \* using[c]: the token c has been admitted with

vars == <<issued, pair, spent, void, using>>

Init ==
    /\ issued = {}
    /\ pair = [t \in Token |-> [from |-> None, by |-> None]]
    /\ spent = {}
    /\ void = {}
    /\ using = [c \in Client |-> None]

Issue(c, from) ==
    \E t \in Token \ issued :
        /\ issued' = issued \union {t}
        /\ pair' = [pair EXCEPT ![t] = [from |-> from, by |-> c]]
        /\ void' \in {void, void \union {t}}

Login(c) ==
    /\ using[c] = None
    /\ Issue(c, None)
    /\ UNCHANGED <<spent, using>>

Admit(c, t) ==
    /\ using[c] = None
    /\ t \in issued
    /\ t \notin spent \/ t \in void
    /\ using' = [using EXCEPT ![c] = t]
    /\ UNCHANGED <<issued, pair, spent, void>>

\* By an exchange or by a logout; more than one request may spend a token.
Spend(t) ==
    /\ t \in issued
    /\ spent' = spent \union {t}
    /\ UNCHANGED <<issued, pair, void, using>>

Exchange(c) ==
    /\ using[c] \in spent
    /\ Issue(c, using[c])
    /\ using' = [using EXCEPT ![c] = None]
    /\ UNCHANGED spent

\* The request fails.
GiveUp(c) ==
    /\ using' = [using EXCEPT ![c] = None]
    /\ UNCHANGED <<issued, pair, spent, void>>

Lapse ==
    /\ void' \in SUBSET issued
    /\ void \subseteq void'
    /\ UNCHANGED <<issued, pair, spent, using>>

Next == \/ Lapse
        \/ \E t \in Token : Spend(t)
        \/ \E c \in Client : \/ Login(c) \/ Exchange(c) \/ GiveUp(c)
                             \/ \E t \in Token : Admit(c, t)

Spec == Init /\ [][Next]_vars

-----------------------------------------------------------------------------
(* Consequences                                                            *)

\* From the moment a token is spent nobody is admitted with it any more; the
\* clients admitted before may each still exchange it, once.
SpentStaysOut ==
    [][\A t \in spent \ void :
          /\ \A c \in Client : using'[c] = t => using[c] = t
          /\ \A n \in issued' \ issued : pair'[n].from = t =>
                \E c \in Client : using[c] = t /\ using'[c] = None /\ pair'[n].by = c]_vars

\* A client exchanges a token once, before it becomes void.
OnePerClient ==
    \A s, t \in issued :
        s # t /\ pair[s] = pair[t] /\ pair[s].from # None => pair[s].from \in void
=============================================================================
