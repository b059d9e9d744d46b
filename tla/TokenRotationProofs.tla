------------------------- MODULE TokenRotationProofs -------------------------
(***************************************************************************)
(* Machine-checked consequences of TokenRotation, for every set of clients *)
(* and tokens; AuthServiceProofs carries them over to AuthService.         *)
(***************************************************************************)
EXTENDS TokenRotation, TLAPS

\* What a token was exchanged from has been spent, and a client admitted with a
\* token has not exchanged it yet.
Inv ==
    /\ issued \subseteq Token /\ spent \subseteq Token
    /\ pair \in [Token -> [from : Token \union {None}, by : Client \union {None}]]
    /\ using \in [Client -> Token \union {None}]
    /\ \A t \in issued : /\ pair[t].by \in Client
                         /\ pair[t].from # None => pair[t].from \in spent
    /\ \A t \in issued : using[pair[t].by] = pair[t].from /\ pair[t].from # None
                            => pair[t].from \in void
    /\ OnePerClient

\* A new token in the hands of a client leaves the old ones as they are.
LEMMA IssueEffect ==
    ASSUME Inv, NEW c \in Client, NEW from \in Token \union {None}, Issue(c, from)
    PROVE  \E n \in Token \ issued :
              /\ issued' = issued \union {n} /\ void \subseteq void'
              /\ pair'[n] = [from |-> from, by |-> c]
              /\ \A t \in Token \ {n} : pair'[t] = pair[t]
              /\ pair' \in [Token -> [from : Token \union {None}, by : Client \union {None}]]
<1>1. PICK n \in Token \ issued :
         /\ issued' = issued \union {n}
         /\ pair' = [pair EXCEPT ![n] = [from |-> from, by |-> c]]
         /\ void' \in {void, void \union {n}}
  BY DEF Issue
<1>2. [from |-> from, by |-> c] \in [from : Token \union {None}, by : Client \union {None}]
  OBVIOUS
<1> QED BY <1>1, <1>2 DEF Inv

LEMMA InvStep == Inv /\ [Next]_vars => Inv'
<1> SUFFICES ASSUME Inv, [Next]_vars PROVE Inv'
  OBVIOUS
<1> USE DEF Inv
<1>1. ASSUME UNCHANGED <<issued, pair, using>>, spent \subseteq spent', spent' \subseteq Token,
             void \subseteq void'
      PROVE  Inv'
  BY <1>1 DEF OnePerClient
<1>2. ASSUME NEW c \in Client, Login(c) PROVE Inv'
  <2>1. UNCHANGED <<spent, using>>
    BY <1>2 DEF Login
  <2>2. PICK n \in Token \ issued :
              /\ issued' = issued \union {n} /\ void \subseteq void'
              /\ pair'[n] = [from |-> None, by |-> c]
              /\ \A t \in Token \ {n} : pair'[t] = pair[t]
              /\ pair' \in [Token -> [from : Token \union {None}, by : Client \union {None}]]
    BY <1>2, IssueEffect DEF Login
  <2>3. \A t \in issued : t # n /\ pair'[t] = pair[t]
    BY <2>2
  <2>4. OnePerClient'
    BY <2>2, <2>3 DEF OnePerClient
  <2> QED BY <2>1, <2>2, <2>3, <2>4
<1>3. ASSUME NEW c \in Client, NEW t \in Token, Admit(c, t) PROVE Inv'
  <2>1. /\ UNCHANGED <<issued, pair, spent, void>>
        /\ t \notin spent \/ t \in void
        /\ using' = [using EXCEPT ![c] = t]
    BY <1>3 DEF Admit
  <2>2. \A s \in issued : using'[pair[s].by] = pair[s].from /\ pair[s].from # None
                             => pair[s].from \in void
    <3>1. SUFFICES ASSUME NEW s \in issued, using'[pair[s].by] = pair[s].from, pair[s].from # None
                   PROVE  pair[s].from \in void
      OBVIOUS
    <3>2. pair[s].from \in spent
      BY <3>1
    <3>3. CASE pair[s].by = c
      BY <2>1, <3>1, <3>2, <3>3
    <3>4. CASE pair[s].by # c
      BY <2>1, <3>1, <3>4
    <3> QED BY <3>3, <3>4
  <2>3. using' \in [Client -> Token \union {None}] /\ OnePerClient'
    BY <2>1 DEF OnePerClient
  <2> QED BY <2>1, <2>2, <2>3
<1>4. ASSUME NEW c \in Client, Exchange(c) PROVE Inv'
  <2>1. /\ using[c] \in spent /\ spent' = spent
        /\ using' = [using EXCEPT ![c] = None] /\ using[c] \in Token \union {None}
    BY <1>4 DEF Exchange
  <2>2. PICK n \in Token \ issued :
              /\ issued' = issued \union {n} /\ void \subseteq void'
              /\ pair'[n] = [from |-> using[c], by |-> c]
              /\ \A t \in Token \ {n} : pair'[t] = pair[t]
              /\ pair' \in [Token -> [from : Token \union {None}, by : Client \union {None}]]
    BY <1>4, <2>1, IssueEffect DEF Exchange
  <2>3. \A t \in issued : t # n /\ pair'[t] = pair[t]
    BY <2>2
  <2>4. using'[c] = None /\ \A d \in Client \ {c} : using'[d] = using[d]
    BY <2>1
  <2>5. \A t \in issued' : using'[pair'[t].by] = pair'[t].from /\ pair'[t].from # None
                             => pair'[t].from \in void'
    <3>1. SUFFICES ASSUME NEW t \in issued', using'[pair'[t].by] = pair'[t].from,
                          pair'[t].from # None
                   PROVE  pair'[t].from \in void'
      OBVIOUS
    <3>2. t # n /\ pair'[t].by # c
      BY <2>2, <2>4, <3>1
    <3>3. t \in issued /\ pair'[t] = pair[t]
      BY <2>2, <2>3, <3>2
    <3> QED BY <2>1, <2>2, <3>1, <3>2, <3>3
  <2>6. ASSUME NEW s \in issued, pair[s] = pair'[n], using[c] # None PROVE using[c] \in void
    BY <2>2, <2>6
  <2>7. OnePerClient'
    <3>1. SUFFICES ASSUME NEW s \in issued', NEW t \in issued', s # t,
                          pair'[s] = pair'[t], pair'[s].from # None
                   PROVE  pair'[s].from \in void'
      BY DEF OnePerClient
    <3>2. CASE s # n /\ t # n
      BY <2>2, <2>3, <3>1, <3>2 DEF OnePerClient
    <3>3. CASE s = n \/ t = n
      BY <2>2, <2>3, <2>6, <3>1, <3>3
    <3> QED BY <3>2, <3>3
  <2>8. \A t \in issued' : /\ pair'[t].by \in Client
                            /\ pair'[t].from # None => pair'[t].from \in spent'
    BY <2>1, <2>2, <2>3
  <2>9. issued' \subseteq Token /\ using' \in [Client -> Token \union {None}]
    BY <2>1, <2>2
  <2> QED BY <2>1, <2>2, <2>5, <2>7, <2>8, <2>9
<1>5. ASSUME NEW c \in Client, GiveUp(c) PROVE Inv'
  <2>1. UNCHANGED <<issued, pair, spent, void>> /\ using' = [using EXCEPT ![c] = None]
    BY <1>5 DEF GiveUp
  <2>2. \A t \in issued : using'[pair[t].by] = pair[t].from /\ pair[t].from # None
                             => pair[t].from \in void
    BY <2>1
  <2>3. using' \in [Client -> Token \union {None}] /\ OnePerClient'
    BY <2>1 DEF OnePerClient
  <2> QED BY <2>1, <2>2, <2>3
<1>6. ASSUME Lapse \/ UNCHANGED vars \/ \E t \in Token : Spend(t) PROVE Inv'
  BY <1>1, <1>6 DEF Lapse, Spend, vars
<1> QED BY <1>2, <1>3, <1>4, <1>5, <1>6 DEF Next

\* Nothing is issued at first.
LEMMA InvInit == Init => Inv
BY DEF Init, Inv, OnePerClient

\* Whatever tokens lapse and requests fail, a client gets one pair out of a token
\* that is not void (auth_service.py:110-128).
THEOREM ExchangesOnce == Spec => []OnePerClient
<1>1. Inv => OnePerClient
  BY DEF Inv
<1> QED BY <1>1, InvInit, InvStep, PTL DEF Spec

\* A spent token admits nobody, and only those admitted before exchange it.
THEOREM StaysOut == ASSUME None \notin Token PROVE Spec => SpentStaysOut
<1>1. Inv /\ [Next]_vars =>
        [\A t \in spent \ void :
          /\ \A c \in Client : using'[c] = t => using[c] = t
          /\ \A n \in issued' \ issued : pair'[n].from = t =>
                \E c \in Client : using[c] = t /\ using'[c] = None /\ pair'[n].by = c]_vars
  <2> SUFFICES ASSUME Inv, Next, NEW t \in spent \ void
               PROVE  /\ \A c \in Client : using'[c] = t => using[c] = t
                      /\ \A n \in issued' \ issued : pair'[n].from = t =>
                            \E c \in Client : using[c] = t /\ using'[c] = None /\ pair'[n].by = c
    OBVIOUS
  <2> USE DEF Inv
  <2>0. t # None
    OBVIOUS
  <2>1. CASE UNCHANGED <<issued, using>>
    BY <2>1
  <2>2. ASSUME NEW c \in Client, Login(c)
        PROVE  using' = using /\ \A n \in issued' \ issued : pair'[n].from # t
    <3>1. using' = using /\ t # None /\ None \in Token \union {None}
      BY <2>2, <2>0 DEF Login
    <3>2. PICK n \in Token \ issued :
             issued' = issued \union {n} /\ pair'[n] = [from |-> None, by |-> c]
      BY <2>2, <3>1, IssueEffect DEF Login
    <3> QED BY <3>1, <3>2
  <2>3. ASSUME NEW c \in Client, NEW s \in Token, Admit(c, s)
        PROVE  issued' = issued /\ \A d \in Client : using'[d] = t => using[d] = t
    BY <2>3 DEF Admit
  <2>4. ASSUME NEW c \in Client, GiveUp(c)
        PROVE  issued' = issued /\ \A d \in Client : using'[d] = t => using[d] = t
    BY <2>4, <2>0 DEF GiveUp
  <2>5. ASSUME NEW c \in Client, Exchange(c)
        PROVE  /\ \A d \in Client : using'[d] = t => using[d] = t
               /\ \A n \in issued' \ issued : pair'[n].from = t =>
                    using[c] = t /\ using'[c] = None /\ pair'[n].by = c
    <3>1. using' = [using EXCEPT ![c] = None] /\ using[c] \in Token \union {None}
      BY <2>5 DEF Exchange
    <3>2. PICK n \in Token \ issued :
             issued' = issued \union {n} /\ pair'[n] = [from |-> using[c], by |-> c]
      BY <2>5, <3>1, IssueEffect DEF Exchange
    <3> QED BY <3>1, <3>2, <2>0
  <2>6. UNCHANGED <<issued, using>> \/ \E c \in Client :
           Login(c) \/ Exchange(c) \/ GiveUp(c) \/ \E s \in Token : Admit(c, s)
    BY DEF Next, Lapse, Spend
  <2>7. ASSUME NEW c \in Client,
               Login(c) \/ GiveUp(c) \/ \E s \in Token : Admit(c, s)
        PROVE  /\ \A d \in Client : using'[d] = t => using[d] = t
               /\ \A n \in issued' \ issued : pair'[n].from # t
    BY <2>2, <2>3, <2>4, <2>7
  <2>8. ASSUME NEW c \in Client, Exchange(c)
        PROVE  \A n \in issued' \ issued : pair'[n].from = t =>
                  \E d \in Client : using[d] = t /\ using'[d] = None /\ pair'[n].by = d
    BY <2>5, <2>8
  <2> QED BY <2>1, <2>5, <2>6, <2>7, <2>8
<1> QED BY <1>1, InvInit, InvStep, PTL DEF Spec, SpentStaysOut
=============================================================================
