------------------------- MODULE UserRepositoryProofs -------------------------
(***************************************************************************)
(* Machine-checked theorems of UserRepository, for every set of clients,   *)
(* ids, emails and values of the other columns.                            *)
(***************************************************************************)
EXTENDS UserRepository, TLAPS

USE NoneAssumption

\* What each step of a call knows of its fields.
CallInv(c) ==
    \/ pc[c] = "idle" /\ call[c] = NoCall /\ old[c] = NoRow
    \/ /\ call[c] \in Call
       /\ call[c].op # "delete" => call[c].new \in Row
       /\ \/ pc[c] = "select" /\ call[c].op # "create" /\ call[c].out = "pending"
             /\ old[c] = NoRow
          \/ pc[c] = "write" /\ call[c].out = "pending"
             /\ (call[c].op # "create" => old[c] \in Row)
          \/ pc[c] = "refresh" /\ call[c].op # "delete" /\ call[c].out = "pending"
          \/ pc[c] = "return" /\ call[c].out # "pending"
Inv == TypeOK /\ UniqueEmail /\ \A c \in Client : CallInv(c)

LEMMA NoRowIsNone == NoRow \notin Row
BY DEF NoRow, Row

\* A row keeps its type under a write to one id.
LEMMA WriteType ==
    ASSUME TypeOK, NEW u \in User, NEW r \in Row \union {NoRow},
           row' = [row EXCEPT ![u] = r]
    PROVE  row' \in [User -> Row \union {NoRow}]
BY DEF TypeOK

\* A write whose email no other row has keeps emails unique.
LEMMA WriteUnique ==
    ASSUME TypeOK, UniqueEmail, NEW u \in User, NEW r,
           r = NoRow \/ ~Taken(u, r.mail),
           row' = [row EXCEPT ![u] = r]
    PROVE  UniqueEmail'
BY DEF TypeOK, UniqueEmail, Taken

\* An answer ends the call.
LEMMA AnswerEffect ==
    ASSUME Inv, NEW c \in Client, call[c] \in Call, NEW out \in Out \ {"pending"},
           Answer(c, out), UNCHANGED old
    PROVE  /\ call' \in [Client -> Call \union {NoCall}]
           /\ pc' \in [Client -> {"idle", "select", "write", "refresh", "return"}]
           /\ \A d \in Client : CallInv(d)'
<1>1. /\ call' = [call EXCEPT ![c] = [call[c] EXCEPT !.out = out]]
      /\ pc' = [pc EXCEPT ![c] = "return"]
  BY DEF Answer, Goto, Inv, TypeOK
<1>2. [call[c] EXCEPT !.out = out] \in Call
  BY DEF Call
<1>3. ASSUME NEW d \in Client \ {c} PROVE CallInv(d)'
  <2>1. call'[d] = call[d] /\ pc'[d] = pc[d] /\ old'[d] = old[d]
    BY <1>1
  <2> QED BY <2>1 DEF Inv, CallInv
<1>4. CallInv(c)'
  <2>1. call'[c] = [call[c] EXCEPT !.out = out] /\ pc'[c] = "return"
    BY <1>1 DEF Inv, TypeOK
  <2>2. call'[c].op # "delete" => call'[c].new \in Row
    BY <2>1 DEF Inv, CallInv, NoCall, Call
  <2> QED BY <1>2, <2>1, <2>2 DEF CallInv, Call
<1> QED BY <1>1, <1>2, <1>3, <1>4 DEF Inv, TypeOK

\* A call that goes on keeps what is known of the others.
LEMMA MoveEffect ==
    ASSUME Inv, NEW c \in Client, NEW r \in Call \union {NoCall}, NEW at, NEW o \in Row \union {NoRow},
           at \in {"idle", "select", "write", "refresh", "return"},
           call' = [call EXCEPT ![c] = r],
           pc' = [pc EXCEPT ![c] = at],
           old' = [old EXCEPT ![c] = o]
    PROVE  /\ call' \in [Client -> Call \union {NoCall}]
           /\ pc' \in [Client -> {"idle", "select", "write", "refresh", "return"}]
           /\ old' \in [Client -> Row \union {NoRow}]
           /\ call'[c] = r /\ pc'[c] = at /\ old'[c] = o
           /\ \A d \in Client \ {c} : CallInv(d)'
<1>1. ASSUME NEW d \in Client \ {c} PROVE CallInv(d)'
  <2>1. call'[d] = call[d] /\ pc'[d] = pc[d] /\ old'[d] = old[d]
    OBVIOUS
  <2> QED BY <2>1 DEF Inv, CallInv
<1> QED BY <1>1 DEF Inv, TypeOK

\* A call that starts knows its operation, id and entity.
LEMMA StartEffect ==
    ASSUME Inv, NEW c \in Client, pc[c] = "idle", NEW r \in Call, NEW at,
           r.out = "pending", r.op # "delete" => r.new \in Row,
           (at = "write" /\ r.op = "create") \/ (at = "select" /\ r.op # "create"),
           call' = [call EXCEPT ![c] = r], Goto(c, at), UNCHANGED <<row, old>>,
           spent' \in SUBSET User
    PROVE  Inv'
<1>1. /\ pc' = [pc EXCEPT ![c] = at] /\ at \in {"write", "select"}
      /\ old' = [old EXCEPT ![c] = old[c]] /\ old[c] \in Row \union {NoRow}
  BY DEF Goto, Inv, TypeOK
<1>2. /\ call' \in [Client -> Call \union {NoCall}]
      /\ pc' \in [Client -> {"idle", "select", "write", "refresh", "return"}]
      /\ old' \in [Client -> Row \union {NoRow}]
      /\ call'[c] = r /\ pc'[c] = at
      /\ \A d \in Client \ {c} : CallInv(d)'
  BY <1>1, MoveEffect, ZenonT(30)
<1>3. CallInv(c)'
  <2>1. old'[c] = NoRow
    BY DEF Inv, CallInv
  <2> QED BY <1>2, <2>1 DEF CallInv
<1>4. TypeOK'
  <2>1. row' \in [User -> Row \union {NoRow}]
    BY DEF Inv, TypeOK
  <2> QED BY <1>2, <2>1 DEF TypeOK
<1>5. UniqueEmail'
  BY DEF Inv, UniqueEmail
<1> QED BY <1>2, <1>3, <1>4, <1>5 DEF Inv

\* Types, unique emails and what each step knows (user_repository.py:44-98).
THEOREM RepositoryInvariant == Spec => []Inv
<1>1. Init => Inv
  BY DEF Init, Inv, TypeOK, UniqueEmail, CallInv
<1>2. Inv /\ [Next]_vars => Inv'
  <2> SUFFICES ASSUME Inv, [Next]_vars PROVE Inv'
    OBVIOUS
  <2> USE DEF Inv
  <2>1. ASSUME NEW c \in Client, NEW u \in User, NEW new \in Row, CreateStart(c, u, new) PROVE Inv'
    <3> DEFINE r == [op |-> "create", id |-> u, new |-> new, out |-> "pending"]
    <3>1. r \in Call /\ r.op = "create" /\ r.new \in Row /\ r.out = "pending"
      BY DEF Call, Out
    <3>2. pc[c] = "idle" /\ call' = [call EXCEPT ![c] = r] /\ Goto(c, "write") /\ UNCHANGED <<row, old>>
          /\ spent' \in SUBSET User
      BY <2>1 DEF CreateStart, TypeOK
    <3> HIDE DEF r
    <3> QED BY <3>1, <3>2, StartEffect
  <2>2. ASSUME NEW c \in Client, NEW u \in User, NEW new \in Row, UpdateStart(c, u, new) PROVE Inv'
    <3> DEFINE r == [op |-> "update", id |-> u, new |-> new, out |-> "pending"]
    <3>1. r \in Call /\ r.op = "update" /\ r.new \in Row /\ r.out = "pending"
      BY DEF Call, Out
    <3>2. pc[c] = "idle" /\ call' = [call EXCEPT ![c] = r] /\ Goto(c, "select") /\ UNCHANGED <<row, old>>
          /\ spent' \in SUBSET User
      BY <2>2 DEF UpdateStart, TypeOK
    <3> HIDE DEF r
    <3> QED BY <3>1, <3>2, StartEffect
  <2>3. ASSUME NEW c \in Client, NEW u \in User, DeleteStart(c, u) PROVE Inv'
    <3> DEFINE r == [op |-> "delete", id |-> u, new |-> NoRow, out |-> "pending"]
    <3>1. r \in Call /\ r.op = "delete" /\ r.out = "pending"
      BY DEF Call, Out
    <3>2. pc[c] = "idle" /\ call' = [call EXCEPT ![c] = r] /\ Goto(c, "select") /\ UNCHANGED <<row, old>>
          /\ spent' \in SUBSET User
      BY <2>3 DEF DeleteStart, TypeOK
    <3> HIDE DEF r
    <3> QED BY <3>1, <3>2, StartEffect
  <2>4. ASSUME NEW c \in Client, Select(c) PROVE Inv'
    <3>1. call[c] \in Call /\ call[c].op # "create" /\ call[c].out = "pending"
      BY <2>4 DEF Select, CallInv
    <3>2. CASE Answer(c, "notfound") /\ UNCHANGED old
      BY <2>4, <3>1, <3>2, AnswerEffect DEF Select, Out, TypeOK, UniqueEmail
    <3>3. CASE row[Id(c)] # NoRow /\ old' = [old EXCEPT ![c] = row[Id(c)]] /\ Goto(c, "write")
               /\ UNCHANGED call
      <4>1. row[Id(c)] \in Row
        BY <3>1, <3>3 DEF TypeOK, Id, Call
      <4>2. call' = [call EXCEPT ![c] = call[c]] /\ pc' = [pc EXCEPT ![c] = "write"]
        BY <3>3 DEF Goto, TypeOK
      <4>3. call'[c] = call[c] /\ pc'[c] = "write" /\ old'[c] = row[Id(c)]
        BY <3>1, <3>3, <4>1, <4>2, MoveEffect
      <4>4. call[c].op # "delete" => call[c].new \in Row
        BY <3>1 DEF CallInv, NoCall, Call
      <4>5. CallInv(c)'
        BY <3>1, <4>1, <4>3, <4>4 DEF CallInv
      <4>6. UNCHANGED <<row, spent>>
        BY <2>4 DEF Select
      <4>7. /\ call' \in [Client -> Call \union {NoCall}]
            /\ pc' \in [Client -> {"idle", "select", "write", "refresh", "return"}]
            /\ old' \in [Client -> Row \union {NoRow}]
            /\ \A d \in Client \ {c} : CallInv(d)'
        BY <3>1, <3>3, <4>1, <4>2, MoveEffect
      <4> QED BY <4>5, <4>6, <4>7 DEF TypeOK, UniqueEmail
    <3> QED BY <2>4, <3>2, <3>3 DEF Select
  <2>5. ASSUME NEW c \in Client, Insert(c) PROVE Inv'
    <3>1. call[c] \in Call /\ call[c].op = "create" /\ call[c].out = "pending" /\ New(c) \in Row
          /\ Id(c) \in User
      BY <2>5 DEF Insert, Doing, CallInv, New, Id, Call
    <3>2. CASE Answer(c, "exists") /\ UNCHANGED row
      BY <2>5, <3>1, <3>2, AnswerEffect DEF Insert, Out, TypeOK, UniqueEmail
    <3>3. CASE ~Taken(Id(c), New(c).mail) /\ row' = [row EXCEPT ![Id(c)] = New(c)]
               /\ Goto(c, "refresh") /\ UNCHANGED call
      <4>1. /\ call' = [call EXCEPT ![c] = call[c]] /\ pc' = [pc EXCEPT ![c] = "refresh"]
            /\ old' = [old EXCEPT ![c] = old[c]] /\ old[c] \in Row \union {NoRow}
        BY <2>5, <3>3 DEF Goto, Insert, TypeOK
      <4>2. CallInv(c)'
        BY <3>1, <4>1, MoveEffect DEF CallInv, New
      <4>3. UniqueEmail' /\ row' \in [User -> Row \union {NoRow}]
        BY <3>1, <3>3, WriteUnique, WriteType
      <4> QED BY <2>5, <3>1, <4>1, <4>2, <4>3, MoveEffect, ZenonT(30) DEF Insert, TypeOK
    <3> QED BY <2>5, <3>2, <3>3 DEF Insert
  <2>6. ASSUME NEW c \in Client, UpdateRow(c) PROVE Inv'
    <3>1. call[c] \in Call /\ call[c].op = "update" /\ call[c].out = "pending" /\ New(c) \in Row
          /\ Id(c) \in User
      BY <2>6 DEF UpdateRow, Doing, CallInv, New, Id, Call
    <3>2. CASE \E out \in {"stale", "exists"} : Answer(c, out) /\ UNCHANGED row
      BY <2>6, <3>1, <3>2, AnswerEffect DEF UpdateRow, Out, TypeOK, UniqueEmail
    <3>3. CASE Goto(c, "refresh") /\ UNCHANGED call
      <4>1. /\ call' = [call EXCEPT ![c] = call[c]] /\ pc' = [pc EXCEPT ![c] = "refresh"]
            /\ old' = [old EXCEPT ![c] = old[c]] /\ old[c] \in Row \union {NoRow}
        BY <2>6, <3>3 DEF Goto, UpdateRow, TypeOK
      <4>2. CallInv(c)'
        BY <3>1, <4>1, MoveEffect DEF CallInv, New
      <4>3. UniqueEmail' /\ row' \in [User -> Row \union {NoRow}]
        <5>1. CASE UNCHANGED row
          BY <5>1 DEF UniqueEmail, TypeOK
        <5>2. CASE row[Id(c)] # NoRow /\ ~Taken(Id(c), Patched(c).mail)
                   /\ row' = [row EXCEPT ![Id(c)] = Patched(c)]
          <6>1. row[Id(c)] \in Row
            BY <3>1, <5>2 DEF TypeOK
          <6>2. Patched(c) \in Row
            BY <3>1, <6>1 DEF Patched, Row
          <6> QED BY <3>1, <5>2, <6>2, WriteUnique, WriteType
        <5> QED BY <2>6, <5>1, <5>2 DEF UpdateRow
      <4>4. spent' = spent
        BY <2>6 DEF UpdateRow
      <4> QED BY <3>1, <4>1, <4>2, <4>3, <4>4, MoveEffect DEF TypeOK
    <3> QED BY <2>6, <3>2, <3>3 DEF UpdateRow
  <2>7. ASSUME NEW c \in Client, DeleteRow(c) PROVE Inv'
    <3>1. call[c] \in Call /\ Id(c) \in User
      BY <2>7 DEF DeleteRow, Doing, CallInv, Id, Call
    <3>2. UniqueEmail' /\ row' \in [User -> Row \union {NoRow}]
      <4>1. CASE UNCHANGED row
        BY <4>1 DEF UniqueEmail, TypeOK
      <4>2. CASE row' = [row EXCEPT ![Id(c)] = NoRow]
        BY <3>1, <4>2, WriteUnique, WriteType
      <4> QED BY <2>7, <4>1, <4>2 DEF DeleteRow
    <3>3. \E out \in {"void", "done"} : Answer(c, out)
      BY <2>7 DEF DeleteRow
    <3> QED BY <2>7, <3>1, <3>2, <3>3, AnswerEffect DEF DeleteRow, Out, TypeOK
  <2>8. ASSUME NEW c \in Client, Refresh(c) PROVE Inv'
    <3>1. call[c] \in Call
      BY <2>8 DEF Refresh, CallInv
    <3>2. \E out \in {"unrefreshed", "done"} : Answer(c, out)
      BY <2>8 DEF Refresh
    <3> QED BY <2>8, <3>1, <3>2, AnswerEffect DEF Refresh, Out, TypeOK, UniqueEmail
  <2>9. ASSUME NEW c \in Client, End(c) PROVE Inv'
    <3>1. CallInv(c)'
      BY <2>9 DEF End, Goto, CallInv, TypeOK
    <3> QED BY <2>9, <3>1, MoveEffect, ZenonT(30) DEF End, Goto, TypeOK, UniqueEmail
  <2>10. CASE UNCHANGED vars
    BY <2>10 DEF vars, TypeOK, UniqueEmail, CallInv
  <2> QED BY <2>1, <2>2, <2>3, <2>4, <2>5, <2>6, <2>7, <2>8, <2>9, <2>10 DEF Next
<1> QED BY <1>1, <1>2, PTL DEF Spec

\* Type correctness of rows and calls (models.py:21-43).
THEOREM TypeCorrect == Spec => []TypeOK
BY RepositoryInvariant, PTL DEF Inv

\* No interleaving of creates and updates gives two users one email.
THEOREM EmailsUnique == Spec => []UniqueEmail
BY RepositoryInvariant, PTL DEF Inv

-----------------------------------------------------------------------------
(* Refinement: every step is a step of UserTable or none.                  *)

\* Only the stepping call's part of the mapping moves.
LEMMA ViewMoves ==
    ASSUME Inv, NEW c \in Client,
           \A d \in Client \ {c} : call'[d] = call[d] /\ pc'[d] = pc[d] /\ old'[d] = old[d]
    PROVE  [d \in Client |-> CallView(d)]'
             = [[d \in Client |-> CallView(d)] EXCEPT ![c] = CallView(c)']
<1>1. ASSUME NEW d \in Client \ {c} PROVE CallView(d)' = CallView(d)
  BY <1>1 DEF CallView, Id, New
<1> QED BY <1>1

\* A call that keeps its entity and the row it has loaded is answered.
LEMMA ViewAnswered ==
    ASSUME Inv, NEW c \in Client, NEW out, call[c] \in Call,
           \A d \in Client \ {c} : call'[d] = call[d] /\ pc'[d] = pc[d] /\ old'[d] = old[d],
           call'[c].op = call[c].op, call'[c].id = call[c].id, call'[c].new = call[c].new,
           old'[c] = old[c],
           out = IF pc'[c] = "refresh" THEN "done" ELSE call'[c].out
    PROVE  Table!Answer(c, out)
<1> DEFINE view == [d \in Client |-> CallView(d)]
<1>1. CallView(c)' = [CallView(c) EXCEPT !.out = out]
  BY DEF CallView, Id, New
<1>2. view' = [view EXCEPT ![c] = CallView(c)']
  BY ViewMoves
<1>3. view' = [view EXCEPT ![c].out = out]
  BY <1>1, <1>2
<1> QED BY <1>3 DEF Table!Answer

\* What a step that answers, or commits and leaves the refresh, does to a call.
LEMMA AnswerStep ==
    ASSUME Inv, NEW c \in Client, call[c] \in Call, UNCHANGED old,
           NEW out, Answer(c, out)
    PROVE  Table!Answer(c, out)
<1>1. /\ call'[c] = [call[c] EXCEPT !.out = out] /\ pc'[c] = "return"
      /\ \A d \in Client \ {c} : call'[d] = call[d] /\ pc'[d] = pc[d] /\ old'[d] = old[d]
  BY DEF Answer, Goto, Inv, TypeOK
<1>2. /\ call'[c].op = call[c].op /\ call'[c].id = call[c].id /\ call'[c].new = call[c].new
      /\ call'[c].out = out
  BY <1>1 DEF Call
<1> QED BY <1>1, <1>2, ViewAnswered

LEMMA CommitStep ==
    ASSUME Inv, NEW c \in Client, call[c] \in Call, UNCHANGED <<call, old>>,
           Goto(c, "refresh")
    PROVE  Table!Answer(c, "done")
<1>1. /\ pc'[c] = "refresh"
      /\ \A d \in Client \ {c} : call'[d] = call[d] /\ pc'[d] = pc[d] /\ old'[d] = old[d]
  BY DEF Goto, Inv, TypeOK
<1> QED BY <1>1, ViewAnswered

\* The columns to write, told from what the session has loaded.
LEMMA UnlikeCases ==
    ASSUME NEW r, NEW s
    PROVE  /\ "mail" \in Unlike(r, s) <=> r.mail # s.mail
           /\ "data" \in Unlike(r, s) <=> r.data # s.data
           /\ Unlike(r, s) \subseteq {"mail", "data"}
BY DEF Unlike

\* A call that nobody makes is none in the table either.
LEMMA ViewIdle ==
    ASSUME NEW c \in Client, call[c] = NoCall, pc[c] # "refresh", old[c] = NoRow
    PROVE  CallView(c) = Table!NoCall
<1>1. Unlike(NoRow, NoRow) \intersect Unlike(NoRow, NoRow) = {}
  BY DEF Unlike
<1>2. /\ call[c].op = "none" /\ Id(c) = None /\ New(c) = NoRow /\ call[c].out = "none"
  BY DEF NoCall, Id, New
<1>3. (old[c] # NoRow) = FALSE
  OBVIOUS
<1>4. CallView(c) = [op |-> "none", id |-> None, new |-> NoRow, out |-> "none",
                     seen |-> FALSE, todo |-> {}]
  BY <1>1, <1>2, <1>3 DEF CallView
<1> QED BY <1>4 DEF Table!NoCall, Table!NoRow, NoRow

LEMMA TableStep ==
    ASSUME Inv, [Next]_vars PROVE [Table!Next]_(Table!vars)
<1> USE DEF Table!NoRow, NoRow
<1> DEFINE view == [d \in Client |-> CallView(d)]
           Others(c) == \A d \in Client \ {c} : call'[d] = call[d] /\ pc'[d] = pc[d] /\ old'[d] = old[d]
<1>1. \A u, m : Table!Taken(u, m) <=> Taken(u, m)
  BY DEF Table!Taken, Taken
<1>2. \A r, s : Table!Unlike(r, s) = Unlike(r, s)
  BY DEF Table!Unlike, Unlike
<1>3. ASSUME NEW c \in Client
      PROVE  /\ view[c].op = call[c].op /\ view[c].id = Id(c) /\ view[c].new = New(c)
             /\ view[c].out = IF pc[c] = "refresh" THEN "done" ELSE call[c].out
             /\ view[c].seen = (old[c] # NoRow)
             /\ view[c].todo = Unlike(New(c), NoRow) \intersect Unlike(New(c), old[c])
  BY DEF CallView
<1> HIDE DEF view
\* A call that starts, with operation, id and entity of its caller's choice.
<1>4. ASSUME NEW c \in Client, NEW op \in {"create", "update", "delete"}, NEW u \in User,
             NEW new \in Row \union {NoRow}, NEW at \in {"write", "select"},
             pc[c] = "idle", Goto(c, at), UNCHANGED <<row, old>>,
             call' = [call EXCEPT ![c] = [op |-> op, id |-> u, new |-> new, out |-> "pending"]],
             op = "create" => u \notin spent,
             spent' = IF op = "create" THEN spent \union {u} ELSE spent
      PROVE  Table!Invoke(c, op, u, new)
  <2>1. /\ call'[c] = [op |-> op, id |-> u, new |-> new, out |-> "pending"] /\ pc'[c] = at
        /\ Others(c) /\ old'[c] = NoRow /\ old[c] = NoRow /\ call[c] = NoCall
    BY <1>4 DEF Goto, Inv, TypeOK, CallInv
  <2>2. CallView(c)' = Table!Asked(op, u, new, FALSE, Table!Unlike(new, NoRow))
    <3>1. /\ (old'[c] # NoRow) = FALSE /\ pc'[c] # "refresh"
          /\ Unlike(new, NoRow) \intersect Unlike(new, NoRow) = Unlike(new, NoRow)
      BY <1>4, <2>1
    <3>2. /\ call'[c].op = op /\ call'[c].id = u /\ call'[c].new = new /\ call'[c].out = "pending"
      BY <2>1
    <3> QED BY <1>2, <2>1, <3>1, <3>2 DEF CallView, Id, New, Table!Asked
  <2>3. CallView(c) = Table!NoCall
    BY <1>4, <2>1, ViewIdle
  <2>4. view' = [view EXCEPT ![c] = CallView(c)'] /\ view[c] = CallView(c)
    BY <2>1, ViewMoves DEF view
  <2> QED BY <1>4, <2>2, <2>3, <2>4 DEF Table!Invoke, view
<1>5. ASSUME NEW c \in Client, NEW u \in User, NEW new \in Row,
             CreateStart(c, u, new) \/ UpdateStart(c, u, new)
      PROVE  Table!Next
  <2>1. new = [mail |-> new.mail, data |-> new.data] /\ new.mail \in Email /\ new.data \in Data
    BY DEF Row
  <2>2. \E op \in {"create", "update"} : Table!Invoke(c, op, u, new)
    <3>1. CASE CreateStart(c, u, new)
      <4>1. Table!Invoke(c, "create", u, new)
        BY <1>4, <3>1 DEF CreateStart
      <4> QED BY <4>1
    <3>2. CASE UpdateStart(c, u, new)
      <4>1. Table!Invoke(c, "update", u, new)
        BY <1>4, <3>2 DEF UpdateStart
      <4> QED BY <4>1
    <3> QED BY <1>5, <3>1, <3>2
  <2> QED BY <2>1, <2>2 DEF Table!Next
<1>6. ASSUME NEW c \in Client, NEW u \in User, DeleteStart(c, u) PROVE Table!Next
  <2>1. Table!Invoke(c, "delete", u, NoRow)
    BY <1>4, <1>6 DEF DeleteStart
  <2> QED BY <2>1 DEF Table!Next
\* The select finds the row, or its absence answers the call.
<1>7. ASSUME NEW c \in Client, Select(c) PROVE Table!Next
  <2>1. /\ call[c] \in Call /\ pc[c] = "select" /\ call[c].op \in {"update", "delete"}
        /\ call[c].out = "pending" /\ old[c] = NoRow /\ Id(c) \in User
        /\ call[c].op = "update" => New(c) \in Row
    BY <1>7 DEF Select, Inv, CallInv, Call, Id, New, NoCall
  <2>2. UNCHANGED <<row, spent>>
    BY <1>7 DEF Select
  <2>3. /\ view[c].op = call[c].op /\ view[c].out = "pending" /\ view[c].id = Id(c)
        /\ view[c].new = New(c) /\ view[c].seen = FALSE
        /\ view[c].todo = Unlike(New(c), NoRow)
    BY <1>3, <2>1
  <2>4. CASE row[Id(c)] = NoRow /\ Answer(c, "notfound") /\ UNCHANGED old
    <3>1. Table!Answer(c, "notfound")
      BY <2>1, <2>4, AnswerStep
    <3>2. CASE call[c].op = "update"
      <4>1. "mail" \in Unlike(New(c), NoRow)
        BY <2>1, <3>2, UnlikeCases DEF Row
      <4>2. Table!GoneUpdate(c)
        BY <2>2, <2>3, <2>4, <3>1, <3>2, <4>1 DEF Table!GoneUpdate, Table!Gone, Table!Pending, view
      <4> QED BY <4>2 DEF Table!Next
    <3>3. CASE call[c].op = "delete"
      <4>1. Table!GoneDelete(c)
        BY <2>2, <2>3, <2>4, <3>1, <3>3 DEF Table!GoneDelete, Table!Gone, Table!Pending, view
      <4> QED BY <4>1 DEF Table!Next
    <3> QED BY <2>1, <3>2, <3>3
  <2>5. CASE row[Id(c)] # NoRow /\ old' = [old EXCEPT ![c] = row[Id(c)]] /\ Goto(c, "write")
             /\ UNCHANGED call
    <3>1. /\ pc'[c] = "write" /\ old'[c] = row[Id(c)] /\ call'[c] = call[c] /\ Others(c)
      BY <2>5 DEF Goto, Inv, TypeOK
    <3>2. view' = [view EXCEPT ![c] = CallView(c)'] /\ view[c] = CallView(c)
      BY <3>1, ViewMoves DEF view
    <3> DEFINE left == Unlike(New(c), NoRow) \intersect Unlike(New(c), row[Id(c)])
    <3>3. CallView(c)' = Table!Asked(call[c].op, Id(c), New(c), TRUE, left)
      <4>1. (old'[c] # NoRow) = TRUE
        BY <2>5, <3>1
      <4> QED BY <2>1, <2>5, <3>1, <4>1 DEF CallView, Id, New, Table!Asked
    <3>4. /\ view' = [view EXCEPT ![c] = Table!Asked(view[c].op, view[c].id, view[c].new, TRUE, left)]
          /\ left = view[c].todo \intersect Table!Unlike(view[c].new, row[view[c].id])
      BY <1>2, <2>3, <3>2, <3>3
    <3> HIDE DEF left
    <3>5. Table!Observe(c)
      BY <2>1, <2>2, <2>3, <2>5, <3>4 DEF Table!Observe, Table!Pending, view
    <3> QED BY <3>5 DEF Table!Next
  <2> QED BY <1>7, <2>4, <2>5 DEF Select
<1>8. ASSUME NEW c \in Client, Insert(c) PROVE Table!Next
  <2>1. /\ call[c] \in Call /\ pc[c] = "write" /\ call[c].op = "create" /\ call[c].out = "pending"
        /\ UNCHANGED <<spent, old>>
    BY <1>8 DEF Insert, Doing, Inv, CallInv
  <2>2. /\ view[c].op = "create" /\ view[c].out = "pending" /\ view[c].id = Id(c)
        /\ view[c].new = New(c)
    BY <1>3, <2>1
  <2>3. CASE Taken(Id(c), New(c).mail) /\ Answer(c, "exists") /\ UNCHANGED row
    <3>1. Table!Answer(c, "exists")
      BY <2>1, <2>3, AnswerStep
    <3> QED BY <1>1, <2>1, <2>2, <2>3, <3>1 DEF Table!Create, Table!Pending, Table!Next, view
  <2>4. CASE ~Taken(Id(c), New(c).mail) /\ row' = [row EXCEPT ![Id(c)] = New(c)]
             /\ Goto(c, "refresh") /\ UNCHANGED call
    <3>1. Table!Answer(c, "done")
      BY <2>1, <2>4, CommitStep
    <3> QED BY <1>1, <2>1, <2>2, <2>4, <3>1 DEF Table!Create, Table!Pending, Table!Next, view
  <2> QED BY <1>8, <2>3, <2>4 DEF Insert
<1>9. ASSUME NEW c \in Client, UpdateRow(c) PROVE Table!Next
  <2>1. /\ call[c] \in Call /\ pc[c] = "write" /\ call[c].op = "update" /\ call[c].out = "pending"
        /\ UNCHANGED <<spent, old>> /\ New(c) \in Row /\ old[c] \in Row /\ Id(c) \in User
    BY <1>9 DEF UpdateRow, Doing, Inv, CallInv, Call, New, Id, NoCall
  <2>2. "mail" \in Unlike(New(c), NoRow) /\ "data" \in Unlike(New(c), NoRow)
    BY <2>1, UnlikeCases DEF Row
  <2>3. /\ view[c].op = "update" /\ view[c].out = "pending" /\ view[c].id = Id(c)
        /\ view[c].new = New(c) /\ view[c].seen = TRUE
        /\ "mail" \in view[c].todo <=> New(c).mail # old[c].mail
        /\ "data" \in view[c].todo <=> New(c).data # old[c].data
        /\ view[c].todo \subseteq {"mail", "data"}
    <3>1. old[c] # NoRow
      BY <2>1, NoRowIsNone
    <3>2. view[c].todo = Unlike(New(c), NoRow) \intersect Unlike(New(c), old[c])
      BY <1>3
    <3>3. /\ "mail" \in Unlike(New(c), old[c]) <=> New(c).mail # old[c].mail
          /\ "data" \in Unlike(New(c), old[c]) <=> New(c).data # old[c].data
          /\ Unlike(New(c), old[c]) \subseteq {"mail", "data"}
      BY UnlikeCases
    <3>4. /\ "mail" \in view[c].todo <=> New(c).mail # old[c].mail
          /\ "data" \in view[c].todo <=> New(c).data # old[c].data
          /\ view[c].todo \subseteq {"mail", "data"}
      BY <2>2, <3>2, <3>3
    <3> QED BY <1>3, <2>1, <3>1, <3>4
  <2>4. view[c].todo = {} <=> ~Changes(c)
    <3>1. New(c) = old[c] <=> New(c).mail = old[c].mail /\ New(c).data = old[c].data
      BY <2>1 DEF Row
    <3> QED BY <2>3, <3>1 DEF Changes
  <2>5. Table!Written(c) = Patched(c)
    BY <2>3 DEF Table!Written, Patched, view
  <2>6. CASE ~Changes(c) /\ Goto(c, "refresh") /\ UNCHANGED <<row, call>>
    <3>1. Table!Answer(c, "done")
      BY <2>1, <2>6, CommitStep
    <3>2. Table!Update(c)
      BY <2>1, <2>3, <2>4, <2>6, <3>1 DEF Table!Update, Table!Pending, view
    <3> QED BY <3>2 DEF Table!Next
  <2>7. CASE Changes(c) /\ row[Id(c)] = NoRow /\ Answer(c, "stale") /\ UNCHANGED row
    <3>1. Table!Answer(c, "stale")
      BY <2>1, <2>7, AnswerStep
    <3>2. Table!GoneUpdate(c)
      BY <2>1, <2>3, <2>4, <2>7, <3>1 DEF Table!GoneUpdate, Table!Gone, Table!Pending, view
    <3> QED BY <3>2 DEF Table!Next
  <2>8. CASE /\ Changes(c) /\ row[Id(c)] # NoRow
             /\ Taken(Id(c), Patched(c).mail) /\ Answer(c, "exists") /\ UNCHANGED row
    <3>1. Table!Answer(c, "exists")
      BY <2>1, <2>8, AnswerStep
    <3>2. Table!Taken(Id(c), Table!Written(c).mail)
      BY <1>1, <2>5, <2>8
    <3>3. Table!Update(c)
      BY <2>1, <2>3, <2>4, <2>8, <3>1, <3>2 DEF Table!Update, Table!Pending, view
    <3> QED BY <3>3 DEF Table!Next
  <2>9. CASE /\ Changes(c) /\ row[Id(c)] # NoRow /\ ~Taken(Id(c), Patched(c).mail)
             /\ row' = [row EXCEPT ![Id(c)] = Patched(c)] /\ Goto(c, "refresh") /\ UNCHANGED call
    <3>1. Table!Answer(c, "done")
      BY <2>1, <2>9, CommitStep
    <3>2. /\ ~Table!Taken(Id(c), Table!Written(c).mail)
          /\ row' = [row EXCEPT ![Id(c)] = Table!Written(c)]
      BY <1>1, <2>5, <2>9
    <3>3. Table!Update(c)
      BY <2>1, <2>3, <2>4, <2>9, <3>1, <3>2 DEF Table!Update, Table!Pending, view
    <3> QED BY <3>3 DEF Table!Next
  <2> QED BY <1>9, <2>6, <2>7, <2>8, <2>9 DEF UpdateRow
<1>10. ASSUME NEW c \in Client, DeleteRow(c) PROVE Table!Next
  <2>1. /\ call[c] \in Call /\ pc[c] = "write" /\ call[c].op = "delete" /\ call[c].out = "pending"
        /\ UNCHANGED <<spent, old>> /\ old[c] # NoRow
    BY <1>10, NoRowIsNone DEF DeleteRow, Doing, Inv, CallInv
  <2>2. /\ view[c].op = "delete" /\ view[c].out = "pending" /\ view[c].id = Id(c)
        /\ view[c].seen = TRUE
    BY <1>3, <2>1
  <2>3. CASE row[Id(c)] = NoRow /\ Answer(c, "void") /\ UNCHANGED row
    <3>1. Table!Answer(c, "void")
      BY <2>1, <2>3, AnswerStep
    <3>2. Table!GoneDelete(c)
      BY <2>1, <2>2, <2>3, <3>1 DEF Table!GoneDelete, Table!Gone, Table!Pending, view
    <3> QED BY <3>2 DEF Table!Next
  <2>4. CASE row[Id(c)] # NoRow /\ Answer(c, "done") /\ row' = [row EXCEPT ![Id(c)] = NoRow]
    <3>1. Table!Answer(c, "done")
      BY <2>1, <2>4, AnswerStep
    <3>2. Table!Delete(c)
      BY <2>1, <2>2, <2>4, <3>1 DEF Table!Delete, Table!Pending, view
    <3> QED BY <3>2 DEF Table!Next
  <2> QED BY <1>10, <2>3, <2>4 DEF DeleteRow
<1>11. ASSUME NEW c \in Client, Refresh(c) PROVE Table!Next \/ UNCHANGED Table!vars
  <2>1. /\ call[c] \in Call /\ pc[c] = "refresh" /\ call[c].op \in {"create", "update"}
        /\ UNCHANGED <<row, spent, old>>
    BY <1>11 DEF Refresh, Inv, CallInv, Call
  <2>2. /\ view[c].op = call[c].op /\ view[c].out = "done" /\ view[c].id = Id(c)
    BY <1>3, <2>1
  <2>3. CASE row[Id(c)] = NoRow /\ Answer(c, "unrefreshed")
    <3>1. Table!Answer(c, "unrefreshed")
      BY <2>1, <2>3, AnswerStep
    <3>2. Table!Unrefreshed(c)
      BY <2>1, <2>2, <2>3, <3>1 DEF Table!Unrefreshed, view
    <3> QED BY <3>2 DEF Table!Next
  <2>4. CASE Answer(c, "done")
    <3>1. /\ call'[c] = [call[c] EXCEPT !.out = "done"] /\ pc'[c] = "return" /\ Others(c)
      BY <2>1, <2>4 DEF Answer, Goto, Inv, TypeOK
    <3>2. /\ call'[c].op = call[c].op /\ call'[c].id = call[c].id /\ call'[c].new = call[c].new
          /\ call'[c].out = "done" /\ old'[c] = old[c]
      BY <2>1, <3>1 DEF Call
    <3>3. CallView(c)' = CallView(c)
      BY <2>1, <3>1, <3>2 DEF CallView, Id, New
    <3>4. view' = view
      BY <3>1, <3>3, ViewMoves DEF view
    <3> QED BY <2>1, <3>4 DEF Table!vars, view
  <2> QED BY <1>11, <2>3, <2>4 DEF Refresh
<1>12. ASSUME NEW c \in Client, End(c) PROVE Table!Next
  <2>1. /\ call'[c] = NoCall /\ pc'[c] = "idle" /\ old'[c] = NoRow /\ Others(c)
        /\ UNCHANGED <<row, spent>> /\ call[c] \in Call
    BY <1>12 DEF End, Goto, Inv, TypeOK, CallInv
  <2>2. CallView(c)' = Table!NoCall
    <3>1. /\ Unlike(NoRow, NoRow) \intersect Unlike(NoRow, NoRow) = {}
          /\ (old'[c] # NoRow) = FALSE
      BY <2>1 DEF Unlike
    <3>2. /\ call'[c].op = "none" /\ call'[c].id = None /\ call'[c].new = NoRow
          /\ call'[c].out = "none" /\ pc'[c] # "refresh"
      BY <2>1 DEF NoCall
    <3>3. CallView(c)' = [op |-> "none", id |-> None, new |-> NoRow, out |-> "none",
                          seen |-> FALSE, todo |-> {}]
      BY <2>1, <3>1, <3>2 DEF CallView, Id, New
    <3> QED BY <3>3 DEF Table!NoCall
  <2>3. view' = [view EXCEPT ![c] = Table!NoCall]
    BY <2>1, <2>2, ViewMoves DEF view
  <2>4. view[c] # Table!NoCall
    BY <1>3, <2>1 DEF Table!NoCall, Call
  <2>5. Table!Leave(c)
    BY <2>1, <2>3, <2>4 DEF Table!Leave, view
  <2> QED BY <2>5 DEF Table!Next
<1>13. CASE UNCHANGED vars
  <2>1. view' = view
    BY <1>13 DEF vars, view, CallView, Id, New
  <2> QED BY <1>13, <2>1 DEF vars, Table!vars, view
<1> QED BY <1>5, <1>6, <1>7, <1>8, <1>9, <1>10, <1>11, <1>12, <1>13 DEF Next

\* The repository is the table of users: its answers are the interface's, true at
\* an instant of the call, except for a row that goes while the call runs, and an
\* update that is done has every column it was asked for written or found in place.
THEOREM ImplementsTable == Spec => TableSpec
<1>1. Init => Table!Init
  <2>1. ASSUME Init, NEW c \in Client PROVE CallView(c) = Table!NoCall
    BY <2>1, ViewIdle DEF Init
  <2> QED BY <2>1 DEF Init, Table!Init, Table!NoRow, NoRow
<1>2. Inv /\ [Next]_vars => [Table!Next]_(Table!vars)
  BY TableStep
<1> QED BY <1>1, <1>2, RepositoryInvariant, PTL DEF Spec, TableSpec, Table!Spec
=============================================================================
