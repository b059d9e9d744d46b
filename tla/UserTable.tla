------------------------------ MODULE UserTable -------------------------------
(***************************************************************************)
(* The table of users behind IUserRepository (domain/users/repository.py): *)
(* emails are unique and each call takes effect at one instant.            *)
(*                                                                         *)
(* Two things are said exactly that the interface leaves open or denies.   *)
(* update() persists what it was asked column by column: when it is done,  *)
(* each column was written, or had the value already at an instant of the  *)
(* call; the others keep what somebody else has put there.  And a row that *)
(* is deleted in the course of a call may cost its caller the interface's  *)
(* answer: "stale" and "unrefreshed" are exceptions of the driver, "void"  *)
(* is a delete() that removed nothing and returns.  A row that was gone    *)
(* before the call is always answered "notfound".                          *)
(***************************************************************************)
CONSTANTS Client, User, Email, Data, None

VARIABLES row, spent,
          call    \* call[c]: operation, id, entity, answer; whether the row
                  \* was there at an instant of the call (seen); the columns
                  \* it is to write, which had another value all along (todo)

vars == <<row, spent, call>>

NoRow == [mail |-> None, data |-> None]
Unlike(r, s) == (IF r.mail # s.mail THEN {"mail"} ELSE {})
                   \union (IF r.data # s.data THEN {"data"} ELSE {})
NoCall == [op |-> "none", id |-> None, new |-> NoRow, out |-> "none",
           seen |-> FALSE, todo |-> {}]
Taken(u, m) == \E v \in User \ {u} : row[v] # NoRow /\ row[v].mail = m

Init == /\ row = [u \in User |-> NoRow]
        /\ spent = {}
        /\ call = [c \in Client |-> NoCall]

Pending(c, op) == call[c].op = op /\ call[c].out = "pending"
Answer(c, out) == call' = [call EXCEPT ![c].out = out]

Asked(op, u, new, seen, todo) ==
    [op |-> op, id |-> u, new |-> new, out |-> "pending", seen |-> seen, todo |-> todo]

\* A new user brings an id nobody has.
Invoke(c, op, u, new) ==
    /\ call[c] = NoCall
    /\ op = "create" => u \notin spent
    /\ spent' = IF op = "create" THEN spent \union {u} ELSE spent
    /\ call' = [call EXCEPT ![c] = Asked(op, u, new, FALSE, Unlike(new, NoRow))]
    /\ UNCHANGED row

\* The row is there; what it has of the entity need not be written.
Observe(c) ==
    LET r    == row[call[c].id]
        left == call[c].todo \intersect Unlike(call[c].new, r)
    IN  /\ Pending(c, "update") \/ Pending(c, "delete")
        /\ r # NoRow
        /\ call' = [call EXCEPT ![c] = Asked(@.op, @.id, @.new, TRUE, left)]
        /\ UNCHANGED <<row, spent>>

Create(c) ==
    LET u == call[c].id
    IN  /\ Pending(c, "create")
        /\ \/ /\ ~Taken(u, call[c].new.mail)
              /\ row' = [row EXCEPT ![u] = call[c].new]
              /\ Answer(c, "done")
           \/ Taken(u, call[c].new.mail) /\ Answer(c, "exists") /\ UNCHANGED row
        /\ UNCHANGED spent

Written(c) ==
    LET r == row[call[c].id]
    IN  [mail |-> IF "mail" \in call[c].todo THEN call[c].new.mail ELSE r.mail,
         data |-> IF "data" \in call[c].todo THEN call[c].new.data ELSE r.data]

Update(c) ==
    LET u == call[c].id
    IN  /\ Pending(c, "update")
        /\ \/ call[c].todo = {} /\ Answer(c, "done") /\ UNCHANGED row
           \/ /\ call[c].todo # {} /\ row[u] # NoRow
              /\ \/ Taken(u, Written(c).mail) /\ Answer(c, "exists") /\ UNCHANGED row
                 \/ /\ ~Taken(u, Written(c).mail)
                    /\ row' = [row EXCEPT ![u] = Written(c)]
                    /\ Answer(c, "done")
        /\ UNCHANGED spent

Delete(c) ==
    /\ Pending(c, "delete") /\ row[call[c].id] # NoRow
    /\ row' = [row EXCEPT ![call[c].id] = NoRow]
    /\ Answer(c, "done")
    /\ UNCHANGED spent

\* The row is gone: unknown to the call, or taken from it.
Gone(c, op, lost) ==
    /\ Pending(c, op) /\ row[call[c].id] = NoRow
    /\ Answer(c, IF call[c].seen THEN lost ELSE "notfound")
    /\ UNCHANGED <<row, spent>>
GoneUpdate(c) == call[c].todo # {} /\ Gone(c, "update", "stale")
GoneDelete(c) == Gone(c, "delete", "void")

\* The effect stands, but the row is gone when the stored entity is wanted.
Unrefreshed(c) ==
    /\ call[c].op \in {"create", "update"} /\ call[c].out = "done"
    /\ row[call[c].id] = NoRow
    /\ Answer(c, "unrefreshed")
    /\ UNCHANGED <<row, spent>>

\* The answer is taken, or the call is lost with its session.
Leave(c) == /\ call[c] # NoCall
            /\ call' = [call EXCEPT ![c] = NoCall]
            /\ UNCHANGED <<row, spent>>

Next == \E c \in Client :
           \/ \E op \in {"create", "update"}, u \in User, m \in Email, d \in Data :
                 Invoke(c, op, u, [mail |-> m, data |-> d])
           \/ \E u \in User : Invoke(c, "delete", u, NoRow)
           \/ Observe(c) \/ Create(c) \/ Update(c) \/ Delete(c)
           \/ GoneUpdate(c) \/ GoneDelete(c) \/ Unrefreshed(c) \/ Leave(c)

Spec == Init /\ [][Next]_vars
=============================================================================
