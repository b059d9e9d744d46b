---------------------------- MODULE UserRepository ----------------------------
(***************************************************************************)
(* infrastructure/db/postgres/user_repository.py over Postgres at READ     *)
(* COMMITTED: each call is a session that selects the row, writes and      *)
(* commits, and selects again to refresh its entity.  Other sessions run   *)
(* between these statements; each is atomic with its commit.               *)
(*                                                                         *)
(* A row is its email and the other columns (data).  SQLAlchemy writes     *)
(* only the columns whose value differs from the one it has loaded, and    *)
(* nothing at all when none does.  get_by_id and get_by_email are single   *)
(* selects.                                                                *)
(***************************************************************************)
CONSTANTS Client,   \* concurrent calls
          User,     \* bound: ids, each a uuid4 that one create() brings
          Email,
          Data,     \* values of the other columns
          None      \* NULL

ASSUME NoneAssumption == None \notin User /\ None \notin Email /\ None \notin Data

VARIABLES row,      \* the users table
          spent,    \* ids that create() was called with
          call,     \* call[c]: the operation, its id and entity, its answer
          pc,       \* pc[c]: the statement that comes next
          old       \* old[c]: the row as c's session has loaded it

vars == <<row, spent, call, pc, old>>

NoRow == [mail |-> None, data |-> None]
Row == [mail : Email, data : Data]
NoCall == [op |-> "none", id |-> None, new |-> NoRow, out |-> "none"]

\* "stale" is StaleDataError, "unrefreshed" InvalidRequestError; "void" is a
\* delete() that matched no row and returns all the same.
Out == {"pending", "done", "exists", "notfound", "stale", "unrefreshed", "void"}
Call == [op : {"create", "update", "delete"}, id : User, new : Row \union {NoRow}, out : Out]

TypeOK ==
    /\ row \in [User -> Row \union {NoRow}]
    /\ spent \in SUBSET User
    /\ call \in [Client -> Call \union {NoCall}]
    /\ pc \in [Client -> {"idle", "select", "write", "refresh", "return"}]
    /\ old \in [Client -> Row \union {NoRow}]

Init ==
    /\ row = [u \in User |-> NoRow]
    /\ spent = {}
    /\ call = [c \in Client |-> NoCall]
    /\ pc = [c \in Client |-> "idle"]
    /\ old = [c \in Client |-> NoRow]

Id(c) == call[c].id
New(c) == call[c].new
Doing(c, step, op) == pc[c] = step /\ call[c].op = op
Goto(c, step) == pc' = [pc EXCEPT ![c] = step]
Answer(c, out) == call' = [call EXCEPT ![c].out = out] /\ Goto(c, "return")

\* The unique index on email, as it sees the committed rows.
Taken(u, m) == \E v \in User \ {u} : row[v] # NoRow /\ row[v].mail = m

CreateStart(c, u, new) ==
    /\ pc[c] = "idle" /\ u \notin spent
    /\ spent' = spent \union {u}
    /\ call' = [call EXCEPT ![c] = [op |-> "create", id |-> u, new |-> new, out |-> "pending"]]
    /\ Goto(c, "write")
    /\ UNCHANGED <<row, old>>

\* The caller's entity is anything it has read or made up, however long ago.
UpdateStart(c, u, new) ==
    /\ pc[c] = "idle"
    /\ call' = [call EXCEPT ![c] = [op |-> "update", id |-> u, new |-> new, out |-> "pending"]]
    /\ Goto(c, "select")
    /\ UNCHANGED <<row, spent, old>>

DeleteStart(c, u) ==
    /\ pc[c] = "idle"
    /\ call' = [call EXCEPT ![c] = [op |-> "delete", id |-> u, new |-> NoRow, out |-> "pending"]]
    /\ Goto(c, "select")
    /\ UNCHANGED <<row, spent, old>>

\* session.get
Select(c) ==
    /\ pc[c] = "select"
    /\ \/ row[Id(c)] = NoRow /\ Answer(c, "notfound") /\ UNCHANGED old
       \/ /\ row[Id(c)] # NoRow
          /\ old' = [old EXCEPT ![c] = row[Id(c)]]
          /\ Goto(c, "write")
          /\ UNCHANGED call
    /\ UNCHANGED <<row, spent>>

\* INSERT and commit.
Insert(c) ==
    /\ Doing(c, "write", "create")
    /\ \/ Taken(Id(c), New(c).mail) /\ Answer(c, "exists") /\ UNCHANGED row
       \/ /\ ~Taken(Id(c), New(c).mail)
          /\ row' = [row EXCEPT ![Id(c)] = New(c)]
          /\ Goto(c, "refresh")
          /\ UNCHANGED call
    /\ UNCHANGED <<spent, old>>

\* The columns c's entity changes, over the row as it is by now.
Changes(c) == New(c) # old[c]
Patched(c) ==
    [mail |-> IF New(c).mail # old[c].mail THEN New(c).mail ELSE row[Id(c)].mail,
     data |-> IF New(c).data # old[c].data THEN New(c).data ELSE row[Id(c)].data]

\* Mutants: update() without the unique index; session.merge, which inserts a
\* row that is not there.
UpdateRowUnchecked(c) ==
    /\ Doing(c, "write", "update")
    /\ row' = IF Changes(c) /\ row[Id(c)] # NoRow THEN [row EXCEPT ![Id(c)] = Patched(c)] ELSE row
    /\ Goto(c, "refresh")
    /\ UNCHANGED <<spent, call, old>>
UpdateRowMerged(c) ==
    /\ Doing(c, "write", "update")
    /\ ~Taken(Id(c), New(c).mail)
    /\ row' = [row EXCEPT ![Id(c)] = New(c)]
    /\ Goto(c, "refresh")
    /\ UNCHANGED <<spent, call, old>>

\* UPDATE ... WHERE id = ... and commit.
UpdateRow(c) ==
    /\ Doing(c, "write", "update")
    /\ \/ ~Changes(c) /\ Goto(c, "refresh") /\ UNCHANGED <<row, call>>
       \/ Changes(c) /\ row[Id(c)] = NoRow /\ Answer(c, "stale") /\ UNCHANGED row
       \/ /\ Changes(c) /\ row[Id(c)] # NoRow
          /\ Taken(Id(c), Patched(c).mail) /\ Answer(c, "exists") /\ UNCHANGED row
       \/ /\ Changes(c) /\ row[Id(c)] # NoRow
          /\ ~Taken(Id(c), Patched(c).mail)
          /\ row' = [row EXCEPT ![Id(c)] = Patched(c)]
          /\ Goto(c, "refresh")
          /\ UNCHANGED call
    /\ UNCHANGED <<spent, old>>

\* Mutant: delete() blanks the email and keeps the row.
DeleteRowBlanked(c) ==
    /\ Doing(c, "write", "delete")
    /\ row' = [row EXCEPT ![Id(c)].mail = None]
    /\ Answer(c, "done")
    /\ UNCHANGED <<spent, old>>

\* DELETE ... WHERE id = ... and commit; no row matched is only a warning.
DeleteRow(c) ==
    /\ Doing(c, "write", "delete")
    /\ \/ row[Id(c)] = NoRow /\ Answer(c, "void") /\ UNCHANGED row
       \/ /\ row[Id(c)] # NoRow /\ Answer(c, "done")
          /\ row' = [row EXCEPT ![Id(c)] = NoRow]
    /\ UNCHANGED <<spent, old>>

\* session.refresh
Refresh(c) ==
    /\ pc[c] = "refresh"
    /\ \/ row[Id(c)] = NoRow /\ Answer(c, "unrefreshed")
       \/ row[Id(c)] # NoRow /\ Answer(c, "done")
    /\ UNCHANGED <<row, spent, old>>

\* The call returns to its caller, or its connection or process is lost: what
\* is committed stays, what is not never happens.
End(c) ==
    /\ pc[c] # "idle"
    /\ call' = [call EXCEPT ![c] = NoCall]
    /\ old' = [old EXCEPT ![c] = NoRow]
    /\ Goto(c, "idle")
    /\ UNCHANGED <<row, spent>>

Next == \E c \in Client :
           \/ \E u \in User, new \in Row : CreateStart(c, u, new) \/ UpdateStart(c, u, new)
           \/ \E u \in User : DeleteStart(c, u)
           \/ Select(c) \/ Insert(c) \/ UpdateRow(c) \/ DeleteRow(c) \/ Refresh(c) \/ End(c)

Spec == Init /\ [][Next]_vars

-----------------------------------------------------------------------------
(* Properties                                                              *)

\* No interleaving of creates and updates gives two users one email
\* (models.py:28, user_repository.py:57-59, 86-88).
UniqueEmail ==
    \A u, v \in User : u # v /\ row[u] # NoRow /\ row[v] # NoRow => row[u].mail # row[v].mail

\* Implements the table of users: a call takes effect with its commit, an update
\* that changes nothing where its session selects, and an answer that is not the
\* interface's is given only for a row that went while the call ran
\* (user_repository.py:44-98).
Unlike(r, s) == (IF r.mail # s.mail THEN {"mail"} ELSE {})
                   \union (IF r.data # s.data THEN {"data"} ELSE {})
CallView(c) ==
    [op   |-> call[c].op,
     id   |-> Id(c),
     new  |-> New(c),
     out  |-> IF pc[c] = "refresh" THEN "done" ELSE call[c].out,
     seen |-> old[c] # NoRow,
     todo |-> Unlike(New(c), NoRow) \intersect Unlike(New(c), old[c])]
Table == INSTANCE UserTable WITH call <- [c \in Client |-> CallView(c)]
TableSpec == Table!Spec
=============================================================================
