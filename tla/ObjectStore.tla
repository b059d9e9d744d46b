----------------------------- MODULE ObjectStore -----------------------------
(***************************************************************************)
(* The store of immutable objects behind IStorageService                   *)
(* (backend/app/domain/storage/service.py): each call takes effect at one  *)
(* instant between its invocation and its answer.                          *)
(*                                                                         *)
(* For a uri that identifies no stored object the interface knows one      *)
(* answer, "missing" (ObjectNotFoundError).  This store has a second one,  *)
(* "escaped": an exception that is not the interface's.  Escape says when  *)
(* it may be given, and it may not be given to a caller whose object was   *)
(* gone before the call, nor to a save() or a get_presigned_url().         *)
(***************************************************************************)
CONSTANTS Client, Uri

VARIABLES stored,   \* uris that identify an object
          spent,    \* uris handed to a save()
          call      \* call[c]: operation, uri, answer; whether
                    \* its object was there when it was invoked

vars == <<stored, spent, call>>

NoCall == [op |-> "none", uri |-> "none", out |-> "none", there |-> FALSE]

Init == /\ stored = {}
        /\ spent = {}
        /\ call = [c \in Client |-> NoCall]

Pending(c, op) == call[c].op = op /\ call[c].out = "pending"
Answer(c, out) == call' = [call EXCEPT ![c].out = out]

\* save() draws a uri nobody has; the other calls bring one.
Invoke(c, op, u) ==
    /\ call[c] = NoCall
    /\ op = "save" => u \notin spent
    /\ spent' = IF op = "save" THEN spent \union {u} ELSE spent
    /\ call' = [call EXCEPT ![c] = [op |-> op, uri |-> u, out |-> "pending",
                                    there |-> u \in stored]]
    /\ UNCHANGED stored

Save(c) == /\ Pending(c, "save")
           /\ stored' = stored \union {call[c].uri}
           /\ Answer(c, "done")
           /\ UNCHANGED spent

\* read() and get_presigned_url() look; delete() removes.
Look(c, op) == /\ Pending(c, op)
               /\ Answer(c, IF call[c].uri \in stored THEN "done" ELSE "missing")
               /\ UNCHANGED <<stored, spent>>

Delete(c) == /\ Pending(c, "delete")
             /\ Answer(c, IF call[c].uri \in stored THEN "done" ELSE "missing")
             /\ stored' = stored \ {call[c].uri}
             /\ UNCHANGED spent

\* An object deleted in the course of the call may cost the caller the
\* interface's answer.
Escape(c) == /\ \E op \in {"read", "delete"} : Pending(c, op)
             /\ call[c].there /\ call[c].uri \notin stored
             /\ Answer(c, "escaped")
             /\ UNCHANGED <<stored, spent>>

\* The answer is taken, or the call is lost with its process or by an I/O error.
Leave(c) == /\ call[c] # NoCall
            /\ call' = [call EXCEPT ![c] = NoCall]
            /\ UNCHANGED <<stored, spent>>

LeaveAll == /\ call' = [c \in Client |-> NoCall]
            /\ UNCHANGED <<stored, spent>>

Next == \/ LeaveAll
        \/ \E c \in Client :
              \/ \E op \in {"save", "read", "delete", "presign"}, u \in Uri : Invoke(c, op, u)
              \/ Save(c) \/ Delete(c) \/ Escape(c) \/ Leave(c)
              \/ \E op \in {"read", "presign"} : Look(c, op)

Spec == Init /\ [][Next]_vars
=============================================================================
