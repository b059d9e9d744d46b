--------------------------- MODULE LocalFsStorage ----------------------------
(***************************************************************************)
(* backend/app/infrastructure/storage/local.py: objects as files under     *)
(* base_path, each written once under a uuid4 name.                        *)
(*                                                                         *)
(* Every call hands its file operations to threads (asyncio.to_thread), so *)
(* the operations of concurrent calls interleave: open and write in save,  *)
(* is_file and then read_bytes or unlink in read and delete.  A uri stands *)
(* for its path (as_uri and url2pathname are inverse) and for its content, *)
(* which nothing ever changes.  Clients hold the uris save() returned.     *)
(***************************************************************************)
CONSTANTS Client,   \* concurrent calls
          Uri       \* bound: uuid4 names ever drawn

VARIABLES file,     \* file[u]: on disk under base_path
          issued,   \* uris save() has returned
          spent,    \* names drawn
          call,     \* call[c]: the operation, its uri, its answer; ghost
                    \* there: its file existed when it was called
          pc,       \* pc[c]: which file operation comes next
          removed   \* ghost: uris that were unlinked

vars == <<file, issued, spent, call, pc, removed>>

Op == {"save", "read", "delete", "presign"}
\* "escaped": FileNotFoundError leaves the method.
Out == {"pending", "done", "torn", "missing", "escaped"}
NoCall == [op |-> "none", uri |-> "none", out |-> "none", there |-> FALSE]

TypeOK ==
    /\ file \in [Uri -> {"absent", "partial", "whole"}]
    /\ issued \in SUBSET Uri /\ spent \in SUBSET Uri /\ removed \in SUBSET Uri
    /\ pc \in [Client -> {"idle", "open", "write", "is_file", "act", "return"}]
    /\ call \in [Client -> {NoCall} \union [op : Op, uri : Uri, out : Out, there : BOOLEAN]]

Init ==
    /\ file = [u \in Uri |-> "absent"]
    /\ issued = {} /\ spent = {} /\ removed = {}
    /\ call = [c \in Client |-> NoCall]
    /\ pc = [c \in Client |-> "idle"]

At(c, step) == pc[c] = step
Goto(c, step) == pc' = [pc EXCEPT ![c] = step]
Doing(c, step, op) == At(c, step) /\ call[c].op = op
IsFile(u) == file[u] # "absent"

\* The call has its answer; it only has to get back to the caller.
Answer(c, out) == /\ call' = [call EXCEPT ![c].out = out]
                  /\ Goto(c, "return")

\* Mutant: the name is the filename, without a uuid.
SaveStartNamed(c, u) ==
    /\ At(c, "idle")
    /\ spent' = spent \union {u}
    /\ call' = [call EXCEPT ![c] = [op |-> "save", uri |-> u, out |-> "pending",
                                    there |-> FALSE]]
    /\ Goto(c, "open")
    /\ UNCHANGED <<file, issued, removed>>

\* save(): a fresh name, then the thread that writes it.
SaveStart(c, u) ==
    /\ At(c, "idle") /\ u \notin spent
    /\ spent' = spent \union {u}
    /\ call' = [call EXCEPT ![c] = [op |-> "save", uri |-> u, out |-> "pending",
                                    there |-> FALSE]]
    /\ Goto(c, "open")
    /\ UNCHANGED <<file, issued, removed>>

\* mkdir, then write_bytes creates the file before it fills it.
SaveOpen(c) ==
    /\ At(c, "open")
    /\ file' = [file EXCEPT ![call[c].uri] = "partial"]
    /\ Goto(c, "write")
    /\ UNCHANGED <<issued, spent, call, removed>>

SaveWrite(c) ==
    /\ At(c, "write")
    /\ file' = [file EXCEPT ![call[c].uri] = "whole"]
    /\ Answer(c, "done")
    /\ UNCHANGED <<issued, spent, removed>>

\* The other calls start with is_file.
LookStart(c, op, u) ==
    /\ At(c, "idle") /\ u \in issued
    /\ call' = [call EXCEPT ![c] = [op |-> op, uri |-> u, out |-> "pending",
                                    there |-> IsFile(u)]]
    /\ Goto(c, "is_file")
    /\ UNCHANGED <<file, issued, spent, removed>>

\* get_presigned_url is answered by it, read and delete go on when it is true.
LookCheck(c) ==
    /\ At(c, "is_file")
    /\ \/ ~IsFile(call[c].uri) /\ Answer(c, "missing")
       \/ IsFile(call[c].uri) /\ call[c].op = "presign" /\ Answer(c, "done")
       \/ IsFile(call[c].uri) /\ call[c].op # "presign" /\ Goto(c, "act") /\ UNCHANGED call
    /\ UNCHANGED <<file, issued, spent, removed>>

\* Mutant: read() serves bytes that it kept from an earlier call.
ReadBytesKept(c) ==
    /\ Doing(c, "act", "read")
    /\ Answer(c, "done")
    /\ UNCHANGED <<file, issued, spent, removed>>

\* read_bytes: an open file keeps its content when it is unlinked meanwhile; a
\* file unlinked since is_file raises.
ReadBytes(c) ==
    /\ Doing(c, "act", "read")
    /\ \/ /\ IsFile(call[c].uri)
          /\ Answer(c, IF file[call[c].uri] = "whole" THEN "done" ELSE "torn")
       \/ ~IsFile(call[c].uri) /\ Answer(c, "escaped")
    /\ UNCHANGED <<file, issued, spent, removed>>

\* Mutant: delete() answers and leaves the file.
UnlinkNothing(c) ==
    /\ Doing(c, "act", "delete")
    /\ Answer(c, IF IsFile(call[c].uri) THEN "done" ELSE "escaped")
    /\ removed' = removed \union {call[c].uri}
    /\ UNCHANGED <<file, issued, spent>>

Unlink(c) ==
    /\ Doing(c, "act", "delete")
    /\ \/ /\ IsFile(call[c].uri) /\ Answer(c, "done")
          /\ file' = [file EXCEPT ![call[c].uri] = "absent"]
          /\ removed' = removed \union {call[c].uri}
       \/ ~IsFile(call[c].uri) /\ Answer(c, "escaped") /\ UNCHANGED <<file, removed>>
    /\ UNCHANGED <<issued, spent>>

\* Mutant: a call is answered before it has started.
ReturnEarly(c) ==
    /\ issued' = issued \union {call[c].uri}
    /\ call' = [call EXCEPT ![c] = NoCall]
    /\ Goto(c, "idle")
    /\ UNCHANGED <<file, spent, removed>>

\* The await returns; only now does the caller of save() hold the uri.
Return(c) ==
    /\ At(c, "return")
    /\ issued' = IF call[c].op = "save" THEN issued \union {call[c].uri} ELSE issued
    /\ call' = [call EXCEPT ![c] = NoCall]
    /\ Goto(c, "idle")
    /\ UNCHANGED <<file, spent, removed>>

\* An I/O error ends the call; what save() has written stays.
IOError(c) ==
    /\ pc[c] \in {"open", "write", "is_file", "act"}
    /\ call' = [call EXCEPT ![c] = NoCall]
    /\ Goto(c, "idle")
    /\ UNCHANGED <<file, issued, spent, removed>>

\* The process dies; the files stay.
Crash ==
    /\ call' = [c \in Client |-> NoCall]
    /\ pc' = [c \in Client |-> "idle"]
    /\ UNCHANGED <<file, issued, spent, removed>>

Next == \/ Crash
        \/ \E c \in Client :
              \/ \E u \in Uri : SaveStart(c, u)
              \/ \E op \in Op \ {"save"}, u \in Uri : LookStart(c, op, u)
              \/ SaveOpen(c) \/ SaveWrite(c) \/ LookCheck(c) \/ ReadBytes(c) \/ Unlink(c)
              \/ Return(c) \/ IOError(c)

Spec == Init /\ [][Next]_vars

-----------------------------------------------------------------------------
(* Properties                                                              *)

\* What save() returned can be read whole until somebody deletes it, whatever
\* crashed or failed (local.py:66-76).
IssuedIntact == \A u \in issued \ removed : file[u] = "whole"

\* The inductive invariant behind it: a name is written by one save() only, is
\* handed out once its file is whole, and is looked at only after that.
Saving(c) == call[c].op = "save"
Pending(c) == call[c].out = "pending"
CallInv(c) ==
    /\ pc[c] = "idle" => call[c] = NoCall
    /\ pc[c] \in {"open", "write"} => Saving(c) /\ Pending(c)
    /\ pc[c] \in {"is_file", "act"} => call[c].op \in Op \ {"save"} /\ Pending(c)
    /\ pc[c] = "act" => call[c].op # "presign" /\ call[c].there
    /\ call[c].op \in Op \ {"save"} /\ ~call[c].there => call[c].uri \in removed
    /\ pc[c] = "return" => call[c].op \in Op /\ call[c].out \in {"done", "missing", "escaped"}
    /\ call[c].op \in Op \ {"save"} => call[c].uri \in issued
    /\ Saving(c) => /\ call[c].uri \in spent \ issued
                    /\ file[call[c].uri] = CASE pc[c] = "open"  -> "absent"
                                              [] pc[c] = "write" -> "partial"
                                              [] OTHER           -> "whole"
DistinctSaves ==
    \A c, d \in Client : Saving(c) /\ Saving(d) /\ c # d => call[c].uri # call[d].uri
FileInv ==
    /\ issued \subseteq spent /\ removed \subseteq issued
    /\ \A u \in issued : file[u] = IF u \in removed THEN "absent" ELSE "whole"
    /\ \A u \in Uri \ spent : file[u] = "absent"
StorageInv == FileInv /\ DistinctSaves /\ \A c \in Client : CallInv(c)

\* Implements the store of the interface: each call takes effect at one file
\* operation, and FileNotFoundError reaches only a caller whose file was there
\* when it called and was unlinked by another call meanwhile (local.py:78-94).
Store == INSTANCE ObjectStore WITH stored <- {u \in Uri : file[u] = "whole"}
StoreSpec == Store!Spec

\* "Every implementation must raise these, not a driver-specific exception like
\* FileNotFoundError" (domain/storage/errors.py:5-7).  The code breaks it: the
\* object can go between is_file and read_bytes or unlink (local.py:80-88).
DomainErrors == \A c \in Client : call[c].out # "escaped"
=============================================================================
