------------------------ MODULE LocalFsStorageProofs -------------------------
(***************************************************************************)
(* Machine-checked theorems of LocalFsStorage, for every set of concurrent *)
(* calls and of names.                                                     *)
(***************************************************************************)
EXTENDS LocalFsStorage, TLAPS

Call == {NoCall} \union [op : Op, uri : Uri, out : Out, there : BOOLEAN]

\* A call that has a name has one of Uri.
LEMMA CallType ==
    ASSUME TypeOK, NEW c \in Client, call[c].op \in Op
    PROVE  call[c] \in [op : Op, uri : Uri, out : Out, there : BOOLEAN]
BY DEF TypeOK, NoCall, Op

\* Answering changes one call's answer and nothing else of it.
LEMMA AnswerEffect ==
    ASSUME TypeOK, NEW c \in Client, NEW out \in Out, call[c].op \in Op, Answer(c, out)
    PROVE  /\ call'[c] = [op |-> call[c].op, uri |-> call[c].uri, out |-> out,
                          there |-> call[c].there]
           /\ pc'[c] = "return"
           /\ \A d \in Client \ {c} : call'[d] = call[d] /\ pc'[d] = pc[d]
           /\ call' \in [Client -> Call] /\ call[c].uri \in Uri
           /\ pc' \in [Client -> {"idle", "open", "write", "is_file", "act", "return"}]
<1>1. call[c] \in [op : Op, uri : Uri, out : Out, there : BOOLEAN]
  BY CallType
<1>2. [call[c] EXCEPT !.out = out] = [op |-> call[c].op, uri |-> call[c].uri, out |-> out,
                                     there |-> call[c].there]
  BY <1>1
<1> QED BY <1>1, <1>2 DEF Answer, Goto, TypeOK, Call

\* A call that a step does not touch is not disturbed by what it does to files,
\* as long as it leaves alone the file this call is saving.
LEMMA CallFrame ==
    ASSUME TypeOK, StorageInv, NEW d \in Client, call'[d] = call[d], pc'[d] = pc[d],
           issued \subseteq issued', removed \subseteq removed',
           Saving(d) => /\ file'[call[d].uri] = file[call[d].uri]
                        /\ call[d].uri \in spent' \ issued'
    PROVE  CallInv(d)'
<1>1. CallInv(d)
  BY DEF StorageInv
<1>2. CASE Saving(d)
  BY <1>1, <1>2 DEF CallInv, Saving, Pending
<1>3. CASE ~Saving(d)
  BY <1>1, <1>3 DEF CallInv, Saving, Pending
<1> QED BY <1>2, <1>3

\* Steps that only move one call along, and no file.
LEMMA MoveFrame ==
    ASSUME TypeOK, StorageInv, NEW c \in Client,
           UNCHANGED <<file, issued, spent, removed>>,
           \A d \in Client \ {c} : call'[d] = call[d] /\ pc'[d] = pc[d],
           CallInv(c)', call'[c].op = "save" => call[c].op = "save" /\ call'[c].uri = call[c].uri
    PROVE  StorageInv'
<1>1. \A d \in Client : CallInv(d)'
  <2> SUFFICES ASSUME NEW d \in Client, d # c PROVE CallInv(d)'
    OBVIOUS
  <2>1. Saving(d) => call[d].uri \in spent \ issued
    BY DEF StorageInv, CallInv
  <2> QED BY <2>1, CallFrame
<1>2. DistinctSaves'
  BY DEF StorageInv, DistinctSaves, Saving
<1>3. FileInv'
  BY DEF StorageInv, FileInv
<1> QED BY <1>1, <1>2, <1>3 DEF StorageInv

\* Types and consistency are kept by every step.
LEMMA StorageStep ==
    ASSUME TypeOK, StorageInv, [Next]_vars
    PROVE  TypeOK' /\ StorageInv'
<1> USE DEF TypeOK, Call
<1> DEFINE Others(c) == \A d \in Client \ {c} : call'[d] = call[d] /\ pc'[d] = pc[d]
           FilesKept == UNCHANGED <<file, issued, spent, removed>>
<1>0. \A c \in Client : CallInv(c)
  BY DEF StorageInv
<1>1. ASSUME NEW c \in Client, FilesKept, Others(c), pc'[c] = "idle", call'[c] = NoCall
      PROVE  StorageInv'
  <2>1. CallInv(c)' /\ call'[c].op # "save"
    BY <1>1 DEF CallInv, Saving, NoCall, Op
  <2> QED BY <1>1, <2>1, MoveFrame
<1>2. ASSUME NEW c \in Client, NEW u \in Uri, SaveStart(c, u) PROVE TypeOK' /\ StorageInv'
  <2>1. /\ call'[c] = [op |-> "save", uri |-> u, out |-> "pending", there |-> FALSE]
        /\ pc'[c] = "open"
        /\ Others(c) /\ UNCHANGED <<file, issued, removed>> /\ spent' = spent \union {u}
        /\ u \notin spent
    BY <1>2 DEF SaveStart, At, Goto
  <2>2. TypeOK'
    BY <1>2, <2>1 DEF SaveStart, Goto, Op, Out
  <2>3. FileInv'
    BY <2>1 DEF StorageInv, FileInv
  <2>4. ASSUME NEW d \in Client, d # c PROVE CallInv(d)' /\ (Saving(d) => call[d].uri # u)
    <3>1. Saving(d) => call[d].uri \in spent \ issued
      BY <1>0 DEF CallInv
    <3> QED BY <2>1, <2>4, <3>1, CallFrame
  <2>5. DistinctSaves'
    BY <2>1, <2>4 DEF StorageInv, DistinctSaves, Saving
  <2>6. CallInv(c)'
    <3>1. file[u] = "absent" /\ u \notin issued
      BY <2>1 DEF StorageInv, FileInv
    <3> QED BY <2>1, <3>1 DEF CallInv, Saving, Pending
  <2> QED BY <2>2, <2>3, <2>4, <2>5, <2>6 DEF StorageInv
\* The two steps that write c's file: it is nobody else's and not handed out.
<1>3. ASSUME NEW c \in Client, NEW state \in {"partial", "whole"}, Saving(c),
             file' = [file EXCEPT ![call[c].uri] = state],
             UNCHANGED <<issued, spent, removed>>, Others(c),
             call'[c].uri = call[c].uri, Saving(c)', CallInv(c)'
      PROVE  StorageInv'
  <2>1. call[c].uri \in Uri /\ call[c].uri \in spent \ issued
    BY <1>0, <1>3, CallType DEF CallInv, Saving, Op
  <2>2. FileInv'
    BY <1>3, <2>1 DEF StorageInv, FileInv
  <2>3. ASSUME NEW d \in Client, d # c PROVE CallInv(d)'
    <3>1. Saving(d) => call[d].uri \in spent \ issued /\ call[d].uri # call[c].uri
      BY <1>0, <1>3, <2>3 DEF CallInv, StorageInv, DistinctSaves
    <3>2. Saving(d) => call[d].uri \in Uri
      BY CallType DEF Saving, Op
    <3> QED BY <1>3, <2>3, <3>1, <3>2, CallFrame
  <2>4. DistinctSaves'
    BY <1>3 DEF StorageInv, DistinctSaves, Saving
  <2> QED BY <1>3, <2>2, <2>3, <2>4 DEF StorageInv
<1>4. ASSUME NEW c \in Client, SaveOpen(c) PROVE TypeOK' /\ StorageInv'
  <2>1. Saving(c) /\ Pending(c) /\ call[c].uri \in Uri /\ call[c].uri \in spent \ issued
    BY <1>0, <1>4, CallType DEF SaveOpen, At, CallInv, Saving, Op
  <2>2. /\ file' = [file EXCEPT ![call[c].uri] = "partial"] /\ pc'[c] = "write" /\ call' = call
        /\ Others(c) /\ UNCHANGED <<issued, spent, removed>>
    BY <1>4 DEF SaveOpen, Goto
  <2>3. TypeOK'
    BY <1>4, <2>1, <2>2 DEF SaveOpen, Goto
  <2>4. CallInv(c)' /\ Saving(c)'
    BY <2>1, <2>2 DEF CallInv, Saving, Pending, Op
  <2> QED BY <1>3, <2>1, <2>2, <2>3, <2>4
<1>5. ASSUME NEW c \in Client, SaveWrite(c) PROVE TypeOK' /\ StorageInv'
  <2>1. Saving(c) /\ call[c].op \in Op /\ call[c].uri \in Uri /\ call[c].uri \in spent \ issued
    BY <1>0, <1>5, CallType DEF SaveWrite, At, CallInv, Saving, Op
  <2>2. Answer(c, "done") /\ "done" \in Out
    BY <1>5 DEF SaveWrite, Out
  <2>3. /\ file' = [file EXCEPT ![call[c].uri] = "whole"]
        /\ UNCHANGED <<issued, spent, removed>>
    BY <1>5 DEF SaveWrite
  <2>4. /\ call'[c] = [op |-> "save", uri |-> call[c].uri, out |-> "done",
                       there |-> call[c].there]
        /\ pc'[c] = "return"
        /\ Others(c) /\ call' \in [Client -> Call]
        /\ pc' \in [Client -> {"idle", "open", "write", "is_file", "act", "return"}]
    BY <2>1, <2>2, AnswerEffect DEF Saving
  <2>5. TypeOK'
    BY <2>1, <2>3, <2>4
  <2>6. CallInv(c)' /\ Saving(c)' /\ call'[c].uri = call[c].uri
    BY <2>1, <2>3, <2>4 DEF CallInv, Saving, Pending, Op
  <2> QED BY <1>3, <2>1, <2>3, <2>4, <2>5, <2>6
<1>6. ASSUME NEW c \in Client, NEW op \in Op \ {"save"}, NEW u \in Uri, LookStart(c, op, u)
      PROVE  TypeOK' /\ StorageInv'
  <2>1. /\ call'[c] = [op |-> op, uri |-> u, out |-> "pending", there |-> IsFile(u)]
        /\ pc'[c] = "is_file"
        /\ Others(c) /\ FilesKept /\ u \in issued
    BY <1>6 DEF LookStart, Goto
  <2>2. TypeOK'
    BY <1>6, <2>1 DEF LookStart, Goto, Out, IsFile
  <2>3. CallInv(c)' /\ call'[c].op # "save"
    <3>1. IsFile(u) \/ u \in removed
      BY <2>1 DEF StorageInv, FileInv, IsFile
    <3>2. /\ call'[c].op = op /\ call'[c].uri = u /\ call'[c].out = "pending"
          /\ call'[c].there = IsFile(u)
      BY <2>1
    <3>3. ~call'[c].there => u \in removed'
      BY <2>1, <3>1, <3>2
    <3>4. op \in Op \ {"save"} /\ op # "save" /\ NoCall.op # op
      BY DEF Op, NoCall
    <3> QED BY <2>1, <3>2, <3>3, <3>4 DEF CallInv, Saving, Pending
  <2> QED BY <2>1, <2>2, <2>3, MoveFrame
<1>7. ASSUME NEW c \in Client, NEW out \in {"done", "missing", "escaped"}, Answer(c, out),
             call[c].op \in Op \ {"save"}
      PROVE  /\ call' \in [Client -> Call] /\ Others(c) /\ call'[c].op # "save"
             /\ pc' \in [Client -> {"idle", "open", "write", "is_file", "act", "return"}]
             /\ issued' = issued /\ removed \subseteq removed' => CallInv(c)'
  <2>1. /\ call'[c] = [op |-> call[c].op, uri |-> call[c].uri, out |-> out,
                       there |-> call[c].there]
        /\ pc'[c] = "return" /\ Others(c) /\ call' \in [Client -> Call]
        /\ pc' \in [Client -> {"idle", "open", "write", "is_file", "act", "return"}]
    BY <1>7, AnswerEffect DEF Out
  <2>2. call[c].uri \in issued
    BY <1>0, <1>7 DEF CallInv
  <2>3. ~call[c].there => call[c].uri \in removed
    BY <1>0, <1>7 DEF CallInv
  <2> QED BY <1>7, <2>1, <2>2, <2>3 DEF CallInv, Saving, Pending
<1>8. ASSUME NEW c \in Client, NEW out \in {"done", "missing", "escaped"}, Answer(c, out),
             call[c].op \in Op \ {"save"}, FilesKept
      PROVE  TypeOK' /\ StorageInv'
  <2>1. TypeOK'
    BY <1>7, <1>8
  <2> QED BY <1>7, <1>8, <2>1, MoveFrame
<1>9. ASSUME NEW c \in Client, LookCheck(c) PROVE TypeOK' /\ StorageInv'
  <2>1. call[c].op \in Op \ {"save"} /\ Pending(c) /\ FilesKept /\ call[c].uri \in issued
    BY <1>0, <1>9 DEF LookCheck, At, CallInv
  <2>2. CASE Answer(c, "missing") \/ Answer(c, "done")
    BY <1>8, <2>1, <2>2
  <2>3. CASE IsFile(call[c].uri) /\ call[c].op # "presign" /\ Goto(c, "act") /\ UNCHANGED call
    <3>1. pc'[c] = "act" /\ Others(c) /\ TypeOK'
      BY <2>1, <2>3 DEF Goto
    <3>2. call[c].there
      <4>1. call[c].uri \notin removed
        BY <2>1, <2>3 DEF StorageInv, FileInv, IsFile
      <4> QED BY <1>0, <2>1, <4>1 DEF CallInv
    <3>3. CallInv(c)'
      <4>1. call'[c] = call[c]
        BY <2>3
      <4> QED BY <1>0, <2>1, <2>3, <3>1, <3>2, <4>1 DEF CallInv, Saving, Pending
    <3> QED BY <2>1, <2>3, <3>1, <3>3, MoveFrame
  <2> QED BY <1>9, <2>2, <2>3 DEF LookCheck
<1>10. ASSUME NEW c \in Client, ReadBytes(c) PROVE TypeOK' /\ StorageInv'
  <2>1. call[c].op = "read" /\ call[c].uri \in issued /\ FilesKept
    BY <1>0, <1>10 DEF ReadBytes, Doing, CallInv, Op
  <2>2. file[call[c].uri] \in {"absent", "whole"}
    BY <2>1 DEF StorageInv, FileInv
  <2>3. Answer(c, "done") \/ Answer(c, "escaped")
    BY <1>10, <2>2 DEF ReadBytes, IsFile
  <2> QED BY <1>8, <2>1, <2>3 DEF Op
<1>11. ASSUME NEW c \in Client, Unlink(c) PROVE TypeOK' /\ StorageInv'
  <2>1. call[c].op = "delete" /\ call[c].op \in Op \ {"save"} /\ call[c].uri \in issued
    BY <1>0, <1>11 DEF Unlink, Doing, CallInv, Op
  <2>2. PICK out \in {"done", "escaped"} : Answer(c, out)
    BY <1>11 DEF Unlink
  <2>3. /\ \A u \in Uri : u # call[c].uri => file'[u] = file[u]
        /\ file'[call[c].uri] = "absent" /\ file' \in [Uri -> {"absent", "partial", "whole"}]
        /\ removed' = removed \union {call[c].uri} /\ UNCHANGED <<issued, spent>>
    <3>1. CASE ~IsFile(call[c].uri)
      <4>1. call[c].uri \in removed /\ file[call[c].uri] = "absent"
        BY <2>1, <3>1 DEF StorageInv, FileInv, IsFile
      <4> QED BY <1>11, <3>1, <4>1 DEF Unlink
    <3>2. CASE IsFile(call[c].uri)
      BY <1>11, <2>1, <3>2 DEF Unlink
    <3> QED BY <3>1, <3>2
  <2>4. /\ call' \in [Client -> Call] /\ Others(c) /\ call'[c].op # "save" /\ CallInv(c)'
        /\ pc' \in [Client -> {"idle", "open", "write", "is_file", "act", "return"}]
    BY <1>7, <2>1, <2>2, <2>3
  <2>5. TypeOK'
    BY <2>1, <2>3, <2>4
  <2>6. FileInv'
    BY <2>1, <2>3 DEF StorageInv, FileInv
  <2>7. ASSUME NEW d \in Client, d # c PROVE CallInv(d)'
    <3>1. Saving(d) => call[d].uri \in spent \ issued /\ call[d].uri # call[c].uri
      BY <1>0, <2>1 DEF CallInv
    <3> QED BY <2>3, <2>4, <2>7, <3>1, CallFrame
  <2>8. DistinctSaves'
    BY <2>4 DEF StorageInv, DistinctSaves, Saving
  <2> QED BY <2>4, <2>5, <2>6, <2>7, <2>8 DEF StorageInv
<1>12. ASSUME NEW c \in Client, Return(c) PROVE TypeOK' /\ StorageInv'
  <2>1. /\ pc'[c] = "idle" /\ call'[c] = NoCall /\ Others(c)
        /\ UNCHANGED <<file, spent, removed>>
        /\ issued' = IF Saving(c) THEN issued \union {call[c].uri} ELSE issued
    BY <1>12 DEF Return, Goto, Saving
  <2>2. /\ call[c].op \in Op /\ call[c].uri \in Uri
        /\ Saving(c) => file[call[c].uri] = "whole" /\ call[c].uri \in spent \ issued
    BY <1>0, <1>12, CallType DEF Return, At, CallInv
  <2>3. TypeOK'
    BY <1>12, <2>1, <2>2 DEF Return, Goto
  <2>4. FileInv'
    BY <2>1, <2>2 DEF StorageInv, FileInv
  <2>5. ASSUME NEW d \in Client, d # c PROVE CallInv(d)'
    <3>1. Saving(d) => /\ call[d].uri \in spent \ issued
                       /\ Saving(c) => call[d].uri # call[c].uri
      BY <1>0, <2>5 DEF CallInv, StorageInv, DistinctSaves
    <3> QED BY <2>1, <2>5, <3>1, CallFrame
  <2>6. CallInv(c)' /\ DistinctSaves'
    BY <2>1 DEF CallInv, StorageInv, DistinctSaves, Saving, NoCall, Op
  <2> QED BY <2>3, <2>4, <2>5, <2>6 DEF StorageInv
<1>13. ASSUME NEW c \in Client, IOError(c) PROVE TypeOK' /\ StorageInv'
  <2>1. pc'[c] = "idle" /\ call'[c] = NoCall /\ Others(c) /\ FilesKept
    BY <1>13 DEF IOError, Goto
  <2>2. TypeOK'
    BY <1>13 DEF IOError, Goto
  <2> QED BY <1>1, <2>1, <2>2
<1>14. ASSUME Crash PROVE TypeOK' /\ StorageInv'
  BY <1>14 DEF Crash, StorageInv, FileInv, DistinctSaves, CallInv, Saving, NoCall, Op
<1>15. CASE UNCHANGED vars
  BY <1>15 DEF vars, StorageInv, FileInv, DistinctSaves, CallInv, Saving, Pending
<1> QED BY <1>2, <1>4, <1>5, <1>6, <1>9, <1>10, <1>11, <1>12, <1>13, <1>14, <1>15 DEF Next

\* Files and calls stay consistent whatever interleaves, fails or crashes.
THEOREM StorageInvariant == Spec => [](TypeOK /\ StorageInv)
<1>1. Init => TypeOK /\ StorageInv
  BY DEF Init, TypeOK, StorageInv, FileInv, DistinctSaves, CallInv, Saving, NoCall, Op
<1>2. (TypeOK /\ StorageInv) /\ [Next]_vars => (TypeOK /\ StorageInv)'
  BY StorageStep
<1> QED BY <1>1, <1>2, PTL DEF Spec

\* Type correctness of files, calls and names (local.py:66-94).
THEOREM TypeCorrect == Spec => []TypeOK
BY StorageInvariant, PTL

\* What save() returned stays readable and whole until it is deleted.
THEOREM IssuedStaysIntact == Spec => []IssuedIntact
<1>1. StorageInv => IssuedIntact
  BY DEF StorageInv, FileInv, IssuedIntact
<1> QED BY <1>1, StorageInvariant, PTL

-----------------------------------------------------------------------------
\* Every behaviour of the storage is one of the promised store, each call taking
\* effect at one file operation.
LEMMA StoreStep ==
    ASSUME TypeOK, StorageInv, [Next]_vars
    PROVE  Store!Next \/ UNCHANGED Store!vars
<1> DEFINE whole == {u \in Uri : file[u] = "whole"}
<1>0. \A c \in Client : CallInv(c)
  BY DEF StorageInv
<1>1. \A c \in Client : At(c, "idle") => call[c] = NoCall
  BY <1>0 DEF At, CallInv
<1>2. ASSUME NEW c \in Client, NEW u \in Uri, SaveStart(c, u) PROVE Store!Invoke(c, "save", u)
  <2>1. (u \in whole) = FALSE
    BY <1>2 DEF SaveStart, StorageInv, FileInv
  <2> QED BY <1>1, <1>2, <2>1 DEF SaveStart, Store!Invoke, Store!NoCall, NoCall
\* A uri that was handed out has a whole file or none.
<1>3. \A u \in issued : u \in Uri /\ (IsFile(u) <=> u \in whole)
  BY DEF StorageInv, FileInv, IsFile, TypeOK
<1>4. ASSUME NEW c \in Client, NEW op \in Op \ {"save"}, NEW u \in Uri, LookStart(c, op, u)
      PROVE  Store!Invoke(c, op, u)
  <2>1. IsFile(u) = (u \in whole)
    BY <1>3, <1>4 DEF LookStart, IsFile
  <2> QED BY <1>1, <1>4, <2>1 DEF LookStart, Store!Invoke, Store!NoCall, NoCall, Op
<1>5. ASSUME NEW c \in Client, SaveOpen(c) PROVE UNCHANGED Store!vars
  <2>1. file[call[c].uri] # "whole" /\ UNCHANGED <<call, spent>>
    BY <1>0, <1>5 DEF SaveOpen, At, CallInv
  <2>2. whole' = whole
    BY <1>5, <2>1 DEF SaveOpen, TypeOK
  <2> QED BY <2>1, <2>2 DEF Store!vars
<1>6. ASSUME NEW c \in Client, SaveWrite(c) PROVE Store!Save(c)
  <2>1. Saving(c) /\ Pending(c) /\ call[c].uri \in Uri
    BY <1>0, <1>6, CallType DEF SaveWrite, At, CallInv, Saving, Op
  <2>2. whole' = whole \union {call[c].uri} /\ spent' = spent /\ Answer(c, "done")
    BY <1>6, <2>1 DEF SaveWrite, TypeOK
  <2> QED BY <2>1, <2>2 DEF Store!Save, Store!Pending, Store!Answer, Answer, Saving, Pending
\* The other calls hold uris that were handed out.
<1>7. ASSUME NEW c \in Client, call[c].op \in Op \ {"save"}
      PROVE  call[c].uri \in Uri /\ (IsFile(call[c].uri) <=> call[c].uri \in whole)
  BY <1>0, <1>3, <1>7 DEF CallInv
<1>8. ASSUME NEW c \in Client, LookCheck(c) PROVE Store!Next \/ UNCHANGED Store!vars
  <2>1. call[c].op \in Op \ {"save"} /\ Pending(c) /\ UNCHANGED <<file, spent>>
    BY <1>0, <1>8 DEF LookCheck, At, CallInv
  <2>2. CASE UNCHANGED call
    BY <2>1, <2>2 DEF Store!vars
  <2>3. CASE ~IsFile(call[c].uri) /\ Answer(c, "missing") /\ call[c].op = "delete"
    <3>1. whole' = whole \ {call[c].uri}
      BY <1>7, <2>1, <2>3
    <3>2. Store!Delete(c)
      BY <1>7, <2>1, <2>3, <3>1 DEF Store!Delete, Store!Pending, Store!Answer, Answer, Pending
    <3> QED BY <3>2 DEF Store!Next
  <2>4. CASE /\ call[c].op \in {"read", "presign"}
             /\ \/ ~IsFile(call[c].uri) /\ Answer(c, "missing")
                \/ IsFile(call[c].uri) /\ Answer(c, "done")
    <3>1. Store!Look(c, call[c].op)
      BY <1>7, <2>1, <2>4 DEF Store!Look, Store!Pending, Store!Answer, Answer, Pending
    <3> QED BY <2>4, <3>1 DEF Store!Next
  <2> QED BY <1>8, <2>1, <2>2, <2>3, <2>4 DEF LookCheck, Op
\* A read that finds its file open answers; otherwise somebody unlinked it since
\* the call began.
<1>9. ASSUME NEW c \in Client, ReadBytes(c) PROVE Store!Look(c, "read") \/ Store!Escape(c)
  <2>1. /\ call[c].op = "read" /\ Pending(c) /\ call[c].there /\ UNCHANGED <<file, spent>>
        /\ call[c].op \in Op \ {"save"}
    BY <1>0, <1>9 DEF ReadBytes, Doing, At, CallInv, Op
  <2>2. CASE IsFile(call[c].uri)
    <3>1. Answer(c, "done")
      BY <1>7, <1>9, <2>1, <2>2 DEF ReadBytes
    <3> QED BY <1>7, <2>1, <2>2, <3>1 DEF Store!Look, Store!Pending, Store!Answer, Answer, Pending
  <2>3. CASE ~IsFile(call[c].uri)
    BY <1>7, <1>9, <2>1, <2>3
       DEF ReadBytes, Store!Escape, Store!Pending, Store!Answer, Answer, Pending
  <2> QED BY <2>2, <2>3
<1>10. ASSUME NEW c \in Client, Unlink(c) PROVE Store!Delete(c) \/ Store!Escape(c)
  <2>1. /\ call[c].op = "delete" /\ Pending(c) /\ call[c].there /\ UNCHANGED spent
        /\ call[c].op \in Op \ {"save"}
    BY <1>0, <1>10 DEF Unlink, Doing, At, CallInv, Op
  <2>2. CASE IsFile(call[c].uri)
    <3>1. Answer(c, "done") /\ file' = [file EXCEPT ![call[c].uri] = "absent"]
      BY <1>10, <2>2 DEF Unlink
    <3>2. whole' = whole \ {call[c].uri}
      BY <1>7, <2>1, <3>1 DEF TypeOK
    <3> QED BY <1>7, <2>1, <2>2, <3>1, <3>2
            DEF Store!Delete, Store!Pending, Store!Answer, Answer, Pending
  <2>3. CASE ~IsFile(call[c].uri)
    BY <1>7, <1>10, <2>1, <2>3
       DEF Unlink, Store!Escape, Store!Pending, Store!Answer, Answer, Pending
  <2> QED BY <2>2, <2>3
<1>11. ASSUME NEW c \in Client, Return(c) \/ IOError(c) PROVE Store!Leave(c)
  <2>1. call[c].op \in Op /\ UNCHANGED <<file, spent>> /\ call' = [call EXCEPT ![c] = NoCall]
    BY <1>0, <1>11 DEF Return, IOError, At, CallInv, Saving, Op
  <2>2. call[c] # NoCall
    BY <2>1 DEF NoCall, Op
  <2> QED BY <2>1, <2>2 DEF Store!Leave, Store!NoCall, NoCall
<1>12. ASSUME Crash PROVE Store!LeaveAll
  BY <1>12 DEF Crash, Store!LeaveAll, Store!NoCall, NoCall
<1>13. CASE UNCHANGED vars
  BY <1>13 DEF vars, Store!vars
<1>14. ASSUME NEW c \in Client, NEW op \in {"read", "presign"}, Store!Look(c, op)
       PROVE  Store!Next
  BY <1>14 DEF Store!Next
<1> QED BY <1>2, <1>4, <1>5, <1>6, <1>8, <1>9, <1>10, <1>11, <1>12, <1>13, <1>14
        DEF Next, Store!Next, Op

\* LocalFsStorage is the store of the interface: every answer but one is the
\* interface's, true at an instant of the call, and FileNotFoundError reaches only
\* a read() or delete() whose file another call unlinked while it ran.
THEOREM ImplementsStore == Spec => StoreSpec
<1>1. Init => Store!Init
  BY DEF Init, Store!Init, Store!NoCall, NoCall
<1>2. TypeOK /\ StorageInv /\ [Next]_vars => [Store!Next]_(Store!vars)
  BY StoreStep
<1> QED BY <1>1, <1>2, StorageInvariant, PTL DEF Spec, StoreSpec, Store!Spec
=============================================================================
