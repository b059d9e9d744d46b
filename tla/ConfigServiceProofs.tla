------------------------- MODULE ConfigServiceProofs -------------------------
(***************************************************************************)
(* Machine-checked theorems of ConfigService, for every set of processes   *)
(* and coroutines, every TTL, latency and number of writes.                *)
(***************************************************************************)
EXTENDS ConfigService, TLAPS

USE TimingAssumption, BoundsAssumption, HomeAssumption

\* The values the actions build are of the declared types.
LEMMA BuiltTypes ==
    /\ Bound \in Nat
    /\ Idle \in [at : At, ver : Version, wait : 0..Latency]
    /\ Missing \in Entry
    /\ \A v \in Version, b \in BOOLEAN :
          [ver |-> v, raw |-> b, age |-> 0] \in Entry
BY DEF Bound, Idle, At, Version, Missing, Entry

\* What a reader is given is of the declared type.
LEMMA AnswerType ==
    ASSUME TypeOK, NEW v \in Version, NEW b \in BOOLEAN
    PROVE  /\ Answer(v, b).ver = v
           /\ Answer(v, b).late = lag[v]
           /\ Answer(v, b) \in [ver : Version, answer : Section,
                                late : 0..(Bound + 1)]
BY BuiltTypes DEF Answer, TypeOK, Section

\* Type correctness of the configuration cache (config.py:112-253).
THEOREM TypeCorrect == Spec => []TypeOK
<1>1. Init => TypeOK
  <2> SUFFICES ASSUME Init PROVE TypeOK
    OBVIOUS
  <2>1. 0 \in Version /\ doc \in Version /\ blank \in SUBSET (0..doc)
    BY DEF Init, Version
  <2>2. cache \in [Proc -> Entry] /\ task \in [Task -> [at : At, ver : Version, wait : 0..Latency]]
    BY BuiltTypes DEF Init
  <2>3. heard \in [Proc -> Seq(Version)] /\ \A p \in Proc : Len(heard[p]) <= MaxListeners[p]
    BY DEF Init
  <2>4. lag \in [Version -> 0..(Bound + 1)] /\ acked \in [Proc -> Version]
        /\ mine \in [Proc -> SUBSET Version]
    BY BuiltTypes, <2>1 DEF Init
  <2>5. Answer(0, FALSE) \in [ver : Version, answer : Section,
                              late : 0..(Bound + 1)]
    BY <2>1, <2>4 DEF Answer, Section
  <2>6. ret \in [Proc -> [ver : Version, answer : Section,
                          late : 0..(Bound + 1)]]
    BY <2>5 DEF Init
  <2> QED BY <2>1, <2>2, <2>3, <2>4, <2>6 DEF TypeOK
<1>2. TypeOK /\ [Next]_vars => TypeOK'
  <2> SUFFICES ASSUME TypeOK, [Next]_vars PROVE TypeOK'
    OBVIOUS
  <2>1. ASSUME NEW p \in Proc, GetHit(p) PROVE TypeOK'
    <3>1. cache[p].ver \in Version /\ cache[p].raw \in BOOLEAN
      BY DEF TypeOK, Entry
    <3>2. ret' \in [Proc -> [ver : Version, answer : Section,
                             late : 0..(Bound + 1)]]
      BY <2>1, <3>1, AnswerType DEF GetHit, TypeOK
    <3> QED BY <2>1, <3>2 DEF GetHit, TypeOK
  <2>2. ASSUME NEW t \in Task, GetMiss(t) PROVE TypeOK'
    BY <2>2 DEF GetMiss, Goto, TypeOK, At
  <2>3. ASSUME NEW t \in Task, FindOne(t) PROVE TypeOK'
    BY <2>3 DEF FindOne, TypeOK, At
  <2>4. ASSUME NEW t \in Task, GetDone(t) PROVE TypeOK'
    <3>1. task[t].ver \in Version /\ Home[t] \in Proc
      BY DEF TypeOK
    <3>2. ret' \in [Proc -> [ver : Version, answer : Section,
                             late : 0..(Bound + 1)]]
      BY <2>4, <3>1, AnswerType DEF GetDone, TypeOK
    <3>3. cache' \in [Proc -> Entry]
      BY <2>4, <3>1, BuiltTypes DEF GetDone, Store, TypeOK
    <3>4. task' \in [Task -> [at : At, ver : Version, wait : 0..Latency]]
      BY <2>4, BuiltTypes DEF GetDone, TypeOK
    <3> QED BY <2>4, <3>2, <3>3, <3>4 DEF GetDone, TypeOK
  <2>5. ASSUME NEW t \in Task, SetStart(t) PROVE TypeOK'
    BY <2>5 DEF SetStart, Goto, TypeOK, At
  <2>6. ASSUME NEW t \in Task, UpdateOne(t) PROVE TypeOK'
    <3>1. doc' \in Version /\ blank' \in SUBSET (0..doc')
      BY <2>6 DEF UpdateOne, TypeOK, Version
    <3>2. task' \in [Task -> [at : At, ver : Version, wait : 0..Latency]]
      BY <2>6, <3>1, BuiltTypes DEF UpdateOne, TypeOK, At
    <3> QED BY <2>6, <3>1, <3>2 DEF UpdateOne, TypeOK
  <2>7. ASSUME NEW t \in Task, SetDone(t) PROVE TypeOK'
    <3>1. task[t].ver \in Version /\ Home[t] \in Proc
      BY DEF TypeOK
    <3>2. heard' \in [Proc -> Seq(Version)] /\ \A p \in Proc : Len(heard'[p]) <= MaxListeners[p]
      <4>1. PICK k \in 0..Len(heard[Home[t]]) :
               heard' = [heard EXCEPT ![Home[t]] =
                           [i \in 1..Len(heard[Home[t]]) |->
                              IF i <= k THEN task[t].ver ELSE heard[Home[t]][i]]]
        BY <2>7 DEF SetDone, Notify
      <4> DEFINE told == [i \in 1..Len(heard[Home[t]]) |->
                            IF i <= k THEN task[t].ver ELSE heard[Home[t]][i]]
      <4>2. heard[Home[t]] \in Seq(Version) /\ Len(heard[Home[t]]) \in Nat
        BY <3>1 DEF TypeOK
      <4>3. told \in [1..Len(heard[Home[t]]) -> Version]
        BY <3>1, <4>2
      <4>4. told \in Seq(Version) /\ Len(told) = Len(heard[Home[t]])
        BY <4>2, <4>3
      <4>5. heard' = [heard EXCEPT ![Home[t]] = told]
        BY <4>1
      <4> HIDE DEF told
      <4> QED BY <4>4, <4>5, <3>1 DEF TypeOK
    <3>3. cache' \in [Proc -> Entry]
      BY <2>7, <3>1, BuiltTypes DEF SetDone, Store, TypeOK
    <3>4. task' \in [Task -> [at : At, ver : Version, wait : 0..Latency]]
      BY <2>7, BuiltTypes DEF SetDone, TypeOK
    <3>5. acked' \in [Proc -> Version] /\ mine' \in [Proc -> SUBSET Version]
      BY <2>7, <3>1 DEF SetDone, TypeOK
    <3> QED BY <2>7, <3>2, <3>3, <3>4, <3>5 DEF SetDone, TypeOK
  <2>8. ASSUME NEW t \in Task, Fail(t) PROVE TypeOK'
    <3>1. CASE task' = [task EXCEPT ![t] = Idle]
      BY <2>8, <3>1, BuiltTypes DEF Fail, TypeOK
    <3>2. CASE Goto(t, "orphan")
      BY <2>8, <3>2, ZenonT(30) DEF Fail, Goto, TypeOK, At
    <3> QED BY <2>8, <3>1, <3>2 DEF Fail
  <2>9. ASSUME NEW p \in Proc, Invalidate(p) PROVE TypeOK'
    BY <2>9, BuiltTypes DEF Invalidate, TypeOK
  <2>10. ASSUME NEW p \in Proc, OnChange(p) PROVE TypeOK'
    <3>1. heard[p] \in Seq(Version) /\ 0 \in Version
      BY DEF TypeOK, Version
    <3>2. Append(heard[p], 0) \in Seq(Version) /\ Len(Append(heard[p], 0)) = Len(heard[p]) + 1
      BY <3>1
    <3>3. Len(heard[p]) \in Nat /\ Len(heard[p]) + 1 <= MaxListeners[p]
      BY <2>10, <3>1 DEF OnChange
    <3>4. heard' \in [Proc -> Seq(Version)] /\ \A q \in Proc : Len(heard'[q]) <= MaxListeners[q]
      BY <2>10, <3>2, <3>3 DEF OnChange, TypeOK
    <3> QED BY <2>10, <3>4 DEF OnChange, TypeOK
  <2>11. ASSUME NEW p \in Proc, Restart(p) PROVE TypeOK'
    <3>1. heard' \in [Proc -> Seq(Version)] /\ \A q \in Proc : Len(heard'[q]) <= MaxListeners[q]
      BY <2>11 DEF Restart, TypeOK
    <3>2. [Idle EXCEPT !.at = "orphan"] \in [at : At, ver : Version, wait : 0..Latency]
      BY DEF Idle, At, Version
    <3>3. task' \in [Task -> [at : At, ver : Version, wait : 0..Latency]]
      BY <2>11, <3>2, BuiltTypes DEF Restart, TypeOK
    <3> QED BY <2>11, <3>1, <3>3, BuiltTypes DEF Restart, TypeOK
  <2>12. ASSUME Tick PROVE TypeOK'
    <3>1. cache' \in [Proc -> Entry]
      <4>1. ASSUME NEW p \in Proc, Fresh(p)
            PROVE  [cache[p] EXCEPT !.age = @ + 1] \in Entry
        <5>1. cache[p] \in Entry /\ cache[p].age + 1 \in 0..(TTL + 1)
          BY <4>1 DEF TypeOK, Entry, Fresh
        <5> QED BY <5>1 DEF Entry
      <4> QED BY <2>12, <4>1 DEF Tick, TypeOK
    <3>2. task' \in [Task -> [at : At, ver : Version, wait : 0..Latency]]
      <4>1. ASSUME NEW t \in Task, task[t].at \in {"found", "updated"}
            PROVE  [task[t] EXCEPT !.wait = @ + 1] \in [at : At, ver : Version, wait : 0..Latency]
        <5>1. task[t] \in [at : At, ver : Version, wait : 0..Latency]
          BY DEF TypeOK
        <5>2. task[t].wait + 1 \in 0..Latency
          BY <2>12, <4>1, <5>1 DEF Tick
        <5> QED BY <5>1, <5>2
      <4> QED BY <2>12, <4>1 DEF Tick, TypeOK
    <3>3. lag' \in [Version -> 0..(Bound + 1)]
      BY <2>12, BuiltTypes DEF Tick, TypeOK
    <3> QED BY <2>12, <3>1, <3>2, <3>3 DEF Tick, TypeOK
  <2>13. CASE UNCHANGED vars
    BY <2>13 DEF vars, TypeOK
  <2> QED BY <2>1, <2>2, <2>3, <2>4, <2>5, <2>6, <2>7, <2>8, <2>9, <2>10, <2>11, <2>12,
             <2>13 DEF Next, TaskStep, ProcStep
<1> QED BY <1>1, <1>2, PTL DEF Spec

-----------------------------------------------------------------------------
\* Versions up to doc exist, and their lag is a number.
LEMMA LagNat ==
    ASSUME TypeOK
    PROVE  doc \in Nat /\ \A v \in 0..doc : v \in Version /\ lag[v] \in Nat
<1>1. doc \in Nat /\ doc <= MaxWrites
  BY DEF TypeOK, Version
<1>2. \A v \in 0..doc : v \in Version
  BY <1>1 DEF Version
<1> QED BY <1>1, <1>2, BuiltTypes DEF TypeOK

\* Steps that bring no new version to a coroutine or a cache keep Staleness.
LEMMA StalenessFrame ==
    ASSUME TypeOK, Staleness, UNCHANGED <<doc, lag>>,
           \A t \in Task : task'[t].at \in {"found", "updated"} => task'[t] = task[t],
           \A p \in Proc : cache'[p] = cache[p] \/ cache'[p] = Missing
    PROVE  Staleness'
<1>1. \A p \in Proc : cache'[p] = Missing => cache'[p].ver <= doc /\ ~Fresh(p)'
  BY LagNat DEF Missing, Fresh
<1> QED BY <1>1 DEF Staleness, Fresh

\* The staleness bound on everything a process holds: answers on their way and
\* live cache entries (config.py:188-226, 241).
LEMMA StalenessStep == TypeOK /\ TypeOK' /\ Staleness /\ [Next]_vars => Staleness'
<1> SUFFICES ASSUME TypeOK, TypeOK', Staleness, [Next]_vars PROVE Staleness'
  OBVIOUS
<1> USE BuiltTypes
<1>1. ASSUME NEW p \in Proc, GetHit(p) \/ OnChange(p) PROVE Staleness'
  BY <1>1 DEF GetHit, OnChange, Staleness, Fresh
<1>2. ASSUME NEW t \in Task, GetMiss(t) \/ SetStart(t) PROVE Staleness'
  <2>1. \E at \in {"finding", "updating"} : task' = [task EXCEPT ![t].at = at]
    BY <1>2 DEF GetMiss, SetStart, Goto
  <2>2. \A u \in Task : task'[u].at \in {"found", "updated"} => task'[u] = task[u]
    BY <2>1, ZenonT(30) DEF TypeOK
  <2> QED BY <1>2, <2>2, StalenessFrame DEF GetMiss, SetStart
<1>3. ASSUME NEW t \in Task, FindOne(t) PROVE Staleness'
  <2>1. task' = [task EXCEPT ![t] = [at |-> "found", ver |-> doc, wait |-> 0]]
        /\ UNCHANGED <<doc, lag, cache>>
    BY <1>3 DEF FindOne
  <2>2. doc \in Nat /\ lag[doc] = 0
    BY LagNat DEF Staleness
  <2>3. \A u \in Task : task'[u] = IF u = t THEN [at |-> "found", ver |-> doc, wait |-> 0]
                                          ELSE task[u]
    BY <2>1 DEF TypeOK
  <2>4. task'[t].ver <= doc /\ lag[task'[t].ver] <= task'[t].wait
    BY <2>2, <2>3
  <2> QED BY <2>1, <2>3, <2>4 DEF Staleness, Fresh
<1>4. ASSUME NEW t \in Task, GetDone(t) \/ SetDone(t) PROVE Staleness'
  <2>1. /\ task[t].ver \in 0..doc
        /\ lag[task[t].ver] <= task[t].wait
        /\ task[t].wait \in 0..Latency
    <3>1. task[t] \in [at : At, ver : Version, wait : 0..Latency]
      BY DEF TypeOK
    <3>2. task[t].at \in {"found", "updated"}
      BY <1>4 DEF GetDone, SetDone
    <3> QED BY <3>1, <3>2, LagNat DEF Staleness, Version
  <2>2. PICK b \in BOOLEAN : Store(Home[t], task[t].ver, b)
    BY <1>4 DEF GetDone, SetDone
  <2>3. /\ doc' = doc /\ lag' = lag
        /\ task' = [task EXCEPT ![t] = Idle]
    BY <1>4 DEF GetDone, SetDone
  <2>4. ASSUME NEW p \in Proc
        PROVE  /\ cache'[p].ver <= doc
               /\ Fresh(p)' => lag[cache'[p].ver] <= cache'[p].age + Latency
    <3>1. CASE p = Home[t]
      <4>1. cache'[p] = [ver |-> task[t].ver, raw |-> b, age |-> 0]
        BY <2>2, <3>1 DEF Store, TypeOK
      <4>2. lag[task[t].ver] \in Nat /\ doc \in Nat
        BY <2>1, LagNat
      <4> QED BY <2>1, <4>1, <4>2 DEF Fresh
    <3>2. CASE p # Home[t]
      <4>1. cache'[p] = cache[p]
        BY <2>2, <3>2 DEF Store, TypeOK
      <4> QED BY <4>1 DEF Staleness, Fresh
    <3> QED BY <3>1, <3>2
  <2>5. ASSUME NEW u \in Task, task'[u].at \in {"found", "updated"}
        PROVE  task'[u] = task[u]
    BY <2>3, <2>5 DEF Idle, TypeOK
  <2> QED BY <2>3, <2>4, <2>5 DEF Staleness
<1>5. ASSUME NEW t \in Task, UpdateOne(t) PROVE Staleness'
  <2>1. /\ doc \in Nat /\ doc' = doc + 1 /\ doc + 1 \in Version
        /\ lag' = lag /\ cache' = cache
    BY <1>5 DEF UpdateOne, TypeOK, Version
  <2>2. \A v \in Version : v >= doc' => lag'[v] = 0
    BY <2>1 DEF Staleness, Version
  <2>3. ASSUME NEW u \in Task, task'[u].at \in {"found", "updated"}
        PROVE  task'[u].ver <= doc' /\ lag'[task'[u].ver] <= task'[u].wait
    <3>1. CASE u = t
      <4>1. task'[u] = [at |-> "updated", ver |-> doc + 1, wait |-> 0]
        BY <1>5, <2>3, <3>1 DEF UpdateOne, TypeOK, Idle
      <4> QED BY <2>1, <2>2, <4>1
    <3>2. CASE u # t
      <4>1. task'[u] = task[u]
        BY <1>5, <3>2 DEF UpdateOne, TypeOK
      <4>2. task[u].ver \in Nat
        BY DEF TypeOK, Version
      <4> QED BY <2>1, <2>3, <4>1, <4>2 DEF Staleness
    <3> QED BY <3>1, <3>2
  <2>4. \A p \in Proc : cache[p].ver \in Nat
    BY DEF TypeOK, Entry, Version
  <2> QED BY <2>1, <2>2, <2>3, <2>4 DEF Staleness, Fresh
<1>6. ASSUME NEW t \in Task, Fail(t) PROVE Staleness'
  <2>1. CASE task' = [task EXCEPT ![t] = Idle]
    <3>1. \A u \in Task : task'[u].at \in {"found", "updated"} => task'[u] = task[u]
      BY <2>1 DEF TypeOK, Idle
    <3> QED BY <1>6, <3>1, StalenessFrame DEF Fail
  <2>2. CASE Goto(t, "orphan")
    <3>1. \A u \in Task : task'[u].at \in {"found", "updated"} => task'[u] = task[u]
      BY <2>2 DEF TypeOK, Goto
    <3> QED BY <1>6, <3>1, StalenessFrame DEF Fail
  <2> QED BY <1>6, <2>1, <2>2 DEF Fail
<1>7. ASSUME NEW p \in Proc, Invalidate(p) PROVE Staleness'
  <2>1. \A q \in Proc : cache'[q] = cache[q] \/ cache'[q] = Missing
    BY <1>7 DEF Invalidate, TypeOK
  <2> QED BY <1>7, <2>1, StalenessFrame DEF Invalidate
<1>8. ASSUME NEW p \in Proc, Restart(p) PROVE Staleness'
  <2>1. \A q \in Proc : cache'[q] = cache[q] \/ cache'[q] = Missing
    BY <1>8 DEF Restart, TypeOK
  <2>2. \A u \in Task : task'[u].at \in {"found", "updated"} => task'[u] = task[u]
    BY <1>8 DEF Restart, Idle
  <2> QED BY <1>8, <2>1, <2>2, StalenessFrame DEF Restart
<1>9. ASSUME Tick PROVE Staleness'
  <2>1. doc' = doc /\ doc \in Nat
    BY <1>9 DEF Tick, TypeOK, Version
  <2>2. \A v \in Version : /\ lag[v] \in Nat /\ lag'[v] \in Nat
                           /\ lag'[v] <= lag[v] + 1
                           /\ v >= doc => lag'[v] = lag[v]
    BY <1>9, <2>1, BuiltTypes DEF Tick, TypeOK, Version
  <2>3. ASSUME NEW t \in Task, task'[t].at \in {"found", "updated"}
        PROVE  task'[t].ver <= doc /\ lag'[task'[t].ver] <= task'[t].wait
    <3>1. task[t] \in [at : At, ver : Version, wait : 0..Latency]
      BY DEF TypeOK
    <3>2. task'[t].ver = task[t].ver /\ task[t].at = task'[t].at
          /\ task'[t].wait = task[t].wait + 1
      BY <1>9, <2>3, <3>1 DEF Tick
    <3>3. task[t].ver \in Version /\ task[t].ver <= doc /\ lag[task[t].ver] <= task[t].wait
      BY <2>3, <3>1, <3>2 DEF Staleness
    <3>4. lag[task[t].ver] \in Nat /\ task[t].wait \in Nat
          /\ lag'[task[t].ver] \in Nat /\ lag'[task[t].ver] <= lag[task[t].ver] + 1
      BY <2>2, <3>1, <3>3
    <3> QED BY <3>2, <3>3, <3>4
  <2>4. ASSUME NEW p \in Proc
        PROVE  /\ cache'[p].ver <= doc
               /\ Fresh(p)' => lag'[cache'[p].ver] <= cache'[p].age + Latency
    <3>1. cache[p] \in Entry
      BY DEF TypeOK
    <3>2. CASE Fresh(p)
      <4>1. cache'[p].ver = cache[p].ver /\ cache'[p].age = cache[p].age + 1
        BY <1>9, <3>1, <3>2 DEF Tick, Entry
      <4>2. /\ cache[p].ver \in Version /\ cache[p].age \in Nat /\ cache[p].ver <= doc
            /\ lag[cache[p].ver] <= cache[p].age + Latency
        BY <3>1, <3>2 DEF Staleness, Entry
      <4>3. /\ lag[cache[p].ver] \in Nat /\ lag'[cache[p].ver] \in Nat
            /\ lag'[cache[p].ver] <= lag[cache[p].ver] + 1
        BY <2>2, <4>2
      <4> QED BY <4>1, <4>2, <4>3
    <3>3. CASE ~Fresh(p)
      BY <1>9, <3>1, <3>3 DEF Tick, Fresh, Staleness
    <3> QED BY <3>2, <3>3
  <2> QED BY <2>1, <2>2, <2>3, <2>4 DEF Staleness
<1>10. CASE UNCHANGED vars
  BY <1>10 DEF vars, Staleness, Fresh
<1> QED BY <1>1, <1>2, <1>3, <1>4, <1>5, <1>6, <1>7, <1>8, <1>9, <1>10
        DEF Next, TaskStep, ProcStep

\* Answers on their way and live entries are no further behind MongoDB than their
\* age allows (config.py:188-226).
THEOREM StalenessInvariant == Spec => []Staleness
<1>1. Init => Staleness
  BY BuiltTypes DEF Init, Staleness, Fresh, Missing, Idle, Version
<1> QED BY <1>1, TypeCorrect, StalenessStep, PTL DEF Spec

-----------------------------------------------------------------------------
\* Steps that do not touch `lag` keep Recent when what they bring to a coroutine
\* or a cache is recent itself.
LEMMA RecentFrame ==
    ASSUME Recent, lag' = lag,
           \A t \in Task : task'[t].at = "updated" =>
              \/ task'[t] = task[t]
              \/ task'[t].ver > 0 /\ lag[task'[t].ver - 1] <= task'[t].wait,
           \A p \in Proc :
              \/ cache'[p] = cache[p]
              \/ ~(cache'[p].age <= TTL) \/ ~cache'[p].raw
              \/ cache'[p].ver > 0 /\ lag[cache'[p].ver - 1] <= cache'[p].age + Latency
    PROVE  Recent'
<1>1. \A t \in Task : task'[t].at = "updated" =>
         task'[t].ver > 0 /\ lag'[task'[t].ver - 1] <= task'[t].wait
  BY DEF Recent
<1>2. \A p \in Proc : Fresh(p)' /\ cache'[p].raw =>
         cache'[p].ver > 0 /\ lag'[cache'[p].ver - 1] <= cache'[p].age + Latency
  BY DEF Recent, Fresh
<1>3. \A v, w \in Version : v <= w => lag'[v] >= lag'[w]
  BY DEF Recent
<1> QED BY <1>1, <1>2, <1>3 DEF Recent, Fresh

\* What set() holds and has cached is the newest version or was until recently.
LEMMA RecentStep == TypeOK /\ Staleness /\ Recent /\ [Next]_vars => Recent'
<1> SUFFICES ASSUME TypeOK, Staleness, Recent, [Next]_vars PROVE Recent'
  OBVIOUS
<1>0. /\ doc \in Nat
      /\ \A v \in Version : v \in Nat /\ lag[v] \in Nat
      /\ \A p \in Proc : cache[p] \in Entry
      /\ \A t \in Task : task[t] \in [at : At, ver : Version, wait : 0..Latency]
  BY LagNat, BuiltTypes DEF TypeOK, Version
<1>1. ASSUME UNCHANGED <<cache, lag>>,
             \A t \in Task : task'[t].at = "updated" => task'[t] = task[t]
      PROVE  Recent'
  BY <1>1, RecentFrame
<1>2. ASSUME NEW t \in Task, GetMiss(t) \/ FindOne(t) \/ SetStart(t) \/ Fail(t) PROVE Recent'
  <2>1. \/ \E at \in {"finding", "updating", "orphan"} : task' = [task EXCEPT ![t].at = at]
        \/ task' = [task EXCEPT ![t] = [at |-> "found", ver |-> doc, wait |-> 0]]
        \/ task' = [task EXCEPT ![t] = Idle]
    BY <1>2 DEF GetMiss, FindOne, SetStart, Fail, Goto
  <2>2. ASSUME NEW at \in {"finding", "updating", "orphan"}, task' = [task EXCEPT ![t].at = at]
        PROVE  \A u \in Task : task'[u] = task[u] \/ task'[u].at = at
    BY <2>2 DEF TypeOK
  <2>3. ASSUME NEW x, x.at # "updated", task' = [task EXCEPT ![t] = x]
        PROVE  \A u \in Task : task'[u] = task[u] \/ task'[u].at # "updated"
    BY <2>3 DEF TypeOK
  <2>4. \A u \in Task : task'[u].at = "updated" => task'[u] = task[u]
    <3>1. Idle.at # "updated" /\ [at |-> "found", ver |-> doc, wait |-> 0].at # "updated"
      BY DEF Idle
    <3> QED BY <2>1, <2>2, <2>3, <3>1
  <2> QED BY <1>1, <1>2, <2>4 DEF GetMiss, FindOne, SetStart, Fail
<1>3. ASSUME NEW t \in Task, UpdateOne(t) PROVE Recent'
  <2>1. /\ UNCHANGED <<cache, lag>> /\ doc + 1 > 0 /\ (doc + 1) - 1 = doc /\ lag[doc] = 0
        /\ task' = [task EXCEPT ![t] = IF task[t].at = "orphan" THEN Idle
                                   ELSE [at |-> "updated", ver |-> doc + 1, wait |-> 0]]
    BY <1>0, <1>3, LagNat DEF UpdateOne, Staleness
  <2>2. \A u \in Task : \/ task'[u] = task[u] \/ task'[u] = Idle
                        \/ task'[u] = [at |-> "updated", ver |-> doc + 1, wait |-> 0]
    BY <2>1 DEF TypeOK
  <2>3. \A u \in Task : task'[u].at = "updated" =>
              \/ task'[u] = task[u]
              \/ task'[u].ver > 0 /\ lag[task'[u].ver - 1] <= task'[u].wait
    BY <2>1, <2>2 DEF Idle
  <2> QED BY <2>1, <2>3, RecentFrame
<1>4. ASSUME NEW t \in Task, GetDone(t) \/ SetDone(t) PROVE Recent'
  <2>1. lag' = lag /\ \A u \in Task : task'[u].at = "updated" => task'[u] = task[u]
    <3>1. lag' = lag /\ task' = [task EXCEPT ![t] = Idle]
      BY <1>4 DEF GetDone, SetDone
    <3>2. \A u \in Task : task'[u] = task[u] \/ task'[u] = Idle
      BY <3>1 DEF TypeOK
    <3> QED BY <3>1, <3>2 DEF Idle
  <2>2. \E b \in BOOLEAN : /\ Store(Home[t], task[t].ver, b)
                           /\ b => task[t].at = "updated"
    BY <1>4 DEF GetDone, SetDone
  <2>3. task[t].at = "updated" => /\ task[t].ver > 0
                                  /\ lag[task[t].ver - 1] <= 0 + Latency
    <3>1. ASSUME task[t].at = "updated" PROVE task[t].ver > 0 /\ lag[task[t].ver - 1] <= 0 + Latency
      <4>1. task[t].ver > 0 /\ lag[task[t].ver - 1] <= task[t].wait
        BY <3>1 DEF Recent
      <4>2. task[t].ver - 1 \in Version /\ task[t].wait \in 0..Latency
        BY <1>0, <4>1 DEF Version
      <4>3. lag[task[t].ver - 1] \in Nat
        BY <1>0, <4>2
      <4> QED BY <4>1, <4>2, <4>3
    <3> QED BY <3>1
  <2>4. \A p \in Proc :
              \/ cache'[p] = cache[p]
              \/ ~cache'[p].raw
              \/ cache'[p].ver > 0 /\ lag[cache'[p].ver - 1] <= cache'[p].age + Latency
    <3>1. PICK b \in BOOLEAN : /\ Store(Home[t], task[t].ver, b)
                               /\ b => task[t].at = "updated"
      BY <2>2
    <3>2. \A p \in Proc : \/ cache'[p] = cache[p]
                          \/ cache'[p] = [ver |-> task[t].ver, raw |-> b, age |-> 0]
      BY <3>1 DEF Store, TypeOK
    <3> QED BY <2>3, <3>1, <3>2
  <2> QED BY <2>1, <2>4, RecentFrame
<1>5. ASSUME NEW p \in Proc, GetHit(p) \/ OnChange(p) \/ Invalidate(p) \/ Restart(p) PROVE Recent'
  <2>1. \A q \in Proc : cache'[q] = cache[q] \/ cache'[q] = Missing
    BY <1>5 DEF GetHit, OnChange, Invalidate, Restart, TypeOK
  <2>2. \A u \in Task : task'[u].at = "updated" => task'[u] = task[u]
    BY <1>5 DEF GetHit, OnChange, Invalidate, Restart, Idle
  <2>3. lag' = lag /\ ~Missing.raw
    BY <1>5 DEF GetHit, OnChange, Invalidate, Restart, Missing
  <2> QED BY <2>1, <2>2, <2>3, RecentFrame
<1>6. ASSUME Tick PROVE Recent'
  <2>1. \A v \in Version : lag'[v] = IF v < doc /\ lag[v] <= Bound THEN lag[v] + 1 ELSE lag[v]
    BY <1>6 DEF Tick
  <2>2. \A v \in Version : lag'[v] \in Nat /\ lag'[v] <= lag[v] + 1
    BY <1>0, <2>1
  <2>3. ASSUME NEW v \in Version, NEW w \in Version, v <= w PROVE lag'[v] >= lag'[w]
    <3>1. lag[v] >= lag[w] /\ (w < doc => v < doc)
      BY <1>0, <2>3 DEF Recent
    <3> QED BY <1>0, <2>1, <3>1, BuiltTypes
  <2>4. ASSUME NEW t \in Task, task'[t].at = "updated"
        PROVE  task'[t].ver > 0 /\ lag'[task'[t].ver - 1] <= task'[t].wait
    <3>1. /\ task[t].at = "updated" /\ task'[t].ver = task[t].ver
          /\ task'[t].wait = task[t].wait + 1
      BY <1>0, <1>6, <2>4 DEF Tick
    <3>2. task[t].ver > 0 /\ lag[task[t].ver - 1] <= task[t].wait
      BY <3>1 DEF Recent
    <3>3. task[t].ver - 1 \in Version /\ task[t].wait \in Nat
      BY <1>0, <3>2 DEF Version
    <3> QED BY <1>0, <2>2, <3>1, <3>2, <3>3
  <2>5. ASSUME NEW p \in Proc, Fresh(p)', cache'[p].raw
        PROVE  cache'[p].ver > 0 /\ lag'[cache'[p].ver - 1] <= cache'[p].age + Latency
    <3>1. /\ Fresh(p) /\ cache[p].raw /\ cache'[p].ver = cache[p].ver
          /\ cache'[p].age = cache[p].age + 1
      BY <1>0, <1>6, <2>5 DEF Tick, Fresh, Entry
    <3>2. cache[p].ver > 0 /\ lag[cache[p].ver - 1] <= cache[p].age + Latency
      BY <3>1 DEF Recent
    <3>3. cache[p].ver - 1 \in Version /\ cache[p].age \in Nat
      BY <1>0, <3>2 DEF Version, Entry
    <3>4. /\ lag[cache[p].ver - 1] \in Nat /\ lag'[cache[p].ver - 1] \in Nat
          /\ lag'[cache[p].ver - 1] <= lag[cache[p].ver - 1] + 1
      BY <1>0, <2>2, <3>3
    <3> QED BY <3>1, <3>2, <3>3, <3>4
  <2> QED BY <2>3, <2>4, <2>5 DEF Recent
<1>7. CASE UNCHANGED vars
  BY <1>1, <1>7 DEF vars
<1> QED BY <1>2, <1>3, <1>4, <1>5, <1>6, <1>7 DEF Next, TaskStep, ProcStep

\* Nothing that a set() holds or has cached raw outlives its own age behind a
\* later write (config.py:228-245).
THEOREM RecentInvariant == Spec => []Recent
<1>1. Init => Recent
  <2> SUFFICES ASSUME Init PROVE Recent
    OBVIOUS
  <2>1. /\ \A v \in Version : lag[v] = 0
        /\ \A t \in Task : task[t].at = "idle"
        /\ \A p \in Proc : ~cache[p].raw
    BY DEF Init, Idle, Missing
  <2> QED BY <2>1 DEF Recent
<1> QED BY <1>1, RecentStep, TypeCorrect, StalenessInvariant, PTL DEF Spec

-----------------------------------------------------------------------------
\* What a get() returns is at most Bound behind: a hit by the bound on live
\* entries, a miss by the bound on answers.
LEMMA ReadBound ==
    ASSUME TypeOK, Staleness, Next
    PROVE  \/ ret' = ret
           \/ \E p \in Proc, v \in 0..doc, b \in BOOLEAN :
                 /\ lag[v] <= Bound
                 /\ ret' = [ret EXCEPT ![p] = Answer(v, b)]
                 /\ UNCHANGED <<doc, lag>>
<1> USE BuiltTypes
<1>1. ASSUME NEW p \in Proc, GetHit(p)
      PROVE  \E v \in 0..doc, b \in BOOLEAN :
                /\ lag[v] <= Bound
                /\ ret' = [ret EXCEPT ![p] = Answer(v, b)]
                /\ UNCHANGED <<doc, lag>>
  <2>1. /\ cache[p].ver \in 0..doc /\ cache[p].raw \in BOOLEAN
        /\ cache[p].age \in 0..TTL
        /\ lag[cache[p].ver] \in Nat
    <3>1. cache[p] \in Entry
      BY DEF TypeOK
    <3> QED BY <1>1, <3>1, LagNat DEF GetHit, Fresh, Staleness, Entry, Version
  <2>2. lag[cache[p].ver] <= Bound
    BY <1>1, <2>1 DEF GetHit, Staleness, Bound
  <2> QED BY <1>1, <2>1, <2>2 DEF GetHit
<1>2. ASSUME NEW t \in Task, GetDone(t)
      PROVE  \E v \in 0..doc, b \in BOOLEAN :
                /\ lag[v] <= Bound
                /\ ret' = [ret EXCEPT ![Home[t]] = Answer(v, b)]
                /\ UNCHANGED <<doc, lag>>
  <2>1. /\ task[t].ver \in 0..doc /\ task[t].wait \in 0..Latency
        /\ lag[task[t].ver] \in Nat /\ lag[task[t].ver] <= task[t].wait
    <3>1. task[t] \in [at : At, ver : Version, wait : 0..Latency]
      BY DEF TypeOK
    <3> QED BY <1>2, <3>1, LagNat DEF GetDone, Staleness, Version
  <2>2. lag[task[t].ver] <= Bound
    BY <2>1 DEF Bound
  <2> QED BY <1>2, <2>1, <2>2 DEF GetDone
<1>3. ASSUME Tick \/ (\E t \in Task : TaskStep(t) /\ ~GetDone(t))
                  \/ (\E p \in Proc : ProcStep(p) /\ ~GetHit(p))
      PROVE  ret' = ret
  BY <1>3 DEF Tick, TaskStep, ProcStep, GetMiss, FindOne, SetStart, UpdateOne, SetDone,
              Fail, Invalidate, OnChange, Restart
<1>4. \A t \in Task : Home[t] \in Proc
  OBVIOUS
<1> QED BY <1>1, <1>2, <1>3, <1>4 DEF Next

\* No get() ever serves a version superseded more than TTL + Latency ticks ago.
THEOREM ServedWithinBound == Spec => []BoundedStaleness
<1>1. Init => BoundedStaleness
  <2>1. ASSUME Init PROVE Bound \in Nat /\ Answer(0, FALSE).late = 0
    BY <2>1, BuiltTypes DEF Init, Answer, Version
  <2>2. ASSUME Init, NEW p \in Proc PROVE ret[p] = Answer(0, FALSE)
    BY <2>2 DEF Init
  <2>3. ASSUME NEW b, b \in Nat PROVE 0 <= b
    BY <2>3
  <2> QED BY <2>1, <2>2, <2>3 DEF BoundedStaleness
<1>2. TypeOK /\ TypeOK' /\ Staleness /\ BoundedStaleness /\ [Next]_vars => BoundedStaleness'
  <2> SUFFICES ASSUME TypeOK, TypeOK', Staleness, BoundedStaleness, [Next]_vars
               PROVE  BoundedStaleness'
    OBVIOUS
  <2>1. CASE ret' = ret
    BY <2>1 DEF BoundedStaleness
  <2>2. ASSUME NEW p \in Proc, NEW v \in 0..doc, NEW b \in BOOLEAN, lag[v] <= Bound,
               ret' = [ret EXCEPT ![p] = Answer(v, b)]
        PROVE  BoundedStaleness'
    <3>1. Answer(v, b).late = lag[v]
      BY DEF Answer
    <3> QED BY <2>2, <3>1 DEF BoundedStaleness, TypeOK
  <2> QED BY <2>1, <2>2, ReadBound DEF vars
<1> QED BY <1>1, <1>2, TypeCorrect, StalenessInvariant, PTL DEF Spec

-----------------------------------------------------------------------------
\* Every behaviour of the caches is one of the abstract register: update_one is
\* its Write, a get() its Read, time its Age, and everything else stutters.
THEOREM ImplementsRegister == Spec => RegisterSpec
<1> DEFINE view == [p \in Proc |-> [ver |-> ret[p].ver, late |-> ret[p].late]]
<1>1. Init => Register!Init
  BY BuiltTypes DEF Init, Register!Init, Answer, Version
<1>2. TypeOK /\ Staleness /\ [Next]_vars => [Register!Next]_(Register!vars)
  <2> SUFFICES ASSUME TypeOK, Staleness, [Next]_vars
               PROVE  Register!Next \/ UNCHANGED Register!vars
    OBVIOUS
  <2>1. ASSUME NEW p \in Proc, NEW v \in 0..doc, NEW b \in BOOLEAN, lag[v] <= Bound,
               ret' = [ret EXCEPT ![p] = Answer(v, b)], UNCHANGED <<doc, lag>>
        PROVE  Register!Read(p)
    <3>1. Answer(v, b).ver = v /\ Answer(v, b).late = lag[v]
      BY DEF Answer
    <3>2. view' = [view EXCEPT ![p] = [ver |-> v, late |-> lag[v]]]
      BY <2>1, <3>1 DEF TypeOK
    <3> QED BY <2>1, <3>2 DEF Register!Read
  <2>2. ASSUME NEW t \in Task, UpdateOne(t) PROVE Register!Write
    BY <2>2 DEF UpdateOne, Register!Write
  <2>3. ASSUME Tick PROVE Register!Age
    BY <2>3 DEF Tick, Register!Age, Version
  <2>4. ASSUME NEW t \in Task, TaskStep(t), ~UpdateOne(t), ret' = ret
        PROVE  UNCHANGED <<doc, ret, lag>>
    BY <2>4 DEF TaskStep, GetMiss, FindOne, GetDone, SetStart, SetDone, Fail
  <2>5. ASSUME NEW p \in Proc, ProcStep(p), ret' = ret
        PROVE  UNCHANGED <<doc, ret, lag>>
    BY <2>5 DEF ProcStep, GetHit, Invalidate, OnChange, Restart
  <2>6. CASE UNCHANGED vars
    BY <2>6 DEF vars, Register!vars
  <2>7. UNCHANGED <<doc, ret, lag>> => UNCHANGED Register!vars
    BY DEF Register!vars
  <2>8. CASE Next /\ ret' = ret
    BY <2>2, <2>3, <2>4, <2>5, <2>7, <2>8 DEF Next, Register!Next
  <2>9. CASE Next /\ ret' # ret
    BY <2>1, <2>9, ReadBound DEF Register!Next
  <2> QED BY <2>6, <2>8, <2>9
<1> QED BY <1>1, <1>2, TypeCorrect, StalenessInvariant, PTL DEF Spec, RegisterSpec, Register!Spec

-----------------------------------------------------------------------------
\* Every version the service holds is a number.
LEMMA VersionsAreNumbers ==
    ASSUME TypeOK
    PROVE  /\ doc \in Nat
           /\ \A p \in Proc : acked[p] \in Nat /\ ret[p].ver \in Nat /\ cache[p].ver \in Nat
           /\ \A t \in Task : task[t].ver \in Nat
<1>1. \A p \in Proc : ret[p].ver \in Version
  BY DEF TypeOK
<1>2. \A p \in Proc : acked[p] \in Version
  BY DEF TypeOK
<1>3. \A p \in Proc : cache[p].ver \in Version
  BY DEF TypeOK, Entry
<1>4. \A t \in Task : task[t].ver \in Version
  BY DEF TypeOK
<1>5. doc \in Version
  BY DEF TypeOK
<1> QED BY <1>1, <1>2, <1>3, <1>4, <1>5 DEF Version

\* A raw entry was cached by a set() of its own process.
RawIsMine == \A p \in Proc : cache[p].raw => cache[p].ver \in mine[p]
EmptyInv == RawIsMine /\ EmptyOnlyWhereSet

\* The steps that change neither what is cached nor what is returned, or drop
\* an entry.
LEMMA EmptyFrame ==
    ASSUME TypeOK, EmptyInv, UNCHANGED <<ret, mine>>,
           \A p \in Proc : \/ cache'[p] = Missing
                           \/ cache'[p].ver = cache[p].ver /\ cache'[p].raw = cache[p].raw
    PROVE  EmptyInv'
<1>1. ~Missing.raw
  BY DEF Missing
<1> QED BY <1>1 DEF EmptyInv, RawIsMine, EmptyOnlyWhereSet

\* get() answers {} only for a version that a set() of the same process has cached
\* (config.py:219-226, 241).
THEOREM EmptyOnlyInOwnProcess == Spec => []EmptyOnlyWhereSet
<1>1. Init => EmptyInv
  <2> SUFFICES ASSUME Init PROVE EmptyInv
    OBVIOUS
  <2>1. \A p \in Proc : ~cache[p].raw
    BY DEF Init, Missing
  <2>2. \A p \in Proc : ret[p].answer # "empty"
    BY DEF Init, Answer, DefaultSection
  <2> QED BY <2>1, <2>2 DEF EmptyInv, RawIsMine, EmptyOnlyWhereSet
<1>2. TypeOK /\ EmptyInv /\ [Next]_vars => EmptyInv'
  <2> SUFFICES ASSUME TypeOK, EmptyInv, [Next]_vars PROVE EmptyInv'
    OBVIOUS
  <2>1. ASSUME NEW p \in Proc, GetHit(p) PROVE EmptyInv'
    <3>1. Answer(cache[p].ver, cache[p].raw).answer = "empty" => cache[p].ver \in mine[p]
      BY DEF Answer, DefaultSection, EmptyInv, RawIsMine
    <3>2. Answer(cache[p].ver, cache[p].raw).ver = cache[p].ver
      BY DEF Answer
    <3> QED BY <2>1, <3>1, <3>2 DEF GetHit, EmptyInv, RawIsMine, EmptyOnlyWhereSet, TypeOK
  <2>2. ASSUME NEW t \in Task, GetDone(t) PROVE EmptyInv'
    <3>1. Answer(task[t].ver, FALSE).answer # "empty"
      BY DEF Answer, DefaultSection
    <3>2. \A p \in Proc : cache'[p] = IF p = Home[t] THEN [ver |-> task[t].ver, raw |-> FALSE, age |-> 0]
                                                      ELSE cache[p]
      BY <2>2 DEF GetDone, Store, TypeOK
    <3>3. \A p \in Proc : ret'[p] = IF p = Home[t] THEN Answer(task[t].ver, FALSE) ELSE ret[p]
      BY <2>2 DEF GetDone, TypeOK
    <3>4. RawIsMine'
      BY <2>2, <3>2 DEF GetDone, EmptyInv, RawIsMine
    <3>5. EmptyOnlyWhereSet'
      BY <2>2, <3>1, <3>3 DEF GetDone, EmptyInv, EmptyOnlyWhereSet
    <3> QED BY <3>4, <3>5 DEF EmptyInv
  <2>3. ASSUME NEW t \in Task, SetDone(t) PROVE EmptyInv'
    <3>1. \A p \in Proc : cache'[p] = IF p = Home[t] THEN [ver |-> task[t].ver, raw |-> TRUE, age |-> 0]
                                                      ELSE cache[p]
      BY <2>3 DEF SetDone, Store, TypeOK
    <3>2. /\ \A p \in Proc : mine[p] \subseteq mine'[p]
          /\ task[t].ver \in mine'[Home[t]]
      BY <2>3, HomeAssumption DEF SetDone, TypeOK
    <3>3. \A p \in Proc : cache'[p].raw => cache'[p].ver \in mine'[p]
      BY <3>1, <3>2 DEF EmptyInv, RawIsMine
    <3>4. \A p \in Proc : ret[p].answer = "empty" => ret[p].ver \in mine'[p]
      BY <3>2 DEF EmptyInv, EmptyOnlyWhereSet
    <3> QED BY <2>3, <3>3, <3>4 DEF SetDone, EmptyInv, RawIsMine, EmptyOnlyWhereSet
  <2>4. ASSUME NEW t \in Task,
               GetMiss(t) \/ FindOne(t) \/ SetStart(t) \/ UpdateOne(t) \/ Fail(t)
        PROVE  EmptyInv'
    BY <2>4, EmptyFrame DEF GetMiss, FindOne, SetStart, UpdateOne, Fail
  <2>5. ASSUME NEW p \in Proc, Invalidate(p) \/ OnChange(p) \/ Restart(p) PROVE EmptyInv'
    <3>1. \A q \in Proc : cache'[q] = Missing \/ cache'[q] = cache[q]
      BY <2>5 DEF Invalidate, OnChange, Restart, TypeOK
    <3> QED BY <2>5, <3>1, EmptyFrame DEF Invalidate, OnChange, Restart
  <2>6. ASSUME Tick PROVE EmptyInv'
    <3>1. \A p \in Proc : cache'[p].ver = cache[p].ver /\ cache'[p].raw = cache[p].raw
      BY <2>6 DEF Tick, TypeOK, Entry
    <3> QED BY <2>6, <3>1, EmptyFrame DEF Tick
  <2>7. CASE UNCHANGED vars
    BY <2>7, EmptyFrame DEF vars
  <2> QED BY <2>1, <2>2, <2>3, <2>4, <2>5, <2>6, <2>7 DEF Next, TaskStep, ProcStep
<1>3. EmptyInv => EmptyOnlyWhereSet
  BY DEF EmptyInv
<1> QED BY <1>1, <1>2, <1>3, TypeCorrect, PTL DEF Spec

-----------------------------------------------------------------------------
\* Processes whose calls to one section do not overlap.
OneTaskEach == \A s, t \in Task : Home[s] = Home[t] => s = t

Held(t) == task[t].at \in {"found", "updated"}

\* What p may be handed next is no older than what it wrote or was handed before.
NoOlder(p, v) == v >= acked[p] /\ v >= ret[p].ver
SerialInv ==
    /\ \A p \in Proc : NoOlder(p, doc)
    /\ \A p \in Proc : Fresh(p) => NoOlder(p, cache[p].ver)
    /\ \A t \in Task : Held(t) => /\ NoOlder(Home[t], task[t].ver)
                                  /\ Fresh(Home[t]) => task[t].ver >= cache[Home[t]].ver

\* The steps that move no version, and at most drop an answer or an entry.
LEMMA SerialFrame ==
    ASSUME TypeOK, SerialInv, UNCHANGED <<doc, ret, acked>>,
           \A t \in Task : Held(t)' => Held(t) /\ task'[t].ver = task[t].ver,
           \A p \in Proc : Fresh(p)' => Fresh(p) /\ cache'[p].ver = cache[p].ver
    PROVE  SerialInv'
BY DEF SerialInv, NoOlder

\* Reads and writes of a process that makes one call at a time do not go back.
LEMMA SerialStep ==
    ASSUME OneTaskEach
    PROVE  TypeOK /\ TypeOK' /\ Staleness /\ SerialInv /\ [Next]_vars
              => SerialInv' /\ (\A p \in Proc : ret'[p].ver >= ret[p].ver)
<1> SUFFICES ASSUME TypeOK, TypeOK', Staleness, SerialInv, [Next]_vars
             PROVE  SerialInv' /\ (\A p \in Proc : ret'[p].ver >= ret[p].ver)
  OBVIOUS
<1>0. /\ doc \in Nat
      /\ \A p \in Proc : acked[p] \in Nat /\ ret[p].ver \in Nat /\ cache[p].ver \in Nat
      /\ \A t \in Task : task[t].ver \in Nat /\ Home[t] \in Proc
  BY VersionsAreNumbers
<1>1. ASSUME NEW p \in Proc, GetHit(p)
      PROVE  SerialInv' /\ (\A q \in Proc : ret'[q].ver >= ret[q].ver)
  <2>1. \A q \in Proc : ret'[q].ver = IF q = p THEN cache[p].ver ELSE ret[q].ver
    <3>1. Answer(cache[p].ver, cache[p].raw).ver = cache[p].ver
      BY DEF Answer
    <3> QED BY <1>1, <3>1 DEF GetHit, TypeOK
  <2>2. UNCHANGED <<doc, task, cache, acked>> /\ Fresh(p)
    BY <1>1 DEF GetHit
  <2>3. cache[p].ver <= doc
    BY DEF Staleness
  <2>4. \A q \in Proc : NoOlder(q, doc)'
    BY <1>0, <2>1, <2>2, <2>3 DEF SerialInv, NoOlder
  <2>5. \A q \in Proc : Fresh(q)' => NoOlder(q, cache[q].ver)'
    BY <1>0, <2>1, <2>2 DEF SerialInv, NoOlder, Fresh
  <2>6. \A t \in Task : Held(t)' => /\ NoOlder(Home[t], task[t].ver)'
                                    /\ Fresh(Home[t])' => task'[t].ver >= cache'[Home[t]].ver
    BY <1>0, <2>1, <2>2 DEF SerialInv, NoOlder, Fresh, Held
  <2>7. \A q \in Proc : ret'[q].ver >= ret[q].ver
    BY <1>0, <2>1, <2>2 DEF SerialInv, NoOlder
  <2> QED BY <2>4, <2>5, <2>6, <2>7 DEF SerialInv
<1>2. ASSUME NEW t \in Task, FindOne(t) \/ UpdateOne(t)
      PROVE  SerialInv' /\ (\A q \in Proc : ret'[q].ver >= ret[q].ver)
  <2>1. UNCHANGED <<cache, ret, acked>> /\ doc' \in Nat /\ doc' >= doc
    BY <1>0, <1>2 DEF FindOne, UpdateOne
  <2>2. \A q \in Proc : NoOlder(q, doc)'
    BY <1>0, <2>1 DEF SerialInv, NoOlder
  <2>3. \A q \in Proc : Fresh(q)' => NoOlder(q, cache[q].ver)'
    BY <2>1 DEF SerialInv, NoOlder, Fresh
  <2>4. \A u \in Task : Held(u)' => \/ Held(u) /\ task'[u] = task[u]
                                    \/ u = t /\ task'[u].ver = doc'
    <3>1. CASE FindOne(t)
      BY <3>1 DEF FindOne, Held, TypeOK
    <3>2. CASE UpdateOne(t)
      <4>1. \/ task' = [task EXCEPT ![t] = Idle]
            \/ task' = [task EXCEPT ![t] = [at |-> "updated", ver |-> doc', wait |-> 0]]
        BY <3>2 DEF UpdateOne
      <4>2. CASE task' = [task EXCEPT ![t] = Idle]
        BY <4>2 DEF Held, Idle, TypeOK
      <4>3. CASE task' = [task EXCEPT ![t] = [at |-> "updated", ver |-> doc', wait |-> 0]]
        BY <4>3 DEF Held, TypeOK
      <4> QED BY <4>1, <4>2, <4>3
    <3> QED BY <1>2, <3>1, <3>2
  <2>5. ASSUME NEW u \in Task, Held(u)'
        PROVE  /\ NoOlder(Home[u], task[u].ver)'
               /\ Fresh(Home[u])' => task'[u].ver >= cache'[Home[u]].ver
    <3>1. CASE Held(u) /\ task'[u] = task[u]
      BY <2>1, <3>1 DEF SerialInv, NoOlder, Fresh
    <3>2. CASE task'[u].ver = doc'
      <4>1. cache[Home[u]].ver <= doc
        BY <1>0 DEF Staleness
      <4> QED BY <1>0, <2>1, <2>2, <3>2, <4>1 DEF NoOlder
    <3> QED BY <2>4, <2>5, <3>1, <3>2
  <2> QED BY <1>0, <2>1, <2>2, <2>3, <2>5 DEF SerialInv
<1>3. ASSUME NEW t \in Task, GetDone(t) \/ SetDone(t)
      PROVE  SerialInv' /\ (\A q \in Proc : ret'[q].ver >= ret[q].ver)
  <2> DEFINE h == Home[t]
  <2>1. doc' = doc /\ Held(t) /\ h \in Proc
    BY <1>0, <1>3 DEF GetDone, SetDone, Held
  <2>2. NoOlder(h, task[t].ver) /\ task[t].ver <= doc
    BY <2>1 DEF SerialInv, Staleness, Held
  <2>3. \A q \in Proc : /\ q = h => cache'[q].ver = task[t].ver
                        /\ q # h => cache'[q] = cache[q]
    <3>1. PICK b \in BOOLEAN : Store(h, task[t].ver, b)
      BY <1>3 DEF GetDone, SetDone
    <3> QED BY <2>1, <3>1 DEF Store, TypeOK
  <2>4. \A q \in Proc : ret'[q].ver = ret[q].ver \/ (q = h /\ ret'[q].ver = task[t].ver)
    <3>1. Answer(task[t].ver, FALSE).ver = task[t].ver
      BY DEF Answer
    <3>2. ret' = ret \/ ret' = [ret EXCEPT ![h] = Answer(task[t].ver, FALSE)]
      BY <1>3 DEF GetDone, SetDone
    <3>3. CASE ret' = [ret EXCEPT ![h] = Answer(task[t].ver, FALSE)]
      <4>1. \A q \in Proc : /\ q = h => ret'[q] = Answer(task[t].ver, FALSE)
                            /\ q # h => ret'[q] = ret[q]
        BY <3>3 DEF TypeOK
      <4> QED BY <3>1, <4>1
    <3> QED BY <3>2, <3>3
  <2>5. \A q \in Proc : acked'[q] = acked[q] \/ (q = h /\ acked'[q] = task[t].ver)
    <3>1. \/ acked' = acked
          \/ acked' = [acked EXCEPT ![h] = IF task[t].ver > acked[h] THEN task[t].ver ELSE acked[h]]
      BY <1>3 DEF GetDone, SetDone
    <3>2. CASE acked' = [acked EXCEPT ![h] = IF task[t].ver > acked[h] THEN task[t].ver ELSE acked[h]]
      <4>1. \A q \in Proc : /\ q = h => acked'[q] \in {task[t].ver, acked[q]}
                            /\ q # h => acked'[q] = acked[q]
        BY <3>2 DEF TypeOK
      <4> QED BY <4>1
    <3> QED BY <3>1, <3>2
  <2>6. \A u \in Task : Held(u)' => u # t /\ Held(u) /\ task'[u] = task[u] /\ Home[u] # h
    <3>1. task' = [task EXCEPT ![t] = Idle]
      BY <1>3 DEF GetDone, SetDone
    <3> QED BY <3>1, OneTaskEach DEF Held, Idle, TypeOK, OneTaskEach
  <2> HIDE DEF h
  <2>7. \A q \in Proc : ret'[q].ver >= ret[q].ver
    BY <1>0, <2>2, <2>4 DEF NoOlder
  <2>8. \A q \in Proc : NoOlder(q, doc)'
    BY <1>0, <2>1, <2>2, <2>4, <2>5 DEF SerialInv, NoOlder
  <2>9. ASSUME NEW q \in Proc, Fresh(q)' PROVE NoOlder(q, cache[q].ver)'
    <3>1. CASE q = h
      BY <1>0, <2>2, <2>3, <2>4, <2>5, <3>1 DEF NoOlder
    <3>2. CASE q # h
      BY <2>3, <2>4, <2>5, <2>9, <3>2 DEF SerialInv, NoOlder, Fresh
    <3> QED BY <3>1, <3>2
  <2>10. ASSUME NEW u \in Task, Held(u)'
         PROVE  /\ NoOlder(Home[u], task[u].ver)'
                /\ Fresh(Home[u])' => task'[u].ver >= cache'[Home[u]].ver
    <3>1. Home[u] # h /\ Home[u] \in Proc /\ Held(u) /\ task'[u] = task[u]
      BY <1>0, <2>6, <2>10
    <3>2. cache'[Home[u]] = cache[Home[u]] /\ ret'[Home[u]].ver = ret[Home[u]].ver
          /\ acked'[Home[u]] = acked[Home[u]]
      BY <2>3, <2>4, <2>5, <3>1
    <3> QED BY <3>1, <3>2 DEF SerialInv, NoOlder, Fresh
  <2> QED BY <2>7, <2>8, <2>9, <2>10 DEF SerialInv
<1>4. ASSUME NEW t \in Task, GetMiss(t) \/ SetStart(t) \/ Fail(t)
      PROVE  SerialInv' /\ UNCHANGED ret
  <2>1. \A u \in Task : \/ task'[u] = task[u]
                        \/ task'[u].at \in {"finding", "updating", "orphan", "idle"}
    <3>1. \/ task' = [task EXCEPT ![t] = Idle]
          \/ \E at \in {"finding", "updating", "orphan"} : task' = [task EXCEPT ![t].at = at]
      BY <1>4 DEF GetMiss, SetStart, Fail, Goto
    <3>2. ASSUME NEW at \in {"finding", "updating", "orphan"}, task' = [task EXCEPT ![t].at = at]
          PROVE  \A u \in Task : task'[u] = task[u] \/ task'[u].at = at
      BY <3>2 DEF TypeOK
    <3>3. CASE task' = [task EXCEPT ![t] = Idle]
      BY <3>3 DEF Idle, TypeOK
    <3> QED BY <3>1, <3>2, <3>3
  <2>2. \A u \in Task : Held(u)' => Held(u) /\ task'[u].ver = task[u].ver
    BY <2>1 DEF Held
  <2> QED BY <1>4, <2>2, SerialFrame DEF GetMiss, SetStart, Fail, Fresh
<1>5. ASSUME NEW p \in Proc, Invalidate(p) \/ OnChange(p) \/ Restart(p)
      PROVE  SerialInv' /\ UNCHANGED ret
  <2>1. \A q \in Proc : cache'[q] = Missing \/ cache'[q] = cache[q]
    BY <1>5 DEF Invalidate, OnChange, Restart, TypeOK
  <2>2. ~(Missing.age <= TTL)
    BY DEF Missing
  <2>3. \A u \in Task : task'[u] = task[u] \/ task'[u].at \in {"orphan", "idle"}
    BY <1>5 DEF Invalidate, OnChange, Restart, Idle
  <2>4. \A u \in Task : Held(u)' => Held(u) /\ task'[u].ver = task[u].ver
    BY <2>3 DEF Held
  <2> QED BY <1>5, <2>1, <2>2, <2>4, SerialFrame DEF Invalidate, OnChange, Restart, Fresh
<1>6. ASSUME Tick PROVE SerialInv' /\ UNCHANGED ret
  <2>1. \A q \in Proc : Fresh(q)' => Fresh(q) /\ cache'[q].ver = cache[q].ver
    BY <1>6 DEF Tick, Fresh, TypeOK, Entry
  <2>2. \A u \in Task : Held(u)' => Held(u) /\ task'[u].ver = task[u].ver
    BY <1>6 DEF Tick, Held, TypeOK
  <2> QED BY <1>6, <2>1, <2>2, SerialFrame DEF Tick
<1>7. ASSUME UNCHANGED vars PROVE SerialInv' /\ UNCHANGED ret
  <2>1. \A t \in Task : Held(t)' => Held(t) /\ task'[t].ver = task[t].ver
    BY <1>7 DEF vars, Held
  <2>2. \A p \in Proc : Fresh(p)' => Fresh(p) /\ cache'[p].ver = cache[p].ver
    BY <1>7 DEF vars, Fresh
  <2>3. SerialInv'
    BY <1>7, <2>1, <2>2, SerialFrame DEF vars
  <2> QED BY <1>7, <2>3 DEF vars
<1>8. (\A q \in Proc : ret[q].ver >= ret[q].ver)
  BY <1>0
<1> QED BY <1>1, <1>2, <1>3, <1>4, <1>5, <1>6, <1>7, <1>8 DEF Next, TaskStep, ProcStep, vars

LEMMA SerialInit == Init => SerialInv
<1> SUFFICES ASSUME Init PROVE SerialInv
  OBVIOUS
<1>1. \A p \in Proc : ret[p].ver = 0 /\ acked[p] = 0 /\ doc = 0 /\ cache[p].ver = 0
  BY DEF Init, Answer, Missing
<1>2. \A t \in Task : ~Held(t)
  BY DEF Init, Held, Idle
<1> QED BY <1>1, <1>2 DEF SerialInv, NoOlder

\* In such a process a get() after a set() sees what was set, or newer
\* (config.py:231-233).
THEOREM SerialReadYourWrites == ASSUME OneTaskEach PROVE Spec => []ReadYourWrites
<1>1. TypeOK /\ TypeOK' /\ Staleness /\ SerialInv /\ [Next]_vars => SerialInv'
  BY SerialStep
<1>2. SerialInv => ReadYourWrites
  BY DEF SerialInv, NoOlder, ReadYourWrites
<1> QED BY <1>1, <1>2, SerialInit, TypeCorrect, StalenessInvariant, PTL DEF Spec

\* And successive gets never go back.
THEOREM SerialMonotonicReads == ASSUME OneTaskEach PROVE Spec => MonotonicReads
<1>1. TypeOK /\ TypeOK' /\ Staleness /\ SerialInv /\ [Next]_vars
         => SerialInv' /\ [\A p \in Proc : ret'[p].ver >= ret[p].ver]_vars
  BY SerialStep
<1> QED BY <1>1, SerialInit, TypeCorrect, StalenessInvariant, PTL DEF Spec, MonotonicReads

\* No listener has heard more than its process has set.
LEMMA HeardBelowAcked ==
    ASSUME TypeOK, ListenersInOrder, NEW p \in Proc, NEW i \in DOMAIN heard[p]
    PROVE  heard[p][i] \in Nat /\ heard[p][i] <= acked[p]
<1>1. heard[p] \in Seq(Version) /\ acked[p] \in Nat
  BY VersionsAreNumbers DEF TypeOK
<1>2. heard[p] # <<>> /\ 1 \in DOMAIN heard[p] /\ 1 <= i
  BY <1>1
<1>3. heard[p][1] \in {0, acked[p]} /\ heard[p][1] >= heard[p][i]
  BY <1>2 DEF ListenersInOrder
<1>4. heard[p][i] \in Nat
  BY <1>1 DEF Version
<1> QED BY <1>1, <1>3, <1>4

\* Listeners hear the events of a process that makes one call at a time in the
\* order of its sets, and the first registered hears every one (config.py:167-175).
THEOREM SerialListenersInOrder == ASSUME OneTaskEach PROVE Spec => []ListenersInOrder
<1>1. Init => ListenersInOrder
  <2> SUFFICES ASSUME Init, NEW p \in Proc
               PROVE  /\ heard[p] # <<>> => heard[p][1] \in {0, acked[p]}
                      /\ \A i, j \in DOMAIN heard[p] : i <= j => heard[p][i] >= heard[p][j]
    BY DEF ListenersInOrder
  <2>1. heard[p] = <<>>
    BY DEF Init
  <2> QED BY <2>1
<1>2. TypeOK /\ SerialInv /\ ListenersInOrder /\ [Next]_vars => ListenersInOrder'
  <2> SUFFICES ASSUME TypeOK, SerialInv, ListenersInOrder, [Next]_vars
               PROVE  ListenersInOrder'
    OBVIOUS
  <2>1. ASSUME NEW t \in Task, SetDone(t) PROVE ListenersInOrder'
    <3> DEFINE h == Home[t]
               old == heard[h]
    <3>1. PICK k \in 0..Len(old) :
             /\ k = 0 => Len(old) = 0
             /\ heard' = [heard EXCEPT ![h] =
                            [i \in 1..Len(old) |-> IF i <= k THEN task[t].ver ELSE old[i]]]
      BY <2>1 DEF SetDone, Notify
    <3> DEFINE told == [i \in 1..Len(old) |-> IF i <= k THEN task[t].ver ELSE old[i]]
    <3>2. h \in Proc /\ old \in Seq(Version) /\ Len(old) \in Nat /\ DOMAIN old = 1..Len(old)
      BY DEF TypeOK
    <3>3. task[t].ver \in Nat /\ acked[h] \in Nat /\ task[t].ver >= acked[h]
      BY <2>1, <3>2, VersionsAreNumbers DEF SetDone, SerialInv, NoOlder, Held
    <3>4. acked' = [acked EXCEPT ![h] = task[t].ver]
      <4>1. (IF task[t].ver > acked[h] THEN task[t].ver ELSE acked[h]) = task[t].ver
        BY <3>3
      <4> QED BY <2>1, <4>1 DEF SetDone
    <3>5. \A i \in 1..Len(old) : old[i] \in Nat /\ old[i] <= task[t].ver
      <4>1. \A i \in DOMAIN old : old[i] \in Nat /\ old[i] <= acked[h]
        BY <3>2, HeardBelowAcked
      <4> QED BY <3>2, <3>3, <4>1
    <3>6. \A i, j \in 1..Len(old) : i <= j => old[i] >= old[j]
      BY <3>2 DEF ListenersInOrder
    <3>7. told # <<>> => told[1] = task[t].ver
      BY <3>1, <3>2
    <3>8. DOMAIN told = 1..Len(old) /\ \A i, j \in 1..Len(old) : i <= j => told[i] >= told[j]
      BY <3>1, <3>2, <3>3, <3>5, <3>6
    <3>9. \A q \in Proc : /\ q = h => heard'[q] = told /\ acked'[q] = task[t].ver
                          /\ q # h => heard'[q] = heard[q] /\ acked'[q] = acked[q]
      <4>1. heard' = [heard EXCEPT ![h] = told]
        BY <3>1
      <4> HIDE DEF told
      <4> QED BY <3>2, <3>4, <4>1 DEF TypeOK
    <3> HIDE DEF told, h, old
    <3> QED BY <3>7, <3>8, <3>9 DEF ListenersInOrder
  <2>2. ASSUME NEW p \in Proc, OnChange(p) PROVE ListenersInOrder'
    <3> DEFINE old == heard[p]
               new == Append(heard[p], 0)
    <3>1. old \in Seq(Version) /\ Len(old) \in Nat /\ DOMAIN old = 1..Len(old)
      BY DEF TypeOK
    <3>2. /\ DOMAIN new = 1..(Len(old) + 1) /\ new[Len(old) + 1] = 0
          /\ \A i \in 1..Len(old) : new[i] = old[i]
      BY <3>1
    <3>3. \A i \in 1..Len(old) : old[i] \in Nat
      BY <3>1, HeardBelowAcked
    <3>4. new[1] \in {0, acked[p]}
      <4>1. CASE old = <<>>
        BY <3>2, <4>1
      <4>2. CASE old # <<>>
        <5>1. 1 \in 1..Len(old)
          BY <3>1, <4>2
        <5> QED BY <3>2, <4>2, <5>1 DEF ListenersInOrder
      <4> QED BY <4>1, <4>2
    <3>5. \A i, j \in DOMAIN new : i <= j => new[i] >= new[j]
      <4>1. \A i, j \in 1..Len(old) : i <= j => old[i] >= old[j]
        BY <3>1 DEF ListenersInOrder
      <4> QED BY <3>1, <3>2, <3>3, <4>1
    <3>6. \A q \in Proc : heard'[q] = IF q = p THEN new ELSE heard[q]
      BY <2>2 DEF OnChange, TypeOK
    <3>7. acked' = acked
      BY <2>2 DEF OnChange
    <3> HIDE DEF new, old
    <3> QED BY <3>4, <3>5, <3>6, <3>7 DEF ListenersInOrder
  <2>3. ASSUME NEW p \in Proc, Restart(p) PROVE ListenersInOrder'
    <3>1. \A q \in Proc : heard'[q] = IF q = p THEN <<>> ELSE heard[q]
      BY <2>3 DEF Restart, TypeOK
    <3>2. acked' = acked
      BY <2>3 DEF Restart
    <3> QED BY <3>1, <3>2 DEF ListenersInOrder
  <2>4. CASE UNCHANGED <<heard, acked>>
    BY <2>4 DEF ListenersInOrder
  <2>5. \/ UNCHANGED <<heard, acked>>
        \/ \E t \in Task : SetDone(t)
        \/ \E p \in Proc : OnChange(p) \/ Restart(p)
    BY DEF Next, TaskStep, ProcStep, Tick, GetHit, GetMiss, FindOne, GetDone, SetStart,
           UpdateOne, Fail, Invalidate, vars
  <2> QED BY <2>1, <2>2, <2>3, <2>4, <2>5
<1>3. TypeOK /\ TypeOK' /\ Staleness /\ SerialInv /\ [Next]_vars => SerialInv'
  BY SerialStep
<1> QED BY <1>1, <1>2, <1>3, SerialInit, TypeCorrect, StalenessInvariant, PTL DEF Spec
=============================================================================
