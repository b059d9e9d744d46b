------------------------- MODULE BackendFactoryProofs -------------------------
(***************************************************************************)
(* Machine-checked theorem of BackendFactory, for every set of backends,   *)
(* documents and layers below them, from those of the configuration cache. *)
(***************************************************************************)
EXTENDS BackendFactory, ConfigServiceProofs

\* Once the last write is older than the bound, what a process may be handed next
\* is that write, resolved.
LEMMA SettledView ==
    ASSUME TypeOK, Staleness, Recent, Settled
    PROVE  /\ \A p \in Proc : Fresh(p) => cache[p].ver = doc /\ ~cache[p].raw
           /\ \A t \in Task : /\ task[t].at # "updated"
                              /\ task[t].at = "found" => task[t].ver = doc
<1> USE TimingAssumption, BoundsAssumption
<1>0. /\ doc \in Nat /\ doc \in Version /\ Bound \in Nat
      /\ \A v \in Version : v \in Nat /\ lag[v] \in Nat
      /\ doc > 0 => doc - 1 \in Version
  BY LagNat, BuiltTypes DEF TypeOK, Version, Bound
<1>A. /\ \A l \in Nat, a \in 0..TTL : l <= a + Latency => l <= Bound
      /\ \A l \in Nat, w \in 0..Latency : l <= w => l <= Bound
  BY DEF Bound
<1>1. ASSUME NEW v \in Version, v <= doc, lag[v] <= Bound PROVE v = doc
  <2>1. SUFFICES ASSUME v < doc PROVE FALSE
    BY <1>0, <1>1
  <2>2. doc > 0 /\ doc - 1 \in Version /\ v <= doc - 1 /\ lag[doc - 1] > Bound
    BY <1>0, <2>1 DEF Settled
  <2>3. lag[v] >= lag[doc - 1]
    BY <2>2 DEF Recent
  <2> QED BY <1>0, <1>1, <2>2, <2>3
<1>2. ASSUME NEW v \in Version, v <= doc, v > 0, lag[v - 1] <= Bound PROVE FALSE
  <2>1. v - 1 \in Version /\ v - 1 <= doc /\ v - 1 # doc
    BY <1>0, <1>2 DEF Version
  <2> QED BY <1>1, <1>2, <2>1
<1>3. ASSUME NEW p \in Proc, Fresh(p) PROVE cache[p].ver = doc /\ ~cache[p].raw
  <2>1. cache[p] \in Entry /\ cache[p].ver <= doc
    BY DEF TypeOK, Staleness
  <2>2. cache[p].ver \in Version /\ cache[p].age \in 0..TTL
    BY <1>3, <2>1 DEF Entry, Fresh
  <2>3. lag[cache[p].ver] <= Bound
    <3>1. lag[cache[p].ver] <= cache[p].age + Latency
      BY <1>3 DEF Staleness
    <3> QED BY <1>0, <1>A, <2>2, <3>1
  <2>4. cache[p].raw => FALSE
    <3>1. SUFFICES ASSUME cache[p].raw PROVE FALSE
      OBVIOUS
    <3>2. cache[p].ver > 0 /\ lag[cache[p].ver - 1] <= cache[p].age + Latency
      BY <1>3, <3>1 DEF Recent
    <3>3. cache[p].ver - 1 \in Version
      BY <1>0, <2>2, <3>2 DEF Version
    <3>4. lag[cache[p].ver - 1] <= Bound
      BY <1>0, <1>A, <2>2, <3>2, <3>3
    <3> QED BY <1>2, <2>1, <2>2, <3>2, <3>4
  <2> QED BY <1>1, <2>1, <2>2, <2>3, <2>4
<1>4. ASSUME NEW t \in Task
      PROVE  task[t].at # "updated" /\ (task[t].at = "found" => task[t].ver = doc)
  <2>1. task[t].ver \in Version /\ task[t].wait \in 0..Latency
    BY DEF TypeOK
  <2>2. CASE task[t].at \in {"found", "updated"}
    <3>1. task[t].ver <= doc /\ lag[task[t].ver] <= task[t].wait
      BY <2>2 DEF Staleness
    <3>2. lag[task[t].ver] <= Bound
      BY <1>0, <1>A, <2>1, <3>1
    <3>3. task[t].at # "updated"
      <4>1. SUFFICES ASSUME task[t].at = "updated" PROVE FALSE
        OBVIOUS
      <4>2. task[t].ver > 0 /\ lag[task[t].ver - 1] <= task[t].wait
        BY <4>1 DEF Recent
      <4>3. task[t].ver - 1 \in Version
        BY <1>0, <2>1, <4>2 DEF Version
      <4>4. lag[task[t].ver - 1] <= Bound
        BY <1>0, <1>A, <2>1, <4>2, <4>3
      <4> QED BY <1>2, <2>1, <3>1, <4>2, <4>4
    <3> QED BY <1>1, <2>1, <3>1, <3>2, <3>3
  <2> QED BY <2>2
<1> QED BY <1>3, <1>4

\* Every process, also one that cached {} or never heard of the write, follows the
\* document TTL + Latency ticks after its last write: the switch to another backend
\* takes effect everywhere by then, and so does its correction
\* (config.py:188-245, repository_factory.py:67-83, storage_factory.py:78-94).
THEOREM FactoriesFollow == Spec => []FollowsWithinBound
<1>1. TypeOK /\ Staleness /\ Recent => FollowsWithinBound
  <2> SUFFICES ASSUME TypeOK, Staleness, Recent, Settled
               PROVE  /\ \A p \in Proc : Fresh(p) => NextBuilt(p) = Intended(doc)
                      /\ \A t \in Task : /\ task[t].at # "updated"
                                         /\ task[t].at = "found" => task[t].ver = doc
    BY DEF FollowsWithinBound
  <2>1. ASSUME NEW p \in Proc, Fresh(p) PROVE NextBuilt(p) = Intended(doc)
    <3>1. cache[p].ver = doc /\ ~cache[p].raw
      BY <2>1, SettledView
    <3>2. Answer(cache[p].ver, cache[p].raw).ver = doc
      BY <3>1 DEF Answer
    <3>3. DictOf(doc, Answer(cache[p].ver, cache[p].raw).answer)
             = IF doc \in blank THEN Settings ELSE Stored[doc]
      <4>1. CASE doc \in blank
        BY <3>1, <4>1 DEF Answer, DictOf, DefaultSection
      <4>2. CASE doc \notin blank
        BY <3>1, <4>2 DEF Answer, DictOf, DefaultSection
      <4> QED BY <4>1, <4>2
    <3> QED BY <3>2, <3>3 DEF NextBuilt, Intended
  <2> QED BY <2>1, SettledView
<1> QED BY <1>1, TypeCorrect, StalenessInvariant, RecentInvariant, PTL
=============================================================================
