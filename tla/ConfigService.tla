---------------------------- MODULE ConfigService ----------------------------
(***************************************************************************)
(* One section of the `system_config` document and the TTL caches in front *)
(* of it: backend/app/core/config.py.  Sections do not share state except  *)
(* the document itself, so one section stands for each of them.            *)
(*                                                                         *)
(* Several backend processes (Proc) share the MongoDB document; each has   *)
(* one ConfigService, whose coroutines (Task) interleave at every await.   *)
(* A value is the number of the update_one that wrote it; version 0 is the *)
(* document found at startup.  A version in `blank` holds an empty dict or *)
(* is missing, which get() replaces by the Settings default and set() does *)
(* not.  The clock is kept as ages: an entry never stored, popped or       *)
(* cleared is one whose age is past the TTL, which _cached treats alike.   *)
(***************************************************************************)
EXTENDS Naturals, Sequences

CONSTANTS Proc,          \* backend processes
          Task,          \* coroutines inside get() or set()
          Home,          \* Home[t]: the process t runs in
          TTL,           \* cache_ttl_seconds, in ticks
          Latency,       \* longest time from MongoDB's answer to the await's return
          MaxWrites,     \* bound: update_one calls that take effect
          MaxListeners   \* bound: MaxListeners[p] listeners registered in p

ASSUME TimingAssumption == TTL \in Nat /\ Latency \in Nat
ASSUME BoundsAssumption == MaxWrites \in Nat /\ MaxListeners \in [Proc -> Nat]
ASSUME HomeAssumption   == Home \in [Task -> Proc]

Version == 0..MaxWrites
Bound   == TTL + Latency

\* What a section's builder makes of Settings ({} if it has none), which are
\* constant while the process runs; and all that get() can return.
DefaultSection == "default"
Section == {"stored", DefaultSection, "empty"}

VARIABLES doc,    \* version of the section in MongoDB
          blank,  \* versions that are missing or empty
          cache,  \* cache[p]: the entry of _cache: version, stored raw by set(), age
          task,   \* task[t]: where the coroutine is, its version, time since the answer
          heard,  \* heard[p]: per listener, the version of the last event it got
          ret,    \* ret[p]: what get() returned last in p, and (ghost) how late it was
          acked,  \* ghost: newest version a set() in p has put into the cache
          mine,   \* ghost: the versions that set() has cached raw in p
          lag     \* ghost: ticks since a version was superseded, saturating

vars == <<doc, blank, cache, task, heard, ret, acked, mine, lag>>

\* "orphan": the caller is gone (exception, crash) but update_one may still land.
At == {"idle", "finding", "found", "updating", "updated", "orphan"}
Entry == [ver : Version, raw : BOOLEAN, age : 0..(TTL + 1)]
Missing == [ver |-> 0, raw |-> FALSE, age |-> TTL + 1]
Idle == [at |-> "idle", ver |-> 0, wait |-> 0]

TypeOK ==
    /\ doc \in Version
    /\ blank \in SUBSET (0..doc)
    /\ cache \in [Proc -> Entry]
    /\ task \in [Task -> [at : At, ver : Version, wait : 0..Latency]]
    /\ heard \in [Proc -> Seq(Version)]
    /\ \A p \in Proc : Len(heard[p]) <= MaxListeners[p]
    /\ ret \in [Proc -> [ver : Version, answer : Section, late : 0..(Bound + 1)]]
    /\ acked \in [Proc -> Version]
    /\ mine \in [Proc -> SUBSET Version]
    /\ lag \in [Version -> 0..(Bound + 1)]

\* Mutant: one tick too many before an entry expires.
FreshTooLong(p) == cache[p].age <= TTL + 1

\* _cached: an entry is served while clock - fetched_at <= ttl.
Fresh(p) == cache[p].age <= TTL

\* What a reader gets of version v: get() resolves a blank version to the
\* default before caching it, set() caches its argument as it is.
Answer(v, raw) == [ver |-> v, late |-> lag[v],
                   answer |-> IF v \notin blank THEN "stored"
                              ELSE IF raw THEN "empty" ELSE DefaultSection]

\* _store_cache: stamped with the time of the store, after the await.
Store(p, v, raw) == cache' = [cache EXCEPT ![p] = [ver |-> v, raw |-> raw, age |-> 0]]

Goto(t, at) == task' = [task EXCEPT ![t].at = at]

-----------------------------------------------------------------------------
Init ==
    /\ doc = 0
    /\ blank \in SUBSET {0}
    /\ cache = [p \in Proc |-> Missing]
    /\ task = [t \in Task |-> Idle]
    /\ heard = [p \in Proc |-> <<>>]
    /\ lag = [v \in Version |-> 0]
    /\ ret = [p \in Proc |-> Answer(0, FALSE)]
    /\ acked = [p \in Proc |-> 0]
    /\ mine = [p \in Proc |-> {}]

\* Mutant: a hit stamps the entry again, so that a busy section never expires.
GetHitSliding(p) ==
    /\ Fresh(p)
    /\ ret' = [ret EXCEPT ![p] = Answer(cache[p].ver, cache[p].raw)]
    /\ cache' = [cache EXCEPT ![p].age = 0]
    /\ UNCHANGED <<doc, blank, task, heard, acked, mine, lag>>

\* get() with a live cache entry: no await, one atomic step.
GetHit(p) ==
    /\ Fresh(p)
    /\ ret' = [ret EXCEPT ![p] = Answer(cache[p].ver, cache[p].raw)]
    /\ UNCHANGED <<doc, blank, cache, task, heard, acked, mine, lag>>

\* get() with none: find_one is sent.
GetMiss(t) ==
    /\ task[t].at = "idle"
    /\ ~Fresh(Home[t])
    /\ Goto(t, "finding")
    /\ UNCHANGED <<doc, blank, cache, heard, ret, acked, mine, lag>>

\* Mutant: find_one goes to a secondary, which may be behind.
FindOneSecondary(t) ==
    /\ task[t].at = "finding"
    /\ \E v \in 0..doc : task' = [task EXCEPT ![t] = [at |-> "found", ver |-> v, wait |-> 0]]
    /\ UNCHANGED <<doc, blank, cache, heard, ret, acked, mine, lag>>

\* MongoDB executes find_one on the primary.
FindOne(t) ==
    /\ task[t].at = "finding"
    /\ task' = [task EXCEPT ![t] = [at |-> "found", ver |-> doc, wait |-> 0]]
    /\ UNCHANGED <<doc, blank, cache, heard, ret, acked, mine, lag>>

\* Mutant: get() caches and returns what MongoDB said, blank or not.
GetDoneUnresolved(t) ==
    /\ task[t].at = "found"
    /\ Store(Home[t], task[t].ver, TRUE)
    /\ ret' = [ret EXCEPT ![Home[t]] = Answer(task[t].ver, TRUE)]
    /\ task' = [task EXCEPT ![t] = Idle]
    /\ UNCHANGED <<doc, blank, heard, acked, mine, lag>>

\* get() resumes: resolve, cache, return.
GetDone(t) ==
    /\ task[t].at = "found"
    /\ Store(Home[t], task[t].ver, FALSE)
    /\ ret' = [ret EXCEPT ![Home[t]] = Answer(task[t].ver, FALSE)]
    /\ task' = [task EXCEPT ![t] = Idle]
    /\ UNCHANGED <<doc, blank, heard, acked, mine, lag>>

\* set(): update_one is sent.
SetStart(t) ==
    /\ task[t].at = "idle"
    /\ Goto(t, "updating")
    /\ UNCHANGED <<doc, blank, cache, heard, ret, acked, mine, lag>>

\* MongoDB executes update_one, with an empty or a non-empty dict.
UpdateOne(t) ==
    /\ task[t].at \in {"updating", "orphan"}
    /\ doc < MaxWrites
    /\ doc' = doc + 1
    /\ blank' \in {blank, blank \union {doc + 1}}
    /\ task' = [task EXCEPT ![t] = IF task[t].at = "orphan" THEN Idle
                                   ELSE [at |-> "updated", ver |-> doc + 1, wait |-> 0]]
    /\ UNCHANGED <<cache, heard, ret, acked, mine, lag>>

\* Mutant: the listeners are called last registered first.
NotifyReversed(p, v) ==
    \E k \in 0..Len(heard[p]) :
        /\ k = 0 => Len(heard[p]) = 0
        /\ heard' = [heard EXCEPT ![p] =
                       [i \in 1..Len(heard[p]) |->
                          IF i > Len(heard[p]) - k THEN v ELSE heard[p][i]]]

\* _notify reaches the listeners in order of registration and stops at the
\* first that raises: k of them have been called.
Notify(p, v) ==
    \E k \in 0..Len(heard[p]) :
        /\ k = 0 => Len(heard[p]) = 0
        /\ heard' = [heard EXCEPT ![p] =
                       [i \in 1..Len(heard[p]) |-> IF i <= k THEN v ELSE heard[p][i]]]

\* Mutant: set() leaves the cached entry to expire.
SetDoneUncached(t) ==
    /\ task[t].at = "updated"
    /\ Notify(Home[t], task[t].ver)
    /\ acked' = [acked EXCEPT ![Home[t]] =
                   IF task[t].ver > acked[Home[t]] THEN task[t].ver ELSE acked[Home[t]]]
    /\ mine' = [mine EXCEPT ![Home[t]] = @ \union {task[t].ver}]
    /\ task' = [task EXCEPT ![t] = Idle]
    /\ UNCHANGED <<doc, blank, cache, ret, lag>>

\* set() resumes: cache the argument, then notify.
SetDone(t) ==
    /\ task[t].at = "updated"
    /\ Store(Home[t], task[t].ver, TRUE)
    /\ Notify(Home[t], task[t].ver)
    /\ acked' = [acked EXCEPT ![Home[t]] =
                   IF task[t].ver > acked[Home[t]] THEN task[t].ver ELSE acked[Home[t]]]
    /\ mine' = [mine EXCEPT ![Home[t]] = @ \union {task[t].ver}]
    /\ task' = [task EXCEPT ![t] = Idle]
    /\ UNCHANGED <<doc, blank, ret, lag>>

\* The motor call raises: nothing is cached.  The server may have executed it
\* already, or may still.
Fail(t) ==
    /\ task[t].at \in {"finding", "found", "updating", "updated"}
    /\ \/ task' = [task EXCEPT ![t] = Idle]
       \/ task[t].at = "updating" /\ Goto(t, "orphan")
    /\ UNCHANGED <<doc, blank, cache, heard, ret, acked, mine, lag>>

\* invalidate(section) and invalidate(None).
Invalidate(p) ==
    /\ cache' = [cache EXCEPT ![p] = Missing]
    /\ UNCHANGED <<doc, blank, task, heard, ret, acked, mine, lag>>

OnChange(p) ==
    /\ Len(heard[p]) < MaxListeners[p]
    /\ heard' = [heard EXCEPT ![p] = Append(heard[p], 0)]
    /\ UNCHANGED <<doc, blank, cache, task, ret, acked, mine, lag>>

\* The process dies and starts again with an empty cache and no listener.
Restart(p) ==
    /\ cache' = [cache EXCEPT ![p] = Missing]
    /\ heard' = [heard EXCEPT ![p] = <<>>]
    /\ task' = [t \in Task |->
                  IF Home[t] # p \/ task[t].at = "orphan" THEN task[t]
                  ELSE IF task[t].at = "updating" THEN [Idle EXCEPT !.at = "orphan"]
                  ELSE Idle]
    /\ UNCHANGED <<doc, blank, ret, acked, mine, lag>>

\* Time passes; no answer is on its way for longer than Latency.
Tick ==
    /\ \A t \in Task : task[t].at \in {"found", "updated"} => task[t].wait < Latency
    /\ cache' = [p \in Proc |->
                   IF Fresh(p) THEN [cache[p] EXCEPT !.age = @ + 1] ELSE cache[p]]
    /\ task' = [t \in Task |-> IF task[t].at \in {"found", "updated"}
                               THEN [task[t] EXCEPT !.wait = @ + 1] ELSE task[t]]
    /\ lag' = [v \in Version |->
                 IF v < doc /\ lag[v] <= Bound THEN lag[v] + 1 ELSE lag[v]]
    /\ UNCHANGED <<doc, blank, heard, ret, acked, mine>>

TaskStep(t) == \/ GetMiss(t) \/ FindOne(t) \/ GetDone(t)
               \/ SetStart(t) \/ UpdateOne(t) \/ SetDone(t) \/ Fail(t)

ProcStep(p) == GetHit(p) \/ Invalidate(p) \/ OnChange(p) \/ Restart(p)

Next == Tick \/ (\E t \in Task : TaskStep(t)) \/ (\E p \in Proc : ProcStep(p))

Spec == Init /\ [][Next]_vars

\* Time passes, and a coroutine whose answer has come is resumed by the event loop.
Fairness ==
    /\ WF_vars(Tick)
    /\ \A t \in Task : WF_vars(GetDone(t)) /\ WF_vars(SetDone(t))

FairSpec == Spec /\ Fairness

-----------------------------------------------------------------------------
(* Properties                                                              *)

\* The inductive invariant behind the staleness bound: an answer on its way is
\* at most `wait` ticks behind MongoDB, and a live entry at most Latency ticks
\* behind its own age, because _store_cache stamps it after the await.
Staleness ==
    /\ \A v \in Version : v >= doc => lag[v] = 0
    /\ \A t \in Task :
          task[t].at \in {"found", "updated"} => /\ task[t].ver <= doc
                                                 /\ lag[task[t].ver] <= task[t].wait
    /\ \A p \in Proc :
          /\ cache[p].ver <= doc
          /\ Fresh(p) => lag[cache[p].ver] <= cache[p].age + Latency

\* The same from the other side, for the version that was superseded last: older
\* versions were superseded earlier, and what set() is about to cache or has
\* cached raw has superseded its predecessor no longer ago than its age allows.
Recent ==
    /\ \A v, w \in Version : v <= w => lag[v] >= lag[w]
    /\ \A t \in Task :
          task[t].at = "updated" => /\ task[t].ver > 0
                                    /\ lag[task[t].ver - 1] <= task[t].wait
    /\ \A p \in Proc :
          Fresh(p) /\ cache[p].raw => /\ cache[p].ver > 0
                                     /\ lag[cache[p].ver - 1] <= cache[p].age + Latency

\* No get() serves a version superseded more than TTL + Latency ticks ago,
\* whatever fails, restarts or interleaves (config.py:188-226).
BoundedStaleness == \A p \in Proc : ret[p].late <= Bound

\* Implements the abstract register: every get() is one of its reads.
Register == INSTANCE StaleRegister
              WITH Reader <- Proc, cur <- doc,
                   seen <- [p \in Proc |-> [ver |-> ret[p].ver, late |-> ret[p].late]]
RegisterSpec == Register!Spec

\* With no more writes, every process ends up serving the document.
Converges == <>[](\A p \in Proc : Fresh(p) => cache[p].ver = doc)

\* config.py:231-233: a get() after set() in this process sees the new value
\* (or a newer one).
ReadYourWrites == \A p \in Proc : Fresh(p) => cache[p].ver >= acked[p]

\* Successive gets in one process never go back to an older version.
MonotonicReads == [][\A p \in Proc : ret'[p].ver >= ret[p].ver]_vars

\* get() serves {} only for a version that a set() of its own process has cached:
\* no other blank version, found at startup or written by anybody else, is ever
\* served as {}, it is the default (config.py:219-226, 241).
EmptyOnlyWhereSet == \A p \in Proc : ret[p].answer = "empty" => ret[p].ver \in mine[p]

\* The first listener always holds the last event of its process, and no
\* listener registered later is ahead of one registered earlier.
ListenersInOrder ==
    \A p \in Proc :
        /\ heard[p] # <<>> => heard[p][1] \in {0, acked[p]}
        /\ \A i, j \in DOMAIN heard[p] : i <= j => heard[p][i] >= heard[p][j]
=============================================================================
