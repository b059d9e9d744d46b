--------------------------- MODULE SingletonsProofs ---------------------------
(***************************************************************************)
(* Machine-checked theorems of Singletons, for every set of threads and of *)
(* factories.                                                              *)
(***************************************************************************)
EXTENDS Singletons, TLAPS

USE NoneAssumption

\* A thread that moves on keeps its factory and its ConfigService.
LEMMA MoveType ==
    ASSUME TypeOK, NEW t \in Thread, NEW at \in Holding,
           thread[t].at \in Holding, Goto(t, at)
    PROVE  /\ thread[t] \in [at : Holding, f : Factory, cfg : Thread]
           /\ thread' \in [Thread -> {Idle} \union [at : Resolving, f : Factory, cfg : {None}]
                                            \union [at : Holding, f : Factory, cfg : Thread]]
BY DEF TypeOK, Goto, Idle, Resolving, Holding

\* A thread that gets hold of ConfigService c goes on to the import.
LEMMA HoldType ==
    ASSUME TypeOK, NEW t \in Thread, NEW c \in Thread, thread[t].at \in Resolving,
           thread' = [thread EXCEPT ![t].at = "import", ![t].cfg = c]
    PROVE  thread' \in [Thread -> {Idle} \union [at : Resolving, f : Factory, cfg : {None}]
                                         \union [at : Holding, f : Factory, cfg : Thread]]
<1>1. thread[t] \in [at : Resolving, f : Factory, cfg : {None}]
  BY DEF TypeOK, Idle, Resolving, Holding
<1>2. [thread[t] EXCEPT !.at = "import", !.cfg = c] \in [at : Holding, f : Factory, cfg : Thread]
  BY <1>1 DEF Holding
<1> QED BY <1>2 DEF TypeOK

\* get_config_service() moves its own thread only.
LEMMA GetConfigEffect ==
    ASSUME TypeOK, NEW t \in Thread, GetConfig(t)
    PROVE  /\ \A s \in Thread \ {t} : thread'[s] = thread[s]
           /\ thread'[t].at = IF config # None THEN "import" ELSE "build"
           /\ thread'[t].f = thread[t].f
<1>1. thread[t] \in [at : Resolving, f : Factory, cfg : {None}]
  BY DEF GetConfig, TypeOK, Idle, Resolving, Holding
<1>2. CASE config # None
  <2>1. thread' = [thread EXCEPT ![t] = [thread[t] EXCEPT !.at = "import", !.cfg = config]]
    BY <1>2 DEF GetConfig, TypeOK
  <2> QED BY <1>1, <1>2, <2>1 DEF TypeOK
<1>3. CASE config = None
  <2>1. thread' = [thread EXCEPT ![t] = [thread[t] EXCEPT !.at = "build"]]
    BY <1>3 DEF GetConfig, Goto, TypeOK
  <2> QED BY <1>1, <1>3, <2>1 DEF TypeOK
<1> QED BY <1>2, <1>3

\* Type correctness: which fields a thread has set at which step
\* (repository_factory.py:55-89, storage_factory.py:66-100).
THEOREM TypeCorrect == Spec => []TypeOK
<1>1. Init => TypeOK
  BY DEF Init, TypeOK
<1>2. TypeOK /\ [Next]_vars => TypeOK'
  <2> SUFFICES ASSUME TypeOK, [Next]_vars PROVE TypeOK'
    OBVIOUS
  <2>1. ASSUME NEW t \in Thread, NEW f \in Factory, GetFactory(t, f) PROVE TypeOK'
    <3>1. factory[f] \in Thread \union {None}
      BY DEF TypeOK
    <3>2. CASE factory[f] # None
      <4>1. [at |-> "use", f |-> f, cfg |-> factory[f]] \in [at : Holding, f : Factory, cfg : Thread]
        BY <3>1, <3>2 DEF Holding
      <4> QED BY <2>1, <3>2, <4>1 DEF GetFactory, TypeOK
    <3>3. CASE factory[f] = None
      <4>1. [at |-> "config", f |-> f, cfg |-> None] \in [at : Resolving, f : Factory, cfg : {None}]
        BY DEF Resolving
      <4> QED BY <2>1, <3>3, <4>1 DEF GetFactory, TypeOK
    <3> QED BY <3>2, <3>3
  <2>2. ASSUME NEW t \in Thread, GetConfig(t) PROVE TypeOK'
    <3>1. thread[t].at \in Resolving /\ config \in Thread \union {None}
      BY <2>2 DEF GetConfig, Resolving, TypeOK
    <3>2. CASE config # None
      BY <2>2, <3>1, <3>2, HoldType DEF GetConfig, TypeOK
    <3>3. CASE config = None
      <4>1. thread[t] \in [at : Resolving, f : Factory, cfg : {None}]
        BY <3>1 DEF TypeOK, Idle, Resolving, Holding
      <4>2. [thread[t] EXCEPT !.at = "build"] \in [at : Resolving, f : Factory, cfg : {None}]
        BY <4>1 DEF Resolving
      <4> QED BY <2>2, <3>3, <4>2 DEF GetConfig, Goto, TypeOK
    <3> QED BY <3>2, <3>3
  <2>3. ASSUME NEW t \in Thread, BuildConfig(t) PROVE TypeOK'
    <3>1. thread[t].at \in Resolving
      BY <2>3 DEF BuildConfig, Resolving
    <3>2. config' \in Thread \union {None}
      BY <2>3 DEF BuildConfig, FirstOf, TypeOK
    <3>3. built' \in [Thread -> Nat]
      BY <2>3 DEF BuildConfig, TypeOK
    <3>4. thread' \in [Thread -> {Idle} \union [at : Resolving, f : Factory, cfg : {None}]
                                      \union [at : Holding, f : Factory, cfg : Thread]]
      BY <2>3, <3>1, HoldType DEF BuildConfig
    <3> QED BY <2>3, <3>2, <3>3, <3>4 DEF BuildConfig, TypeOK
  <2>4. ASSUME NEW t \in Thread, Import(t) PROVE TypeOK'
    <3>1. thread[t].at \in Holding /\ "keep" \in Holding /\ "importing" \in Holding
      BY <2>4 DEF Import, Holding
    <3>2. CASE Goto(t, "keep") /\ UNCHANGED importer
      BY <2>4, <3>1, <3>2, MoveType DEF Import, TypeOK
    <3>3. CASE importer' = [importer EXCEPT ![thread[t].f] = t] /\ Goto(t, "importing")
      BY <2>4, <3>1, <3>3, MoveType DEF Import, TypeOK
    <3> QED BY <2>4, <3>2, <3>3 DEF Import
  <2>5. ASSUME NEW t \in Thread, Register(t) PROVE TypeOK'
    <3>1. thread[t].at \in Holding /\ "keep" \in Holding
      BY <2>5 DEF Register, Holding
    <3>2. thread[t].f \in Factory
      BY <2>5, <3>1, MoveType DEF Register
    <3> QED BY <2>5, <3>1, <3>2, MoveType DEF Register, TypeOK
  <2>6. ASSUME NEW t \in Thread, KeepFactory(t) PROVE TypeOK'
    <3>1. thread[t].at \in Holding /\ "use" \in Holding
      BY <2>6 DEF KeepFactory, Holding
    <3>2. thread[t].f \in Factory /\ thread[t].cfg \in Thread
      BY <2>6, <3>1, MoveType DEF KeepFactory
    <3> QED BY <2>6, <3>1, <3>2, MoveType DEF KeepFactory, FirstOf, TypeOK
  <2>7. ASSUME NEW t \in Thread, Use(t) PROVE TypeOK'
    BY <2>7 DEF Use, TypeOK
  <2>8. ASSUME NEW t \in Thread, Raise(t) PROVE TypeOK'
    BY <2>8 DEF Raise, TypeOK
  <2>9. CASE UNCHANGED vars
    BY <2>9 DEF vars, TypeOK
  <2> QED BY <2>1, <2>2, <2>3, <2>4, <2>5, <2>6, <2>7, <2>8, <2>9 DEF Next, Step
<1> QED BY <1>1, <1>2, PTL DEF Spec

\* Nobody looks into a registry before it is filled, whichever thread fills it.
THEOREM RegistriesReady == Spec => []RegistryReady
<1>1. Init => RegistryReady
  BY DEF Init, RegistryReady, Idle
<1>2. TypeOK /\ RegistryReady /\ [Next]_vars => RegistryReady'
  <2> SUFFICES ASSUME TypeOK, RegistryReady, [Next]_vars PROVE RegistryReady'
    OBVIOUS
  <2> USE DEF RegistryReady
  <2>1. ASSUME NEW t \in Thread, NEW f \in Factory, GetFactory(t, f) PROVE RegistryReady'
    BY <2>1 DEF GetFactory, TypeOK
  <2>2. ASSUME NEW t \in Thread, GetConfig(t) PROVE RegistryReady'
    BY <2>2, GetConfigEffect DEF GetConfig
  <2>3. ASSUME NEW t \in Thread, BuildConfig(t) PROVE RegistryReady'
    BY <2>3 DEF BuildConfig, TypeOK
  <2>4. ASSUME NEW t \in Thread, Import(t) PROVE RegistryReady'
    <3>1. CASE thread[t].f \in registered /\ Goto(t, "keep")
      BY <2>4, <3>1 DEF Import, Goto, TypeOK
    <3>2. CASE Goto(t, "importing")
      BY <2>4, <3>2 DEF Import, Goto, TypeOK
    <3> QED BY <2>4, <3>1, <3>2 DEF Import
  <2>5. ASSUME NEW t \in Thread, Register(t) PROVE RegistryReady'
    BY <2>5 DEF Register, Goto, TypeOK
  <2>6. ASSUME NEW t \in Thread, KeepFactory(t) PROVE RegistryReady'
    BY <2>6 DEF KeepFactory, Goto, TypeOK
  <2>7. ASSUME NEW t \in Thread, Use(t) PROVE RegistryReady'
    BY <2>7 DEF Use, Idle, TypeOK
  <2>8. ASSUME NEW t \in Thread, Raise(t) PROVE RegistryReady'
    BY <2>8 DEF Raise, Idle, TypeOK
  <2>9. CASE UNCHANGED vars
    BY <2>9 DEF vars
  <2> QED BY <2>1, <2>2, <2>3, <2>4, <2>5, <2>6, <2>7, <2>8, <2>9 DEF Next, Step
<1> QED BY <1>1, <1>2, TypeCorrect, PTL DEF Spec

\* Why a thread builds once: what it has built is cached, or an older one is,
\* and a thread comes to the constructor only past an empty cache.
BuiltIsCached ==
    \A t \in Thread : /\ built[t] <= 1
                      /\ built[t] = 1 => config # None
                      /\ thread[t].at = "build" => built[t] = 0

\* A thread builds one ConfigService at most (config.py:256-269).
THEOREM BuildsOnce == Spec => []OneEach
<1>1. Init => BuiltIsCached
  <2> SUFFICES ASSUME Init, NEW t \in Thread
               PROVE  /\ built[t] <= 1
                      /\ built[t] = 1 => config # None
                      /\ thread[t].at = "build" => built[t] = 0
    BY DEF BuiltIsCached
  <2>1. built[t] = 0
    BY DEF Init
  <2> QED BY <2>1
<1>2. TypeOK /\ BuiltIsCached /\ [Next]_vars => BuiltIsCached'
  <2> SUFFICES ASSUME TypeOK, BuiltIsCached, [Next]_vars PROVE BuiltIsCached'
    OBVIOUS
  <2> USE DEF BuiltIsCached
  <2>1. ASSUME NEW t \in Thread, NEW f \in Factory, GetFactory(t, f) PROVE BuiltIsCached'
    BY <2>1 DEF GetFactory, TypeOK
  <2>2. ASSUME NEW t \in Thread, GetConfig(t) PROVE BuiltIsCached'
    <3>1. built[t] = 0 \/ built[t] = 1
      BY DEF TypeOK
    <3>2. UNCHANGED <<config, built>>
      BY <2>2 DEF GetConfig
    <3> QED BY <2>2, <3>1, <3>2, GetConfigEffect
  <2>3. ASSUME NEW t \in Thread, BuildConfig(t) PROVE BuiltIsCached'
    <3>1. config' # None
      BY <2>3 DEF BuildConfig, FirstOf
    <3>2. built' = [built EXCEPT ![t] = 1]
      <4>1. built[t] = 0
        BY <2>3 DEF BuildConfig
      <4> QED BY <2>3, <4>1 DEF BuildConfig
    <3> QED BY <2>3, <3>1, <3>2 DEF BuildConfig, TypeOK
  <2>4. ASSUME NEW t \in Thread, Import(t) PROVE BuiltIsCached'
    <3>1. CASE thread[t].f \in registered /\ Goto(t, "keep")
      BY <2>4, <3>1 DEF Import, Goto, TypeOK
    <3>2. CASE Goto(t, "importing")
      BY <2>4, <3>2 DEF Import, Goto, TypeOK
    <3> QED BY <2>4, <3>1, <3>2 DEF Import
  <2>5. ASSUME NEW t \in Thread, Register(t) PROVE BuiltIsCached'
    BY <2>5 DEF Register, Goto, TypeOK
  <2>6. ASSUME NEW t \in Thread, KeepFactory(t) PROVE BuiltIsCached'
    BY <2>6 DEF KeepFactory, Goto, TypeOK
  <2>7. ASSUME NEW t \in Thread, Use(t) PROVE BuiltIsCached'
    BY <2>7 DEF Use, Idle, TypeOK
  <2>8. ASSUME NEW t \in Thread, Raise(t) PROVE BuiltIsCached'
    BY <2>8 DEF Raise, Idle, TypeOK
  <2>9. CASE UNCHANGED vars
    BY <2>9 DEF vars
  <2> QED BY <2>1, <2>2, <2>3, <2>4, <2>5, <2>6, <2>7, <2>8, <2>9 DEF Next, Step
<1>3. BuiltIsCached => OneEach
  BY DEF BuiltIsCached, OneEach
<1> QED BY <1>1, <1>2, <1>3, TypeCorrect, PTL DEF Spec

\* What a step of t leaves alone: the other threads, and whatever is cached.
LEMMA LosersStep ==
    ASSUME NEW t \in Thread, NEW f \in Factory, factory'[f] = factory[f],
           \A s \in Thread \ {t} : thread'[s] = thread[s],
           Missed(t, f)' => Missed(t, f)
    PROVE  factory'[f] = factory[f] /\ \A s \in Thread : Missed(s, f)' => Missed(s, f)
<1> SUFFICES ASSUME NEW s \in Thread, s # t PROVE Missed(s, f)' => Missed(s, f)
  OBVIOUS
<1> QED BY DEF Missed

\* A cached factory is never replaced, and the threads that missed it grow
\* fewer: a later request finds the cached one (repository_factory.py:86-89).
THEOREM CacheStays == Spec => LosersLeave
<1>1. TypeOK /\ [Next]_vars =>
        [\A f \in Factory : factory[f] # None =>
            /\ factory'[f] = factory[f]
            /\ \A t \in Thread : Missed(t, f)' => Missed(t, f)]_vars
  <2> DEFINE Leave(f) == factory'[f] = factory[f] /\ \A s \in Thread : Missed(s, f)' => Missed(s, f)
  <2> SUFFICES ASSUME TypeOK, [Next]_vars, NEW f \in Factory, factory[f] # None
               PROVE  Leave(f)
    OBVIOUS
  <2> USE DEF Missed
  <2>1. ASSUME NEW t \in Thread, NEW g \in Factory, GetFactory(t, g) PROVE Leave(f)
    <3>1. Missed(t, f)' => Missed(t, f)
      <4>1. thread'[t] = IF factory[g] # None THEN [at |-> "use", f |-> g, cfg |-> factory[g]]
                                             ELSE [at |-> "config", f |-> g, cfg |-> None]
        BY <2>1 DEF GetFactory, TypeOK
      <4> QED BY <2>1, <4>1 DEF GetFactory
    <3> QED BY <2>1, <3>1, LosersStep DEF GetFactory, TypeOK
  <2>2. ASSUME NEW t \in Thread, GetConfig(t) PROVE Leave(f)
    <3>1. Missed(t, f)' => Missed(t, f)
      BY <2>2, GetConfigEffect DEF GetConfig
    <3> QED BY <2>2, <3>1, GetConfigEffect, LosersStep DEF GetConfig
  <2>3. ASSUME NEW t \in Thread, BuildConfig(t) PROVE Leave(f)
    <3>1. thread'[t].f = thread[t].f
      BY <2>3 DEF BuildConfig, TypeOK
    <3>2. Missed(t, f)' => Missed(t, f)
      BY <2>3, <3>1 DEF BuildConfig
    <3> QED BY <2>3, <3>2, LosersStep DEF BuildConfig, TypeOK
  <2>4. ASSUME NEW t \in Thread, Import(t) PROVE Leave(f)
    <3>1. thread'[t].f = thread[t].f /\ \A s \in Thread \ {t} : thread'[s] = thread[s]
      <4>1. CASE thread[t].f \in registered /\ Goto(t, "keep")
        BY <4>1 DEF Goto, TypeOK
      <4>2. CASE Goto(t, "importing")
        BY <4>2 DEF Goto, TypeOK
      <4> QED BY <2>4, <4>1, <4>2 DEF Import
    <3>2. Missed(t, f)' => Missed(t, f)
      BY <2>4, <3>1 DEF Import
    <3> QED BY <2>4, <3>1, <3>2, LosersStep DEF Import
  <2>5. ASSUME NEW t \in Thread, Register(t) PROVE Leave(f)
    <3>1. thread'[t].f = thread[t].f /\ \A s \in Thread \ {t} : thread'[s] = thread[s]
      BY <2>5 DEF Register, Goto, TypeOK
    <3>2. Missed(t, f)' => Missed(t, f)
      BY <2>5, <3>1 DEF Register
    <3> QED BY <2>5, <3>1, <3>2, LosersStep DEF Register
  <2>6. ASSUME NEW t \in Thread, KeepFactory(t) PROVE Leave(f)
    <3>1. thread'[t].f = thread[t].f /\ \A s \in Thread \ {t} : thread'[s] = thread[s]
      BY <2>6 DEF KeepFactory, Goto, TypeOK
    <3>2. factory'[f] = factory[f]
      BY <2>6 DEF KeepFactory, FirstOf, TypeOK
    <3>3. Missed(t, f)' => Missed(t, f)
      BY <2>6, <3>1 DEF KeepFactory
    <3> QED BY <3>1, <3>2, <3>3, LosersStep
  <2>7. ASSUME NEW t \in Thread, thread' = [thread EXCEPT ![t] = Idle], UNCHANGED factory
        PROVE  Leave(f)
    <3>1. ~Missed(t, f)'
      BY <2>7 DEF Idle, TypeOK
    <3> QED BY <2>7, <3>1, LosersStep DEF TypeOK
  <2>8. ASSUME NEW t \in Thread, Use(t) PROVE Leave(f)
    BY <2>7, <2>8 DEF Use
  <2>9. ASSUME NEW t \in Thread, Raise(t) PROVE Leave(f)
    BY <2>7, <2>9 DEF Raise
  <2>10. CASE UNCHANGED vars
    BY <2>10 DEF vars
  <2> QED BY <2>1, <2>2, <2>3, <2>4, <2>5, <2>6, <2>8, <2>9, <2>10 DEF Next, Step
<1> QED BY <1>1, TypeCorrect, PTL DEF Spec, LosersLeave
=============================================================================
