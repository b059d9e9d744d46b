----------------------------- MODULE Singletons ------------------------------
(***************************************************************************)
(* How a process comes by its factories and their ConfigService            *)
(* (core/repository_factory.py, core/storage_factory.py, core/config.py).  *)
(*                                                                         *)
(* get_repository_factory and its like are plain functions, which FastAPI  *)
(* runs in the threads of a pool.  lru_cache takes no lock while it        *)
(* computes: of the threads that miss, the first to finish stores its      *)
(* result, and each of the others returns the one it has computed.         *)
(* Importing a module is serialised by the module's lock.  A ConfigService *)
(* goes by the name of the thread that built it.                           *)
(***************************************************************************)
EXTENDS Naturals

CONSTANTS Thread,     \* threads of the pool, one request each
          Factory,    \* the factory classes: repository, storage
          None        \* nothing cached, nobody importing

ASSUME NoneAssumption == None \notin Thread /\ None \notin Factory

VARIABLES config,     \* what get_config_service has cached
          factory,    \* factory[f]: the ConfigService of the cached f
          importer,   \* importer[f]: the thread executing f's implementation modules
          registered, \* factories whose registry is filled
          thread,     \* thread[t]: where its call is, of which factory, on which config
          built       \* built[t]: ConfigServices t has built

vars == <<config, factory, importer, registered, thread, built>>

Resolving == {"config", "build"}
Holding == {"import", "importing", "keep", "use"}
Idle == [at |-> "idle", f |-> None, cfg |-> None]

TypeOK ==
    /\ config \in Thread \union {None}
    /\ factory \in [Factory -> Thread \union {None}]
    /\ importer \in [Factory -> Thread \union {None}]
    /\ registered \in SUBSET Factory
    /\ thread \in [Thread -> {Idle} \union [at : Resolving, f : Factory, cfg : {None}]
                                   \union [at : Holding, f : Factory, cfg : Thread]]
    /\ built \in [Thread -> Nat]

Init ==
    /\ config = None
    /\ factory = [f \in Factory |-> None]
    /\ importer = [f \in Factory |-> None]
    /\ registered = {}
    /\ thread = [t \in Thread |-> Idle]
    /\ built = [t \in Thread |-> 0]

Goto(t, at) == thread' = [thread EXCEPT ![t].at = at]
FirstOf(cached, value) == IF cached = None THEN value ELSE cached

\* Mutant: the factory is taken for cached before it is.
GetFactoryUnchecked(t, f) ==
    /\ thread[t].at = "idle"
    /\ thread' = [thread EXCEPT ![t] = [at |-> "use", f |-> f, cfg |-> factory[f]]]
    /\ UNCHANGED <<config, factory, importer, registered, built>>

\* Mutant: every request constructs a factory of its own.
GetFactoryAnew(t, f) ==
    /\ thread[t].at = "idle"
    /\ thread' = [thread EXCEPT ![t] = [at |-> "config", f |-> f, cfg |-> None]]
    /\ UNCHANGED <<config, factory, importer, registered, built>>

\* get_repository_factory(): cached, or its constructor starts.
GetFactory(t, f) ==
    /\ thread[t].at = "idle"
    /\ thread' = [thread EXCEPT ![t] =
                    IF factory[f] # None THEN [at |-> "use", f |-> f, cfg |-> factory[f]]
                                         ELSE [at |-> "config", f |-> f, cfg |-> None]]
    /\ UNCHANGED <<config, factory, importer, registered, built>>

\* get_config_service(): cached, or built.
GetConfig(t) ==
    /\ thread[t].at = "config"
    /\ IF config # None THEN thread' = [thread EXCEPT ![t].at = "import", ![t].cfg = config]
                        ELSE Goto(t, "build")
    /\ UNCHANGED <<config, factory, importer, registered, built>>

\* Mutant: get_config_service without its lru_cache.
BuildConfigUncached(t) ==
    /\ thread[t].at = "build"
    /\ built' = [built EXCEPT ![t] = @ + 1]
    /\ thread' = [thread EXCEPT ![t].at = "import", ![t].cfg = t]
    /\ UNCHANGED <<config, factory, importer, registered>>

BuildConfig(t) ==
    /\ thread[t].at = "build"
    /\ built' = [built EXCEPT ![t] = @ + 1]
    /\ config' = FirstOf(config, t)
    /\ thread' = [thread EXCEPT ![t].at = "import", ![t].cfg = t]
    /\ UNCHANGED <<factory, importer, registered>>

\* Mutant: a module somebody is still executing counts as imported.
ImportPartial(t) ==
    LET f == thread[t].f
    IN  /\ thread[t].at = "import"
        /\ \/ (f \in registered \/ importer[f] # None) /\ Goto(t, "keep") /\ UNCHANGED importer
           \/ /\ f \notin registered /\ importer[f] = None
              /\ importer' = [importer EXCEPT ![f] = t]
              /\ Goto(t, "importing")
        /\ UNCHANGED <<config, factory, registered, built>>

\* _ensure_registered(): a module that somebody is importing is waited for.
Import(t) ==
    LET f == thread[t].f
    IN  /\ thread[t].at = "import"
        /\ \/ f \in registered /\ Goto(t, "keep") /\ UNCHANGED importer
           \/ /\ f \notin registered /\ importer[f] = None
              /\ importer' = [importer EXCEPT ![f] = t]
              /\ Goto(t, "importing")
        /\ UNCHANGED <<config, factory, registered, built>>

\* The decorator of the module's builder fills the registry; the module is done.
Register(t) ==
    /\ thread[t].at = "importing"
    /\ registered' = registered \union {thread[t].f}
    /\ importer' = [importer EXCEPT ![thread[t].f] = None]
    /\ Goto(t, "keep")
    /\ UNCHANGED <<config, factory, built>>

\* Mutant: get_repository_factory without its lru_cache.
KeepFactoryUncached(t) ==
    /\ thread[t].at = "keep"
    /\ Goto(t, "use")
    /\ UNCHANGED <<config, factory, importer, registered, built>>

\* The constructor returns, and lru_cache stores its result or leaves it.
KeepFactory(t) ==
    /\ thread[t].at = "keep"
    /\ factory' = [factory EXCEPT ![thread[t].f] = FirstOf(@, thread[t].cfg)]
    /\ Goto(t, "use")
    /\ UNCHANGED <<config, importer, registered, built>>

\* get_user_repository(), get_storage_service(): a section of the configuration,
\* a builder out of the registry.
Use(t) ==
    /\ thread[t].at = "use"
    /\ thread' = [thread EXCEPT ![t] = Idle]
    /\ UNCHANGED <<config, factory, importer, registered, built>>

\* A constructor or an import raises: nothing is cached, the lock is free.
Raise(t) ==
    /\ thread[t].at \in {"build", "importing"}
    /\ importer' = [f \in Factory |-> IF importer[f] = t THEN None ELSE importer[f]]
    /\ thread' = [thread EXCEPT ![t] = Idle]
    /\ UNCHANGED <<config, factory, registered, built>>

Step(t) == GetConfig(t) \/ BuildConfig(t) \/ Import(t) \/ Register(t) \/ KeepFactory(t) \/ Use(t)

Next == \E t \in Thread : Step(t) \/ Raise(t) \/ \E f \in Factory : GetFactory(t, f)

Spec == Init /\ [][Next]_vars

\* The operating system runs every thread.
FairSpec == Spec /\ \A t \in Thread : WF_vars(Step(t) \/ Raise(t))

-----------------------------------------------------------------------------
(* Properties                                                              *)

\* Nobody uses a factory before its registry is filled, although the thread
\* that fills it may be another one (repository_factory.py:63-65, 75-76).
RegistryReady ==
    /\ \A t \in Thread : thread[t].at \in {"keep", "use"} => thread[t].f \in registered
    /\ \A f \in Factory : factory[f] # None => f \in registered

\* However many first requests overlap, a thread builds one ConfigService (and
\* MongoDB client) at most (config.py:256-269).
OneEach == \A t \in Thread : built[t] <= 1

\* The threads that lost the race are the last to use another ConfigService
\* than the cached factory's (repository_factory.py:86-89).
Settles ==
    \A f \in Factory :
        <>[](\A t \in Thread : thread[t].at = "use" /\ thread[t].f = f
                                  => thread[t].cfg = factory[f])

Missed(t, f) == /\ thread[t].f = f
                /\ thread[t].at = "use" => thread[t].cfg # factory[f]

\* From the moment a factory is cached it stays, and no thread joins those that
\* missed it: they finish with theirs and go (repository_factory.py:86-89).
LosersLeave ==
    [][\A f \in Factory : factory[f] # None =>
          /\ factory'[f] = factory[f]
          /\ \A t \in Thread : Missed(t, f)' => Missed(t, f)]_vars

\* config.py:115-116: one instance, shared by every factory.
SharedByEveryFactory == \A f \in Factory : factory[f] # None => factory[f] = config
=============================================================================
