---------------------------- MODULE BackendFactory ----------------------------
(***************************************************************************)
(* core/repository_factory.py and core/storage_factory.py over the         *)
(* configuration cache.  Each awaits ConfigService.get and looks up, in    *)
(* the same step, the builder registered for the section's `active`; so    *)
(* what a factory answers is a function of what get() returned.  A section *)
(* is read as the one both factories know: `active`, and local.base_path,  *)
(* which only storage has.  Either key may be missing.  core/settings.py   *)
(* is read once: every process of a deployment has the same environment.   *)
(***************************************************************************)
EXTENDS ConfigService

CONSTANTS Backend,      \* values of `active`
          Registered,   \* those whose module is imported by _ensure_registered
          HardDefault,  \* the literal in section.get("active", ...)
          Path,         \* values of local.base_path
          None,         \* a key or variable that is missing; for base_path, or empty
          Stored,       \* Stored[v]: the dict of version v, where it is not blank
          Env, DotEnv, FieldDefault   \* the layers below MongoDB

Field == {"active", "base_path"}
SectionDict == [active : Backend \union {None}, base_path : Path \union {None}]

ASSUME BackendAssumption ==
    /\ None \notin Backend \union Path
    /\ HardDefault \in Registered /\ Registered \subseteq Backend
    /\ Stored \in [Version -> SectionDict]
    /\ Env \in SectionDict /\ DotEnv \in SectionDict
    /\ FieldDefault \in [active : Backend, base_path : Path]

\* Settings(): environment, then .env file, then the field's default.
Settings == [f \in Field |-> IF Env[f] # None THEN Env[f]
                             ELSE IF DotEnv[f] # None THEN DotEnv[f] ELSE FieldDefault[f]]

\* The dict that get() returned, from the answer ConfigService models.
DictOf(v, answer) == CASE answer = "stored"       -> Stored[v]
                       [] answer = DefaultSection -> Settings
                       [] answer = "empty"        -> [f \in Field |-> None]

\* section.get("active", "postgres" or "local")
Active(s) == IF s.active = None THEN HardDefault ELSE s.active

\* _build_local_storage: an empty base_path counts as missing.
BuildLocalStorage(s) ==
    [backend |-> Active(s),
     base |-> IF s.base_path = None THEN Settings.base_path ELSE s.base_path]

ValueError == [backend |-> None, base |-> None]

GetUserRepository(s) ==
    IF Active(s) \in Registered THEN [backend |-> Active(s), base |-> None] ELSE ValueError

GetStorageService(s) ==
    IF Active(s) \in Registered THEN BuildLocalStorage(s) ELSE ValueError

-----------------------------------------------------------------------------
(* Properties                                                              *)

\* What the two factories make of a section.
Built(s) == [repository |-> GetUserRepository(s), storage |-> GetStorageService(s)]

\* What the factories make of version v according to the precedence chain:
\* MongoDB's value when it is not blank, else the layers below.
Intended(v) == Built(IF v \in blank THEN Settings ELSE Stored[v])

\* The answer of p's factories to a get() now.
NextBuilt(p) == LET a == Answer(cache[p].ver, cache[p].raw) IN Built(DictOf(a.ver, a.answer))

\* Once TTL + Latency ticks have passed since the last write, every process, the
\* one that wrote included, builds what the document asks for: no live entry and
\* no answer under way says otherwise any more (config.py:188-245).
Settled == doc > 0 => lag[doc - 1] > Bound
FollowsWithinBound ==
    Settled => /\ \A p \in Proc : Fresh(p) => NextBuilt(p) = Intended(doc)
               /\ \A t \in Task : /\ task[t].at # "updated"
                                  /\ task[t].at = "found" => task[t].ver = doc

\* With no more writes, every process ends up building what the document asks
\* for, also the ones that cached {}: nobody fails on a corrected document, and
\* nobody keeps working on a broken one.
FollowsDocument == <>[](\A p \in Proc : Fresh(p) => NextBuilt(p) = Intended(doc))
=============================================================================
