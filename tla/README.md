# Verification of RAGaaS

TLA+ models of the parts of RAGaaS that keep state, TLC runs on small instances
of them, and TLAPS proofs for every value of the constants. `PROJECT.json` maps
every definition to the lines it models; paths below are relative to
`backend/app/`.

## The system

| Component | State | Operations | Interacts with |
|---|---|---|---|
| Configuration service, `core/config.py` | per process: TTL cache, listeners; shared: the `system_config` document in MongoDB | `get`, `set`, `invalidate`, `on_change` | MongoDB (await); both factories read their section through it |
| Settings, `core/settings.py` | none after start | environment and `.env` | the default of a blank section; the base path of local storage |
| Factories, `core/repository_factory.py`, `core/storage_factory.py` | registry filled by imports, `lru_cache` singletons | `get_user_repository`, `get_storage_service` | configuration service at every call; builders |
| Security, `core/security.py` | none (the clock) | issue and decode JWTs, hash passwords | authentication service |
| Authentication service, `domain/users/auth_service.py` behind `api/auth.py` | none of its own: tokens held by clients, rows, Redis keys | `signup`, `login`, `refresh`, `logout`, `get_current_user` | user repository and blacklist (awaits) |
| Token blacklist, `infrastructure/auth/redis_token_blacklist.py` | Redis keys with a time to live | `blacklist`, `is_blacklisted` | Redis |
| User repository, `infrastructure/db/postgres/` | the `users` table | `create`, `get_by_id`, `get_by_email`, `update`, `delete` | Postgres, one session per call |
| Local file storage, `infrastructure/storage/local.py` | files under `base_path` | `save`, `read`, `delete`, `get_presigned_url` | threads and the file system |
| Dependencies, `api/deps.py` | none | build the service of a request, resolve the current user, check the role | factories, authentication service |
| Frontend | React state of a page; Modal's keydown listener | static pages | not connected to the backend yet |
| `domain/{billing,chat,generation,ingestion,processing,retrieval,safety}`, `workers/`, other storage and database backends | | empty packages | |

What makes each part correct, and where it is hard:

* **Configuration.** A reader may see an old value, for a bounded time. The
  code between two awaits is atomic, but `get` reads MongoDB, awaits and then
  writes the cache, `set` writes MongoDB, awaits and then writes the cache, and
  other processes do the same. Calls fail after the server has executed them,
  and processes restart.
* **Factories.** What they build follows the document: a switch to a backend
  nobody registered, and the switch back, reach each process at its own time.
* **Tokens.** A refresh token is exchanged once, and never after logout. The
  check, the user lookup, the revocation and the issue are separated by awaits;
  clocks differ in resolution (JWT: seconds, Redis: milliseconds); a Redis
  command may take effect after its caller has gone, and Redis may lose keys.
* **Storage.** What `save` returned can be read back whole until it is deleted.
  Each file operation runs in a thread of its own, so `is_file` may be stale
  when `read_bytes` or `unlink` runs, and a crash leaves partial files.
* **User repository.** The unique email; rows deleted between a SELECT and the
  write that follows.
* **Singletons.** One configuration service for all factories, although
  FastAPI calls the synchronous `get_repository_factory` in threads.

## Modules

| Module | What it is |
|---|---|
| `StaleRegister` | what the cache promises: a register whose readers see versions superseded at most `Bound` ticks ago |
| `ConfigService` | `core/config.py`: one section, its document and the caches of several processes |
| `BackendFactory` | extends `ConfigService` with what both factories and `core/settings.py` make of a section |
| `MCConfigService` | for TLC: assignments of coroutines to processes, documents and environments |
| `ConfigServiceProofs` | type correctness, the staleness bound from both sides, where `{}` is served, refinement of `StaleRegister`; the order of reads with one call at a time |
| `BackendFactoryProofs` | what the factories build is what a settled document asks for |
| `TokenRotation` | what rotation promises: nobody is admitted with a spent token, and those admitted exchange it once |
| `TokenRotationProofs` | those two consequences of it |
| `AuthService` | `auth_service.py`, `security.py`, `redis_token_blacklist.py`, and the life of a user row |
| `MCAuthService` | the symmetry of accounts, slots and grants |
| `AuthServiceProofs` | type correctness, the rotation invariant, refinement of `TokenRotation`, deleted accounts |
| `ObjectStore` | `domain/storage/service.py` as atomic operations, and when its answer may be missing |
| `LocalFsStorage` | `local.py`, one action per file operation; run directly |
| `LocalFsStorageProofs` | the storage invariant, refinement of `ObjectStore` |
| `Singletons` | threads that ask for a factory and its `ConfigService` for the first time; run directly |
| `SingletonsProofs` | type correctness, registries filled before use, one build per thread, the cached factory stays |
| `UserTable` | `domain/users/repository.py` as atomic operations, and when its answers may be missing |
| `UserRepository` | `user_repository.py`, one action per SQL statement at READ COMMITTED |
| `UserRepositoryProofs` | the repository invariant, unique emails, refinement of `UserTable` |
| `CurrentUser` | extends `UserRepository` with requests: `get_current_user` and `require_role` |
| `MCCurrentUser` | the symmetry of sessions, ids and emails |
| `CurrentUserProofs` | every verdict is one that the account deserved while the request ran |

Operators whose comment begins with "Mutant" are plausible bugs. No
specification uses them; each property is known to fail when one of them takes
the place of the definition that follows it.

### ConfigService

One section stands for all: sections share nothing but the document, and
`$set` writes one of them. A value is the number of the `update_one` that wrote
it, `doc` the newest; `blank` says which values are missing or `{}`. Each
process has one cache entry. An entry that was never stored, popped or cleared
is an entry past its TTL, which `_cached` treats alike. A coroutine (`Task`)
stops at the await of `find_one` or `update_one`: `GetMiss`, `FindOne` (the
server's step), `GetDone`, and `SetStart`, `UpdateOne`, `SetDone`. `GetHit` has
no await. `Fail` is an exception out of motor: an `update_one` may then still be
executed (`"orphan"`), as it may after `Restart`. `Notify` stops at a listener
that raises. The ghost `mine` remembers which versions `set` has cached as they
are in each process; `EmptyOnlyWhereSet` allows `{}` for those and for no other,
the version found at startup included.

The clock is kept as ages. `lag[v]` is the time since version `v` was
superseded. It saturates past `Bound == TTL + Latency`, and ages past `TTL + 1`,
where nothing can tell them apart. `Latency` bounds the time between the
server's answer and the coroutine's resumption, because `_store_cache` stamps an
entry with the time of the store (line 198) and not of the read. The code sets
no such bound; without one there is no bound on staleness either.

### BackendFactory

`get_user_repository` and `get_storage_service` await `get` and then, without
another await, look up the builder of the section's `active`. So the module adds
no variable: what a factory answers is a function (`Built`) of what `get`
returned. One section stands for `"db"` and `"storage"`; both factories are
applied to it, and of the keys below `active` only `local.base_path` is kept,
the one that is read. `Stored[v]` is the dict of version `v` and may lack either
key. A missing `active` is the literal in the factory (`HardDefault`); a missing
or empty `base_path` is the one of `Settings`; an `active` nobody registered, the
empty string included, is a `ValueError`. `Settings` takes the environment, then
`.env`, then the field's default, and does not change while the process runs.
`DictOf` joins the two modules: it is the dict behind each answer of
`ConfigService`. `{}`, which only a process that cached it returns, makes the
factory use its literals where every other process uses `Settings`.
`FollowsWithinBound` allows nobody to deviate from the document once the last
write is `TTL + Latency` ticks old (`Settled`): by then neither a live entry nor
an answer under way is older than the document, and no raw `{}` is live. The
bound is exact: with `lag[doc - 1] >= Bound` in `Settled`, TLC finds a process
that still lags.

### AuthService

A request is a slot of `Req` that stops at each await. Its client waits for the
answer before it sends the slot's next request, which is what `OneRotation`
means by one client; two slots may hold the same token. A grant is an issued
pair, named by its refresh token; it records its subject, the second of issue,
and as ghosts the token it was rotated from and the slot that did it. Redis keys
have a deadline on the fine clock (`SubTicks` positions in a second), tokens
expire with the second `Exp(g)` over, because jose compares whole seconds and
accepts the second of `exp`. `RevokeTtl` is `max(int(exp - now), 1)`. `Abort` is
an exception at any await or the death of the process: a SET that was sent may
reach Redis later (`"late"`). `LoseKey` is a Redis that comes back from an older
snapshot or evicts: a key is gone, and the ghost `lost` remembers whose. The
properties excuse those tokens and no others: a token in its last second or with
a lost key is `Reusable`. `DeleteUser` is `IUserRepository.delete`, which no
route calls yet. An email that signs up again after a deletion is another
account, with another id. The role and organisation in the claims and the access
token are left out: nothing here reads them. `get_current_user` is in
`CurrentUser`.

`Rotation` maps the state to `TokenRotation`, which has no clock, no Redis and
no accounts. A client is admitted with a token at `Check`, the token is spent
when Redis executes the SET of a refresh or of a logout, `RefreshDone` exchanges
it, and `Reusable` tokens are void. Admission and spending are two steps there
too, because they are in the code. So the abstract specification says what
rotation and logout mean when requests overlap, where the docstrings say more
than the code keeps (`RotatedOnce`, `LogoutFinal`): from the SET on nobody is
admitted, and each client admitted before may still exchange the token once
(`RevokedStaysOut`). `DeletedStaysOut` says the same of a deleted account and
the requests that had read its row. Nothing says that those requests end: an
await may hang, because neither client is given a timeout.

### LocalFsStorage

A uri stands for its path and content, since names are fresh uuids and nothing
rewrites a file. A save creates the file (`SaveOpen`) and fills it
(`SaveWrite`); it hands out the uri with `Return`. The other calls start with
`is_file` (`LookCheck`) and go on to `ReadBytes` or `Unlink`. `IOError` ends a
call at any of them, and leaves a file partial if it was. `Crash` ends all
calls. Clients bring uris that `save` returned; a uri of another scheme is a
`ValueError` that touches nothing.

`Store` maps the state to `ObjectStore`, where every call is atomic: an object
is stored when its file is whole, a save takes effect at `SaveWrite`, a read or a
delete at the file operation that answers it. Answers are not renamed.
FileNotFoundError out of `read_bytes` or `unlink` is the answer `"escaped"`, which
`domain/storage/errors.py:5-7` forbids; the store has it as an action of its own
(`Escape`), open only to a caller whose object was there when it called (the ghost
`there`) and has gone since. So `StoreSpec` says how far the code leaves its
interface, `DomainErrors` is the interface's sentence, and the run
`StorageErrors` its counterexample.

### Singletons

FastAPI runs `get_repository_factory` and its like in the threads of a pool.
`lru_cache` takes no lock while it computes: of the threads that miss, the first
result is kept (`FirstOf`) and each of the others returns its own. A thread asks
for the cached factory (`GetFactory`), or constructs one: `GetConfig`,
`BuildConfig`, then `Import` and `Register` under the module's import lock, then
`KeepFactory`, and at last it reads the registry (`Use`). `Raise` is an
exception from the client's constructor or from the import. A `ConfigService` is
named after the thread that built it.

### UserRepository

A call is a session that stops before each statement: `Select`, then `Insert`,
`UpdateRow` or `DeleteRow` with their commit, then `Refresh`. Other sessions run
in between. A row is its email and `data`, one value for the other columns. As
SQLAlchemy does, `UpdateRow` writes the columns that differ from those the
session has loaded, over the row as it is by now (`Patched`), and nothing if none
differs. `End` answers, or loses the connection or process at any statement.
`TableSpec` maps each call to one step of `UserTable`, at the commit: a row
deleted between select and write does not come back, and a column that the call
does not change is not overwritten. An update that is done has written each
column it was asked for, or that column had the value when the session selected:
`todo` is what is left to write after `Observe`.

The answers are those of the code. `"stale"` is the StaleDataError of an update
whose row has gone, `"void"` a delete that matched no row and returns normally,
`"unrefreshed"` the InvalidRequestError of a refresh after the commit. The
interface (`domain/users/repository.py:44-55`, `errors.py:3-8`) promises
UserNotFoundError and no driver's exception. `UserTable` gives the three answers
guards of their own: the row was there at an instant of the call (`seen`) and has
gone, or the effect stands and the row has gone since. A row that was gone before
the call is always `"notfound"`.

### CurrentUser

A request (`Caller`) gets a pair for a row (`LoginPair`), passes `decode_token`
(`Decode`), loads its user and is judged by `require_role` (`LoadUser`). `seen`
is a ghost: the roles the account has had since `Decode`, `None` for no account.
Repository calls run at any time (`RepositoryStep`). The blacklist lookup of
`get_current_user` is merged into the await before `get_by_id`: nothing adds an
access token to the blacklist.

## Runs

| Run | Instance | Shows |
|---|---|---|
| `ConfigShared` | 2 processes, 3 coroutines (two in one process), 1 write, TTL = Latency = 1; a document that starts with an unregistered backend, a wrong `STORAGE_ACTIVE` | `TypeOK`, `Staleness`, `BoundedStaleness`, `EmptyOnlyWhereSet` (`{}` is served only where it was set), `FollowsWithinBound`, refinement of the register, `Converges`, `FollowsDocument` |
| `ConfigSerial` | 2 processes with one coroutine each, 2 writes, 2 listeners in one of them, Latency = 0 | with one call at a time per process: `ReadYourWrites`, `MonotonicReads`, `ListenersInOrder` |
| `ConfigReadYourWrites` | 1 process, 2 coroutines | violated: a get that began before a set overwrites what the set cached |
| `AuthRotation` | 2 slots, 3 grants, one second, Redis may lose the key of 1 token | `RevokedBeforeIssued`, `OneRotation`, refinement of the rotation, `RevokedStaysOut`, `DeletedStaysOut` |
| `AuthExpiry` | 2 slots, 2 grants, 2 positions per second, seconds 1 to 3 for a lifetime of 2, Redis may lose the key of 1 token | `TypeOK`, `KeyOutlasts`, `RotationInv`, `ReuseRejected` |
| `AuthConcurrentRefresh` | 2 slots, 3 grants | violated: two refreshes of one token both issue |
| `AuthLogoutRace` | 2 slots, 2 grants | violated: a refresh issues after logout of its token |
| `StorageRefines` | 3 clients, 2 names | `TypeOK`, `IssuedIntact`, `StorageInv`, refinement of the store |
| `StorageErrors` | 2 clients, 1 name | violated: FileNotFoundError leaves a read or a delete |
| `SingletonsSettle` | 3 threads, 2 factories, fairness | `TypeOK`, `RegistryReady`, `OneEach`, `Settles`, `LosersLeave` |
| `SingletonsShared` | 3 threads, 2 factories | violated: the cached factory holds another `ConfigService` than the cached one |
| `CurrentUser` | 2 sessions, 2 users, 2 emails, 2 roles, 1 request | `TypeOK`, `UniqueEmail`, `RequestOK`, refinement of the table, `VerdictDeserved` |

**Bounds.** One write is enough for `ConfigShared`: staleness concerns one
version and its successor, two coroutines in one process and a third elsewhere
reach every order of answer, store and write, and the proofs lift the safety
part to any number. The first version names an unregistered backend and the
second corrects it without an `active`, or is blank, so that each layer of the
precedence chain answers somewhere; the environment overrides a right `.env`
with a wrong backend, so that default and literal differ. `ConfigSerial` needs
two writes, so that a version can come back, and two listeners, so that one can
be passed over; the time an answer takes plays no part in its properties.
`OneRotation` needs three grants: a token and two successors. The clock of
`AuthRotation` stands still in the first second of a lifetime of two, so that a
token becomes void only when its key is lost, and is then admitted again;
`AuthExpiry` has the passage of time, and the proofs have both. `AuthExpiry`
starts inside second 1 and ends inside second 3, the last in which jose accepts
a token issued in second 1, so that the remaining lifetime falls below a second
and below zero; a key is lost before, between or after two SETs; two grants are
enough because its properties concern one token each. Users are interchangeable
and one suffices: no token or key mentions two of them. `SYMMETRY` is used only
where no liveness is checked. In `StorageRefines`, three calls let two of them
race over an object while a third saves. In `SingletonsSettle`, one thread fills
a cache, one loses the race and one comes after. In `CurrentUser`, two sessions
reach every pair of overlapping statements, two ids and two emails every
conflict over an email, and two roles a promotion and a demotion; a second
request would change nothing, because requests only read.

**Fairness.** `FairSpec` of `ConfigService` lets time pass and resumes a
coroutine whose answer has come, as the event loop does; it does not assume that
MongoDB answers, that a call succeeds or that anybody calls. `Converges` then
follows because live entries expire, and `FollowsDocument` with it: it is not
implied, since it also speaks of `{}` and of what the factories make of it. The
bound on writes is what "once writing stops" means. `FairSpec` of `Singletons`
says that the operating system runs every thread; it does not say that a
construction or an import succeeds, nor that anybody asks again. The other
modules assume no fairness and state no liveness: `redis.from_url`
(`redis_token_blacklist.py:53`) and `create_async_engine` (`session.py:41`) set no
timeout, so a request may wait for its answer for ever.

**Where the code leaves its documents.** `findings` in `PROJECT.json` quotes the
sentences. Five properties are violated, each in a run of its own: three when
calls overlap in one process or over one token (`ReadYourWrites`, `RotatedOnce`,
`LogoutFinal`), one when two threads build the singletons
(`SharedByEveryFactory`), and one when an object is deleted under another call
(`DomainErrors`). Two more are part of a property that holds because it says
exactly how far the code goes. `EmptyOnlyWhereSet`: after `set(section, {})` its
process serves `{}` for a TTL and builds from the literals, where
`core/config.py:214-215` promises the default. `TableSpec`: the answers
`"stale"`, `"void"` and `"unrefreshed"`. `ReadYourWrites` holds when a process
has one configuration call at a time (`ConfigSerial`), and `RotatedOnce` when one
client waits for its answers (`OneRotation`).

## Proofs

Every theorem is checked by tlapm from named assumptions on the constants only:
`TTL`, `Latency`, `MaxWrites` are naturals, coroutines have a process, `None` is
outside the sets it could be taken from, the allowed roles are roles, the clock
has at least one position per second, the number of tokens whose key may be lost
is any, the literal in the factories is a registered backend and the fields of
`Settings` have defaults. Three theorems have a hypothesis besides,
`OneTaskEach`: no process has two coroutines. The numbers of processes,
coroutines, slots, grants, clients, uris, threads, factories, sessions, users
and requests are arbitrary.

* `ConfigServiceProofs`. `BoundedStaleness` speaks of what was returned and is
  not inductive. `Staleness` adds what is on its way to being returned: an
  answer is at most `wait` ticks behind the document, a live entry at most its
  age plus `Latency`. A tick ages both sides, a write supersedes a version with
  lag 0, and `GetDone` turns `wait <= Latency` into age 0. `ServedWithinBound`
  and `ImplementsRegister` follow, with `UpdateOne` as the register's write,
  `GetHit` and `GetDone` as reads and `Tick` as its clock.
  `RecentInvariant` is the bound for the version that came before: what a `set`
  holds, or has cached raw, superseded its predecessor no longer ago than its age
  allows, and older versions were superseded earlier.
  `EmptyOnlyInOwnProcess` needs that the version of an unresolved entry is one
  that a `set` of the same process has cached (`RawIsMine`). With `OneTaskEach`,
  `SerialInv` says that nothing a process may be handed next, from the document,
  its cache or an answer under way, is older than what it wrote or was handed
  before; that an answer is not older than the live entry it will replace is
  where a second coroutine breaks it. `SerialReadYourWrites`, `SerialMonotonicReads` and
  `SerialListenersInOrder` follow.
* `BackendFactoryProofs`. `FactoriesFollow` needs the staleness bound from both
  sides (`SettledView`): once the last write is older than `Bound`, an older
  version would have been superseded too long ago to be served, and a raw entry
  would have been written too long ago to be live.
* `AuthServiceProofs`. `TypeCorrect` carries `Sane`, which says which fields are
  set at which step. `RotationInv` then has one part per hazard: a slot about to
  issue holds a revoked token; a TTL on its way to Redis is long enough for the
  present instant (`TtlSuffices`), so that a late SET cannot shorten a key
  below the last second (`KeyOutlasts`); and a slot past the blacklist check has
  not rotated its token before (`FirstUse`), unless the key was lost: a loss makes
  its tokens `Reusable`, for good, and touches nothing else. Ticks, resumed
  handlers, late SETs and losses keep each part, and `RevokedFirst`,
  `KeysOutlast`, `RotatesOnce` and `RejectsReuse` are its consequences.
  `ImplementsRotation` has one step per action. What carries it is that a revoked
  token which passes `is_blacklisted` is `Reusable` (`PassedCheck`), that a slot
  about to issue holds a revoked token, and that a SET is sent with a positive
  TTL; ticks and lost keys only add void tokens (`LastStable`). `RevocationCloses`
  then follows from `TokenRotationProofs!StaysOut`, instantiated with the same
  mapping. `DeletionCloses` rests on `ActingEffect` (only `LoadByEmail` and
  `LoadById` let a request act for an account, and only if it is live) and
  `IssuesForActing`.
* `TokenRotationProofs`. `Inv` says that what was exchanged has been spent and
  that a client admitted with a token has not exchanged it, unless it is void;
  `ExchangesOnce` and `StaysOut` follow.
* `LocalFsStorageProofs`. `StorageInv` says how far the file of each pending save
  has got, that two saves never share a name, that uris in hands are whole or
  removed, and that a call which goes on after `is_file` found its file at the
  call. `IssuedStaysIntact` follows, and `ImplementsStore` maps every step to
  a step of `ObjectStore` or to none.
* `SingletonsProofs`. `RegistriesReady` is inductive with the types: `Import`
  passes only a filled registry, and a factory is kept only by a thread that
  passed it. `BuildsOnce` needs that the cache, once filled, stays so, and that a
  thread that is about to build has not built while the cache was empty.
  `CacheStays` (`LosersLeave`): once a factory is cached, no step replaces it or
  adds a thread to those that missed it.
* `UserRepositoryProofs`. `Inv` adds to the types and the unique emails what
  each step of a call knows (`CallInv`): a call under way has an entity, a
  session about to write has loaded a row, and only a returning call has an
  answer. `EmailsUnique` and `ImplementsTable` follow; `ViewMoves` and
  `ViewAnswered` say what the mapping makes of a call, `TableStep` has one step
  per statement.
* `CurrentUserProofs`. `KeepsRepository` carries those theorems over. A waiting
  request has seen the role its account has now (`SeenNow`): a repository step
  adds the new one as it commits. `VerdictsDeserved` follows.

Model-checked only: the liveness properties `Converges`, `FollowsDocument` and
`Settles`, which are out of the prover's reach. The safe half of each is proved:
`FactoriesFollow` says where everybody is once enough time has passed,
`CacheStays` that those who missed a cached factory only become fewer. What
remains to TLC is that time passes and that threads run.

## Not modelled

* `/api/me` and `/health`: they only read.
* Clocks that differ between hosts.
* A caller that changes the dict it got from `get` (line 217 returns the cached
  one); `ConfigService(None)`, which only tests build.
* The cancellation of a request by a client that disconnects: no middleware
  here cancels handlers; `Fail`, `Abort`, `End` and `Respond` have its effects.
* The connection pool of Postgres (`session.py:39`): `refresh` may wait for a
  second connection and time out. `End` of `UserRepository` has the effect; the
  pool itself is SQLAlchemy's.
* The migrations (`migrations/env.py`): Alembic runs revision 0001 in one
  transaction on one connection, before the service uses the table. What could
  interleave is inside Alembic and Postgres.
* The spelling of an email: `signup` stores the address `EmailStr` has
  normalised, `login` looks up the one that was typed (`api/auth.py:100`). An
  email is an opaque value here.
* Partial files of failed saves, which stay on disk under names nobody knows.
* The columns of a user row one by one, hashing, logging, HTTP status codes. The
  frontend: its forms submit nowhere yet.

## Plan

Done: configuration and the factories over it, authentication with a Redis that
loses keys, local storage, the singletons, the user repository and the requests
over it, with their proofs. Next:

1. `CurrentUser` over `AuthService`: an access token whose refresh token has
   been revoked lives on until it expires, and no longer.
2. The other backends, `workers/` and the empty `domain` packages, once they have
   code.
