# Verification of CoreStore

CoreStore (`github.com/corestoreio/pkg`) is a Go library for e-commerce. This
directory holds TLA+ models of the parts of it that have state and concurrency,
the TLC configurations that check them on small instances, and TLAPS proofs of
the properties that matter most. `PROJECT.json` lists components, runs, mutants,
findings, hazards and theorems, and maps every definition that models code to
the lines it stands for.

File names below are relative to `src/`.

## 1. The system

The centre of the library is `config`. A `config.Service` reads and writes
values under a path (scope, scope ID, route). It keeps them in a storage
(level 2), optionally behind a cache (level 1), consults a trie of routes for
default values, write permissions and observers, and tells subscribers about
every written path through one publisher goroutine. Load functions fill it at
start and again when a signal arrives. `config/storage` supplies the storages.

Around it:

| Part | What it does | State or concurrency |
|---|---|---|
| `config/service.go` | get, set, scoped fallback, flush, observers, life cycle | RWMutex, two storage levels, reload goroutine |
| `config/service_pubsub.go` | publish/subscribe | goroutine, three channels, flag, RWMutex |
| `config/route_trie.go` | route -> meta, observers | tree, under the Service's mutex |
| `config/options.go` | load functions, field meta generator | channels |
| `config/storage` | database, multi, LRU, map, etcd, env, files | prepared statements with an idle daemon; concurrent writes with a timeout |
| `sync/singleflight` | duplicate call suppression | mutex, map, wait groups |
| `sync/suspend` | one worker, others wait | mutexes, condition variables |
| `storage/lru`, `storage/objcache` | caches | mutex, eviction; two levels |
| `store`, `store/scope` | websites, groups, stores | caches that are reloaded |
| `net/internal/scopedservice` | configuration per scope, copied by six middlewares | RWMutex, map of shared pointers |
| `net/runmode` | the store of a request | a cookie, two look-ups beside reloads |
| other `net/*` | middlewares | mostly stateless |
| `sql/myreplicator`, `sql/binlogsync` | MySQL replication client and change dispatcher | reconnects, streams, saved position |
| `sql/ddl`, `sql/dml` | table definitions, query builder | RWMutex cache; build caches, argument lists, worker goroutines |
| `email` | mail daemon | goroutine, channel, idle timeout |
| `util/*`, domain packages | helpers, generated tables | none |

How the modelled parts meet: `Service.Set` sends to the publisher while it holds
the read lock (ConfigLocks composes the two; ConfigPubSub is the publisher in
detail, ConfigService the data). NewService and Close start and stop the
publisher (ConfigLifecycle). The trie is changed by load functions and observer
registration (RouteTrie) and filled from generators (FieldMetaLoad). Level 2 may
be a database (StorageDB) or several backends at once (StorageMulti).
The statements of the database storage, and those of every other package, are
built and run by `sql/dml` (DmlBuilder, Artisan, RowIterator). A Canal is composed
with the BinlogSyncer it reads from (Canal extends BinlogSyncer) and keeps table
structures that `sql/ddl` loads (DdlTables). The run mode of a request is composed
with the store service it asks (RunMode extends StoreService, which answers with
StoreData). Requests of the other middlewares find their configuration in a
ScopedService, whose loads go through a singleflight. ObjCache calls Lru.

## 2. Conventions

* One step of a model is one critical section, one channel operation, or one
  call of something outside. A lock that is held across several such operations
  is a variable; a section without any is one step.
* Channels without a buffer are rendezvous: one step of both sides.
* A payload is a model value or a number. Text is left out.
* `Max...` constants and `nOps`-like counters bound behaviours for TLC. They are
  bounds on how often something is called, never on what the code does.
* A variable marked *history* is read by properties only.
* An operator that stands before a definition, has its parameters, and is used
  nowhere, is a mutant: a plausible error in that piece of code. `PROJECT.json`
  names for every property of every passing run one that violates it.
* Runs that are expected to be violated state what a comment, a document or a
  test of the repository says and the code does not do; `findings` quotes the
  sentence.
* Deadlock checking is off where a bounded or closed system may come to rest;
  what must not get stuck is stated as a liveness property instead.

## 3. The modules

The eight passing runs and what they consist of:

| Run | Module | Parts | Distinct states |
|---|---|---|---|
| `sync` | MCSync | Singleflight, Suspend, EmailDaemon | 43,000 |
| `pubsub` | MCConfigPubSub | ConfigPubSub | 50,000 |
| `service` | MCConfigService | ConfigService | 1,230,000 |
| `setup` | MCSetup | RouteTrie, ConfigLocks, ConfigLifecycle, FieldMetaLoad | 24,800 |
| `storage` | MCStorage | ObjCache (with Lru), StorageDB, StorageMulti | 50,600 |
| `sql` | MCSql | Artisan (with DmlBuilder), RowIterator, DdlTables | 96,000 |
| `outside` | MCOutside | Canal (with BinlogSyncer), ScopedService | 118,000 |
| `store` | MCStore | RunMode (with StoreService, StoreData) | 174,000 |

A run with several parts has a variable `part` that says which of them a
behaviour is about; the others keep their initial state, and the fairness of a
part is conditional on `part`. The parts of such a run do not interact, so the
run shows of each what a run of its own would show. Where a property of a run
is a conjunction, the definitions it is made of are named below: they are in the
module of the part.

Four runs are expected to be violated: `suspend_lost_wakeup`, `locks_deadlock`,
`scoped_target` and `objcache_miss`. Other places where code and documentation
disagree were met while modelling. They have no run of their own: the property
that covers them says under which condition the code keeps its promise, and the
paragraph *Seen while modelling* names what promises more.

### Singleflight (`sync/singleflight/singleflight.go`)

State: the map `m`, and for every call its phase, duplicates and channels; for
every caller where it is and on which call. Actions: `Do`, `DoChan` (each either
joins or registers), `FnReturns`, `FnPanics`, `DoCallFinish`, the returns of
owner, waiter and channel reader, `Forget`.

Run `sync`: executions of a key overlap only after `Forget`
(`OneInFlight`), the `shared` flag is true (`SharedIsTrue`), nobody joins a call
that was forgotten before it came (`ForgetIsFresh`), every caller returns unless
the function it waits for panicked (`EveryCallerReturns`). Bounds: three callers
of two keys with one call each, one `Forget`, one panic; three callers are the
fewest in which an execution, the one that replaces it, and a third can meet.
Callers and keys are interchangeable, so that they come in a fixed order
(`InOrder`).
Fairness: functions return and runnable goroutines run.

*Seen while modelling.* `doCall` deletes whatever call is registered under its key
(line 97), so after a `Forget` the older call removes the entry of the newer one,
and two executions that nobody forgot overlap; line 42 says "making sure that
only one execution is in-flight for a given key at a time".

### Suspend (`sync/suspend/state.go`)

State: the outer mutex, the map from key to entry, for every entry its status
and the holder of its mutex, for every goroutine its place in the documented
`switch`. Actions are the sections of `ShouldStart`, `ShouldWait`, `Done` and
`Reset`.

Run `sync`: an entry's mutex is held exactly by a goroutine that is inside its
section (`Consistent`), one worker per key (`OneWorker`), nobody held back
proceeds before the work is done (`ProceedsAfterDone`), which together are
`OneWorkerFirst`; `Done` wakes every
goroutine that already sleeps, as long as there was no `Reset`
(`SleeperReleased`). Run `suspend_lost_wakeup` (violated): `Done` changes the
status and broadcasts without the entry's mutex, between a waiter's check and its
`Wait`. Bounds: three goroutines (a worker and two waiters, so that Broadcast and
Signal differ), two runs of the work, one `Reset`, which comes when both keys are in
use (`ResetOfTwo`). Fairness is strong: Go's
mutexes do not starve.

### ConfigPubSub (`config/service_pubsub.go`)

State: subscriptions (`topic`), the `closed` flag, which channels are closed, the
publisher (`ppc`, current path, `level`, `pending`, `evict`), senders, closers.
A path is the sequence of its segments, and the five topics of a path are its
levels. A subscriber returns, fails, panics or (if `Reentrant`) calls back.

Run `pubsub`: after `Close` returned nil nobody is called (`QuietAfterClose`);
nobody is called after `Unsubscribe` returned or after it failed
(`NoCallAfterRemoval`), or twice for one message (`AtMostOncePerMessage`); with a
logger, neither the publisher nor `Close` panics unless two goroutines are inside
`Close` (`PanicNeedsTwoClosers`); a
received message reaches every subscriber of its levels that is there throughout
(`Delivered`); a blocked sender and a blocked `Close` come back
(`BlockedReturn`); these two are `MessagesGoThrough`, and except a publisher that has crashed or that waits
for itself, because a subscriber called back into it (`Halted`). Bounds: a sender with two messages, so
that a message can follow a removal or a failure, two closers, two subscriptions,
two topics of different length. Fairness: `select` chooses at random and channels
serve blocked senders in turn, hence SF for a sender and a closer.

*Seen while modelling.* `publish` serves the levels 1 to 4 and the whole path
only (line 156), while lines 88-95 say "Route can be any kind of level" and list
"currency/options", which is none of them. `sendMsg` reads `closed` before it
sends, and a sender blocked while `Close` closes the channel panics; line 65 says
"can still Write() without panic". Two concurrent calls of `Close` both pass the
flag, the second panics and its deferred close makes the publisher panic;
`config/service.go:69` says "Safe for concurrent use." Without `Options.Log` a
failing subscriber leads to a nil dereference at line 191 (set `HasLog = FALSE`);
line 25 says "If a subscriber panics, it gets securely removed without crashing
the whole system."

### ConfigService (`config/service.go`, with `process` of the trie)

One route, three scopes. State: both storage levels, observers, the field meta,
and for every goroutine its place in `Get` or `Set`. Data carries how often it
has been encoded: `before_set` observers encode and `after_get` ones decode;
all but `after_set` may refuse, whose error is only returned. Actions:
`DirectGet`, `ScopedGet`, the steps of a read (level 1, level 2, fill, after_get,
answer) and of a write (store, send, after_set), `Flush`, `RegisterObserver`,
`DeregisterObserver`.

Run `service`: a scoped read answers from the nearest of its scopes that has a
stored value or a default value for the route, the stored one before the default
of the same scope (`NearestOfferWins`); level 1 holds only what level 2 held, undecoded, and what
is published is what was stored, whatever fails (`StoredFirst`); values are
decoded once, and an operation sees the same observers before and after its
storage access (`DecodedOnce`); after a `Flush` that met nobody and without a later
`Set` the levels agree (`FlushedAgrees`). Bounds: two goroutines, two values,
three `Get`/`Set` and one other operation; three setups chosen at the start: a plain route
and one with a default value, both with observers, and one with write permissions
and without observers. Goroutines are symmetric, and there is no liveness property in this run.

*Seen while modelling.* `Set` leaves level 1 alone (line 349), and line 249 says
"Write operation also flushes the entry for the given key." `process` fills in a
route's default for every scope (`config/route_trie.go:208`), and a default counts
as found, so that a scoped read for a store returns the default although the
website, or the default scope, has a stored value; line 475 says "bubbling up the
scope chain from store -> website -> default if a value won't get found in the
desired scope". `NearestOfferWins` states what the code does: a stored value is
passed over for a default of a nearer scope, and for nothing else.

### RouteMap, RouteTrie (`config/route_trie.go`, `config/options.go`)

RouteMap is what the trie is: a map from routes to metas and observers in
which an operation on one route leaves the others alone. The exception is
`SetMetas`, the map's view of `WithApplySections`: a route of the list keeps its
observers and gets those of the routes listed before it; no other route changes. RouteTrie has the nodes
(named by their segments), `valid`, metas and observers; its actions are
`PutEvent`, `PutMeta`, `WithApplySections`, `DeleteEvent`, `Delete` with its
pruning.

Run `setup`, `TrieIsAMap`: the trie implements RouteMap (`IsAMap`); the walk to a key meets every
observer on its way (`ProcessMeetsAll`); `Delete` leaves no branch without
content, and a node that is not valid has none (`Consistent`). Bounds: three keys
that share prefixes, two observers, at most two per event, a section of two fields.

*Seen while modelling.* `WithApplySections` allocates one `FieldMeta` for all
fields (`config/options.go:230`) and `PutMeta` stores the node's observers in it,
so with a second field the observers of the first become its observers as well
(`SetMetas`); line 203 says "sets the default values and permissible scopes for
specific routes", and speaks of no observers. `DeleteEvent` never removes a node, while
`config/route_trie.go:273` says "If the node or any of its ancestors becomes
childless as a result, it is removed from the trie."

### ConfigLocks (`config/service.go`, `config/service_pubsub.go`)

Composes the Service's RWMutex (an announced writer holds new readers back), the
send to the publisher under the read lock, subscribers that read, and the copy
of the Service, mutex included, that `loadData` makes. No bound: every process
goes round for ever.

Run `setup`, `EveryoneReturns`: readers and a writer exclude each other (`Consistent`); everybody
returns, unless `Set`, the publisher and a registering goroutine wait for each
other in a ring (`WaitCycle`), or a loader has copied a mutex in use. Run `locks_deadlock` (violated) shows that the ring happens.

*Seen while modelling.* `*s2 = *s` copies `mu` while others hold or wait for it,
and the loader then locks a copy that nobody unlocks; the comment at
`config/service.go:206` says "might be OK: assignment copies lock value to *s2".

### ConfigLifecycle (`config/service.go`)

`NewService` (set-up, load functions in order, clean-up after a failure, start of
hot reloading), signals, the reload goroutine, `Close` by two goroutines.

Run `setup`, `ReloadsUntilClosed`: what each way out leaves behind (`LeftBehind`): a
`NewService` that returns an error and a `Close` that returns leave no goroutine
running and no signal handler, the panic of `NewService` leaves exactly the
publisher, a `Close` panics only after another one closed the channel. Two closers
stop the signals and close the channel in separate steps, and no signal is
delivered to a closed channel (`NoSignalAfterClose`); an accepted signal leads to
a reload (`SignalReloads`), the goroutine ends after `Close` (`ReloaderEnds`).

*Seen while modelling.* When a load fails and hot reloading is enabled, the
clean-up closes a channel that is not made yet and panics, with the publisher
still running (`LeftBehind`); the comment at line 125 says it is there to "terminate publisher go routine and prevent leaking". `Close`
does not wait for a reload in progress; line 233 says "terminates the internal
goroutines". A second `Close` panics with hot reloading, where
`config/service_pubsub_test.go:92` expects `AlreadyClosed` of a service without.

### FieldMetaLoad (`config/options.go`, `config/storage/yaml.go`)

The loader's `select` over two channels and the generator that closes both. `cap`
is the buffer of the channel of metas: 0 for the YAML generator. Run `setup`, `LoadEndsTruly`: if
the load returns nil then every meta is in the trie or still in the buffer, and an
error of the generator is what the load returns (`ResultIsTrue`); the load
returns, and the generator ends if no meta is refused (`BothEnd`). Buffers of 0
and 2 are covered.

*Seen while modelling.* With a buffer the load can return nil with metas left in
the channel (`config/options.go:158`); lines 126-127 ask of a generator only that
it "must close both channels once the process finishes".

### StorageDB (`config/storage/db_client.go`, `sql/dml/artisan.go`)

Two statements with mutex, state, handle, statistics and left-over arguments; the
daemon with its tickers; `Close`. Locked sections are several steps, because the
server can fail in the middle.

Run `storage`, `StatementUse`: never two handles of a statement (`OneStatement`); the
statistics never report more than is open, and are exact until the daemon closes a
statement that the server has refused to prepare (`StatisticsAreTrue`); no query
uses a closed statement, except between such a refusal and the next close
(`UsesPrepared`); a nil
handle is used only before the first successful prepare
(`PanicsOnlyBeforeFirstPrepare`). `StatementsGetClosed`: idle statements get closed
(`IdleIsClosed`) and the first `Close` returns (`CloseReturns`) while the daemon
lives. The code calls
`WithStmt`, which package `dml` does not define; it is read as
`WithPreparedStmt`. Bounds: two callers, three calls, one closer. Fairness: every
query has a context with a timeout; mutex and `select` give SF.

*Seen while modelling.* After a failed prepare the state is "open" all the same
(line 284), and the next call uses a nil or closed statement; lines 139-141 say
"once used again, they get re-prepared". A `Get` whose query failed leaves its
arguments to the next one (`sql/dml/artisan.go:922`); line 928 says "reset the
internal slices to avoid adding more and more arguments". A `Set` that gets the
mutex after the daemon has ended prepares a statement nobody closes; line 271 says
"Close terminates the prepared statements and internal go routines."

### StorageMulti (`config/storage/multi.go`)

For every call and backend the two goroutines, the context, the group's first
error. `golang.org/x/sync/errgroup` is external (`GroupDone`).

Run `storage`, `WrittenEverywhere`: success means written everywhere, and an error is the cause and not
its consequence, the cancellation of the others (`ResultIsTrue`); `Get` returns the last value after successes
(`GetReturnsTheLast`); `Set` returns although a backend hangs, and no goroutine is
left once its backend has answered (`SetEnds`). There is no fairness on the
backend's write, so that hanging backends are covered. Bounds: two backends, one
of them faulty, two calls in a row.

*Seen while modelling.* A write that has timed out still lands, possibly over a
newer value (line 84); line 36 says "Even a timeout can be set to cancel the
writing."

### DmlBuilder, Artisan (`sql/dml`)

DmlBuilder has what each statement (Select with joins, unions, sub-selects and
CTEs, Insert, Update, Delete) writes: SQL is a sequence of tokens, of which
only place holders, values and text that ends a name are kept, and beside it the
sequence of the names that `toSQL` collects. Every clause is a `Part`, and a
statement their concatenation. Artisan has one builder with its build cache,
shared by goroutines, and for each of them the Artisan that it gets from
`WithArgs`, `Prepare` or `Clone`. `Insert.WithArgs` is two steps, because the lock
is released between them. `Supply` gives arguments and records, `Call` runs the
statement (`prepareArgs`, with the expansion of place holders, the VALUES of an
INSERT, the look-up by name, and interpolation).

Run `sql`: what a call sends is what a new Artisan would send for the same inputs
(`HistoryDoesNotMatter`); `ValuesArrive` is `ValuesAtTheirPlaces` (inputs that are
complete fill every place holder, each with the value that was given for its
column or name) and `InterpolationSaysTheSame` (interpolating writes the values
that would be sent). The definition `Disturbed` lists the ways in which an
earlier call does disturb a later one. Bounds: the statements of MCDml, one for
each form that the tests of the package use, up to three calls, `Reset`, `Clone`
and, for some of them, a second goroutine. Every step is a call, so there is no
fairness.

*Seen while modelling.* Whether the SQL has named arguments is decided by the
first call (`sql/dml/artisan.go:190`), and the VALUES of the first call stay until
`Reset`; `Reset` after `BuildValues` appends a second VALUES list; a `Clone` writes
into the byte array of its original; a failed `Load` leaves its arguments behind
(line 922); `Insert.WithArgs` after the SQL was cached loses `Select` and `Pairs`.
A `Name` that was never given a value interpolates to nothing, and a name with a
colon never matches; the comments of both say otherwise. BETWEEN with a place
holder, a tuple of place holders and an expression in SET collect another number
of names than they write question marks; `ValuesAtTheirPlaces` excludes them by
`InOrder`, unless a case is marked as plain.

### RowIterator (`sql/dml/artisan.go`)

`IterateSerial` and `IterateParallel` over a result whose `Scan`, `Err` or `Close`
may fail: the sender, the workers, the unbuffered channel of rows and the buffered
one of errors. Run `sql`, `EveryRowOrAnError`: nil means that the callback has
succeeded for every row, each failed callback is in the result
(`NilMeansEveryRow`), and the call returns and leaves no worker behind
(`IterationReturns`). Bounds: two workers and up to four rows, so that both
workers can fail while a row is offered. Fairness: goroutines run and callbacks
return.

*Seen while modelling.* `IterateParallel` wraps the wrong variable when
`rows.Err` reports an error (line 738), and returns nil.

### DdlTables (`sql/ddl/tables.go`, `sql/ddl/table.go`, `sql/ddl/columns.go`)

The cache of table objects with columns, listeners and connection, beside the
tables of the database. Options are sorted by their order, as in the code, and
each is a step under the mutex; `WithCreateTable` has a second one, `LoadColumns`.
Run `sql`, `TablesAreTrue`: between the calls all objects have the connection of
`Tables`, loaded columns are those of the database until it changes, `Validate`
returns nil only if the objects fit, and an object that is replaced hands its
listeners on (`ListenersStay`). Bounds: two tables, two goroutines, three
scenarios, one or two changes of the database, one refused statement.

*Seen while modelling.* `WithCreateTable` forgets the listeners of an object it
replaces, against the comment of `WithTableDMLListeners`, and leaves objects
without columns behind when a statement fails. `Validate` of an empty cache never
succeeds, and without a connection it panics in `LoadColumns` (line 450), after
which the goroutine does nothing more. `WithDropTable`, `Rename` and `Swap` leave the cache as it is. `WithDB`
writes the field before it takes the mutex.

### BinlogSyncer, Canal (`sql/myreplicator`, `sql/binlogsync`)

BinlogSyncer: the server's log as files of events, what a connection will send
next (with the artificial rotate and format events of a new dump), `nextPos`, the
parser's format and tables, the goroutine `onStream` with `retrySync`, the two
channels. Canal is composed with it: the goroutine of `Start` with its event loop,
`masterStatus`, the position in the configuration, the table cache and its
singleflight, `Close`, `CatchMasterPos`; a crash keeps the log and the saved
position only.

Run `outside`: every event up to `masterStatus`, and up to the saved position, was
handled by this process or one before it (`SyncedMeansHandled`); a handler gets a
structure that is not older than the event (`StructureIsRecent`); a stream
delivers the log once and in order however often the connection breaks
(`EventsOnceInOrder`) and comes to its end (`LogIsFollowed`), both in
`StreamFollowsTheLog`; `Close` returns, with the stream at its end, and everything else has
ended too if the first call returned nil (`CloseEnds`). Bounds: one scenario for each kind of trouble, so that they are
explored deeply without being multiplied: `Breaks` (two breaks over two files),
`Crashes` (a crash and a restart), `Altered` (a table is altered or dropped while
another goroutine looks it up), `Closes` (`Close` at every moment, twice, a break, a
second `Start`), `Waits`. The channel of events has room for one instead of
10240, so that it gets full. Fairness: goroutines run; strong for a reconnect that
succeeds, which is to say that the server does not refuse for ever. The breaks and
timeouts have none.

*Seen while modelling.* `Close` holds the mutex that `retrySync` wants while it
waits for that goroutine (`Deadlocked`). `running` is not reset when `onStream`
ends, although the error of the streamer advises to sync again. A position
between a TableMap event and its rows can be saved, and a restarted parser then
does not know the table. The comment at `sql/binlogsync/sync.go:160` says that the
position is not updated, and the code updates it. An error of `OnClose` leaves
the database open, and the next `Close` returns nil. `FindTable` can take part in
a load that began before the cache was cleared, and a failed load leaves an empty
table in the cache. A loop that sees no event for two seconds ends.

### ScopedService (`net/internal/scopedservice`, `net/jwt/options.go`)

The template that is copied into six middlewares. State: the configurations as a
heap, since scopes share pointers; the map `scopeCache`; the `OptionFactory` and its
singleflight; who has left the mutex locked; for each request its place. Actions:
the look-up under the read lock, the fall back under the write lock (a separate
step: the lock is released in between), the steps of a load, options at run time,
`ClearCache`, which takes no lock and so also falls inside of an option or a fall back
(`cleared`), and `jwt.WithKey`, which can return with the mutex locked.

Run `outside`: a request gets what options have set for its scope or the nearest
one above it, and all options of a load or none, unless its first look-up falls
between two of them (`ResultIsEffective`, whose `half` has the scopes in between);
`LoadedBefore` is that a scope that was loaded
is not loaded again, and that no state is reached in which requests are left
waiting and nothing can go on (`NobodyIsStuck`; every request makes a bounded number of
steps, so that this says that all of them are answered). Run `scoped_target`
(violated): after a fall back, an option for a website writes into the default
configuration. Bounds: the default, a website and a store; two requests; two
changes at run time, one if there is an `OptionFactory` (`FewChanges`).

*Seen while modelling.* The fall back does not look again after it has taken the
write lock. A load that should happen "only one time" happens twice when a
request reaches `DoChan` after the load has ended. A request whose first look-up
falls between two options of a load (`net/cors/backendcors/options.go:96`), or comes
after the first of two has succeeded and the second has failed, gets the half applied
configuration, while `service_generic.go:51` says that other requests are stopped
"until the configuration has been fully loaded and applied". `ClearCache` takes no
lock.

### Lru, ObjCache (`storage/lru`, `storage/objcache`)

Lru: each method holds the mutex, so that each is an operator on the whole cache.
`Implements` compares it with a definition without counters: the sequence of
uses, and of it as much as fits. ObjCache: a Service with two levels; a storage
divides a call into steps as the code does (key by key, or all at once), and may
fail at each. Time passes in half seconds.

Run `storage`: the LRU cache holds what was used last and fits (`LruIsTrue`); what
is read was set last, or by a call that overlaps or has failed since
(`ReadsWhatWasSet`); after a write that succeeded alone each level holds its value, except that a
`Truncate` leaves Redis as it was (`LevelsAgree`). Run `objcache_miss` (violated): a key that level 1 has lost is not
looked up in level 2. Bounds: eight services that pair the LRU cache, the map,
files, Redis, the black hole and no level 1, each with the calls that matter for
the pair; two callers, two keys; values of lengths 1 and 2 in a cache of 2, so that
replacing one makes the cache grow, shrink and evict.

*Seen while modelling.* `Truncate` of Redis does nothing and returns nil
(`storage/objcache/redis.go:270`), so that `Truncate` of the Service empties level 1
and leaves the values in level 2; `service.go:390` says "Truncate truncates all
caches". `LevelsAgree` states what the code does. A miss returns a nil error where the comment promises
NotFound; level 1 is not refilled; concurrent Sets can leave different values in
the levels; `DefaultExpires` is not copied; an expiration below one second never
ends in Redis; `Truncate` of the map replaces a `sync.Map` that is in use.

### StoreData, StoreService, RunMode (`store`, `net/runmode`)

StoreData: what the look-ups answer from the rows of the three tables, as
functions of the versions of the tables. StoreService: factories and their
mutexes, the slices, the three caches, the cached single-store flag and default
store, the RWMutex; `LoadFromResource` in its steps (three selects, `ClearCache`,
the load) beside every look-up; reads of a slice without the mutex may be torn.
RunMode is composed with it: a request asks for the default store and for the
store of its code in separate calls, and a cookie keeps the choice.

Run `store`: a call that has met no reload answers from the tables that the last
reload has selected, if that one went well alone (`AnswersAreTrue`), the caches
agree with these tables (`CachesAreTrue`); excepted are the flags and default ids
that a call beside a reload has cached (`shaky`), and for the one flag that two
functions share the answer of either is due (`Flags`, `DueAnswers`). All calls
return unless `DefaultStoreView` deadlocks with a writer, which the code itself
calls a bug (`EveryoneReturns`), and `VisitorsGetTheirStore`: a request is served
with the store it names or is denied (`RequestsAreServed`), and between requests
that do not overlap the cookie names the first choice of the visitor
(`CookieKeepsTheChoice`). Bounds: fifteen scenarios over six
versions of the tables, three of which do not load; up to two reloads and four
calls. Fairness: as long as some goroutine can run, one does; every call is
finite, so that nothing stronger is needed.

*Seen while modelling.* The three selects of a reload are not one transaction
(`store/factory.go:199`): tables of different versions are installed if they fit
together. The comment there says that on an error "all internal slices will be
reset to nil"; the code keeps what the selects that succeeded have returned. Of
two overlapping reloads the second can lose what the first has read. A call between `ClearCache` and the load sees no stores and
caches that there is a single one. `HasSingleStore` and `IsSingleStoreMode` share a
cache key. The comment of `StoreIDbyCode` (`store/service.go:273`) promises 0 and
nil for the default run mode, and the code looks the code up. The cookie is not
changed when a second store is chosen (`net/runmode/code.go:173`), against the
comment of `ProcessAllowed`, and a custom `FieldName` is not used when it is written.

### EmailDaemon (`email/daemon.go`)

Senders, workers with their SMTP connection and idle timeout, and `Stop`; the flag
`closed` is read and written without a lock. Run `sync`, `MailsGoOut`: an accepted
mail is in exactly one place, and only a Send or Stop that meets a Stop panics
(`MailsAreKept`); mails go out as long as there is a worker (`MailGoesOut`).
Bounds: two senders, two workers, two calls of Stop; an unbuffered channel with a
`sendFunc`, a buffer of one with that and with a dialer. Fairness: what can run
runs; timeouts and calls of Send have none.

*Seen while modelling.* A Dial that fails ends the worker, its mail is lost, and
later senders wait for ever. A worker that sees the channel closed leaves its
connection open.

## 4. Proofs

The theorems hold for every value of the constants that satisfies the named
assumption of the module. The assumptions only say that bounds are numbers, that
names which stand for "nobody" or "nothing" are not used otherwise, and:

* `PubSubAssumption`: a written path has five segments or more (`Path.IsValid`);
* `TrieAssumption`: keys are not empty, and a list of sections names no route
  twice (`Sections.Validate` has refused it);
* `RowsAssumption`, `StoreAssumption`: versions of the tables are positive
  numbers, rows have numbers as ids, and callers ask what `Finder` offers;
* `CanalAssumption`: the log a server begins with is one a MySQL server can have
  (`IsLog`: every file but the last one ends with a rotate event, no other event is
  one, and rows events name a table), and a first position, where one is given,
  lies between two of its events. Nothing is assumed about how many breaks, crashes
  or statements there are.

TLC evaluates all of them in the runs. Two theorems are about modules that a run
instantiates, and state what they need themselves: `AcceptedMailIsKept` that no
goroutine is both a sender and a stopper, `SetTellsTheTruth` that there is a backend
and that the number of calls is bounded by a number.

| Module | Theorem | Property of a run |
|---|---|---|
| SyncProofs | `AtMostOneExecution` | `OneInFlight` |
| | `ForgottenIsNotJoined` | `ForgetIsFresh` |
| | `SharedIsToldTruly` | `SharedIsTrue` |
| | `OneWorksOthersWait` | `OneWorkerFirst` |
| | `AcceptedMailIsKept` | safety part of `MailsGoOut` |
| ConfigPubSubProofs | `ClosedIsQuiet` | `QuietAfterClose` |
| | `RemovedIsNotCalled` | `NoCallAfterRemoval` |
| | `CalledOncePerMessage` | `AtMostOncePerMessage` |
| | `PanicsHaveTwoClosers` | `PanicNeedsTwoClosers` |
| ConfigServiceProofs | `ReadsTakeTheNearest` | `NearestOfferWins` |
| | `LevelsHoldWhatWasStored` | `StoredFirst` |
| | `ValuesAreDecodedOnce` | `DecodedOnce` |
| | `FlushMakesLevelsAgree` | `FlushedAgrees` |
| RouteTrieProofs | `TrieBehavesLikeAMap` | `TrieIsAMap` |
| StorageProofs | `StatementsAreUsedWell` | `StatementUse` |
| | `SetTellsTheTruth` | safety part of `WrittenEverywhere` |
| CanalProofs | `PositionCoversHandled` | `SyncedMeansHandled` |
| | `HandlersSeeRecentTables` | `StructureIsRecent` |
| | `StreamFollowsTheLogInOrder` | safety part of `StreamFollowsTheLog` |
| StoreModeProofs | `CachesHoldTheLastReload` | `CachesAreTrue` |
| | `CallsAnswerFromTheLastReload` | `AnswersAreTrue` |
| | `VisitorsAreServed` | `VisitorsGetTheirStore` |

**SyncProofs: Singleflight.** The inductive invariant `IInv` adds three facts to
`TypeOK`: `MapInv` (a call in the map was created, has that key, still runs or is
about to leave, and was not forgotten), `InFlightInv` (a call in flight is the one
in the map, unless some call of its key was forgotten) and `FreeInv` (numbers that
have not been given out are unused). `OneInFlight` is not inductive by itself: a
second execution can only be excluded by knowing that the first one is still in
the map, and that a new call gets a fresh number. One lemma per way of entering
(`JoinIInv`, `RegisterIInv`), then one step per action. `MapHoldsLiveCalls` is a
consequence of `MapInv` that no run states. `SharedIsToldTruly` adds `ShareInv`:
two callers in one call have been counted as duplicates, and who was told to be
alone has left a call that nobody can join any more.

**SyncProofs: Suspend.** `RunInv` (runs are numbered as they come, and no run is the
entry of two keys), `HolderInv` and `MuInv` (who holds which mutex, from where a
goroutine is), `WorkInv` (without a Reset the goroutine at work owns the entry of
its key until it has deleted it) and `WaitInv` (the run that stopped a goroutine is
done, or still the entry of the key, or the one that goroutine has looked up).
The last one is the heart of the matter: ShouldStart and ShouldWait are two calls,
and it says that nothing that happens in between lets a waiter through too early.

**SyncProofs: EmailDaemon.** `SentInv` says that the mails that are somewhere are
exactly those that `Send` has accepted, `PlaceInv` that no mail is in two places,
`GotInv` that a worker has a mail between the receive and the server. A mail that is
about to enter the channel must not be there yet: that follows from `SentInv`, since
it is not accepted before it is in. `StopInv` relates the flag, the channel and the
goroutines in `Stop`: a channel that is closed has a Stop that has set, or is about
to set, the flag, and whoever waits meanwhile has met it.

**ConfigPubSubProofs.** `IInv` is `TypeOK` and six conjuncts: `SubInv` (numbers of
subscriptions), `PathInv` (the path at hand is a written one), `PendInv` (who is
still to be called on a level is subscribed to that level), `OnceInv` (who was
called for this message belongs to an earlier level, or has left `pending`),
`FailInv` (a subscription that has failed is gone, or is in `evict` and was called
for this message) and `CloseInv` (how far a closer and the publisher have got in
the protocol of the three channels). `RemovedIsNotCalled` needs `PendInv` and
`FailInv`: the publisher works through a list it took earlier, and only these say
that nobody in it has gone. `CalledOncePerMessage` rests on `LevelsDiffer`: the
five topics of a path have different lengths. `ClosedIsQuiet` needs `CloseInv`
because two closers can be anywhere in the protocol, and `PanicsHaveTwoClosers` adds
`PanicInv`: what a channel that is already closed says about the closers.

**ConfigServiceProofs.** A scoped read asks several scopes one after the other and
holds the lock for one of them at a time. The invariant therefore relates the
scopes a reader has behind it to what was stored when it began: the scopes still
to be asked are the last ones of those it set out with (`TodoInv`, `SuffixTail`),
and those it has passed over held nothing (`NearestInv`) and have no default
(`DefaultInv`). `LevelInv` and `HandInv`
say that whatever is in level 1, in the hands of a goroutine on its way there, or
published has been in level 2. `ObsInv`: under the lock the observers do not
change, and while both have been registered from the start all that is stored is
encoded once. `FreshInv`: after a quiet flush, and until a Set begins, who fills
level 1 has what level 2 holds. One lemma per step of a read or a write.

**RouteTrieProofs.** The invariant is that the nodes are closed under prefixes,
that leaves are valid and that nodes which are not valid are blank. Deleting a
route prunes upwards, and only closure says that what hangs below a pruned node is
pruned as well. WithApplySections is a function defined by recursion over the
sections; `RecursionExists` shows that there is such a function. `Refinement` maps
every operation to one on RouteMap or to a stutter, WithApplySections with any
number of fields to `SetMetas` (`SectionsEffect`, `SectionsSimulation`).

**StorageProofs: StorageDB.** `MutexInv` (one caller inside each mutex, and the state word
says so), `StmtInv` (a prepared statement is the one handle that is open at the
server; one that is about to be prepared is not), `CountInv` (the statistics) and
`PanicInv` (after a panic there is a statement that was never prepared and never
will be). `UsesPrepared` is not inductive: that a statement is prepared when it is
executed follows only from the state word that another call has left.

**StorageProofs: StorageMulti.** `CallInv` (calls follow each other, and a context is
cancelled only after an error was kept), `GroupInv` (a goroutine of a group without an
error ended because its backend has answered well) and `WrittenInv` (while the calls
before it have returned nil, what a call has written is stored). The last one needs
the other two: a goroutine that an earlier call has left behind could write over a
newer value, and there is none after a call that returned nil.

**CanalProofs.** The syncer comes first. A *place* lies between two events of the log;
an event of the log, and an artificial one, leads from a place to a place (`Begins`,
`Ends`). `DumpInv`: what the server will send next begins at `nextPos`, or with a
rotate event that sets it. `ChanInv`, `PushedInv`: the events in the channel join up
and end where the goroutine of the stream is. So `EventsOnceInOrder` holds whatever
breaks, and the reader of the channel has a place of its own (`Cursor`) that only
the reader moves.

For the Canal, `Reached` is the place up to which its loop has come. `LoopInv`: all
events of an allowed table up to it are settled, which is to say handled, passed
over or skipped, except for the one at hand; no cached structure is older than it
demands; the handlers have been called with nothing behind it. `RowsInv` is about the
event at hand, between `FindTable` and the last handler; `StatusInv` says that
`masterStatus` and the saved position are not ahead of what is settled, and
`StartInv` that a new process begins where its position is. A commit of the server
adds events at the end, so that nothing that was settled becomes open again
(`Progress`), and a change of a table raises the version that events after it
demand and not the one that earlier ones did. `IdFacts`, `OneBetween` and `UpToLater`
carry the arithmetic of positions; after them a step of the goroutine moves one
event from not settled to settled, or does not move.

**StoreServiceProofs, StoreModeProofs.** The first two theorems are about the
service alone and about the service beneath the middleware of `net/runmode`. `AloneInv`:
who has met no reload has none beside it. From that follow `LoadInv` (what the
caches hold while a reload that is alone loads: exactly the tables it has loaded so
far), `OkInv` (what they hold after it), and `CarryInv` (what a call that is under
way has learnt is what the tables of the last reload say). `FlagInv` and `LockInv`
say which flag a call is about and who is inside the RWMutex. The lemmas
`CallerMoves` and `ReloaderMoves` say once what a step of a goroutine must do to
the shared state to keep all of this, so that each action needs a short proof;
`DueFacts` says what each operation must answer. `FindByID` is read as the row
with the least index, and `LeastNumber` shows that there is one. The first module
has the invariant, the steps of a reload and the look-ups, the second the calls for
the single-store mode, the requests and the theorems.

`VisitorsAreServed` is about the middleware. `RequestInv`: a request that has met
no reload (`Calm`) has learnt in its first call what the tables say about the
default store, and between its two calls nothing has changed that; it rests on
`AnsweredTruly`, what the service theorem says about the step in which a call
returns. `CookieInv`: unless two requests have overlapped, at most one of the
visitor is under way, it carries the cookie of the jar, and the jar holds the
choice.

This proof corrected the model: TLC had found no error with two callers, but the
invariant could not be kept by HasSingleStore and IsSingleStoreMode, which share a
cache key, when three of them overlap. What a call may find under this key, and
answer, is now the set `Flags`, which both operations keep to (`FlagIsDue`), and the
hazard is listed.

Induction over numbers is available through `LeastNumber` (a set of numbers that
is not empty has a least element), which is how RouteTrieProofs and
StoreServiceProofs reason about positions in a sequence.

Only model-checked, and why:

* liveness (`EveryCallerReturns`, `SleeperReleased`, `MessagesGoThrough`,
  `EveryoneReturns`, `ReloadsUntilClosed`, `LoadEndsTruly`, `StatementsGetClosed`,
  `CloseEnds`, and the parts of `MailsGoOut`, `WrittenEverywhere` and
  `StreamFollowsTheLog` that no theorem states): fairness and ENABLED are out of the
  prover's reach;
* `LruIsTrue`, `LevelsAgree`, `ReadsWhatWasSet`: the size of the cache is a sum over
  the entries and its order a sequence that every operation rearranges, both
  defined by folds, about which nothing can be proved without induction over data;
* `HistoryDoesNotMatter`, `ValuesArrive`: DmlBuilder has recursive operators over
  nested statements;
* `LoadedBefore`: that nobody is stuck is stated with ENABLED;
* `ResultIsEffective`, `EveryRowOrAnError`, `TablesAreTrue`: no proof has been
  attempted.

## 5. What could come next

1. Proofs: ScopedService (the part of `LoadedBefore` that is about loads, and
   `ResultIsEffective`), RowIterator and DdlTables.
2. `store/scope` and `config/path.go` as operators: packing, parsing, fallback.
3. `sql/dml`: `ConnPool` and its transactions, next to a panicking function.
4. `net/responseproxy` (pipe writer), the memory store of `net/ratelimit`.

## 6. Not modelled

`PROJECT.json` gives the reason for every part. The mapped lines are a small
share of the repository, and that is a property of the repository: most of its
Go code has no state that a model could add anything to.

* Generated code: the configuration structures (`config/_pkgtpl` alone has more
  than 19,000 lines), tables, constants, and the generators themselves.
* Conversions of single values: `storage/null`, `config/value.go`, `config/path.go`,
  `config/observer`, the decoders of `sql/myreplicator`, the escaping and scanning of
  `sql/dml`, most of `util`. A model would be the code once more, character by
  character; the unit tests of these packages are tables of inputs and outputs.
* Handlers that parse or format headers (`net/*` besides `runmode` and the scoped
  configuration), and calls of an external client (etcd, Redis, bigcache,
  Mandrill).
* Six copies of `net/internal/scopedservice` are represented by the template.
* Test helpers, examples and directories whose name begins with an underscore,
  which are not built.

Within the modelled parts: GTID positions and semi-synchronous replication;
handlers that are registered while a Canal runs; the replacement of the mail
daemon's channel at run time; the codecs of the object cache; `WithLoadFromDB`,
which is a loop of `Set`.
