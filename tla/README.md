# A TLA+ model of mcp-toolkit-rs

mcp-toolkit-rs is a workspace of Rust crates from which MCP servers are built:
task handling, child processes, HTTP sessions, authentication, policy, storage
helpers and a server generator. Most of it is stateless. This project models
the parts that are concurrent and keep state, and checks and proves what makes
them correct.

It covers the task authority with its observation loop and history
(`mcp-toolkit-tasks`), the process supervisor and output capture
(`mcp-toolkit-process`), the HTTP session manager and event stores
(`mcp-toolkit-http`), the scratchpad (`mcp-toolkit-scratchpad`), opaque tokens
(`mcp-toolkit-server`), and the JWKS cache and upstream token refresh
(`mcp-toolkit-auth`). [The plan](#plan) and [Not modelled](#not-modelled) say
what is left.

## Inventory

| Component | State | Operations | What is hard | What makes it correct |
|---|---|---|---|---|
| Task authority (`tasks/authority.rs`) | closed bit, bindings id → principal, capacity leases, reservations, waiter count; RMCP's task manager behind it | spawn, get, update, cancel, wait, shutdown; the observation loop; record expiry | every operation is several critical sections with RMCP calls between them; RMCP's manager accepts spawns after its shutdown; spawn may panic | tasks are reached by their owner only, no record runs unreachable, capacity and waiter bounds are exact, shutdown leaves nothing |
| Task observation (same file) | per task: observed snapshot, revision, hint generation, settlement flag, probe time; the loop's queues of principals and tasks | hints, reads by callers, the coalescing observer, waits for change or terminal | tokio `Notify`, snapshots read before a lock and applied after it, the drop hint before RMCP settles | no lost wake-up, a cached read is current, a terminal wait returns, an expired record is forgotten, no due task starves |
| Operation history, lifecycle observer (`tasks/history.rs`, `lifecycle.rs`) | bounded summaries per principal; last revision | record, get, list, prune; observe | read and insert under different locks, eviction at the limit | bound holds, only terminal entries are evicted |
| Process supervisor (`process/supervisor.rs`) | registry of children, per child a cancel and a status channel, failures | spawn, cancel, drop, shutdown; a detached supervisor per child | child exits during spawn, wait failures, handles dropped at any time, pid reuse | no child is lost, no reaped pid is signalled, Exited is final, cleanup ends |
| Output capture (`process/capture.rs`) | two bounded buffers, two deadlines | one biased select | descendants keep pipes open; deadlines race exit and EOF | the reported end says what happened; capture returns |
| Session manager (`http/session.rs`) | creation order, lifecycle states, RMCP's sessions | create, look up, close, send, open stream, sweep | three locks taken in turn, closes that fail, check-then-close | the bound holds, stream counts are exact, connected sessions are not expired |
| Event stores (`http/session.rs`, `session_sqlite.rs`) | events per stream, eviction order | store, replay, prune | limits by count, stream and age; SQLite worker queue; streams recorded twice after a resume | the retained window is the newest, indexes agree |
| JWKS cache (`auth/providers/jwks.rs`) | key set, fetch and refresh instants, refresh lock | look up, refresh on expiry, refresh on a missing key | many requests, one refresh; an instant read before a wait; keys that rotate during a fetch | bounded provider traffic, and yet no current key refused |
| Upstream OAuth (`auth/upstream_oauth.rs`) | current and replacement refresh token, cached access token, token file | refresh, take, save, load, clear | rotation with a failing step, dropped requests that still arrive, crashes between take and rename | no rotated token is lost or sent |
| JTI store, introspection cache, outbound DPoP (`auth/*`) | bounded maps | check, insert | bounds | – |
| Opaque tokens, scoped cursors (`server/opaque_token.rs`, `core/scoped_cursor.rs`) | bounded token maps with indexes | create, resolve, consume, restore | expiry and capacity at once, restore after eviction | a payload is spent once, indexes agree, bounds hold |
| Capability guard (`policy-runtime/capability_guard.rs`) | verified and in-flight maps | begin, complete, invalidate | late completions | an invalidated success is not revived |
| Scratchpad (`scratchpad/scratchpad.rs`) | session quotas, database files, a query's watcher thread | open, ingest, drop, release, prune, guarded query, cancel | reserve–persist–rollback outside the mutex, files removed after it, a watcher that races the result | quotas cover the tables, files go with their sessions, a query's outcome is what happened |
| Everything else | none between calls | validation, parsing, encoding, code generation, I/O | – | not modelled; the components list gives the reason for each |

How they interact: the HTTP router calls the session manager for each request
and spawns its background sweeper; request handlers call the task authority for
the authenticated principal; task operations run child processes through the
supervisor, and `capture` is the supervisor's main client (the status channel is
their interface). History and lifecycle observers read the task authority. The
HTTP router wraps the session manager in `RecordingSessionManager`, which feeds
an event store. The scratchpad, the token stores and the authentication caches
are called by tools and middleware and share no state with each other or with
the rest, so each is checked by itself.

`PROJECT.json` lists every component, and under `hazards` what is hard to test,
each at its line.

## Modules

| Module | Models | Composition |
|---|---|---|
| `TaskRegistry` | what the authority promises about the task-to-principal map, atomically | abstract specification |
| `TaskAuthority` | ownership, capacity, waiters and shutdown of `TaskAuthority` | implements `TaskRegistry` through `Registry == INSTANCE TaskRegistry WITH open <- ~closed, ...` |
| `TaskAuthorityProofs` | theorems about it | extends `TaskAuthority` |
| `TaskObservation`, `TaskObservationProofs` | one task's snapshots, hints and waits; theorems | refines the data `TaskAuthority` leaves out (revisions, hints); closing stays with `TaskAuthority` |
| `ProcessSupervisor`, `ProcessSupervisorProofs` | registry and supervisors; theorems | – |
| `ProcessCapture`, `ProcessCaptureProofs` | `capture` and `read_bounded`; theorems | its `Publish` and `SupervisorReturns` are what `ProcessSupervisor` shows of a child |
| `SessionManager`, `SessionManagerProofs` | `BoundedSessionManager`, `LifecycleTrackedStream`; theorems | RMCP's `LocalSessionManager` is a set of held sessions |
| `ObserverQueue` | the observation loop's round robin | the choice `TaskObservation` leaves open |
| `OperationHistory` | `OperationHistory` over the authority | the authority is a revision per task |
| `EventStores` | `MemoryEventStore` or `SqliteEventStore` | behind the streams of `SessionManager` |
| `Scratchpad` | `ScratchpadSessionManager` | – |
| `GuardedQuery` | `run_guarded` and its interrupt watcher | one query on a connection of `Scratchpad` |
| `OpaqueTokens` | `OpaqueTokenStore` | – |
| `JwksCache` | `JwksCache` and `decode_with_jwks` | – |
| `UpstreamRefresh` | `RefreshTokenProvider`, `RefreshTokenFileStore` | – |
| `Retain`, `RetainProofs` | `Vec::retain` and `VecDeque::retain`; lemmas about sequences | used by `SessionManager`, `ObserverQueue`, `EventStores`, `OperationHistory` |
| `AuthProofs` | theorems about `JwksCache` and `UpstreamRefresh` | extends both |
| `StoresProofs` | theorems about `GuardedQuery`, `OpaqueTokens`, `ObserverQueue`, `EventStores`, `OperationHistory` and `Scratchpad` | extends the six |
| `MCStores` | the eight above, one at a time, for one TLC run | extends all eight |
| `MCObservationReader` | `TaskObservation` with a direct reader, and either a waiter or updates and expiry beside it | extends it |
| other `MC*` | symmetry sets for TLC | extend the specification |

### TaskAuthority

A caller is a process with a program counter; each mutex section and each call
into RMCP's `TaskManager` is one action, in the code's order. `records` is RMCP's
manager (external): ids are fresh, records may expire, and `shutdown` empties it
without closing it. `bindings`, `leases`, `reserved` and `waiters` are
`AuthorityState`, `closed` the lifecycle bit. The observation loop appears as
scan, read, evict: what it does to bindings. `owner` is a history variable: the
principal an id was spawned for. The runtime that polls `wait` may drop it at any
moment (`WaitEnds`).

### TaskObservation

One bound task. A `DetailedTask` is abstracted to its position in RMCP's
history: 1, 2, …, Terminal, or Gone; that is all `observe` compares. `Notify` is
modelled by what tokio guarantees and the code relies on: `notify_waiters` wakes
the futures that exist, `notify_one` leaves one permit. The round-robin choice of
the loop is abstracted to "some due task" (`ObserverQueue` has the choice), the
length of the read window to a slot that may be free or not.

### ProcessSupervisor

The registry mutex (`lock`), the OS spawn, the registration, each await of
`supervise` and each signal are steps. The OS process is `none`, `running`,
`zombie` or `reaped`; `Child::wait` succeeds on a zombie and may fail at most
`MaxWaitErrors` times. Signals may fail; a delivered SIGTERM may or may not make
the child exit, a delivered SIGKILL does. `covered` is a history variable: what
ran when a shutdown held the mutex.

### ProcessCapture

Bytes are counted. A descendant may keep each pipe open. The branches of the
biased select are guarded by the negation of the ones polled before them.

### SessionManager

A request takes the inner manager, the order and the lifecycle state one after
another; `calls` holds where each request is, its session, the session it is
removing, the time it began at and what its sweep collected. An inner close that
fails still drops RMCP's handle (the session's worker was already gone), which is
how `close_evicted` treats it. `live` counts open tracked streams; the wall clock
may be set back, as `SystemTime` may. In the keep-alive mode (`Expiring = FALSE`)
the sweep and the idle check return early and the remaining behaviours are
contained in the ones checked. Sweep interval and timeout are scaled to one tick.

### ObserverQueue

`observer_principals` and `observer_tasks` as the code keeps them. `Scan` is one
pass under the state mutex: it drops ids whose binding is gone, drops principals
whose bucket is empty, restores the order of the rest and selects the first due
task. The read happens after the unlock; a full window or a coalesced read moves
nothing, a read moves the task and its principal to the back. Tasks fall due at
any time. `obPassedOver` is a history variable that counts reads of other tasks.

### OperationHistory

`record` is two steps, the authority's answer and the insert, so that writers
overtake each other; the insert's pruning, replacement and eviction are one
mutex section and one action. A task is its revision and whether it is terminal.

### EventStores

Each event RMCP sends, and each one a resumed stream sends again, goes into the
store's one backend (`evBackend`). The memory store changes in one step under its
mutex; the SQLite store's command waits in the worker's channel, and the worker's
transaction may fail. The wall clock may be set forward or back, and an event's
stamp is read before the store is entered, so that the two need not agree.
`max_events` and `max_streams` are plain `usize` fields that nothing validates:
at `max_events = 0` the memory store keeps one event of a stream, since it makes
room before it pushes, and SQLite keeps event 0 when that is recorded again,
since it does not prune below a positive cutoff. The properties say so. Limits
beyond `i64::MAX`, where the code's casts would wrap, are left out.
`dbRecorded` is a history variable: what was stored since the stream was entered.

### Scratchpad

Each mutex section, each file removal after it and each statement on a DuckDB
connection is a step. A file is a function from table names to row counts. A
removal may fail, and is then logged and forgotten (`PadCleanupFails`). A
method that leaves by `?` between pruning and cleanup drops the pruned paths, as
the code does. A connection to an unlinked file goes on working on the old inode
(`PadOrphaned`). `padAstray` is a history variable: live sessions that inherited a
file or the late effects of calls on a predecessor of the same id, or on which a
drop met a table recreated or a file removed since it was counted (such a drop
still tells the session to give back what it counted). There the counters really
no longer speak for the file; `QuotaCoversData` is stated for all others, and says
nothing of what such a session inherits.
`list_tables` and `query_rows` touch and open like `PadOpen` on a session that
exists.

### GuardedQuery

Two threads and a cancelling one. The watcher's load of the stop flag and its
decision are two steps, with the caller's statements, store and join between.

### OpaqueTokens

Every operation is one mutex section; `consume` and `resolve` read the clock
twice, before and after the sweep, and the second reading may be later. UUIDs
may repeat once a token is gone. A payload carries what it was created with, so
that the property can compare.

### JwksCache

A key set is the provider's rotation number and holds that key and the one
before. The instant `get` keeps across its wait, the stamp before the fetch and
the answer's contents are separate steps, so that rotations and other requests
come between. A request may be dropped at each await.

### UpstreamRefresh

Refresh tokens are numbered as issued, and the provider accepts the last. A
caller that gives up may have a request on the network that still arrives
(`StrayArrives`), also after a crash. `upLost` is a history variable: a rotation
whose new token was lost with its answer, was held only in a process that
crashed, or was in hand when the scope or access-token check refused the answer.
The first two come with rotation; the third is a choice of the code, which runs
these checks before it looks at the replacement. `NewestTokenKept` says that there
are no others, and does not speak of these.

## Runs

| Run | Checks | Shows |
|---|---|---|
| `authority` | TypeOK, AccessByOwner, NoOrphanRecord, RecordsWithinCapacity, BoundHasLease, WaitersCounted, ShutdownDrains, UnboundOnlyWithoutRecord | three callers, two ids, two principals, room for one task and one waiter: the bounds are reached and every pair of operations overlaps |
| `authority_live` | ImplementsRegistry, ShutdownCompletes | refinement of the atomic registry; a shutdown empties everything for good |
| `observation` | CleanCacheIsCurrent, TerminalWaitReturns | with the loop as the only reader and a TTL, coalescing is sound and terminal waits return |
| `observation_reader` | ChangeWakesWaiter, SettlementDischargedByTerminal, ExpiredIsForgotten | with a concurrent direct reader: no lost wake-up next to a waiter; next to updates and expiry the settlement is kept and the lease goes |
| `observation_stale_read` | TerminalWaitReturns (violated) | see Findings |
| `supervisor` | UnreapedIsRegistered, ShutdownMissesNobody, NoSignalAfterReap, ExitedIsFinal | two children, two wait failures each |
| `supervisor_live` | ExitedIsRetired, CleanupReaps | one child whose spawn may still hold the mutex when it completes, three wait failures: one in each waiting phase |
| `capture` | CompleteIsWhole, OverflowIsReal, EndsAreJustified, CaptureReturns | cap 1, up to two bytes per stream: below, at and above the cap |
| `sessions` | SessionsBounded, PlacesGivenBack, StreamsCounted | two requests, two sessions, room for one: eviction, expiry, close and streams overlap |
| `session_sweep` | ConnectedNotExpired (violated) | see Findings |
| `stores` | QuotaCoversData, OutcomeIsTrue, SqliteKeepsWindow, MemoryIsIndexed, HistoryIsBounded, LiveEntriesStay, OpaqueTokensCoherent, ObserverSeesEveryTask, DueTaskIsNext, ProviderTrafficBounded, RefusedKeyIsRetiredOrNew, NewestTokenKept | the eight components of `MCStores`, each at its limits |
| `scratchpad_files` | NoFileOutlivesSession (violated) | see Findings |

`stores` runs the eight components one at a time: `part` says whose behaviour it
is, and the others stay in their initial state (what they might begin with is
fixed there, so that no state is counted twice). Nothing is lost by this, since
no action of one reads another's variables. The instances: two callers on two
scratchpad sessions with room for one session, one or two tables and two rows; a
query of two statements with and without timeout and token; two streams with
room for one stream and one event, without a TTL and with a TTL of zero, which
with a clock of two instants is enough for events to expire and, by a clock set
back, to be from the future; two writers and three
tasks of two owners in a history of two entries; three tokens in a store of two,
with two bindings; three tasks of one or two principals in the observer's queues;
two requests against a provider that rotates once; two refreshing callers and
three rotations, with any number of crashes. Callers and sessions of the
scratchpad are symmetric, and so are the streams of the event store, which take
the sessions' model values. Two things these instances are too small for are left
to the theorems, which hold for every value: a restored token that evicts another
(`TokenCoherence`; a fourth generation), and a key the provider has retired
(`KeyRotation`; a second rotation). Event-store limits of zero were checked with
TLC beside the run, and are covered by `MemoryIndex` and `SqliteWindow`.

`scratchpad_files` runs without failing removals (`PadRemoveFails = FALSE`), so
that its violation is not owed to one.

Bounds. Two of each kind of thing suffice for the races looked for (one thing
acted on, one that interferes, and for the authority a third caller that shuts
down while two spawn). Numbers are chosen so that limits are hit: capacity one
with two spawns, a cap with a byte more than it, one session place with two
sessions. Ids are used once, as RMCP's are, which bounds the behaviours.
`CHECK_DEADLOCK FALSE` is used where everything may legitimately end: a child
reaped, a capture returned, a task expired, a store whose clock is at its bound.

Fairness. The tokio runtime polls what it spawned, and a call that has begun
goes on: weak fairness of each call, supervisor, operation and of the
observation loop. Timers fire: weak fairness of probes, backoffs and deadlines.
Strong fairness is assumed where a step needs something that is taken and
released again and again: the observer's read slot and read, and the registry
mutex in `Retire` (a thread waiting for a mutex gets it in the end). Nothing is assumed
of children, callers, RMCP expiry, clock settings or failures, and none of them
is assumed to stop.

## Findings

- `observation_stale_read` – the observation loop applies a snapshot it read
  before a direct reader observed the terminal state; the reader has discharged
  the settlement, so the terminal snapshot is replaced by a running one, nothing
  is due any more, and a wait for Terminal sleeps until its timeout.
- `session_sweep` – the sweep closes sessions it collected under a lock it has
  released; a stream opened in between is connected when its session is closed,
  while the documentation says that connected sessions are never expired.
- `scratchpad_files` – an ingest into a session that does not exist prunes the
  expired sessions and leaves by `?` before it removes their files; the
  documentation says that expired-session prune cleans them up. No concurrency is
  needed; the same happens wherever the session limit refuses a new session.

## Proofs

Every theorem holds for all values of the constants that the named assumptions
of its module allow: any sets of callers, tasks, sessions, streams or tokens, any
limits and any clock bound. The assumptions say that limits are non-zero where the
code types, validates or clamps them so (task and waiter limits, session and
table limits, TTL and entries of the token store; the event store's limits may be
zero), that sets which are counted are finite, and that the "none" values are not
members of the sets they complete. In `TaskObservationProofs`,
`CleanCache` has a further hypothesis, `Readers = {}`, discussed below.

| Theorem | Property | Module |
|---|---|---|
| `TypeCorrect`, `OwnerAccess`, `LeaseHeld`, `ShutdownComplete`, `NoOrphan` | TypeOK, AccessByOwner, BoundHasLease, ShutdownDrains, NoOrphanRecord | `TaskAuthorityProofs` |
| `LiveTaskKeepsOwner` (an action property), `Refinement` | UnboundOnlyWithoutRecord, ImplementsRegistry | `TaskAuthorityProofs` |
| `WaiterCount`, `RetainedBound` | WaitersCounted, RecordsWithinCapacity | `TaskAuthorityProofs` |
| `SettlementDischarge` (an action property), `CleanCache` | SettlementDischargedByTerminal, CleanCacheIsCurrent | `TaskObservationProofs` |
| `ObserverCompleteness`, `DueTaskTurns` | ObserverSeesEveryTask, DueTaskIsNext | `StoresProofs` |
| `HistoryBound`, `LiveEntriesKept` (an action property) | HistoryIsBounded, LiveEntriesStay | `StoresProofs` |
| `QuotaSpeaks` | QuotaCoversData | `StoresProofs` |
| `Unreaped`, `ShutdownReachesAll`, `SignalsReachOwnChild`, `ExitIsFinal` | UnreapedIsRegistered, ShutdownMissesNobody, NoSignalAfterReap, ExitedIsFinal | `ProcessSupervisorProofs` |
| `CompleteCapture`, `CaptureCap`, `CaptureEnds` | CompleteIsWhole, OverflowIsReal, EndsAreJustified | `ProcessCaptureProofs` |
| `SessionBound`, `PlacesReturn`, `StreamCount` | SessionsBounded, PlacesGivenBack, StreamsCounted | `SessionManagerProofs` |
| `MemoryIndex`, `SqliteWindow` | MemoryIsIndexed, SqliteKeepsWindow | `StoresProofs` |
| `GuardedOutcome`, `TokenCoherence` | OutcomeIsTrue, OpaqueTokensCoherent | `StoresProofs` |
| `NewestToken`, `ProviderTraffic`, `KeyRotation` | NewestTokenKept, ProviderTrafficBounded, RefusedKeyIsRetiredOrNew | `AuthProofs` |

Few of these properties are inductive. What each is strengthened with:

- *Task authority.* Three layers, each proved from the ones before with one step
  per action. Ownership: types, what a caller's locals are at each label, and
  that an id is bound to the principal it was spawned for. Custody: until it is
  published an id is known to its spawn alone, a spawn past its lease still has
  it, a bound id is leased. Teardown: whoever is about to remove a binding has
  seen the record gone, ids are not reused, and in a closed authority everything
  left has a caller that will drain it, including the spawn that created a record
  after the drain. The counters are then compared with sets of callers: the
  reservations with the spawns between reservation and lease, the waiters with
  the waits past admission, by the finite-set theorems.
- *Observation.* Whoever holds the terminal snapshot took it from a record that
  RMCP has settled (`TerminalIsFinal`). `CleanCache` needs generations in the
  order they are loaded, and that a change without its hint is in `operation`. It
  is stated for `Readers = {}`, the instance the `observation` run checks: with a
  direct reader beside the loop it is false, which is the finding
  `observation_stale_read`.
- *Observer queues.* `ObInv`: the property, the types, and that no id is queued
  before it is bound. A scan is reduced to a pass over the first *n* principals
  of which *k* go to the back, where *n = k*, or *n = k + 1* and the last keeps a
  bound id (`PassFine`).
- *Observer turns.* `TurnInv`: the times a due task was passed over, and the turns
  still due before its own, together fit into owners times tasks. The turns left
  are the tasks before it in its bucket, each worth a round of the principals,
  and the principals before its own; a read takes one away, and a scan, a new
  binding or an eviction adds none. It needs that the principal of the task
  selected is in front, and that whatever fell due ahead of that task since the
  scan has not been passed over yet.
- *History.* `HistInv`: types, that a summary a writer holds is of the task and
  owner it names, and that the places of the entries are finitely many. The total
  is the number of places, so replacement, eviction and expiry are compared by
  mapping the places after the step into the places before it.
- *Scratchpad.* `PadInv`: for a session that is not astray, what its file holds
  and what calls under way hold of it (rows and tables reserved and not yet
  written or given back, rows and tables dropped and not yet noted) come to no
  more than its usage; a drop on a current connection has counted no more rows
  than its table has; and a call knows its session and table where it needs
  them. Sums are sizes of sets of pairs (`Pile`), so that a change of one caller
  or one table is a change of one part (`PileChange`).
- *Supervisor.* `Phases`: the supervisor's place determines whether the child is
  reaped and whether Exited was published. Registration follows because only a
  supervisor at `retire` removes an entry, and the mutex covers the time between
  OS spawn and registration.
- *Capture.* Bytes taken, kept and written are in order for each stream; an exit
  that is published and not noted is still unseen in the channel.
- *Sessions.* `SmInv`: what a call's locals are at each place; a session not yet
  recorded is known to its creator only; every session RMCP holds is listed or in
  a creator's hands. Most steps are shown to be one of two kinds, one that leaves
  RMCP's sessions and the order alone and one that closes a session in RMCP, and
  the invariant is proved once for each.
- *Event stores.* `MemInv` is the property with types. `DbInv`: a stream that is
  not entered has neither events nor a record of any. The heart is `WindowMoves`:
  the newest number recorded is always stored, so the maximum that
  `prune_stream_events` sees is the maximum over all that was recorded, whatever
  number comes next. With `max_events = 0` the newest number is not stored, and
  `HeldAtZero` and `HeldMoves` take that case apart.
- *Guarded query.* An interrupt has a true reason and is the watcher's last act;
  the watcher's clock starts no earlier than the caller's.
- *Opaque tokens.* `StoreFine`: each entry has exactly its two index entries,
  under a generation that was handed out; `PayloadsFine`: payloads are held by at
  most one token or reservation. Each helper on the store (sweep, removal, trim,
  entry) is shown to keep them, and the operations compose the helpers.
- *JWKS cache.* A set that was fetched misses only keys published at or after its
  stamp (`CompleteSince`); the lock gives one fetch at a time.
- *Upstream refresh.* Where the token the provider accepts is at each place of
  the caller that holds the lock, and that a crashed process holds nothing.

What the proofs changed. `OpaqueTokensCoherent` compared payloads in the union of
stored and reserved ones, which does not exclude a payload that is both; it now
says that the two are disjoint. `RefusedKeyIsRetiredOrNew` spoke of a cooldown;
with a TTL of zero there is none, and the verdict then rests on a set fetched at
or after the miss. Filtering is `Retain`, a recursive function, because the
operator argument of `SelectSeq` is out of the provers' reach; the history's total
and the rows of a scratchpad file are sizes of sets, because a fold takes an
operator too. The attempt to prove `QuotaCoversData` found it false for three
callers: two drops whose connections were open on a file removed since both tell
the session they gave its rows back, and the file a third caller wrote is then
under-charged. Two callers, as in the `stores` run, cannot show it. The code does
this, so such a drop now makes its session astray, as a drop that meets a
recreated table did before; with that TLC agrees for three callers and two tables
(2.6 million states, too many to keep as a run) and the theorem holds for any
number.

Facts about sequences that need induction (what `Retain` returns) are proved by
the least counterexample: `InductionUpTo` takes a set where the library's
induction theorems take a predicate, and `Greatest` gives the maximum of a
bounded set in the same way.

Model-checked only: liveness, which is beyond the proof system
(`ShutdownCompletes`, `TerminalWaitReturns`, `ExpiredIsForgotten`,
`ChangeWakesWaiter`, `ExitedIsRetired`, `CleanupReaps`, `CaptureReturns`). Every
invariant, action property and refinement that a passing run checks is also
proved.

## Plan

Done: every module of the table above, and the proofs listed.

Worth adding if the code grows there: the stateful small stores listed below,
should their updates be split into several steps; request futures dropped inside
the session manager, once RMCP's keep-alive is modelled beside it; and, with a
prover for ENABLED, the liveness properties above.

## Not modelled

- Authentication and policy decisions, core contracts, canonical encoders, the
  tool inventory and schema code: pure functions over text, keys and documents.
  They are most of the repository's lines and keep nothing between calls.
- Server composition, generator, doctor, release preflight, logging, metrics,
  Postgres options, FFI glue, vendored code and templates: wiring, I/O and text.
- The lifecycle observer, the scoped cursor store, the JTI store, the
  introspection cache and the tool-list tracker: one map behind one mutex, changed
  in single steps, so that a property would restate the step.
- Outbound DPoP: proof construction, and one retry with the nonce of the answer.
- `CapabilityGuard` and the ChatGPT event surfaces: the callers that would drive
  their protocols are outside the repository.
- Request futures dropped inside the session manager, and two tasks that persist
  replacement tokens at once.
- The authorization-code flow and file-permission checks of upstream OAuth, and
  the encryption of stored events.
