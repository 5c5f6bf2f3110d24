# TLA+ models of KorpProxy

KorpProxy is a proxy server in Go that offers the APIs of several model
providers on top of subscription credentials and API keys. Most of its code
converts requests and responses. The part that is hard to test is the part that
keeps promises across goroutines, processes and crashes: which credential slot is
in use and what a central Home server is told about it, which refresh token has
already been spent, who is going to refresh a credential, what the scheduler
believes about it, and whether every caller gets an end to its stream. These
models are about that part.

| module | models | abstract specification |
|---|---|---|
| `ExecutionRegistry` | `sdk/cliproxy/executionregistry/registry.go` | – |
| `RegistryObservation` | `sdk/cliproxy/executionregistry/observation.go`, on top of the registry | – |
| `ReleaseFlusher` | `internal/home/concurrency_release.go` | – |
| `HomeAccounting` | the two composed as in `sdk/cliproxy/service_home.go`, with an external Home | `SlotLedger` |
| `HomeSelection` | `sdk/cliproxy/auth/home_selection.go`: resources and attempts under one scope | – |
| `HomeExecution` | a streaming call in Home mode: `conductor_execution.go`, `conductor_home_execution.go`, `conductor_home.go`, `home_concurrency.go` in `sdk/cliproxy/auth/` | – |
| `RefreshJournal` | `internal/auth/codex/refresh_journal.go`, `refresh_journal_file.go`, `openai_auth.go` | `GrantLedger` |
| `AutoRefresh` | `sdk/cliproxy/auth/auto_refresh_loop.go`, `conductor_refresh.go`, the registrations of `conductor_lifecycle.go` | – |
| `AuthScheduler` | `sdk/cliproxy/auth/scheduler.go` and the operations of the manager that publish snapshots to it | – |
| `WatcherDispatch` | `internal/watcher/` (events, clients, dispatcher) and the consumer in `sdk/cliproxy` | – |
| `WsRelay` | `internal/wsrelay/` | – |
| `RedisQueue` | `internal/redisqueue/` and the Home forwarder of `service_home.go` | – |

`ReleaseGroups` holds what registry and flusher both speak of, the groups of slots. `MC*` modules
add symmetry sets and the casts explored by TLC, `*Proofs` modules hold the theorems.
`PROJECT.json` lists runs, mutants, the map from definitions to source lines,
hazards and theorems.

## Inventory

### Execution registry

State: an atomic state (accepting, draining, closed); under `mu` the next
sequence, pending dispatches, installed scopes, the release sequence per group,
the release sink and the `changed` channel; under `closeMu` whether a `Close` has
started; per scope whether it is active, its `closeFn` and whether that has been
started and has finished.

Operations: `BeginDispatch`, `PendingDispatch.End`, `Install`, `Bind`,
`EndWithRelease`, `SetReleaseSink`, `WaitPending`, `Drain`, `Close`.

A request to Home is a pending dispatch; when Home has answered, it becomes a
scope that accounts for one slot of a release group (credential and model);
`Bind` gives the scope the upstream resource to close. `End` closes the resource,
counts the release, tells the sink and takes the scope out.

What is hard: the state is tested outside `mu` by those who change `pending` and
`scopes`; `Drain`, `Close` and `End` may all close the same resource; the sink is
called without the lock; two kinds of waiters block on a channel that is replaced
at every signal.

Correct means: no slot is given back while its resource is open; after a drain
nothing is left and nothing comes; every close happens once; the count of
releases is exact and reaches whichever sink is installed; every call returns.

### In-flight observation

State: the observed and the published barrier, the sequence up to which a pending
dispatch holds the barrier back, the snapshot revision. Operations:
`ObserveBarrier`, `FreezeInFlight`. Home sends a barrier with its configuration
and waits for a snapshot carrying it: correct means such a snapshot leaves out no
dispatch that was begun before the barrier and still counts.

### Release flusher

State: per group the latest marked and the acknowledged sequence, and the waiting
tickets; the dirty groups; one-element `wake` and `force` channels; the timer of
`Run`; the sender of the current Home lifetime. Operations: `MarkDirty`,
`SetSender`, `Run`, `flush`, `Flush`. Sends fail, or succeed without an answer;
lifetimes end at any moment, also in the middle of a batch. Correct means: no mark
is forgotten, a completed ticket and a nil `Flush` are true, every ticket
completes if sends do not fail for ever.

### Home slot accounting

`runHomeSubscriber` makes the flusher's `MarkDirty` the registry's sink, runs one
flusher goroutine per Home lifetime, and ends a registry in one of two ways:
gracefully (drain, flush while `Run` still goes, cancel, detach) or by abandoning
it (detach, drain, new registry) when the next lifetime cannot take it over. Home
admits a dispatch while its own account is below the limit, and its account falls
only by what it is told. Correct means: Home never counts fewer slots than there
are open resources, and a graceful end gives every slot back.

### Codex refresh journal

State: one directory per refresh grant. The directory is the claim, a `receipt`
file in it is the outcome. Operations: `RefreshClaim`, `RefreshRead` and
`RefreshComplete`, called by `journalRefresh` around the token exchange. The provider rotates
a grant when it is used and revokes the family when it is used twice; so a grant
must be sent once, over all processes, restarts and power losses, and whoever
comes late must get the credentials from the receipts. What is hard: the order of
mkdir, fsync, exchange, rename, fsync and return, with a crash between any two;
answers that get lost; receipts that expire, lead on or lead in a circle.

### Home execution resources

State: per scope the list of bound resources, whether a close has begun, the
cancel functions of attempts, and for a websocket turn the flag that it ends its
own scope. Operations: `Add`, `Bind`, `Close`, registering and releasing an
attempt, the end from inside a turn. What is hard: a resource or an attempt
arrives while `Close` works on the list it took before; a turn that ends its own
scope must not lose its context before its error is delivered. Correct means: the
close reaches everything, waits for no owner, and nothing runs any more
when the slot is given back.

### A streaming call through Home

State of a call: round, attempt, the credentials tried, the selection in hand,
what is retained in the websocket session, and the slots in Home's account.
Operations: dispatch, install, execute, bootstrap, redispatch, waiting between rounds,
retaining a selection for the next call, ending it, the acknowledgement of
its release. What is hard: every error path must give its slot to somebody, and
a retained selection may be drained by another goroutine while a call takes it
over. Correct means: no return leaves a slot without an owner, Home is not asked
while an earlier slot of the same call may still be counted, the number of rounds
and attempts is bounded, calls and sessions end.

### Auto-refresh loop

State: per credential a registration epoch, a version and the registered job; per
loop the heap, the dirty set, the channel of jobs, and for `applyDirty` and
`handleDueAuth` what they read before they took the lock. Operations: register,
update, remove, start, stop, replace, evaluate, enqueue, run a job, refresh on a
request's behalf. What is hard: the loop decides under one lock and acts under
another; the channel fills; a loop stops with jobs in it; the credential is removed
and registered again during the exchange; a caller publishes a copy it took long
before. Correct means: a job is in exactly one hand, a pending marker that stands for
a job has it, tokens of an older registration or version
never replace newer ones, a credential that is due is refreshed.

### Scheduler

State: the manager's credential with its generation, the snapshots on their way,
the scheduler's metadata and tombstones, and a shard per model that is built on
demand. Operations: registration, update, removal, results, quota and usage blocks,
resets, model registration, synchronisation from an older copy, pick. Snapshots are
taken under the manager's lock and applied under the scheduler's, in any order.
Correct means: a removed credential stays out, the scheduler ends with the newest
state or knows that it has not, and shards agree with it.

### Watcher

State: the file, its recorded hash and content, pending events, the pending updates
with their order, the bounded queue, what the consumer holds, the manager's copy
with its stamp. Operations: edits, atomic replacements and removals with debouncing,
full scans, saves by a refresh, hooks of management requests, dispatch, coalescing,
consumption, the rereading of a stale update. What is hard: a file can be there and hold
no such credential; a save can fail or be skipped without stopping the change. Correct
means: the manager ends with what is in the file, or with what could not be saved to it;
a credential disappears only if the file was without it; and rereading ends.

### Websocket relay

State: pending requests, each with a bounded channel, a `done` channel and a mutex;
the session's `closed`; the peer. Operations: `NonStream`, `Stream`, `dispatch`,
`deliver`, `deliverTerminal`, `cancel`, `cancelWithError`, `cleanup`. One reader
serves all requests and blocks on a full channel holding that request's mutex; a
stream's goroutine blocks until its consumer takes what it forwards.
Correct means: success is never reported for half an answer, nothing is sent on
a closed channel, no request outlives the session, and unless the consumer of a stream has
stopped reading for good with its context still open, the reader goes on and calls end.

### Usage queue

State: the enabled flag, the records with their times, subscribers with their
buffers, the forwarder's batch. Operations: enqueue, publish, subscribe, unsubscribe,
pop, prune, enable, forward and put back. Correct means: a record is in
one place, or was lost in the one way the code has (every subscriber full), a
subscription has no gaps and is closed once.

### What else the program has

The remote journals (git, object store, Postgres) behind the same interface; the
in-flight publisher; the Home client with takeover and rebalancing; the model
registry; session affinity; replay caches; stores; plugins; translators;
executors; API server; user interfaces. `PROJECT.json` has an entry for each with
the reason why it is not modelled yet or not at all.

### Interactions

    API handler -> auth manager -> BeginDispatch / Install / Bind / End  (registry)
                    |   |  (HomeExecution, HomeSelection)   |
                    |   v                                   | release sink
                    | Home  <------ send ------  release flusher
                    |   |                                   ^
                    |   +-- config, barrier --> subscriber loop: lifetimes, Drain, Flush
                    |                               |
                    |                    FreezeInFlight -> in-flight publisher -> Home
                    |
                    +-- results, blocks, updates --> snapshots --> scheduler --> pick
                    +-- usage records --> usage queue --> subscribers, Home forwarder
                    +-- websocket relay --> provider in a browser

    credential file -> watcher -> dispatch queue -> consumer -> auth manager
    auth manager -> dirty mark -> auto-refresh loop -> worker -+-> RefreshTokens
    request path ---------------------------------------------+        |
                                              refresh journal -> provider

Registry and flusher share no lock: the sink call is the only contact. The
refresh journal shares nothing with either; its callers share the file system
with other processes. The auto-refresh loop, the scheduler and the watcher all meet
in the manager's credential table: each of their models has the manager's operations
it races with as actions of its own.

## How the models correspond to the code

**Granularity.** One action is what the code does between two points where
another goroutine can see a difference: a section under a mutex, an atomic
operation, a channel operation, a system call. In `ExecutionRegistry` a test of
the atomic state and the commit that follows it under `mu` are two actions
(`BeginLock`/`BeginCommit`, `InstallLock`/`InstallCommit`, `BindLock`/
`BindCommit`), because `Drain` changes the state without `mu`. In `RefreshJournal` `mkdir`,
`fsync`, the exchange, `rename` and the second `fsync` are separate actions, with
`Crash` and `PowerLoss` in between.

**ExecutionRegistry.** A member of `Request` is a dispatch and later the scope it
became. `pc` is where its owner is, `endPc` where its `End` is, `resource` what
became of `closeFn` (`none`, `bound`, `closing`, `closed`), `group` the release
group or `Unaccounted`. `callPc`, `sweep` and `awaiting` are the locals of calls
of `Drain`, `WaitPending` and `Close`; `waiting` is the set of calls blocked on
the current `changed` channel, which `signalLocked` empties. `captured` is the
sink and sequence an `End` took out of the lock with it.

**RegistryObservation** adds the barrier variables and two actions, and keeps
what was frozen with the last barrier it published.

**ReleaseFlusher.** A ticket is a pair of group and sequence; `waiters` are the
tickets not completed. `batch` is the map `pending` of `flush`, taken group by
group in any order (a Go map). `unsignalled` stands for goroutines between
`MarkDirty` and `signal`. `homeSeq` is what Home has received: external, and more
than `acked` when an answer was lost.

**HomeAccounting** extends the registry and the flusher. The two
share one step: the sink call of `End` (`EndTellsFlusher`). `Dispatch` is
possible only after a lifetime has begun, with the group Home answered.

**RefreshJournal.** A token stands for the grant, for its key (a hash) and for
the credentials that came with it. A receipt is a value with the next token, a
stage (outcome unknown) or a rejection. `rotated`, `sent` and `settledBefore` are
history. Calls of one process for one grant are one call, as `codexRefreshGroup`
makes them. The SIWC refresh takes the same path.

**HomeSelection.** A resource is a member of `Res`, an attempt one of `Attempt`;
the scope's `closeFn` is the one of the registry.

**HomeExecution.** `c` is the record of the locals of the running call. Calls of a
session follow one another: the handler is one loop and the session is locked
(`lockHomeWebsocketSession`). Members of `Sel` are slots as Home counts them.
Errors are abstracted to what the code tells apart: exhausted, cooling down, stop
at once, other. Waits end at any time. In Home mode bootstrap retries are zero. The
branch for a missing credential or executor after a successful dispatch cannot be
reached and is left out. `executeHome` for unary calls has the same shape and is not
mapped.

**AutoRefresh.** Time is abstract: a credential is due or not, and `Expire` makes it
so. Saving to the store happens inside `Update` under the mutation gate and is part
of that step. What a caller publishes it has taken before: `Copy` takes the entry (or
builds a record that borrows its `NextRefreshAfter`) and `Update` or `Register`
publishes it at any later time. A pending marker in such a copy is still that of a
registered job, or it is `Stale`: the time of a job that has ended (`Published`).

**AuthScheduler.** One credential, any number of models. A result's effect is an
arbitrary deadline per model; the sum `currentVersion` computes is one counter;
the registry's epoch and models are read in one step. A new registration starts
without model states.

**WatcherDispatch.** One credential and its file. Contents are numbered, so a
content never comes back; `Torn` is a file that cannot be parsed; `void` are the contents
that parse and do not hold the credential (no type, an invalid weight, other credentials
in its place), for which an event drops what the file's entry listed (`DropMissing`) and a
scan finds nothing. A save of the manager (`Persist`) is written or not: the store skips
a disabled credential whose file is missing (`filestore.go:92`), and a failed save does
not stop the change (`conductor_lifecycle.go:546`); `unsaved` is what the manager has taken
in this way since the file last changed. A stamp is the pair of epoch and generation as one order.
`missed` records the cases in which the code does not see a change until the next
scan, and `Converged` leaves them out:

- a removal inside the debounce window, or of a file whose hash is not recorded;
- a removal that, when it is applied, finds in the file's place one that yields no
  credential at all (`shouldSkipFileAuthDelete` calls that uncertain);
- an edit between a request's save and its hook;
- a content without the credential whose event had nothing to drop, followed by a scan or
  a request that lists an older content;
- a save by the manager, written or not, while a removal is under way that will not
  look at the file again: one past its checks, or one that a scan or a content
  without the credential decided.

`away`, `gone` and `late` are history for `RemovalJustified`: `away` is the number of the
next content when the file was last without the credential, so a registered content below
it was written before that, `gone` says that the file has been without it since
the registered content was written, and `late` are the revisions of removals stamped from
a content that had been replaced by then.

**WsRelay.** One session; a session that replaces another closes it first. Request
ids are random and do not repeat. `Receive` takes a message from a request's channel; for a
stream, `Forward` is the moment its consumer takes it from the unbuffered channel, and
until then the goroutine is in `send`, which only the context ends. `Stalled` is a stream
in that position whose context goes on.

**RedisQueue.** The lock of the queue bounds the actions; `Enabled`, `publish` and
`enqueue` are three steps. A record is with a subscriber if that one has read it or has it
in its channel, also when it has unsubscribed since and will not read it. The error
queue has the same structure.

**Mutants** stand in front of the definition they vary and say in a comment what
went wrong in them.

## Runs

| run | shows |
|---|---|
| `registry` | Two dispatches against `Drain`, `WaitPending` and `Close`, two sinks, barriers and snapshots: `ReleaseAfterClose`, `DrainedStaysEmpty`, `DrainCancelsAll`, `CloseClosesAll`, `ClosesOnce`, `ReleaseCount`, `SinkKnowsLatest`, `SnapshotCoversBarrier`, and `CallsReturn` (no wake-up is lost, also for a call that joins another). |
| `flusher` | `TicketsTrue`, `NothingForgotten`, `FlushTrue` and `TicketsComplete` with two groups and two lifetimes. |
| `home_accounting` | `KeepsLedger` (refinement of `SlotLedger`), `GracefulEndReturnsSlots`: two dispatches compete for one slot. |
| `selection` | `CloseReachesAll` and `ClosesCleanly` (`SlotFreeOfWork`, `TurnErrorDelivered`). |
| `stream_call` | `SlotsInHand` (`NoOrphan`, `DispatchHoldsNoSlot`), `RoundBounded`, `CallsAndSessionEnd`. |
| `journal` | `SubmittedOnce`, `OwnerRecorded`, `AnswersSound` (`AnswersGenuine`, `AnswersCurrent`), `KeepsGrantLedger` (refinement of `GrantLedger`), `CallAdvances`. |
| `refresh` | `JobsAccounted` (`JobInOneHand`, `EndedLoopKeepsNoJob`, `MarkerHasJob`), `TokensOfNewest`. |
| `refresh_lost` | `DueIsRefreshed` does **not** hold, see below. |
| `scheduler` | `RemovedStaysOut`, `SchedulerCurrent`, `ShardsCurrent`. |
| `watcher` | `Converged`, `RemovalJustified`, `Settles`. |
| `ws` | `AnswersHonest` (`AnsweredWhole`, `EndTold`), `NoOrphan`, `NoSendOnClosed`, `ReaderGoesOn`, `CallsEnd`; deadlock is checked. |
| `usage_queue` | `AccountedOnce`, `SubscriptionSound` (`GaplessStream`, `ClosedOnce`). |

Configurations that are not among the runs and can be started by hand:
`JournalLiveness` (`CallReturns`, also over receipts in a circle), `RefreshJobs`
(`JobsEnd`), `RefreshLiveness` (`DueIsRefreshed` holds when nobody changes the
credential), `HomeExecutionWide` (two routes, 8.4 million states) and
`HomeExecutionRounds` (three credentials) pass; `WsRelayFrameLoss` and
`AuthSchedulerBlock` show the two observations below.

### What the runs found

`refresh_lost`: `applyDirty` and `handleDueAuth` decide under the manager's lock that a
credential is not to be scheduled and call `remove` after the unlock
(`auto_refresh_loop.go:343`, `:285`). `remove` also deletes the dirty mark (`:386`). An
update in between that makes the credential renewable and marks it dirty loses its
mark; it is then neither in the heap nor in the dirty set, and no timer looks at it.
The comment of `StartAutoRefresh` promises a loop that "evaluates auth freshness every
few seconds and triggers refresh operations when required"
(`conductor_refresh.go:51`). A later update or a request whose token is refused
still refreshes the credential.

Observations on behaviour that no line of the repository excludes outright:

- A snapshot of a whole credential that is overtaken by a result for one model with a
  newer generation is dropped (`scheduler.go:858`), and the shards of its other models
  stay behind until the next snapshot. A usage block can lose its effect on a model
  in this way until the manager's next publication. `usage_exhaustion.go:91` shows
  that the race was thought of, with the generation as its cure. (`BlockSurvives` in `AuthScheduler`.)
- When a session closes, `deliver` may give up on a chunk and the terminal message that
  follows may still be delivered (`session.go:77`, `:89`), so a stream can miss a chunk
  and end normally. `AnsweredWhole` is therefore stated for an open session.
  (`NoSilentFrameLoss` in `WsRelay`.)
- `handleAuthUpdates` checks a removal against the file and the manager
  (`service_auth.go:210`) and removes the credential later (`:656`). A refresh or a
  settings change that the manager saves in between is removed with it, although its
  file is there; until the event of that save is handled an older update may be
  registered in its place. A removal that a scan decides is not checked against the
  file at all (`service_auth.go:219` asks for `IsFileRemoval`), so the window begins
  when the scan looks at the directory; a request's own update can then count as stale
  next to an older one that was registered after the removal, and the older content
  stays. `Converged` leaves this out (`SavedTooLate`).
- `publishToSubscribers` returns true whenever there is a subscriber, also if the channel of
  each is full and all of them are dropped (`queue.go:149-159`); `Enqueue` then does
  not queue the record, and it is nowhere. `AccountedOnce` allows this loss (`Refused`) and no other.
- Callers that take a copy of a credential and publish it later (`api_tools.go:420` and `:623`,
  `auth_files_crud.go:611` and `:626`, `service_auth.go:444`) publish the copy's
  `NextRefreshAfter` too (`conductor_lifecycle.go:394-404`, `:428`). If that was the
  pending marker of a job that has ended since, the credential is marked as refreshing
  though nothing refreshes it, for at most `refreshPendingBackoff`.
- A file is removed and then replaced by one that yields no credential before the removal is
  applied: the removal is skipped as uncertain (`service_auth.go:268`), and the event of the new file
  has nothing listed to drop (`clients.go:400-411`). The credential stays until the next scan. The same follows when a
  scan that read an older content publishes it after such an event.
- An event reads a content without the credential, a login replaces the content and
  registers its own, and then the removal the event decided is stamped: it is newer and takes
  the login's credential away until the event of the login's own save is handled.
- A credential stays in the manager without a file when a request disables it while the
  file is gone (`filestore.go:92-99`: the request's newer update registers it again
  after the removal), or when a save fails. `Converged` and `Settles` count this as agreement (`unsaved`)
  until the file changes again.

### Casts

Where all actors at once are too many, the run has a state constraint `Cast`, a
disjunction of smaller casts: who has taken part so far, in history. The casts of a run
are closed under prefixes (a state of a cast is reached through states of casts), so
every cast is explored whole, with all the interleavings of its members.
In the runs with liveness a behaviour that leaves the cast is not considered, while
those within it are, whole and with their fairness. What is left out are
combinations: for instance a scheduler that is synchronised while the clock moves
(a rebuild does not look at the clock), or a third kind of disturbance of the same
credential file.

### Bounds

- Two dispatches: the registry's actors interact through `mu`, the state and the
  waiters, and each property relates one dispatch to one call or two dispatches
  to each other; one dispatch in every phase together with one other is what the
  hazards need. One call of `Drain`, one of `WaitPending` and two of `Close`: a second
  `Close` has to join the first, while two calls of `Drain` share nothing but the
  wait for `changed`, which `WaitPending` shares with them.
- One group and two sinks in the registry: a sequence is kept, replayed and
  captured per group, and an old sink can be called late. Two groups in the flusher, whose
  batch can be half sent.
- `MaxSeq = 2` in the flusher: one sequence being sent and a newer one marked.
  `MaxLifetimes = 2`: one replacement. One call of `Flush`.
- `MaxBarrier = MaxRevision = 2`: a barrier that replaces one not yet published.
- `Limit = 1` with two dispatches in `HomeAccounting`: one slot too many is seen
  as soon as both are open. Its `MaxSeq` is at least the number of dispatches, so
  the bound never disables a release.
- Three tokens and two callers in the journal: a chain of two receipts, circles of
  length one, two and three, and a rotation by another process while a call follows.
  `MaxChain = 3` stands for 1024 and is reached. Two tokens make a circle and are
  enough for liveness.
- `Cap = 1` in the relay with two chunks: the channel is full, and full again after a
  read. Two calls at once see each other through the reader.
- Buffer and batch of two in the usage queue, two subscribers, two switches: a
  subscriber that overflows while another does not, a batch half pushed, a queue
  switched off and on while a record is between two steps.
- Two resources and two attempts of a scope: one already in the list, one late.
- `QueueCap = 1` for the refresh jobs with two credentials: the second finds the channel
  full. Two operations are a removal and a new registration, or an update twice. Two
  loops are a replacement. `DueIsRefreshed` is asked for one credential: with two, a
  channel that is full whenever one of them tries may starve it.
- `MaxRetryCredentials = 1` (2 in `HomeExecutionRounds`) with one credential more, so that
  the limit is reached while another credential could be tried. `RetryLimits` 0 and 1:
  no further round, and one. Two calls: the second finds what the first retained.
- Two edits, one save, one hook and one scan of a file, in casts of two or three of them
  (`Cast`): every edit may remove the file, tear it or take the credential out of it, and
  every save may be written or not. The watcher's queue has
  room for one instead of 256, which makes it block.
- Three operations on a credential in the scheduler: one that takes an old snapshot, a removal,
  and a new registration. Two models: one asked about and one that is not. Two
  goroutines carry snapshots, which is what it takes to reorder them.
- Deadlock is not checked where the actors may all be done because their operations
  are used up. The journal's calls can always be made again and the relay's
  final state is an explicit step, and there deadlock is checked.

### Fairness

- Registry: a goroutine inside a call goes on, `closeFn` returns, a pending
  dispatch gets an answer or an error because its context bounds it. An owner is
  sure to call `End` only after its resource was closed under it or `Bind` was
  refused; a request in progress may last for ever. No context is assumed to
  expire.
- Flusher: `Run` and the callers of `signal` go on, the subscriber loop starts
  another lifetime, a timer that is armed again and again fires (strong fairness of
  `RunTimer`: `Run`'s `select` chooses at random among ready channels), and sends
  do not fail for ever.
- Relay: every goroutine that can go on does; nothing is owed by the peer, by a context or
  by the consumer of a stream (`Forward` has no fairness).
- Home selection: whoever closes goes on.
- Streaming call: the call goes on, the acknowledgement of a release comes or its
  wait expires, and the pump of a session ends once the session is closed.
- Auto-refresh: goroutines go on (weak fairness), a `select` with several ready cases takes each
  of them some time, and a mutex is handed over some time (strong fairness), a
  token that is not renewed expires.
- Watcher: the dispatch loop goes on (weak), every other goroutine gets the mutex some
  time (strong: Go hands a starved mutex over). Nobody has to edit or to scan.
- Usage queue and scheduler: safety only.
- Journal: a call that is running goes on; the exchange is bounded by
  `codexRefreshTimeout`. Nothing is assumed of crashes.

## Proofs

Everything in the `*Proofs` modules is checked by TLAPS for all values of the
constants that satisfy the assumptions stated in the modelled module: special values
(`None`, `NoToken`, ...) are not members of the sets they stand outside of, roles that
are different goroutines have different names, bounds are natural numbers, and sets
whose cardinality occurs are finite. In `HomeAccounting` the bound on sequences is
at least the number of dispatches, so that it is never the bound that stops an `End`.
Each theorem on an invariant says `Spec => []P`; where `P` is not inductive, the section below names
the invariant that is.

- **HomeAccountingProofs**, the registry. `TypeCorrect`; `SlotReleasedAfterClose`; `DrainCancels`
  and `DrainSound`; `CloseSound`; `ResourceClosesOnce`; `SequenceCountsReleases`;
  `SinkLearnsLatest`. Except for the action property none is inductive by
  itself. `MapInv` relates a dispatch's position to the maps: it is in `pending` or
  in `scopes` exactly in the phases in which the code has put it there, and an open
  resource belongs to a scope whose `End` has not yet waited for the close.
  `DrainInv` and `CloseInv` say what a call has achieved by the time it is at each
  line: past its copy of the scopes the registry is `Halted` (not accepting, and
  nobody holds `mu` with a test already passed), and an open resource is still in
  the call's `sweep` or `awaiting`. From a halted registry the maps only shrink,
  which makes `DrainedStaysEmpty` permanent. `SinkInv` adds what `SinkKnowsLatest` leaves open
  while a replay is running: the latest sequence was told, is still on the replay's
  list, or is in the hands of an `End` that captured this sink together with exactly
  this sequence.
- **HomeAccountingProofs**, the observation. `SnapshotSound`. The argument goes through
  the ids: ids are given once and in increasing order, whatever was begun before a
  barrier has an id not above `pendingBarrierSequence`, and the barrier is
  published only when no pending id is that small.
- **HomeAccountingProofs**, the flusher. `TicketsSound`, `FlusherSound` (`NothingForgotten`) and
  `FlushSound`. The invariant `AckInv` says that what is acknowledged was
  received by Home, that what is not acknowledged is dirty with its latest
  sequence, and that a ticket leaves `waiters` only when it is acknowledged.
  `BoundInv` is for the composition: nothing is sent that was not marked, and every
  ticket is covered by the latest sequence or by an acknowledgement.
- **HomeAccountingProofs**, the composition of the two. `AccountingRefinesLedger`
  (`KeepsLedger`): every step of registry, flusher and Home is a step of
  `SlotLedger` or leaves accounts and held slots alone. The invariant `LinkInv` consists of the invariants of
  registry and flusher and of what ties them together: Home's count of a group is the
  number of dispatches it answered with it (`AnswerInv`), what an `End` carries to the sink
  was counted, and nothing is ever replayed because the sink is attached before the first
  release (`CarryInv`), what the sink was told the flusher has, and the flusher knows nothing else (`ToldInv`). A step
  that closes a resource is a `Close` of the ledger, one that makes Home take a
  higher sequence is a `Settle`, and the counting lemma `OpenIsCounted` says that released
  and open scopes are disjoint subsets of the admitted ones. `LimitHolds`: no more
  than `Limit` resources of a group are open. `GracefulEndSound`
  (`GracefulEndReturnsSlots`): `EndedInv` says that from the call of `Flush`
  on the registry is halted and empty and the flusher knows every release, so
  that no sequence moves any more.
- **RefreshJournalProofs**. `GrantSubmittedOnce` (`SubmittedOnce`),
  `OwnerAnswersRecorded` (`OwnerRecorded`), `RefreshAnswersSound` (`AnswersSound`), `RefreshAdvances`
  (`CallAdvances`), `ImplementsGrantLedger`
  (`KeepsGrantLedger`). The invariant `JournalInv` has three parts besides the types.
  `OwnerInv`: a grant has at most one owner, which has its claim, and past
  the sync the claim cannot be lost. `SentInv`: a grant whose claim can still be
  lost was not sent, nor was one whose owner has not come to the exchange.
  `ReceiptInv`: a receipt is what the owner learned, and credentials are recorded
  only for a grant that was sent.
  Without the part on synchronised claims a power loss would break the induction:
  this is why the code calls `syncRefreshClaimDirectories` before the exchange.
  For the answers, `ChainInv` says that every receipt is a rotation the provider made and that a follower's
  current key is reached from its grant by rotations; that rotations lead from one token to another is defined
  by closed sets, not by recursion, so the proof needs no induction over chains. `SeenInv` bounds the
  receipts a call has followed; with it `StepsLeft` is a variant function, which is
  the part of `CallReturns` that is not about scheduling.
- **WsRelayProofs**. `RelayTypes`; `RelayNoOrphan`; `RelayNoSendOnClosed`;
  `RelayAnswersHonest`. The invariants hold whether the consumers of streams read or not. `SweepInv`: once `closed` is set, an entry that `Range` has still to visit is the only
  kind that belongs to a waiting call. `HeldInv`: who has the lock of a request to send into
  its channel has found it open. What a call is told needs five more: who takes an
  entry has a reason (`TakerInv`), a reader past `deliverTerminal` delivered or knows why not (`SettleInv`), a
  closed channel ends with a terminal message and an end is never made up
  (`ToldInv`), a live call keeps its entry until the peer has ended (`EntryInv`), and the
  chunks consumed, in the channel and in the reader's hand are 1, 2, ... in order (`FlowInv`).
- **HomeExecutionProofs**. `ExecutionSlotsInHand` (`SlotsInHand`) and
  `ExecutionRoundBounded` (`RoundBounded`). `HandInv`: the session retains at most one selection, so that the call never has
  more than one to end, and it has none when it asks for another. `MineInv`: the slots of
  the call that Home has not acknowledged are those in its hands at that line. `RoundInv`: a
  credential that ran is tried, one that ran twice is excluded, and a
  credential is bound only if it is the one that may be tried again or the limit leaves room.
  The same module has `SelectionClosesCleanly` (`ClosesCleanly`) about the scope's resources and
  attempts. Its invariant `SelectionInv`: the flags of the close are set in the order of the code, and the
  lists are empty by then (`OrderInv`); a resource that was added is in one of the lists, once, or it is closed
  (`ListInv`); a running attempt is to be cancelled, cancelled or the one that is spared
  (`AttemptInv`), and that one is the attempt that ended its turn (`TurnInv`).
- **AutoRefreshProofs**. `RefreshTokensOfNewest` (`TokensOfNewest`) is inductive once the
  types (`Shape`) and the credentials in the actors' hands (`HandsFull`) are known.
  `RefreshJobsAccounted` (`JobsAccounted`) needs `HoldInv`: no two hands (loop, channel,
  worker) ever have a job of the same loop, credential and epoch; a registered job is in some hand; and as long
  as its loop does not release its jobs, what is in a hand is registered. The last part is what
  makes a new job's name fresh, and it is false for a loop that is being stopped,
  which is why the release of the queued jobs appears in the invariant: there, a job that is
  registered and not running is still on the list of jobs to release.
  `MarkerHasJob` is then inductive: a marker that a caller puts back from its copy is that of a job which is
  registered in the same epoch, or it is `Stale`, and the theorem says nothing of the latter but that it is
  no marker of a job.
- **AuthSchedulerProofs**. `RemovedOut` (`RemovedStaysOut`), `HoldsNewest` (`SchedulerCurrent`) and
  `ShardsAgree` (`ShardsCurrent`, which is about histories without a dropped snapshot of the whole credential: `~overtaken`;
  the first observation above is what happens otherwise). The invariant `SchedulerInv`: the manager's stamp is the newest, and the epoch of a
  removal belongs to no other call (`StampInv`); a registry the scheduler has not caught up with shows in the
  versions (`SyncInv`); from some stamp of the present epoch on, all calls under way say what the
  manager says, and the call with that stamp is on its way or has been seen (`ToldInv`: this is what makes the order of
  arrival irrelevant); two snapshots that are not outdated say the same of a model, or a call that covers the model and
  lies between them is on its way (`PairInv`), and a built shard has the entry of the
  stored credential or such a call is coming (`ShardInv`).
- **RedisQueueProofs**. `AccountedForOnce` (`AccountedOnce`) and `SubscriptionsHold` (`SubscriptionSound`). The
  invariant `QueueInv`: the forwarder pops only with empty hands and no record is in a list twice (`FwdInv`), a record
  is in one place, or was refused, and in Home too only if the answer of a push was lost (`AccountInv`; that a refused
  record stays refused rests on the channel that was full at it: its stream ends there and only moves from the channel to the reader), and what a subscriber
  received together with its channel is a piece of what was published, where a subscriber that is still
  listed is at the end of it (`StreamInv`). The expired prefix is found with `SelectInSeq`; that it is one
  follows from the least index that fails the test, whose existence the library's
  well-foundedness of the natural numbers gives, so that no induction is needed.
- **WatcherDispatchProofs**. `RemovalsJustified` (`RemovalJustified`). The invariant `WatcherInv`: nobody has a
  revision the watcher has not given (`RevInv`); who works under `authUpdateMu` has it, has claimed its
  update, and finds the manager as it looked it up, as far as the presence of a credential goes (`LockInv`);
  nobody has a content that was not written, and while the file is without the credential every content
  in circulation is from before that (`BodyInv`). `GoneInv` follows a removal that is not `late` from
  the scan or the event that found nothing until it is
  applied: it is justified all the way (`Grounds`), because a registration in between would be of an update with a smaller
  revision, which was stamped before the scan looked or the event was stamped, and so of a content from before the absence. A removal
  of a file that is gone needs none of this: it is checked against the file under the mutex.

Only model-checked:

- the liveness properties: fairness and `ENABLED` are outside what TLAPS proves;
- `Converged` of `WatcherDispatch`: what is quiet at the end agrees because in every state something
  that has still to happen makes up for each difference between file, hash, current credential, pending updates
  and manager; an inductive form of that has not been found. Working on one showed that the exclusion
  for a save during a removal had to include the removals a scan decides (the third observation above).
  With it `Converged` holds in the casts of the run, and a simulation outside the runs, with up to three
  edits, refreshes, requests and scans each and a queue of two, found no violation in 620 million states either.

## Not modelled

- Durations: a timeout may happen whenever its wait goes on, a timer is armed or
  it is not. The common deadline of exchange and receipt write is therefore only
  a write that may fail.
- Error texts, logging, time stamps in snapshots, identifiers of sessions.
- Home, the provider and the file system, except for what the code in this
  repository relies on; these definitions are marked external.
- In `runHomeSubscriber`: the configuration worker, the publisher's completion and
  the delay between lifetimes. A new registry after an abandoned one starts from
  the initial state, in Home too: the composition covers one registry.
- Registry: the error of a second `Bind` (`registry.go:281-283`); a scope is bound once,
  by the selection made for it (`home_selection.go:194`).
- Streaming call: turning Home on again while a call runs; calls without Home; a credential's own
  retry limit (`RequestRetryOverride`, `conductor_selection.go:1560`), which is one more source of a number
  the model takes from `RetryLimits`; a nil release ticket (`conductor_home.go:661-663`), after which the call
  does not wait.
- Auto-refresh: the merge of a Codex patch, `Manager.Load`, missing executors.
- Scheduler: the empty-model shard and route aliases, equal time stamps, priorities,
  weights and cursors, expiry of tokens, unauthorized failures, `Reconcile`, saved
  cooldowns; results without a model (`conductor_cooldown.go:1004-1006`, `:1338-1347`). Change and
  snapshot of a result are one section of `Manager.mu` in the model; `persistLocked` gives
  the mutex up in between while it saves (`conductor_persistence.go:224-232`), under the
  credential's mutation gate.
- Watcher: the first load, a change of the directory, credentials from the
  configuration or without a file, replacement of the queue, the wait for model
  registration. At the start manager and file agree; one scan at a time. A content that the
  watcher and a request parse differently; a file edited between a login's save and its
  reading back into one that holds a single other credential (`auth_files_fields.go:1122-1130`);
  a failed save that leaves the file truncated.
- Relay: the HTTP upgrade and pings.
- The components listed as `not_modelled` in `PROJECT.json`.

By far most of the repository's lines are converters between provider protocols,
executors that build HTTP requests, user interfaces and tables. They keep no state beyond a request and
have no interleavings; unit tests compare their outputs, and a model of them
would repeat the code. So the map covers a small share of all lines and most
of the lines on which goroutines, processes and crashes meet.

## Plan

Done: the modules of the table above, and theorems on every one of them. Next, in this order:

1. Proofs: `Converged` of the watcher.
2. Remote journals: the claim as a compare-and-set with an ambiguous answer, shown
   to implement `GrantLedger` too.
3. The subscriber's generations: replacement of a subscriber while an older one
   still drains; packing of in-flight frames on top of `RegistryObservation`.
4. `ModelRegistry` reference counts and suspensions, composed with `AuthScheduler`;
   saved cooldowns.
5. Bounded LRU of the replay caches; session affinity as an algorithm against
   a reference definition.
