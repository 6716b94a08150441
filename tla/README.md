# Error-Tracer: verification project

Error-Tracer collects browser errors: a JavaScript SDK batches events and posts
them to a Go service, which groups them into issues in SQLite and serves a triage
dashboard. This directory holds TLA+ modules translated from that code, the TLC
configurations that check them on small instances, and theorems TLAPS proves for
every instance. `PROJECT.json` lists the runs, which source lines each definition
stands for, the hazards and the theorems.

Commands, in this directory: `tlc -workers 2 -config SQLiteStore.cfg MCSQLiteStore`
checks a run (module and cfg as in `PROJECT.json`), `tlapm SQLiteStore_proofs.tla`
checks proofs.

## 1. The system

| Component | Source | State it keeps | Operations |
| --- | --- | --- | --- |
| SDK client | `sdk/error-tracer.js` | queue, `reservedCount`, flush chain, flush timer, per-minute stamps, stats, `stopped` | `capture`, `flush`, `destroy`, timer and promise callbacks, `install` |
| Ingest handlers | `internal/server/ingest.go`, `origin.go`, `metrics.go` | the ingested counter | authorize, charge two rate limiters, decode, validate, `RecordBatch`, answer |
| Rate limiter | `internal/server/ratelimit.go` | a bounded map of token buckets, one overflow bucket, last sweep | `AllowN` |
| Store contract | `internal/store/store.go` | issues and their occurrences | record a batch, list, triage |
| SQLite store | `internal/store/sqlite.go` | tables `issues` and `events`, `user_version` | open (migrate, reconcile), `RecordBatch`, `SetIssueStatus`, `PruneIssues`, `EnforceIssueLimit`, page reads, `Backup`, `IntegrityCheck` |
| Memory store | `internal/store/memory.go` | the same in maps under one mutex | the same, without retention |
| Process lifecycle | `cmd/error-tracer/main.go` | two signal contexts, readiness, listener, goroutines, exit code | `run`, `serve`, `stopHTTPServer`, `startRetention` |
| Admin API | `internal/server/issues.go`, `server.go` | none | list and history pages with cursors, detail, triage, readiness |
| Dashboard | `internal/server/dashboard/dashboard.js` | session, credential, cursor stack, page, open issue, busy flags | connect, demo, list, page, open, triage, disconnect |
| Event model | `internal/event/event.go` | none | normalize, validate, fingerprints v1 and v2 |
| Load test | `cmd/error-tracer-loadtest/main.go` | workers, permits, a bounded channel, a summary | `runLoad`, report |
| The rest | `config`, metrics output, `demo.go`, `healthcheck`, `buildinfo`, assets, link checker | fixtures | parsing, serving |

How they interact. The SDK calls its host (transport, timers, `beforeSend`, clock)
and is called back by it, possibly from inside a call it made. Its transport posts to
the ingest handlers, which call one store transaction per request. Requests,
retention sweeps and triage share SQLite's single write lock; `db` commands and other
processes share the file. The dashboard polls the admin API from handlers that stop at
every `await`. `run` opens the store, serves, and takes the parts down again in
order when a signal or a listener failure comes.

What is hard here, and what makes each part correct:

- **SQLite store.** Transactions of many statements interleave, fail and die with the
  process. `received_at` is taken before the lock, so occurrences arrive out of order.
  Fingerprint v2 is adopted lazily: a recurrence merges every v1 aggregate of its group.
  `sequence` has no AUTOINCREMENT and is reused. Correct when aggregates say what their
  occurrences say, an acknowledged event is never lost, no history row is orphaned or
  wrongly trimmed, no group that migration can see is split in two, and batches are all or
  nothing.
- **Opening.** Processes with different builds and limits may open one file together and
  die between statements. Correct when the schema is what its version says, a newer
  schema is refused, and histories respect the limit once somebody serves.
- **Backup.** Correct when only verified snapshots are published, replacing nothing.
- **Pages and retention.** Rows move and vanish between the pages of a cursor walk.
  Correct when a walk is complete for what stayed, and retention takes the oldest first.
- **SDK.** Reentrancy, chained flushes, bounded queue, retries, throwing timers. Correct
  when every event is in one place and eventually settled, batches stay in order, the
  bound holds, and `flush()` reports the truth.
- **Capture.** Host code runs inside `capture()` and may capture again; the page's clock may
  be set back; `install()` may fail half way. Correct when the budget is that of a window of
  the clock and the page carries the client's listeners exactly while it is installed.
- **Delivery.** A rejected `fetch` says nothing about the request, `sendBeacon` nothing about
  the answer. Correct when `stats.sent` counts what is stored, and only a lost answer can
  make the collector store an event the client counts as lost, or store one twice.
- **Memory store.** Batches are stamped before the mutex. Correct when every issue still says
  what its occurrences say, and the store keeps the promise SQLite's keeps.
- **Load test.** Workers, a deadline and a bounded channel. Correct when every request is in
  the report unless the deadline cut it off, and the tool always gets to its report.
- **Rate limiter.** Clock readings are taken before the mutex and may reach it late and
  out of order; buckets are forgotten and shared. Correct when no bucket grants more in any
  window than a burst, its refill, and what being forgotten gives away, which is nothing
  when the idle time earns a burst.
- **Dashboard.** Answers arrive after the user moved on. Correct when stale answers change
  nothing, what is shown is what was asked, and no control stays disabled.
- **Lifecycle.** Two signal contexts, a drain with a timeout, a retention goroutine, a
  store to close last. Correct when the order is kept and the process always ends.

## 2. Modules and the code

| Module | Models | Checked by |
| --- | --- | --- |
| `IssueLedger` | what a store promises, as an abstract state machine | refined by `SQLiteStore`, and by `MemoryStore` under `Ingest` |
| `SQLiteStore`, `MCSQLiteStore`, `SQLiteStore_proofs` | recording, lazy migration, triage, retention, rollback, crash | `SQLiteStore.cfg`, TLAPS |
| `SQLiteStartup`, `MCSQLiteStartup`, `SQLiteFile_proofs` | `OpenSQLiteWithOptions` by several processes | `SQLiteStartup.cfg`, TLAPS |
| `SQLiteBackup`, `MCSQLiteBackup`, `SQLiteFile_proofs` | `Backup` beside a live service and other programs | `SQLiteBackup.cfg`, TLAPS |
| `IssuePages`, `IssuePages_proofs` | page reads of both stores, cursors, the retention goroutine | `IssuePages.cfg`, TLAPS |
| `SDKClient`, `Delivery_proofs` (part 1) | `error-tracer.js` from its queue on | `SDKClient.cfg` and one more, TLAPS |
| `Capture`, `Capture_proofs` | `error-tracer.js` up to its queue: listeners, host callbacks, budget | `Capture.cfg`, TLAPS |
| `MemoryStore`, `Delivery_proofs` (part 2) | recording and triage in `memory.go` | `Delivery.cfg`, TLAPS |
| `Ingest` | a POST from admission to answer, over `MemoryStore` | `Delivery.cfg`, TLAPS (in `Delivery`) |
| `Delivery`, `MCDelivery`, `Delivery_proofs` (part 3) | `SDKClient`, `defaultTransport`, the network and `Ingest` together | `Delivery.cfg`, TLAPS |
| `LoadTest`, `Delivery_proofs` (part 4) | `runLoad` and its report, against `Ingest` | `Delivery.cfg`, TLAPS |
| `RateLimiter`, `MCRateLimiter`, `RateLimiter_proofs` | `AllowN` | `RateLimiter.cfg`, TLAPS |
| `Dashboard`, `Dashboard_proofs` | the state machine of `dashboard.js` | `Dashboard.cfg` and one more, TLAPS |
| `Lifecycle`, `Lifecycle_proofs` | `run` and `serve` | `Lifecycle.cfg`, TLAPS |

**SQLiteStore.** `db` is the committed file: `issues` maps a key to its row, `events` is
the set of event rows. A row also carries `lineage`, the occurrences it stands for, a history variable
that no guard reads; `arrivals` numbers occurrences. A writer in a transaction has its own
view in `work` and its place in the code in `tx`; `lock` is SQLite's single write lock,
taken by `BEGIN IMMEDIATE`. One action is one SQL statement of `RecordBatch`, except
that the merge of one candidate (insert, move events, delete) is one action: no other
statement can come between them that sees the transaction's view, and rollback and crash
are possible between any two actions. `SetIssueStatus` begins a deferred transaction whose
first statement is the update, so it takes the lock there. `PruneIssues` and `EnforceIssueLimit` are one statement.
`Rollback` stands for a failing statement, a cancelled request and a failing commit,
`Crash` for process death. Fingerprints are constants: `Fingerprint` gives the v2 group
of an event, `LegacyFingerprint` its v1 key, `Columns` what the candidate query compares.

The v1 aggregates found when the database is opened have the columns of their first event, as the
v1 upsert never updated them; where v1 keys collided these are not those of the last event (`Collided`).

**IssueLedger** knows issues as a status and a set of occurrences, and the batches that requests
have asked for (`asked`). `Record(r)` takes one of them: what the groups gain is every event of
that batch, each once, in its order and behind all that was there. A store that commits a batch
in parts, leaves an event out or records one twice has no such step. `GiveUp` drops a batch with nothing
recorded. `LedgerSpec` in `SQLiteStore` instantiates it with the view of the committed rows and the
batches of the open transactions; `LedgerSpec` in `Ingest` with `MemoryStore`'s maps and the batches
of the prepared calls (and without legacy keys, which that store never has).

**MemoryStore.** The mutex makes an operation one step, so `RecordBatch` is a function of the
maps: items are counted one by one (`AfterItems` is what is stored after the first of them), then
touched histories are sorted and cut. A history is sorted by rank, the number of newer occurrences: ids
differ, so `sort.SliceStable` has no ties. `seen` is history. `Fingerprint` maps what an event says to its
group, as in `SQLiteStore`.

**Ingest.** `calls` are the requests, each at its handler's stage; `at` is the `received_at` it
carries to the store. `Prepare`, `Record`, `Accept202` are the places where a handler can be
overtaken. A request that nobody waits for any more has a cancelled context, so its store call
may fail or may still commit. Which of the checks before the store refuses is not told
apart.

**Delivery.** `Post` makes a call in the step in which `SDKClient` enters the transport.
`TransportAccepts`, `TransportRefuses` and `FetchRejects` are the ways the promise settles, the
last at any time: the request then goes on unwatched, and may be handled after its own retry.
Captures, timers, jobs and retries are `SDKClient`'s own actions; explicit `flush()` and
`destroy()` start deliveries like the timer's and are checked there.

**LoadTest.** One action is what a worker does between two waits: for a permit, an answer, room in
the channel. `abandoned` are the calls whose worker returned because the deadline had passed. A load
test's collector sees no triage, and its clock stands still. The guards of the waits have names (`MayPost`,
`MayLeave`, `MayDeliver`, `MayReport`), of which `SomebodyGoesOn` says that one holds until there is a report.

**Capture.** `nested` counts the captures that are inside host code. From reading the clock to
pushing the stamp no host code runs, so that is one action with four outcomes. `granted` is history:
a stamp is `timely` while the clock has stayed within a window after it.

**SQLiteStartup.** A schema is its version and the sequence of migrations applied; a
history is its number of rows. `Begin`, `ReadVersion`, `Migrate`, `CommitMigration` are the
statements of `migrateSQLite`, `Scan` and `TrimBatch` those of the reconciliation.
`Found` lets the file also have version 3 when an old build opens it.

**SQLiteBackup.** A file is what it holds; the database is the number of its last commit.

**IssuePages.** A page is one step because it is read in one transaction. Both lists are
pages over keys `[at, tie]`, listed by rank, since no two keys are equal. `MemoryPage` is the other store's code for the same page.
The retention goroutine is `sweep`, one batch per step.

**SDKClient.** One action is one synchronous stretch of JavaScript. `jobs` is the chain of
flushes behind `flushPromise`; `current` is the batch being delivered. `host` is what the
page's `setTimeout` does: works, throws or is absent. `suspended` says that `capture()` is
inside a host callback, where only calls made by that callback run. `sent` means that the
transport accepted a batch; with `sendBeacon` that is handing it over, not recording it.

**RateLimiter.** `Arrive` reads the clock, `Decide` is the critical section, up to
`MaxStall` ticks later. Tokens count in units in which a tick earns a whole number. `granted` counts
what a bucket handed out since the window opened, `forgotten` how often the sweep removed it since then.
`GivenAway` is the part of a burst that the idle time, less a stall at either end, does not earn.

**Dashboard.** An action runs from an event or an answer to the next `await`; `requests`
keeps what the awaiting call remembers. Cursors are abstracted to depths.

**Lifecycle.** `main` is where `run`/`serve` are, `closer` the goroutine that waits for
the context, `retention` the sweeping goroutine, `handler` the requests. A signal cancels the
startup context, `serve`'s context, or kills when nobody listens: between the two, after
`serve` has returned, and after `stop()` once the listener failed.

## 3. Runs

Passing runs; each property has a plausible bug of the code (a mutant) that breaks it.

| Run | Shows | Bounds, and why they are enough |
| --- | --- | --- |
| `sqlite_store` | types and lock ownership; aggregates match occurrences; sequences follow arrival; each history is exactly the newest, without orphans; acknowledged events survive; no split group, collided v1 rows excepted; refinement of `IssueLedger`, batch by batch; every transaction ends | 2 writers (a third could only wait), batches of 2, 5 occurrences, 2 times, history limit 2; 3 shapes in 2 groups under 2 v1 keys, so one group has two legacy aggregates and one key has events of both groups; a new database and upgraded ones, one with a collided v1 row. About 560 000 states |
| `sqlite_startup` | schema is its version; newer schema refused; histories within the limit; every start ends | an old build (schema 2, limit 2) and a new one (schema 3, limit 1), 3 groups in batches of 2, 2 crashes or failed starts |
| `sqlite_backup` | one-step publication of recent verified snapshots, no leftovers | 2 commands, 2 commits, other programs creating and removing the destination |
| `issue_pages` | walks are complete and ordered; both stores page alike; the oldest go first; sweeps finish their work | 3 issues, pages of 1 (so every page boundary is met), batches of 1, 2 changes, 3 ticks, all orders |
| `sdk_client` | accounting, the queue bound with an exact `reservedCount`, one batch at a time in order, honest `flush()`, settling | batches of 2, queue of 3, 1 retry, 5 events: overflow, chaining and a full queue behind the transport all occur. About 190 000 states |
| `rate_limiter` | types, with no stamp in the future; bounded grants, what the sweep gives away included | 2 peers on a map of 1, 2 requests of 2 tokens at once, one tick of stall, a burst of 5 against an idle time that earns at most 3, 6 ticks: eviction, return, overflow and reordering, and a peer forgotten twice in one window. About 3.2 million states, with symmetry |
| `dashboard` | screen, page number and disabled controls are this session's; stale answers change nothing; the list is the view; the dialog is the issue asked; controls come back | 2 sessions, 2 issues, 2 filters, 3 loads and 3 details in flight, a demo and a demo-only server. About 190 000 states |
| `lifecycle` | unready before the drain, store closed last; exit code; serving always stops | 2 requests, 2 sweeps |
| `delivery` | what the client counts as sent is stored; only lost answers duplicate or mislead; aggregates and histories in the memory store under reordered stamps; its refinement of `IssueLedger`; the load report adds up and is always reached | either a page (2 events in 2 groups, batches up to 2, 1 retry, history limit 1, failing store) with `sendBeacon` beside `fetch`, with a triage, or with a clock of 2 times, or a load test (1 or 2 workers, rated or not, 3 requests of 2 events: with one worker its channel of 2 fills up). Two events make both a batch and two batches that overtake each other. The load test's workers are interchangeable (symmetry). About 460 000 states |
| `capture` | the budget is exactly a window's; listeners match `installed` | budget of 2 in a window of 2 ticks, 4 ticks, set back twice, 5 captures nested twice: stamps expire, are ahead of the clock and are mixed. About 550 000 states |

Deadlock checking is off where the system may come to rest (backup, dashboard, lifecycle,
startup, delivery, capture: commands return, processes exit and bounds are used up).

Runs that find the code at odds with its own words (each with the quote in `PROJECT.json`):

1. `sdk_backoff_throws`: `wait()` calls `setTimeout` unguarded. On a page whose timer throws
   a batch to be retried is neither sent nor counted as dropped, and what waits behind it in
   the same flush stays reserved for ever.
2. `dashboard_failed_next`: after a failed "Next" the cursor stack is already advanced;
   the next click shows a page with a number one too high.

Observations without a run of their own, each visible in the actions named:

- `capture()` looks at `stopped` only before it calls host code. A `beforeSend` that calls
  `destroy()` does not stop the capture it runs in, whose event is queued or even sent after
  teardown (`SDKClient!CaptureResumes`), although error-tracer.js:264 calls `destroy()` a hard stop.
- A SIGTERM after the last query of a successful open is consumed by the startup context
  and forgotten (`Lifecycle!Signal`, then `StopStartup`): the service runs until a second one,
  although CHANGELOG.md:77 says that startup no longer ignores it.
- `OnlyLostAnswersMislead` is as strong as it can be: a batch recorded by a request whose answer
  was lost, and given up by the client, is counted in `stats.dropped`, of which
  README.md:166 says that an event was lost.
- A batch larger than `RATE_BURST` is answered 422 for ever (`rateLimitRetryNever`), and the SDK,
  which looks at `response.ok` only, uses up its retries on it.
- `BudgetIsTheWindow` counts grants that stayed within a window of the clock. A clock that ran ahead and is
  set right again forgets its stamps, so more than the budget can be captured in a real minute.
- The idle sweep gives a peer its whole burst back. `config.go:90-94` accepts a burst larger than
  ten minutes' refill (say `RATE_PER_MINUTE=1`, `RATE_BURST=30`), and then the collector grants more
  than README.md:347-348 promises: up to `GivenAway` each time a peer goes idle. `GrantsBounded`
  states the bound with that term, and the run has such constants; `PromiseKept` proves the promise
  itself where an idle time earns a burst.
- v1 aggregates under NUL-collided keys are found only through the exact v1 key of the
  recurrence or equal columns (sqlite.go:144-156), and only for the first event of each group in a batch.
  One whose columns are another event's therefore stays beside the v2 issue of its last event's
  group when that recurs under another v1 key, although README.md:409-410 says that every v1
  aggregate is located. `NoSplitGroup` excepts exactly these (`Collided`); one of the run's databases has one.
- Nothing bounds the batches of a sweep while ingestion keeps each of them full (main.go:363-398):
  `SweepIsThorough` says what a sweep that ended has left, not that it ends.
- `Backup` ignores the error of removing its temporary file (sqlite.go:556). `SQLiteBackup!Remove` always
  succeeds; a failure leaves what a crash leaves.

## 4. Fairness

- `SQLiteStore`: a request inside a transaction goes on (WF on its own steps): statements
  return, with an error at worst. Nothing is assumed of callers.
- `SDKClient`: a suspended `capture` resumes; timers and promise reactions happen although
  captures keep coming (SF): the event loop serves its queues. Nothing is assumed of pages
  without timers, and `EventuallySettled` claims nothing there.
- `SQLiteStartup`: a start that waits gets the write lock (SF): whoever gives up after the
  busy timeout counts as a failed start, among the crashes.
- `Dashboard`: every fetch settles. The user owes nothing.
- `Lifecycle`: `main`, the closer and the retention goroutine are scheduled and their
  statements return. Handlers owe nothing: that is what the shutdown timeout is for.
- The other modules state safety only.

## 5. What is proved

`SQLiteStore_proofs`, from `ConstantsAssumption` (a finite or infinite set of writers,
any shapes and fingerprints, any limits) and `SeedsAssumption` (the database found is
sound): `StoreTypes`, `AggregatesAreRight`, `EventsAlwaysHaveIssues`,
`SequencesAlwaysFollowArrival`, `AcknowledgedEventsAreDurable`.

The invariant `IInv` says that the committed database is sound, that the view of the writer
that holds the lock is sound too and knows every occurrence the committed one knows plus
those it recorded itself, and that acknowledged occurrences are known. None of the
properties is inductive without it: a commit replaces `db` by `work[w]`, so whatever must
hold of `db` must hold of that view, and durability needs that the view was taken after
the last commit, which the lock gives. `SoundDatabase` in turn needs more than the
properties: keys match versions, occurrences belong to one issue (or counts would not
add up in a merge), and event ids are numbered by arrival. Each SQL
statement is shown once to keep a database sound, whoever runs it; the steps of `Next` then
only follow the transactions.

Its second half builds on that: `HistoryAlwaysNewest`, `GroupsNeverSplit`, and
`StoreImplementsLedger`, the refinement of `IssueLedger`. Two things are assumed of the constants
besides: events of one v2 group have the same candidate columns (`event.go:182-203` hashes them
all), and the database found has its histories cut to the limit now in use, with no v2 group that still has
v1 aggregates other than collided ones (`SeedsAssumption`). A view breaks the first two while its transaction runs, and the third is
about all its statements together, so `LedgerInv` says of the view of the writer that holds the lock how far
it is:

- `HistoryInv`: an issue's history is exactly its newest occurrences, except for the groups recorded into
  or merged and not yet trimmed (`Untrimmed`), which hold at least those (`Covered`).
- `SplitInv`: the groups already migrated have no v1 aggregate left but collided ones, and any
  other group with both keys is the one being migrated.
- `StepInv`: what has changed since the committed database is what the ledger's step will do:
  the aggregates gone are those whose group now holds their occurrences, and status, lineage
  and revival of each recorded group follow from those and the batch so far.
- `WholeInv`, part of it: what the view has and the committed database has not are the events of
  the batch up to the one being recorded, each under the next number.

The ledger is asked for a batch when its transaction begins. A commit is then its `Record` with all of
that batch, because `TrimTouched` is reached only behind the last event, or its `SetStatus`; rollback and
crash are `GiveUp`; and every other statement leaves the committed rows alone.

`RateLimiter_proofs`, from its `ConstantsAssumption`: `LimiterTypes`, `MapAlwaysBounded`,
`GrantsAlwaysBounded` and `PromiseKept`. The
argument: what a bucket holds and what it has granted in the window share one allowance, a
burst plus what it earned up to its last refill plus what was given away (`Balanced`). A request
moves tokens from the one to the other. A bucket that is forgotten was idle, so it lacked
at most `GivenAway` of being full; a window that opens later starts from what the bucket holds.
Between two times a bucket is forgotten lies an idle time, which bounds their number. Readings
may be `MaxStall` old at either end of an idle time, so what it surely earns is that of `TTL` less
two stalls. Only `PromiseKept`, the documented promise without the extra term, has a hypothesis:
that this is a burst (`IdleRefillsBurst`).

`SQLiteFile_proofs`, from the `ConstantsAssumption` of each module, is about the file as a whole. The backup, for any
number of commands: `BackupTypes` and `PublicationIsSafe`. The invariant is that a command about to publish has a
snapshot of a commit made since it began in its temporary file. It holds because temporary
names differ and nobody else writes them. The types need one fact more: a command about to
create its file has none yet.

The startup, for any number of processes and builds: `SchemaAlwaysItsVersion`, `NewerSchemaAlwaysRefused` and
`HistoriesAlwaysWithinLimit`. The invariant is that a
process is inside `migrateSQLite`'s transaction exactly while it holds the write lock, that
its view is then a schema made by the migrations in order, and that once it has read the
version, its copy is that view's version. So the version compared with the build's is the one
committed. Without the lock in the invariant, two migrations could both apply the next step.
For the histories, `Reconciled` follows the cursor: behind it nothing is longer than every
limit in use, and while a batch is trimmed nothing between its groups is either, because the query takes
the first oversized groups in order. It bounds a history by the longest limit of any process,
since another one with a longer limit may record behind the cursor; a process alone is bounded by its own.

`Lifecycle_proofs`, for any number of requests and sweeps: `ShutdownAlwaysInOrder` and
`ExitCodeAlwaysTrue`. What must be added to them is why nothing is in flight at the end: once
`Shutdown()` was called the listener is closed and never opens again, so nothing is accepted
after the drain has found no connection or cut those there were (`Closing`); and main reaches the
store only behind the closer and the retention goroutine (`StoreLast`). The exit code needs that
an open which failed without an error of its own was interrupted (`Codes`).

`Delivery_proofs` follows an event from the page to the store, in four parts.

*The client*, from `ConstantsAssumption`, for every batch size, queue bound, number of
retries and kind of page: `EveryEventAccounted`, `QueueStaysBounded`, `EventsDeliveredInOrder`,
`FlushNeverLies`. The properties hold one another up, so the invariant is one: the events in
the queue, in each flush of the chain, in the batch on its way and delivered are rising
sequences, each before the next (`Order`), which makes their ranges disjoint and their lengths
add up; every event has a place and no lost one has another (`Places`); `reservedCount` is the
number of events in the chain, or more once a timer threw (`Reserved`); and a flush that may still
report success has its events delivered, in its own part of the chain or ahead of it (`Honest`). `capture()`
drops, appends and flushes in one step, so these are stated of a queue and a chain that are
arguments, not variables, and each half of the step is a lemma. What is proved of `flush()` holds when it
resolves: that it does is `EventuallySettled`, which is only model-checked.

*The memory store*, from `MemoryAssumption`, for every history length, fingerprint and order of stamps. The invariant,
`StoreInv`, is that each issue counts exactly `seen`, the set of what was recorded of it, and that its
history is the newest of that set. A batch is a loop, so `Midway` says what is stored after the
first i items, and holds for the next when it holds for one: the new ids are larger than all before,
which makes the counters add up and `>=` the right comparison for `lastEvent`. A cut history
has forgotten most of the set, so the lemma that carries the part about histories is `TopMerge`:
merging new occurrences into the newest n and cutting again gives the newest n of all.
For the ledger, `Prepare` with a batch is `Ask`, `Record` is the ledger's `Record` of that batch
(`Entering`: the occurrences that enter are one for each of its events), and a store that fails is `GiveUp`.

*Delivery*, from these, `IngestAssumption` and `DeliveryAssumption` (what an event says is in the domain of
`Fingerprint`): `StoreAlwaysItsRecords`, `SentAlwaysRecorded`, `OnlyLostAnswersEverMislead` and
`MemoryStoreIsALedger`, of `DeliverySpec`. The invariant is `DInv`: the client's, `StoreInv`, and

- `CallInv`: a call whose answer nobody has lost and that was not refused is the one in the transport or its
  events are delivered (`Fates`); no two such calls carry the same event (`Apart`); and a delivered event
  has a call that was accepted or handed to `sendBeacon` (`Acknowledged`).
- `Tally`: the store has one occurrence of an event for each call that recorded it. So an event
  is recorded by at most one call whose answer counts, and every other by one whose answer was lost.

*The load test*, from `LoadAssumption` besides, for any number of workers, batch size and
cardinality: `ReportAlwaysAddsUp`, of `MCSpec`, the specification the run checks. The parts of `LoadInv`:

- `Owned` and `Placed`: no two workers wait for one call, and every call is counted, in the channel, with
  a worker or abandoned.
- `Credited`: the acceptances counted or on their way to the summary are no more than the accepted
  calls that nobody waits for. Without the last words the same call could be credited again.
- `Stored`: `metrics.ingested` is a batch for each accepted call, the store's sequence one for each
  recorded call, and the store has as many occurrences.
- `Reported`: what the exit code says was so when the report was made.

That nobody waits for ever once the deadline has come (`LoadGoesOn`) then needs that the channel has
room and that `initialPermit` is taken before a bounded number of requests is used up; it is stated with the
guards, not with ENABLED. `WhoeverPosts` repeats the theorems of `Delivery` for `MCSpec`.

`IssuePages_proofs`, from its `ConstantsAssumption`, for any finite number of issues, page size and course of
changes: `WalksAreComplete`, `StoresPageAlike`, `RetentionTakesOldest`, `SweepsAreThorough`. Its first part is
about order: `Precedes` is total, so a finite set of keys has one list by rank, a page is the first of
what is behind the cursor, and what is left begins behind the page's last key. That SQLite's
`LIMIT n + 1` and the memory store's slice are then the same page is `PagesAgree`. A walk keeps
`Follows`: what it returned descends to the cursor (`Descends`); what has not been touched since it began
was returned exactly if it lies before the cursor (`Complete`); and an issue returned once
has `last_seen` no older than at that moment, or was deleted (`StaysBehind`). An issue's `last_seen` never falls while
it exists, so only one that was deleted and recorded again with an older stamp can come twice. For retention, a batch
deletes the oldest by rank and as many as asked for; a sweep that finds fewer has nothing left to find.

`Dashboard_proofs`, for any number of issues, pages, sessions and requests in flight:
`ScreenIsThisSession`, `StaleAnswersAreIgnored`, `ListAlwaysTheView`,
`DialogAlwaysShowsTheIssueAsked`. What an answer may do depends on what was on screen when it was
asked for, so the invariant is mostly about requests still in flight: at most one load of this
session, which remembers the cursor and filter in force (`OneLoad`); at most one triage
(`OneTriage`); the detail asked for last is that of the issue clicked last (`LatestDetail`); and
behind the login panel there is nothing left that could fill it (`CleanLogin`).

`Capture_proofs`, for any budget, window and course of the clock: `BudgetAlwaysTheWindow` and
`ListenersAlwaysMatch`. `hasBudget()` counts stamps, the property captures: the invariant is that
each stamp is that of a capture of its own and every timely capture has its stamp
(`Accounts`, an injection), and that the stamps are in order (`Sorted`), without which dropping them from the
front would leave expired ones behind. `NotAhead` states the code's `filter` as an order-preserving
enumeration of what it keeps, so that it can be reasoned about without recursion.

Only model-checked: liveness under fairness (`LockReleased`, `EventuallySettled`, `BusyEnds`,
`ServingStops`, `StartEnds`), which TLAPS does not reason about, and the two runs that find the code at odds
with its words. Every invariant of a passing run and every action property has a theorem. No module
with a theorem uses a recursive operator: a batch is a recursive function, lists are given by rank.
The provers cannot instantiate the library's induction theorems. Where an induction is needed (`ItemByItem`,
`MidwayAlways`), the set of the indices reached so far is a set of numbers that has 0 and, with each
number below the end, the next, and a lemma about cardinalities says that such a set has the end too.

## 6. Not modelled

- **Ingest handlers**: which of authorization, origin, decoding and validation refuses a request, and the limiters'
  own state (`RateLimiter`); the CORS preflight. `Ingest` gives a request one refusal before the store.
- **Event model**: string functions. Fingerprints are constants of the models.
- **Configuration, request metrics, demo fixtures, health check, build info, assets, rendering and
  translations**: stateless or without influence on the rest. `/readyz` reads the store and `app.ready`;
  overlapping probes only read.
- **Load test**: flags, latency histogram and printing. **Link checker**: repository tooling.
- SDK event normalization and scrubbing of URLs: string functions.
- `discoverDemo`'s wording, `unref` of timers, statement preparation, cursors as strings
  and HTTP headers are abstracted inside the modelled parts.

## 7. Plan

Done, in this order: `IssueLedger` and `SQLiteStore` with the refinement; `SDKClient`;
`RateLimiter`; the store's proofs; `Dashboard`; `Lifecycle`; `SQLiteStartup`;
`SQLiteBackup`; `IssuePages`; the proofs of limiter, backup and startup; `MemoryStore`,
`Ingest` and `Delivery` over `SDKClient`; `LoadTest`; `Capture`; the proofs of `Lifecycle`,
`SDKClient`, `Capture`, `Dashboard` and the reconciliation; histories, groups and the refinement of
`IssueLedger` by the SQLite store; the proofs of the pages and retention, the memory store and its
refinement, the delivery and the load test.

Left: the limiters' 429 and 422 inside `Delivery`, instead of one refusal.
