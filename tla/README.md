# Verification of evm-oracle-demo-indexer-service

TLA+ models of the indexer service, TLC runs that check them on small instances,
and TLAPS proofs that their safety properties hold for instances of any size. Paths
below are relative to the repository.

## 1. The system

The service observes one chain over a WebSocket log subscription, stores each log
as a row of the table `events`, and hands it to gRPC clients: live, from history,
or history first and then live.

| Component | State | Operations | Talks to |
| --- | --- | --- | --- |
| `internal/chainsub` | `mapping` aggregator -> asset; the session (client, filter, channel of logs); the log being ingested | `Run`, `runSession`, `ingest` (parse, insert, publish), `recordAggregator`, `subscribedAddresses` | node (WebSocket), repository (`InsertEvent`), hub (`Publish`) |
| `internal/repository` | table `events`, unique on `(tx_hash, log_index)`; the pool | `InsertEvent`, `ListEvents`, `EventsForRequest`, `Init`, `Stop`, `HealthCheck` | Postgres |
| `internal/streamhub` | registry `subs` with a cap, `shutdown` flag, a buffered channel and a filter per subscription | `Subscribe`, `Cancel`, `Publish`, `Shutdown`, `remove` | called by chainsub (one publisher), by every StreamEvents handler and by `App.Stop` |
| `internal/grpcsrv` | listener; per stream the watermark and the paging offset | `StreamEvents` (`replayHistory` and live loop), `ListEvents`, `GetRequest`, `Start`, `Stop` | hub, repository, clients |
| `internal/application.go`, `internal/module` | registered modules, runtime context | `Init` (with `bootstrapAssets`), `Serve`, `Stop`; `StartAll`, `StopAll`, `HealthCheckAll` | everything |
| `internal/healthz`, `internal/metrics` | HTTP server; counters | probes; `ObserveSeen`, `ObserveDecodeError` | modules, chainsub |
| `config`, `cmd` | the configuration | defaults, environment, `INDEXER_ASSETS`, `Validate`; `main`, `serve` | `App` |
| `internal/models` | none | the event, its payloads and kinds, the bootstrap rows; conversion to the wire | chainsub, repository, grpcsrv |
| `pkg`, `protocols` | none | generated bindings, logger, version | |

Goroutines: chainsub's one (it also executes `Publish`), one per open stream (it
executes `Subscribe`, the replay, the receives and the deferred `Cancel`), the main
goroutine (`Stop`, hence `Shutdown`), and gRPC's and HTTP's own.

What is hard, and what makes each component correct:

* **Hub.** Sends happen outside the lock on a snapshot; closes happen outside the
  lock after a delete. Correct: a channel is closed at most once; nobody sends on a
  closed one; no event is lost unless the subscriber is cut off; what a subscriber
  receives has no hole and is in order; `Publish` never waits; after `Shutdown`
  nothing is left open.
* **StreamEvents.** The table, the channel and the replay see the same event at
  different times. Correct: nothing is lost or repeated at the boundary; history
  is in chain order; every published event asked for arrives or the stream ends.
* **chainsub.** The connection, the database, cancellation and crashes strike
  between any two steps. Correct: stored before published, published at most once,
  nothing skipped silently, every price labelled with its asset, rows in chain
  order, counted once, the loop stops when told.
* **Records.** One event reaches clients through two codecs: from memory, and through
  signed columns, NULLs and a JSON payload. Correct: both give the same message.
* **Configuration.** Addresses are compared in one form and parsed in another.
  Correct: what is accepted means the same to chainsub and to the API.
* **Queries.** Paging arithmetic over a table that grows, and a join by `req_id` of rows
  that arrive in any order. Correct: a walk misses nothing that was there when it began;
  an answer is never taken back.
* **Lifecycle.** Start and stop order, what is still running when the hub and the
  pool go away. Correct: no call loses the pool; ready means bound; one failing `Stop`
  does not spare the others; a signal ends the process.

`PROJECT.json` lists under `hazards` the line where each of these bites and the
properties that cover it.

## 2. Modules

| Module | What it models |
| --- | --- |
| `EventFeed` | abstract: a gap-free, filtered feed per subscription, until it is cut |
| `EventLedger` | abstract: a table and an announcement at most once per row, right after it |
| `StreamHub` | `internal/streamhub/hub.go`, refines `EventFeed` |
| `ChainSub` | `internal/chainsub`, `InsertEvent`, `bootstrapAssets`; refines `EventLedger` |
| `StreamEvents` | the `StreamEvents` handler, composed with the table and with `StreamHub` (EXTENDS) |
| `EventsTable` | `ListEvents` and `EventsForRequest` of `internal/repository` as operators; used by `StreamEvents` and `Queries` (INSTANCE) |
| `Records` | `internal/models` and the codec of `internal/repository` as operators: log to event, event to row, row to event, event to message; used by `Queries` and `StreamEvents` |
| `Queries` | `ListEvents` and `GetRequest` of the API over a table of such rows, which grows |
| `Config` | `config` and `cmd/root` as operators: defaults, environment, asset list, `Validate`, `parseAssets` |
| `Lifecycle` | `main`, the configuration (EXTENDS `Config`), `App.Init`, `Serve`, `Stop` over the module manager, the API, the health listener and the pool |
| `StreamHubProofs`, `EventFeedProofs` | theorems about `StreamHub`: by itself, and as an `EventFeed` |
| `ChainSubProofs` | theorems about `ChainSub` |
| `EventsTableProofs` | what a page of the table holds and leaves out |
| `StreamEventsProofs` | theorems about `StreamEvents`, from those of the hub and of the table |
| `QueriesProofs` | theorems about `Queries` and the codec of `Records`, from those of the table |
| `LifecycleProofs` | theorems about `Lifecycle` and `Config` |
| `MCStreamHub`, `MCChainSub`, `MCStreamEvents`, `MCQueries`, `MCLifecycle` | small instances for TLC |

### StreamHub

One action per piece of code that no other goroutine can cut in two. A block under
`h.mu` that does not outlive the action is one action; the loop of `Shutdown` holds
the lock while `Publish` goes on sending outside it, so it is several
(`ShutdownLock`, `ShutdownClose`, `ShutdownUnlock`) and `LockFree` is false
meanwhile.

| Code | Actions |
| --- | --- |
| `Subscribe` | `SubscribeLoad` (reads the flag), `SubscribeInsert` (cap check and registration under the lock) |
| `<-sub.Events()` | `Receive`, `ReceiveClosed`; `Leave` is a handler that returns for its own reasons |
| `Cancel` -> `remove` | `CancelDelete` (under the lock), `CancelClose` (after it) |
| `Publish` | `PublishCall`, `PublishSnapshot`, `PublishSkip` / `PublishSend` per member of the snapshot in any order, `PublishRemove` and `PublishClose` per full one, `PublishReturn` |
| `Shutdown` | `ShutdownFlag`, `ShutdownLock`, `ShutdownClose`, `ShutdownUnlock` |

A panic sets `panic` and ends the process (`Alive`). `log`, `base`, `accepted` and
`last` are history: the order of snapshots, where a subscription joined, what its
channel took and what its handler last received. The drop callback (metrics) and
the returned number of deliveries (logged) are left out.

### ChainSub

`Chain` is the sequence of logs the chain emits, a log is its position in it, and
the position stands for the key `(tx_hash, log_index)`. `pc` is where the goroutine
is; `DialContext` and `SubscribeFilterLogs` are one action, since nothing this
goroutine shares can change between them. `InsertNew`, `InsertDuplicate` and
`InsertFails` are the outcomes of `InsertEvent`; an error may come with or without
the row. `Disconnect` may strike at any moment, after which `SessionEnds` competes
with `Take` as the cases of `select` do. `DeliverAgain` is a reorganisation: the node
sends a log once more, marked removed or re-included, and chainsub looks at no mark.
`Restart` is a crash, or a stop and a new start: the table survives, the mapping is
the configuration's again. `metrics` holds the two counters chainsub writes
(`ObserveSeen` between the insert and the publish, `ObserveDecodeError` for a log `Parse`
rejects with an error, such as an AssetRegistered of another contract).

Left out: time (backoff delays, jitter) and the decoding of topics and data; what the
decoded events are is in `Records`.

### StreamEvents

Extends `StreamHub` with the table (`rows`), chainsub's insert and publish, and the
handler: `StreamFilter` is `buildStreamFilter`, `Subscribe` comes before the replay,
`ReplayQuery` (one page: `Selected`, `Page`, `Limit`, reversed by `OldestFirst`),
`ReplaySend` (one row, raising the watermark `mark`), `LiveReceive` (`Fresh` decides).

Rows enter in chain order while the node delivers each log once: that is
`OrderedIngest` of `ChainSub`. After a reorganisation, or when a log that failed to
insert is delivered again, a row may come after later ones (`late`, at most `MaxLate` of
them), or with the key of another row. `OutOfOrder` names the two, and the properties
say what becomes of them: such an event may be skipped by a running stream if it is not
after the watermark (`Skipped`), and no other event is. `ORDER BY` leaves rows of one
key in any order, another one for each query: `Orders` are the listings a query may
give, all of them, which `StreamAssumption` checks against `Listings`. The rest of that
assumption says what the program's are: keys of logs are after the watermark's initial
value and in the order of the chain, filters come from `StreamFilter`, chainsub is the
only publisher, and `ReplayLimit` is one `ListEvents` accepts (server.go asks for 1000, the
limit of the repository). Only the
logs between two steps of chainsub are visible: `LeaveUnpublished` stands for a row that
is written and never published.

### Records

Operators only. A pointer is `<<>>` or `<<v>>`; a text is its form and what it spells, so
that a decimal, a hex string, `""` and SQL's NULL differ. `PriceRequested`,
`PriceFulfilled`, `AssetRegistered` and `NewAssetRegisteredSeed` build events, `RowOf` is
`InsertEvent`'s columns (signed block and index, NULL for the zero hash and the nil number, one
payload), `ScanEvent` is the way back with its errors, `ToProto` the message. Hashes and
addresses are values: that their hex strings are lower case everywhere in the code is why
no case is kept. The time of observation is in nanoseconds and comes back in
microseconds (`Micros`).

### Queries

`ListEvents` keeps no state, so its subject is a client that walks the pages
(`StartWalk`, `NextPage`: each one call) while `Insert` adds rows at any place of the
order. `BuildFilter`, `Int32` and `Offset` are `buildListFilter`, with the product in
32 bits; `Table!Page` is the SQL. `GetRequest` applies `Join` to one row of
`Table!ForRequest` after another, which are the rows of the request listed from the other
end. `Chain` holds events as they were decoded, the table their rows
(`Stored`), and every answer is made of what is read back from them (`ReadBack`). The table
begins with the bootstrap rows, which all have the key (1, 0), so that two queries may
list them differently. An `asset_id` that does not parse is rejected by `StartWalk`'s guard;
database errors change nothing and are left out. `asset_id` of a row of the zero asset is
NULL, so no filter finds such a row, not even one by the zero asset (`Wanted`).

A page size is any `int32`. From 1 to 1000 (`Proper`) the limit and the offset of a query agree. For any
other one the limit is 100 and the offset is still computed from the size asked for: with 0,
none or a negative one the first page comes again and again (a client that stops at an
empty page never stops, until a negative product overflows), and above 1000 the rows between
the hundredth of a page and its end are in no page. The protocol leaves the maximum to the service and
nothing says how such a size is answered, so that `WalkDescends` is about proper
sizes, and `WalkComplete` promises less for the others: every row was seen if all that match
fit one default page (`OnePage`).

`QueryAssumption` has what chainsub guarantees of events: a payload, `big.Int` fields that are
there or not, one asset for all price logs of a contract (`PricesResolved` of `ChainSub`), and keys in the
order of the chain. Block numbers, bounds and log indices are kept below 2^63 and 2^31, where
the casts keep their order, and so is the length of the table.

### Config

Operators only. `InitializeConfig` is what viper makes of the defaults and the
environment (a variable set to `""` counts, an unreadable number is an error, `""` is
zero), then `ApplyEnvOverrides`; `Complaints` is the set of everything `Validate` finds
wrong. The text of an address or a hash is whether it has the shape `Validate` checks (`0x` and a
length), whether it has upper case, the value `HexToAddress` or `HexToHash` makes of it, and
the rest that these ignore: what follows the first digit that is not hexadecimal, nothing if
all are. `Validate` compares lower-cased texts (`AggregatorKey`), the mapping is
made of values (`FromHex`), and no digit is ever checked. So two entries may be different
texts for `Validate` and one aggregator for chainsub, which labels its prices with the asset
of the later. `config/init.go:172` ("One aggregator -> one asset") and `application.go:198-199`
("Validation already guaranteed the hex shapes") say that this cannot be, `init.go:68-74` lets
it be. `ConfiguredAssets` names it as its exception (`MisreadLater`), which the third served
environment of the run reaches. Nothing in the program names a configuration file or
defines a flag, so neither is ever read; every block of the configuration has a default,
so that `Validate`'s complaints about a missing block cannot arise.

### Lifecycle

One process from `main` to the end of `App.Stop`. `environ` is what the process finds,
`scheme` what it reads. `main` and `step` are the main
goroutine: `NewApplication` (a build date may not parse), `ReadConfig`, `ValidateConfig`,
`InitRepository`, `Bootstrap`, `ServeRuntime`, `StartModule` per module,
`Notify`, then after `Signal`: `CancelRuntime`, `ShutdownHub`, a beginning and a return
of each module's `Stop` in reverse order, `StopReturns`. An error of `Init` or
`StartAll` ends in `"failed"` without `Stop`: cobra (external) runs `PostRun` only after a
`RunE` without error, whatever the comment at `cmd/serve/serve.go:30` says. The other
goroutines are reduced to what they wait for: a call for the database, the hub, or its
client; chainsub in an insert or in `Publish` with the copy of the registry it made;
a probe for its ping. `Shutdown` is one step here: `StreamHub` has it in full, and what
matters of its races is kept: `late` are the streams registered after the sweep, and
`PublishPanics` is the send on a closed channel.

## 3. Runs

| Run | Expect | Shows |
| --- | --- | --- |
| `hub_feed` | pass | one publisher: `ImplementsFeed` (refinement), `GapFree`, `OnlyWanted`; and, with no receiver fair, `PublishReturns`, `DropIsSignalled`, `ShutdownSignals` |
| `hub_races` | pass | two publishers, three subscribers at a cap of two, `Shutdown`: `NoDoubleClose`, `NoSilentLoss`, `Bounded`, `TypeOK` |
| `hub_goroutine_safe` | violation | `GoroutineSafe`: a send on a closed channel |
| `hub_shutdown_final` | violation | `ShutdownIsFinal`: a subscription registered after the sweep |
| `stream_replay` | pass | under a reorganisation: `NoBoundaryLoss`, `LiveExtends`, `OnePageInOrder`, `EventuallySent`, `StreamTypeOK` |
| `stream_chronological` | violation | `ReplayChronological`: more than one page |
| `chain_ingest` | pass | `ImplementsLedger` (refinement), `PricesResolved`, `NoneSkipped`, `ListedAggregators`, `OrderedIngest`, `CountsPublished`, `StoredAnnounced`, `ChannelDrained`, `RunStops`, `TypeOK` |
| `chain_persists` | violation | `PersistsEveryObserved`: a failed insert is never retried |
| `queries` | pass | `WalkComplete`, `WalkDescends`, `AnsweredAsObserved`, `AnswersGrow`, `TypeOK` |
| `queries_not_found` | violation | `NotFoundUntilRequested`: a fulfilment alone answers the query |
| `lifecycle` | pass | `ConfiguredAssets`, `CallsHavePool`, `ReadyMeansBound`, `StopIsComplete`, `SignalEndsProcess`, `TypeOK` |
| `stop_timeout` | violation | `StopRespectsTimeout`: the stop of the API waits for a client that does not read, for ever |

The six violations are the findings of `PROJECT.json`; each quotes the line of the
repository it disagrees with. They are kept as runs so that a fix turns them green.

**Bounds.** Hub: `BufSize` 0 or 1, both a buffer of one, so the second event
overflows a reader that did not receive; two events overflow, a third shows what
follows; three subscribers against a cap of two reach the cap with one waiting; two
publishers are what every race between snapshots needs. `Init` chooses every
combination of filters. Stream: three logs of one block, the third with the key of the
second, one of them late, and a page of two rows, so that the replay takes more than
one page, may end on a page boundary, and a tie may straddle it; clients that want
everything and clients that want one kind; `from_block` 0 (live only), the block of the
logs, and one after it; the replay is the same for every subscriber and shares
only the hub with the others, so one subscriber is enough. Chain: two configured aggregators,
so that the bootstrap may die between their rows, and an unconfigured one,
a registration between their logs, an AssetRegistered of the wrong contract, one
redelivery and one restart. `MaxEvents`, `MaxLate`, `MaxAgain`, `MaxRestarts` and `MaxGot` are the
only artificial bounds (the last only ever stops a walk that repeats its first page); sessions, disconnections and failed inserts are unbounded.

Queries: two bootstrap rows of one key, two aggregators that both have a request 1, a
request of one aggregator only, a negative price, the zero asset; page sizes of one row, at
the limit, above it, 0, and a negative one that overflows; filters by kind, an unknown
kind, asset and blocks; `HalfWord` is 16 for 2^31 and `HalfLong` 16 for 2^63, more than any block
or price of these walks and any offset of a proper size.
Lifecycle: two calls, so that one holds up the shutdown while another is served; three
environments a process can serve in (the deployed assets, one entry in upper case, and two
entries that are read as one address) and one for each kind of complaint or error; no other bound.

**Deadlock** is checked in every run but the two of `Queries`, where nothing is left to
do once all rows are there and the walk is over. Elsewhere the only stuttering steps are
`Finished`, of a process that has ended or been killed.

**Fairness.** Weak, and only where Go's scheduler gives it: a goroutine inside a hub
method goes on (`PublisherStep`, `ShutdownStep`, the two halves of `Cancel`), but not
one that waits for a client. No receive is fair in `FairSpec`, so `PublishReturns`
really is independence from consumers. The shutdown lock is released after finitely
many steps and `LockFree` stays true afterwards, so weak fairness is enough for those
who wait for it. `StreamSpec` adds chainsub's publish and a handler whose client takes
what it is sent; `EventuallySent` is about such a client, and ends with the stream. In
`ChainSub` the goroutine's own steps are weakly fair, with no promise about the
outcome of a dial or an insert; calls return because they take the context. In
`Lifecycle` the main goroutine, chainsub inside one log, a handler inside `Subscribe` and
a probe (three seconds) are fair; clients, and the database asked by a call, are not.
`StreamTold` is strongly fair: a closed channel's buffer is finite, so a handler that
goes on receiving meets its end.

**Mutants.** Some definitions are preceded by a faulty variant that nothing uses
(each module's header names them). Put in place of the definition, each makes a
property fail: a forgotten close, a check off by one, a watermark by block.

## 4. Proofs

`StreamHubProofs` proves for every value of the constants (any subscriptions,
publishers, filters, buffer size and cap; `HubAssumption` is all that is assumed):

* `TypeCorrect`: `TypeOK`.
* `ClosedAtMostOnce`: `NoDoubleClose`. Not inductive alone. The invariant treats the
  registry entry as the permit to close: a registered channel is open and its handler
  has not reached its close (`RegisteredOpen`); a handler about to close holds a
  channel that is open and that no publisher is about to close (`HandlerPermit`); a
  publisher about to close is the only one, and the channel is open and unregistered
  (`PublisherPermit`). Every delete is under the lock, so it hands the permit to
  exactly one goroutine.
* `LossIsSignalled`: `NoSilentLoss`. Needs in addition that a handler reading an open
  channel is registered or about to be closed (`ReadersKept`), so that a new snapshot
  contains it, and that a publisher outside a call holds neither snapshot nor victims
  (`Resting`).
* `BoundsHold`: `Bounded`, from the finiteness of the registry.

`ChainSubProofs` proves for every chain, configuration, set of aggregators and number of
redeliveries and restarts. `ChainAssumption` is all that is assumed: price logs come from
aggregators (that is what the filter subscribes to), and an aggregator has one asset, in
the configuration and on the chain.

* `TypeCorrect`: `TypeOK`, with `Ingesting`: a log is under ingest exactly while `pc` is
  "insert" or "publish", Parse understood it, and from "publish" on its row is written.
* `NothingSkipped`: `NoneSkipped`, inductive given `Ingesting`: a step that takes a log
  out of the channel or out of ingest puts it into `rows`, `failed` or `cut`.
* `PublishedOnce`: `ImplementsLedger`. The initial states map to initial states, `InsertNew`
  and an `InsertFails` that wrote map to `Enter`, `Publish` to `Announce`, a `Restart` before
  the publish to `Forget`, every other step to a stutter (`LedgerStep`).
* `StoredIsAnnounced`: `StoredAnnounced`, inductive given `Ingesting`: a row that has just been written
  is the one at "publish", which ends with its announcement, with the death of the process, or
  not at all.
* `PricesLabelled`: `PricesResolved`. Needs `Resolvable`: the mapping is true where it holds
  something, and it holds the aggregator of every watched address and of every price log
  that waits or is under ingest. A filter is never wider than the mapping it was built
  from, the mapping only grows, and a restart empties the channel with it.
* `AggregatorsListed`: `ListedAggregators`. Needs `BootMapping`, that the mapping is the
  configuration's until the table is bootstrapped, and `IngestRemembers`, that a log under
  ingest ends up in `rows` or `failed`.
* `IngestOrdered`: `OrderedIngest`. Needs `InOrder`: stored rows, the log under ingest and
  the waiting logs are in chain order, none of them past the last log emitted.

* `CountersExact`: `CountsPublished`, inductive given `Ingesting`. The log counted and not yet
  published is the one at "publish"; publishing adds its position to a finite set, and a
  restart empties counters and set together.

`EventFeedProofs` proves what a subscriber gets from the hub.

* `OnlyWantedReceived`: `OnlyWanted`, for any number of publishers. Needs that a publisher
  serves only subscriptions older than its event (`Addressed`), and that one that was never
  registered was handed nothing (`NewUntouched`). Together they are `WantInv`.
* `ReceivedGapFree`: `GapFree`, and `FeedImplemented`: `ImplementsFeed`, both with one publisher
  (`OnePublisher`; chainsub's goroutine is the only caller of `Publish`. With two, TLC finds
  both violated: snapshots are served in any order). `OrderInv`: whoever is registered has everything it wanted before the snapshot
  being served, or is in it, or is about to be closed (`RegisteredKept`, `CaughtUp`); what a
  channel took is a prefix of what its subscription wanted (`PrefixAccepted`); the buffer
  is in order and newer than what was received (`BufferInOrder`). In the refinement
  `SubscribeInsert` maps to `Join`, `PublishSnapshot` to `Publish`, a `PublishSend` into the
  buffer to `Hand`, the close of a channel to `Cut`, and every other step to a stutter.

`EventsTableProofs` is about the operators of one query, for every table, filter, limit,
offset and listing. `PageSplits`: a page holds rows of the filter once, highest key first,
and a row that is not on it has fewer newer rows than the offset, or the page is full and
the row comes after it. `PagePlaces`: the place of a row bounds from both sides how many
rows are newer. `Listed` is defined by ranks of places rather than by selecting from a
sequence, since what a recursive definition computes cannot be proved here.

`StreamEventsProofs` composes them. `StreamSpec` implements `StreamHub`'s `Spec` (`StreamsHub`: every step of
the handler is a step of the hub or leaves it alone), so that all the hub's invariants hold
in it as they are (`HubInv`).

* `StreamTypeCorrect`: `StreamTypeOK`.
* `NothingTwiceAcross`: `LiveExtends`. Needs `PubsInv`: each row is published at most once, the
  events of the hub are those of rows, and they are in chain order but for late ones; and
  `HandlerInv`: the watermark is the highest key sent by the replay, and a tail is sent in
  the order of its publication and only past the watermark.
* `NothingLostBetween`: `NoBoundaryLoss`. Needs `ReplayInv`, which says where every row of the
  table is that a replay was asked for: sent, skipped, on the page under way, newer than
  `Subscribe` and after the watermark so that the tail has it, or below the offset. A row
  that is inserted shifts others down the order and none up, so what the next page skips
  was on an earlier one: that is `PageSplits`. Rows of one key are the exception that
  `OutOfOrder` names.
* `OnePageOrdered`: `OnePageInOrder`. Needs `FirstPage`: while no more than `ReplayLimit` rows
  have been replayed they are of one query.

`QueriesProofs` proves, under `QueryAssumption`:

* `TypeCorrect`, `WalksComplete`, `WalksDescend`: `TypeOK`, `WalkComplete`, `WalkDescends`. The invariant
  is `WalkInv`: a row that was there when the walk began and has not been seen is still
  ahead, that is, at least as many rows are newer as the pages so far passed over
  (`NoneMissed`); while nothing is inserted, a row that was seen is behind, with fewer newer
  ones, and rows came in order (`Behind`); and the offset never exceeds the table by more than
  a page (`Walking`). For any other size there is only the first page to rely on: it has offset
  0 and misses a row only if it is full (`FirstPage`).
* `OffsetsExact`: with a proper size the 32-bit product is the offset meant, at every page of
  every walk, from `Walking`.
* `AnswersFaithful`: `AnsweredAsObserved`, from lemmas that each conversion is undone by the one
  on the way back: `SignedSame`, `DecimalsReturn`, `HexReturns`, `PayloadReturns`, `RowReturns`.
* `AnswersKept`: `AnswersGrow`. An answer says of a set of rows what `Tells` spells out, and that
  depends on the set alone, not on the order its rows were joined in (`JoinTells`); a larger
  set says more (`ToldGrows`). The loop over rows is followed by a least counterexample (a set
  of naturals has a least element), which needs no induction over an operator.

`LifecycleProofs` proves for every environment and any number of calls
(`EnvironmentAssumption`, `DefaultsAssumption`: a list of assets that can be read has the
form of one):

* `TypeCorrect`: `TypeOK`, with `NotRunYet`: chainsub runs from `Serve` on.
* `CallsKeepPool`, `ReadyAfterBound`, `StopCompletes`: `CallsHavePool`, `ReadyMeansBound`, `StopIsComplete`, from
  `LifeInv`: what has been started or stopped is known from whose turn it is
  (`StartedSoFar`, `StoppedSoFar`), a call under way has the server, and the server the pool
  (`ServerHasPool`), and the health listener is younger than the socket (`ProbesLater`).
  `StopIsComplete` says of chainsub, which may outlive the 30 seconds, that it is not inside an insert:
  the closing pool waits for that (`InsertsStop`).
* `AssetsAsConfigured`: `ConfiguredAssets`, from `ConfigInv`: after `ValidateConfig` nothing is wrong
  with the configuration, and what is made of it is not changed again. Two entries of one
  address that both have only hexadecimal digits differ in case at most, so `Validate` would have
  found them (`SameKey`); the last entry of an address is the one mapped (`LastPlace`).

Each proof is one lemma per group of actions and one temporal step. With them every
safety property of a passing run is a theorem.

Only model-checked: the liveness properties (`PublishReturns`, `DropIsSignalled`,
`ShutdownSignals`, `EventuallySent`, `ChannelDrained`, `RunStops`, `SignalEndsProcess`), which need
fairness and ENABLED and are out of the prover's reach; and the six properties (`GoroutineSafe`,
`ShutdownIsFinal`, `ReplayChronological`, `PersistsEveryObserved`, `NotFoundUntilRequested`,
`StopRespectsTimeout`) that do
not hold, for which a counterexample is all there is.

## 5. Not modelled

* `pkg/contracts`: 4070 of the 7306 lines of Go are bindings generated by abigen. The
  service uses the ABI of two of them and their filterers, to decode three kinds of log;
  `Records` models the decoded event, and nothing in them keeps state for the service.
* Logging, and the wording of messages: `pkg/logger`, most of `pkg/version` (its error is
  in `NewApplication`), the body of `/healthz`.
* The counter of dropped subscribers, which nothing reads and which records steps of
  `StreamHub` (`CancelDelete`, `PublishRemove`).
* Time: the length of a backoff, the 3 s, 5 s and 30 s of probes and of `Stop`. Each is a
  step that may happen at any moment.
* Functions only tests call: `Manager.InitAll`, `List` and `Count`, `Hub.Subscribers`, `Server.Addr`.
* Postgres and the node: modelled from how the code uses them (unique key, order,
  committed or not when an error is returned; redelivery, disconnection).

## 6. Plan

1. `StreamHub`, `EventFeed`, `StreamEvents` with runs and the hub's theorems (done).
2. `ChainSub`, `EventLedger` with runs (done).
3. `EventsTable`, `Queries` with runs (done).
4. `Lifecycle` with a run (done).
5. `StreamEvents` under reorganisations, rows that share a key; `Records`, `Config` and
   the start of the process; metrics (done).
6. Proofs of the observer: type correctness, its safety properties and the refinement
   of `EventLedger` (done).
7. Proofs of the hub as a feed, of the table's pages, of the stream, the queries and the
   life of the process (done): every safety property of a passing run.
8. Proofs that say more than the runs ask: that `OrderedIngest` of `ChainSub` is what
   `StreamEvents` assumes of late rows, and the same for `PricesResolved` and `Queries`.
