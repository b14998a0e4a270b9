# A TLA+ model of everscale-monitoring

everscale-monitoring runs a light Everscale node and turns the blocks it sees
into Prometheus metrics.  Nearly everything that can go wrong in it happens
between three kinds of actors that share state without one big lock: threads of
the node that handle blocks, the exporter that formats all metrics once per
collection interval, and a task that resolves the addresses of validators.  A
second program, the geoip-resolver, lists the nodes of the network with their
places, from a database that an operator imports.
This directory holds TLA+ modules for those parts, TLC configurations that
check them on small instances, and proofs for TLAPS.

## The system's parts

| part | code | state | operations |
|---|---|---|---|
| average counter | `src/src/utils/mod.rs` | one `AtomicU64`: sum and count | `with_value`, `push`, `reset` |
| shard entry | `src/src/engine/metrics.rs:704-821` | packed seqno/utime/dirty word, average, four totals, `temp_state` | `new`, `update`, `load_temp_state`, `load_seqno_and_utime`, the exporter's loads |
| shards map | `metrics.rs:199-246, 342-394` | `RwLock<HashMap<shard, entry>>` | double-checked insert, forced update with removal of outdated shards, exporter's walk |
| software versions | `metrics.rs:140-161, 431-447` | `RwLock<BTreeMap<version, AtomicU32>>`, twice | count a block, swap the counts out |
| masterchain metrics | `metrics.rs:132-197, 308-340` | totals, shard count, seqno, utime, average | `aggregate_block_info`, `update_masterchain_stats`, readiness check |
| config, elections, validators, IPs, overlays, persistent state | `metrics.rs:162-178, 248-292, 449-568, 574-702, 823-867` | one lock each | replace, guarded replace, insert, clear |
| subscriber | `src/src/engine/ton_subscriber.rs:26-396, 556-603` | `last_config`, `first_mc_block`, watch sender | `new`, `start`, `process_block`, `update_metrics` |
| resolver | `ton_subscriber.rs:398-487` | watch receiver, remaining set, semaphore, round | resolve loop, cancel on a new set |
| elector parser | `src/src/engine/elector.rs` | none | pure parsing |
| start-up | `src/src/main.rs`, `src/src/engine/mod.rs` | engine reference, exporter task, signals | `run`, `Engine::new`, `start` |
| node settings | `src/src/config.rs` | configuration | pure mapping to the indexer's options |
| geo import | `src/geoip-resolver/src/geo_data.rs:11-101, 180-197` | two RocksDB column families | open, clear, put row by row |
| geo resolver | `geo_data.rs:107-178, 278-324`, `lib.rs`, `main.rs:54-118` | snapshot, location cache, temporary file, output file | search, find, adjust, write, rename |
| deployment | `src/contrib`, Docker and Ansible files | none | service files, the dashboard's panels |

### How the parts interact

* **Block handlers.** The indexer (a library) calls `process_block` from its own
  threads, for blocks of the masterchain and of every shard.  A handler runs
  `update_metrics`: it adds to the totals, then takes the masterchain branch or
  the shard branch.  An error is logged and the block is done all the same.
* **Exporter.** Once per collection interval `MetricsState::fmt` walks through
  all metrics.  It takes one lock at a time and reads everything else with
  single atomic operations, so a report is no snapshot.  Some metrics are
  consumed by reading: averages are reset, gas samples taken, version counts
  swapped to 0, the dirty flag of a shard cleared.
* **Resolver.** A task that receives validator sets through a
  `tokio::sync::watch` channel and fills `validator_ips`.
* **Start-up.** The exporter is running before there is a node, the subscriber
  reads the last key block before the indexer applies blocks.  Nothing but the
  node's own database survives a restart.  A termination signal drops the start,
  or the running node, wherever it waits.
* **Geo import and resolver.** Separate commands that meet in the database only.
  A service runs the resolver again and again; its output replaces the last one
  by a rename, for a web server to serve.

### What is hard, and what makes each part correct

| part | hard behaviour | correct when |
|---|---|---|
| average counter | two numbers in one wrapping word | no push is lost, no carry from the count into the sum |
| shard entry | update and export interleave field by field, in different orders, without a lock | samples are exported once; word never torn; totals next to a seqno cover the blocks before it; a seqno is not held back by its flag |
| shards map | read lock dropped before the write lock is taken; splits and merges in any order of first blocks, some of which fail; writers shut out readers | no sample lost; a part of the workchain that has an entry keeps one; outdated shards go, unless the first block that should remove them is missed; no thread is stuck |
| software versions | same race, and a swap by the exporter | each block exported once, and some day |
| masterchain numbers | stored and loaded one by one, not ready at first | a report that says ready is one of a whole masterchain block |
| subscriber | every step may fail in the middle, restarts, a key block from `start` that is ahead | what is published is up to date unless reading it failed |
| resolver | cancellation between awaits, permits, channel that keeps the newest value only | no late address, nobody forgotten, no set missed, the task ends |
| subscriber and resolver together | sets sent, replaced, cancelled and resolved while blocks fail and the process restarts | the addresses shown come to be those of the validators shown |
| a report | the exporter's reads under one lock each, between a handler's writes under one lock each | nothing in it is newer than the key block it names |
| start-up | failure, hang or signal at any step, with the exporter running and blocks coming | a ready report has the node's gauges |
| geo import | failure or kill between any two operations on the database | rows of one file in a table; importing again repairs what is left; an address gets the row of its range |
| geo resolver | kill between two writes, imports meanwhile; a closed formula with a rounded root for the spiral | the output is whole, and refreshed; nodes of a place get distinct cells, near to it |

`PROJECT.json` lists the hazards one by one with the source line each bites at.

## Modules

| module | models | role |
|---|---|---|
| `AverageSpec` | what an average promises | abstract specification |
| `AverageValueCounter` | `utils/mod.rs` | refines `AverageSpec` |
| `ShardState` | one entry of the shards map | component |
| `RwLock` | `parking_lot::RwLock` (external) | instantiated by `ShardMap`, `SoftwareVersions` |
| `ShardMap`, `MCShardMap` | the shards map, and its symmetry for TLC | component |
| `VersionTally` | what the version counters promise | abstract specification |
| `SoftwareVersions` | `BlockVersions` and its lock | refines `VersionTally` |
| `McStats` | totals and masterchain numbers | component |
| `Subscriber` | `TonSubscriber::start` and the masterchain branch | component |
| `Watch` | `tokio::sync::watch` (external) | instantiated by `Resolver` |
| `Resolver` | `resolve_node_addresses` | component |
| `Startup` | `CmdRun::execute`, `Engine::new`, `Engine::start` | instantiated by `Pipeline` |
| `Pipeline` | the process: start, subscriber, resolver, end | composes `Startup`, `Subscriber` and `Resolver` |
| `Report` | the exporter's reads of what the subscriber publishes | composes `Subscriber` with `MetricsState::fmt` |
| `GeoImport` | `GeoDataImporter`, the lookup of `Resolver::find` | component |
| `LocationCache` | `LocationCache::adjust`, `spiral` | extended by `GeoResolve` |
| `GeoResolve` | `CmdResolve`, `search_nodes` | component |
| `...Proofs` | theorems about the module of that name; `SubscriberProofs` covers `Subscriber`, `Report` and `Pipeline`, `GeoProofs` covers `LocationCache`, `GeoResolve` and `GeoImport` | proofs |

### State and actions

* **AverageValueCounter.** `word` is the `AtomicU64` with halves of modulus
  `Half`; `Push` is the wrapping `fetch_add`, `Reset` the `swap`.  The division
  of `reset` stays a pair of numerator and denominator.
* **ShardState.** One action is one atomic operation or one critical section of
  `temp_state`.  A handler goes `store`, `push`, the four totals, `temp`; the
  exporter goes `gas`, `seqno`, the four totals, `avg`.  An additive counter is
  represented by the set of blocks added to it, so that a loss and a repetition
  both show; the packed word keeps its flag as an addition to the time, and
  masks it by `%`, as the bit operations do.  Deltas such as transaction counts
  have no value.
* **ShardMap.** A shard is its path of split decisions.  An entry is the number
  of its samples that were not exported.  `live` and `first` are the chain's
  own state (external): which shards there are, and which still have to bring
  their first block, with `after_split` or `after_merge` set.  `LockRead`,
  `LookupHit`, `LookupMiss`, `LockWrite`, `Insert` are `update_shard_chain_stats`;
  `LockWrite`, `ForceUpdate` are `force_update_shard_chain_stats` with the
  removal of outdated shards in the same critical section.  The exporter's walk
  is `BeginWalk`, `Visit`, `EndWalk` under the read lock.
  A first block may instead be missed (`SkipFirst`): it comes without a state
  (`ton_subscriber.rs:578-581`), or reading it fails (117-194, 388) and the error
  is logged (583-589).  No other block removes entries, so the parent or the
  halves stay; the history `left` holds the entries left behind this way, each
  until it is removed after all or its own shard has a first block again.  A
  block that is no first one and fails changes nothing in the map and is no step.
  The module has one workchain.  The code's key is the shard's prefix and tag
  without the workchain (`ton_subscriber.rs:115`), so that two workchains would
  share entries, which no property covers.
* **SoftwareVersions.** The same lock protocol around counts.  `Swap` writes a
  count and leaves 0.  There are two maps, one for masterchain blocks and one
  for shard blocks; the module is either of them, they are handled alike.
* **McStats.** A number is represented by the block it came from, a total by the
  set of blocks in it.  `Store` goes through shard count, seqno and time in the
  code's order, `LoadUtime` and the loads through the exporter's.  `Skip` is a
  block that comes without a state or cannot be read; `ReturnEarly` one that
  fails between the totals and the numbers (`ton_subscriber.rs:222-237`) and is
  in the totals only.
* **Subscriber.** A masterchain block is its number, whether it is a key block
  and whether it pays the elector; published data is the block it came from.
  The actions follow `update_metrics`: `Begin`, elections, config, validators,
  sending to the resolver, overlays; each has the failures its `?` operators
  have, and an action's failure returns from the handler with whatever was
  changed before.  `Start` is `start` with the key block found, if any; `Crash`
  ends the process anywhere.
* **Resolver.** The round's futures are polled inside one task, so what happens
  between two awaits is one step.  `Acquire` takes a permit, `Found` and
  `NotFound` end a lookup, `EndRound` returns or sleeps, `Changed` drops the
  round and its permits when a new set is there, `Stop` when the sender is gone.

* **Report.** Three reads, of overlays, validators and config metrics in the
  order of `fmt`, between any steps of the subscriber.
* **Startup.** `stage` goes through `execute` and the functions it awaits, one
  step for each await or side effect; `Fail` and `ReceiveSignal` lead to
  `ending`, where the future is dropped with what it owns of the node while
  spawned tasks still run; `DropRuntime` and `Kill` end the process, and
  `Restart` runs it again, with or without `--run-compaction`.  A signal may be
  seen at each await and need not be: `select!` does not poll it while the start
  runs on without awaiting, and dropping the runtime waits for blocking tasks
  that have started, so that nothing is said of when the process ends.
* **Pipeline.** The variables and actions of `Subscriber`, `Startup` and
  `Resolver`, the channel's value being `validators_to_resolve`.  Three kinds of
  step are of several parts at once: `StartBoth` leaves the start's stage
  `subscriber`, loads the config and spawns the resolver; `SendSet` is a step of
  the handler and of the channel; the end of the process (`Lost`) takes what
  each part had.  Blocks are handled from the node's start on until it is
  dropped.  The config of key block k has validator 0, as all have, and
  validator k.
* **GeoImport.** `cfs` is the database: a function from the column families
  there are to functions from keys to rows.  A file is the set of addresses its
  rows begin at.  One operation on the database is one action (`DropCf`,
  `CreateCf`, `PutRow`), and `Fail` may come after each.  Keys are sequences of
  bytes and compared as such.
* **GeoResolve.** `files` has the lines of the files there are.  `Start` opens
  the database and takes the snapshot, `ScanOverlay` adds what a search finds,
  `OpenTemp`, `WriteNode` and `Rename` are the file operations; `Reimport`
  changes the database at any time, `Fail` ends the run at any step.
  Peers are counted by their place.  Each line moves its node with `adjust` of
  `LocationCache` if the database has a location for it; the cache goes with the
  run (`DropCache`).
* **LocationCache.** `spiral` as in the code, side by side; the rounded root of
  the code, `ceil((sqrt(n) - 1) / 2)`, is the least ring that holds n cells,
  `Ring(n)`.  Coordinates count steps from the place.

Memory order is not modelled: the atomics of `metrics.rs` use `AcqRel`, `Acquire`
and `Release` or locks around them, and the modules take atomic operations as
sequentially consistent.

## Runs

| run | configuration | asks |
|---|---|---|
| `average_counter` | half of 5 bits, 10 pushes of 0, 1 or 3 | does the packed word act as an unbounded sum and count? |
| `shard_entry` | one handler, 4 blocks | are samples counted once, what do reports show, does everything get exported? |
| `shard_map` | two handlers, splits two levels deep, one sample due | which entries are there while shards split and merge, a first block is missed and the process restarts? |
| `shard_map_live` | two handlers that may be on one shard, splits of one level | does the race for a new entry lose a sample, does every thread get the lock, do outdated shards leave that no missed block left behind? |
| `software_versions` | two handlers, two versions, 2 blocks each | is each block exported, once? |
| `masterchain_stats` | masterchain thread and one other, 3 blocks, each of which may fail | is a ready report coherent, is a count averaged once if its block got so far and else never, is the last good block shown? |
| `subscriber` | all chains of 4 blocks, all failures and restarts, the exporter reading meanwhile | is what is published up to date, is anything in a report newer than its key block? |
| `subscriber_first_block` | 2 blocks | does the first block publish the validators, as a comment says? (it does not) |
| `resolver` | two validators, one permit | are addresses those of the current set, is every set taken up and resolved? |
| `pipeline` | one process after another, all chains of 2 blocks, one permit, failures, signals and kills anywhere | does a ready report have the node's gauges, are the addresses shown those of the validators shown once the resolver has taken them up, do they come to be so? |
| `geo_import` | two files, two tables, two bytes of two values | is a table of one file, is a lookup right, does importing again repair? |
| `geo_resolve` | none, one or 50 peers at a place, two states of the database and an unreadable one | is the output always whole, is it refreshed, are the cells distinct and near? |

### Bounds, and why they are enough

* `Half = 32` stands for 2^32.  The pushes allowed between two resets bring the
  sum to 30, the last value but one that fits; `WidthAssumption` states what the
  code relies on, and the theorems hold for every width.
* `Genesis = 10`, `DirtyFlag = 16` stand for Unix time and 2^31.  The times 11
  to 14 use the bits below the flag, so a mask that is one bit off is seen.
  `ShardAssumption` says that the time stays below the flag, which is true until
  2038.
* Blocks: `ShardState` needs one block in the entry from `new`, one being
  handled, one handled since the last export and one to follow; `Subscriber`
  needs a key block, a failure, a block that makes up for it and one after.
  All chains of 4 masterchain blocks are initial states.
* Threads: every race in the code is between two handlers, or between a handler
  and the exporter.  The indexer handles the blocks of one chain one after the
  other, so `shard_entry` with one handler is the system as it runs.  `Serial`
  guards the properties which depend on that; the others, `GasSamplesOnce`,
  `AverageSamplesOnce` and `SeqnoWithItsUtime`, are theorems for any number of
  threads in `update`.
* `MaxDepth = 2` has a split below a split and a merge beside one (the protocol
  allows 60).  Handlers are interchangeable and symmetric in the safety runs.
  `shard_map_live` uses depth 1 and no symmetry, and lets blocks of one shard
  overlap, so that two threads can race for one entry.  `MaxSamples` bounds the
  samples due when a block arrives; more of them make no thread act differently.
  `MaxMissed = 1` lets any one of the first blocks between two restarts be missed,
  that of a half or of a whole, while the others are handled before and after it; the
  theorems hold for any number.
* `MaxParallel = 1` with two validators makes lookups wait for a permit;
  sets include those whose validators have no adnl address, and the empty set.

* `Pipeline` has two key blocks at most, so that a set is replaced in the
  channel while the first is being resolved, and validators that leave, stay and
  come.  In `subscriber` the parts of a report may be of four configs.
* `GeoImport`: two bytes of two values each are the least for which an order of
  bytes can differ from that of numbers.  One file begins at the first address
  and one does not, they share a range and differ in others; imports may follow
  each other without end.
* `GeoResolve`: `Rounds = 1` searches each overlay once instead of ten times;
  repeating adds peers to the same set only.  Two readable states of the
  database tell a list made from one from a mixture.  50 peers at a place fill
  three rings and begin the fourth, so that every corner and every passage
  between rings occurs; the theorems hold for any number of peers and places.

`CHECK_DEADLOCK FALSE` is set in `Resolver.cfg` only, where a behaviour really
ends: the task ends when the channel is closed.

### Fairness, and what the code does to justify it

* The exporter runs once per interval in an endless loop: weak fairness of its
  next step.  A thread that handles a block is running: weak fairness of its
  next step.  Nowhere is it assumed that another block comes.
* The lock is fair in the long run (`parking_lot` hands it over fairly from time
  to time): strong fairness of getting it.  Weak fairness would not do, since
  the lock is taken and released by others meanwhile.
* `shard_map_live` takes it from the chain that the first block of a new shard
  is applied some day, be it handled or missed.
* The resolver's task is polled when it can go on, and `find_address` returns,
  with an address or without.  That it returns *with* one if asked often enough
  is not part of the fairness, it is an antecedent inside `AllResolved`.

* `Pipeline`: the indexer awaits the handler of a block it hands over, and the
  resolver is polled as above.  That the DHT finds each validator if asked often
  enough and that ends of the process cease are antecedents inside the property.
  Nothing says that a step of the start ends, that a signal is seen or that the
  runtime gets dropped, so no step of `Startup` is fair.
* `GeoImport`: the command runs on once started.  That the operator runs it
  again and that failures cease are antecedents inside `ImportRepairs`.
* `GeoResolve`: `contrib/geoip.native.service` has `Restart=always`, and queries
  to peers time out, so the command's next step is weakly fair, its start
  included.  That failures cease and the database is readable are antecedents
  inside `OutputRefreshed`.

### What is assumed of code outside `src/`

* `ton_indexer` applies the blocks of one chain in order and one at a time, does
  not apply a shard's block after the change that ends it, and applies the
  blocks of all shards a masterchain block names before the next one's; so both
  halves of a split have had a block before either is replaced.
* The last key block that `start` finds may be newer than the blocks applied
  after the start.
* A waiting writer of a `parking_lot::RwLock` shuts out new readers.
* A `watch` channel keeps the newest value, and `changed` reports a value sent
  before the sender was dropped.
* Nothing in the resolver is spawned, so dropping the round drops lookups and
  permits in one step.
* The ranges of a CSV file are contiguous and in ascending order: the code
  stores their beginnings only.  Both tables are imported alike.
* RocksDB applies one operation whole or not at all and keeps what it applied;
  a database opened to read shows the state it had then.
* One resolve runs at a time.  A rename replaces the file in one step.
* The square root of a count of nodes is near enough to round to the right ring,
  as it is for counts below 2^52; equal coordinates have equal canonical keys.
* `Report` lets the exporter report parts before the first block has its time,
  where the code's report is empty: more behaviours than the code's, not fewer.

## Theorems

All are proved by TLAPS for every value of the constants that satisfies the
assumption named in the component's module.

| module | theorem | invariant behind it |
|---|---|---|
| `AverageValueCounterProofs` | `HalvesStayApart`, `Implements` | `TypeOK /\ HalvesApart`: the number of pushes bounds the sum, so that neither half spills; the proof is about division and remainder of the word |
| `ShardStateProofs` | `TypeCorrect`, `GasOnce`, `AverageOnce`, `TimesMatch` | `CountInv`: besides the three properties, that two busy threads have different blocks (`BlocksApart`, else a block could be added twice) and that the word holds the time of its seqno (`WordConsistent`) |
| `ShardStateProofs` | `TotalsCover`, `NothingHeldBack`, `Forward` | `SerialInv`, for one handler: the word has the newest seqno (`NewestStored`), a total lacks at most the block in hand (`TotalsComplete`), a report under way covers what its seqno promises and what the last one showed (`ReportsCover`), and the flag is set exactly if the seqno was not taken yet (`FlagMeansNew`) |
| `ShardMapProofs` | `TypeCorrect`, `NoSampleLost`, `CoverageKept` | `TypeOK /\ WalkHoldsLock`: the exporter's walk stays within the map only because it holds the read lock and a writer needs no readers |
| `ShardMapProofs` | `NeverStuck` | `WriterHasEntryToMake`: only a handler at the write lock shuts readers out; with `TypeOK`, by which a reader is the exporter or looks its shard up, nobody waits for himself or in a circle |
| `ShardMapProofs` | `NoOutdatedLeft`, `OverlapOnlyInSplit` | `MapInv`: live shards are an antichain (`Antichain`); blocks in hand are of live shards, a first block before the others (`TasksLive`); an entry of a shard that is not live, unless a missed block left it behind, has halves of which one is still to come (`Halved`) or a whole that is still to come (`Joined`); and, without overlap, only a first block makes an entry (`FirstMakesEntry`) |
| `SoftwareVersionsProofs` | `TypeCorrect`, `Implements`, `CountedOnce` | `TypeOK`, with the lock and the walk in it; the count of threads in hand goes through cardinalities |
| `SoftwareVersionsProofs` | `NeverStuck` | `WriterHasVersionToAdd`, as for the shards map |
| `ResolverProofs` | `TypeCorrect`, `NoLateAddress`, `AllAccountedFor` | `IInv`: the properties together with `RoundsApart`: lookups exist within a round only, and a first round starts from nothing |
| `ResolverProofs` | `NoSetMissed` | `WorksOnNewest`: without a notification that is unseen the task has the newest set, at every position but the one before it looks |
| `McStatsProofs` | `TypeCorrect`, `Coherent`, `SamplesOnce` | numbers are stored in the code's order, so each is at least the next (`NumbersInOrder`); totals are added before numbers (`TotalsInOrder`); a report under way that saw a time covers its block in all it read since (`ReportsCover`) |
| `McStatsProofs` | `ReportsAdvance` | `ReportsInOrder`: what the report under way has read lies between the last report and the present numbers, which only grow |
| `SubscriberProofs` | `TypeCorrect`, `ElectionsCurrent`, `ValidatorsCurrent`, `OverlaysCurrent`, `MetricsAdvance` | for each of elections, validators and config what holds at every position of the handler (`ElectionsKept`, `ValidatorsKept`, `ConfigKept`), that the two parts of the config metrics agree unless reading failed (`MetricsTogether`), and that nothing is newer than the key block's seqno (`NothingAhead`) |
| `SubscriberProofs` | `NothingAheadShown` | `NothingAhead` and `ReadNotAhead`: what the exporter has read is not newer than what it will read, since the seqno only grows |
| `SubscriberProofs` | `ProcessImplementsSubscriber` | a simulation: each step of the process is one of `Subscriber` or leaves its variables alone; the start is `Start`, the end of the process `Crash`.  No invariant is needed |
| `SubscriberProofs` | `ReportsWhole` | `StagesInOrder`: from the subscriber's start on there is a node, and from the end of `Engine::new` on its reference is set |
| `SubscriberProofs` | `ResolverOfProcess`, `AddressesAgree` | `PipelineInv`: besides `StagesInOrder` and the subscriber's invariant, that the resolver and the subscriber come and go together (`TogetherUp`), that the channel holds the validators shown except before a send and the resolver works on what the channel holds unless it was told (`SetPassedOn`), and the resolver's own invariant, from the theorems' lemmas of `ResolverProofs` instantiated with the channel as its input |
| `GeoProofs` | `NodesApart`, `NodesNear` | the n-th cell lies at depth `Ring(n)`, so that nodes of different rings differ; within a ring the four sides of the formula are disjoint and injective; and `Ring` never decreases |
| `GeoProofs` | `OutputWhole` | `LinesAndTodo`: lines written and nodes still to write are together all nodes, and what is written is of the state of the database that was opened |
| `GeoProofs` | `TablesOfOneFile`, `LookupsRight` | `ImportInv`: a table is the beginning of a file (`TablesBegun`), one that was imported whole is all of it (`TablesWhole`), and the rows of the table in hand precede those to come (`RowsInOrder`), whether it was cleared before or is new.  Lookups need that bytes of different addresses differ and are in the order of the addresses (`KeysApart`, `KeysInOrder`) |

`NoOutdatedLeft` and `OverlapOnlyInSplit` say that a missed first block is the
only reason for an entry to be outdated for good.
`NoOutdatedLeft` holds with `Overlap` and without; `OverlapOnlyInSplit` states
the property for `Overlap = FALSE`, which is how the indexer applies blocks.
`CoverageKept` goes through the geometry of shards: a part below a removed shard
is below one of the entries that replace it, for splits of any depth.
`NoSampleLost` and `CoverageKept` hold with `Overlap` and without, and for every
set of threads; `SamplesOnce` holds for any number of threads in `update`.

The proofs about shards rest on geometry that is proved first: a half lies
below its whole and has no other parent, below a shard are its halves and what
lies below them, above a half its whole and what lies above it.

`ProcessImplementsSubscriber` carries the theorems about `Subscriber` over to
the process as a whole, where the subscriber starts late, may be dropped at any
step and shares its memory with the resolver.  `ResolverOfProcess` does the same
for the resolver: `Resolver` takes its sets from anywhere, the process from the
subscriber only.

Three liveness properties have a safety part that needs no fairness and is a
theorem.  Where the resolver has settled it has settled on the newest set
(`NoSetMissed`, for `SetTakenUp`) and on the validators shown (`AddressesAgree`,
for `AddressesOfShownValidators`); that it settles is left to TLC.  Readers and
writers never wait for each other, whatever the number of threads (`NeverStuck`,
for `HandlersFinish`); that the lock comes round to each thread is left to TLC.
The formulas of these theorems and of `ReportsAdvance`, and the invariants
behind them, were checked by TLC on the instances of the runs before they were
proved.

Only model-checked: the liveness properties `HandlersFinish`,
`OutdatedShardsLeave`, `BlocksEventuallyExported`, `BlockEventuallyShown`,
`ImportRepairs`, `OutputRefreshed`, `SeqnoEventuallyExported`,
`GasEventuallyExported`, `SetTakenUp`, `AllResolved` and
`AddressesOfShownValidators`, since fairness and `ENABLED` are beyond the prover;
and the finding, a violation.  Every other property of a passing run is a theorem.  No module
declares a `RECURSIVE` operator and no theorem needs an induction over data.

## Finding

`ton_subscriber.rs:295` says *"Update validator set only for key blocks of the
first mc block"*.  `first_mc_block` is cleared at line 269, before the
handler looks for a config.  If `start` found no key block (line 83) and the
first masterchain block is no key block either, `update_metrics` returns at
line 280, and neither validators nor their addresses are published before the
next key block.  `subscriber_first_block` shows it.

Observations that no run shows:

* `main.rs:82` says *"Return early for special cases"* of the branch for
  `--run-compaction`.  The branch returns nothing: after the compaction the
  engine starts as in every run (`TriggerCompaction` leads to `subscriber`).
* `config.rs:44` says that old shard states *"will be removed every 10
  minutes"*.  The options made from the setting have an interval of 3600 seconds
  (line 92).
* The dashboard's panels of software versions take the exported value for a
  counter: *"increase(frmon_sc_software_version[1m])"*
  (`contrib/dashboard.json:757`).  The exporter swaps the counts for 0
  (`metrics.rs:432, 441`), so that the value is the number of blocks since the
  last collection, and a steady stream of blocks has an increase of 0.
* `last_transaction_lt` of the elections is compared with and never stored
  (`metrics.rs:835`).
* The samples of a shard's last blocks go with its entry when it splits or
  merges between two collections (`metrics.rs:236`).
* A first block after a split or merge that comes without a state, or whose
  reading fails, is logged and done (`ton_subscriber.rs:578-589`).  Its parent or
  halves are then exported beside it until they are live again, the first block
  of the other half removes the parent after all, or the process restarts (`left`
  of `ShardMap`).
* A masterchain block whose shards cannot be read (`ton_subscriber.rs:222-237`)
  is in the totals, but its number, time and transaction count are not shown.
* The spirals of two places that are nearer to each other than their nodes are
  many overlap (`geo_data.rs:290`).

## Not modelled, and why

* The elector parser (`elector.rs`) and the counting of messages and
  transactions (`ton_subscriber.rs:125-205`): decoding without state.  Their
  outcomes, with the failures, are choices of `Subscriber`.
* The session hash and overlay id (`ton_subscriber.rs:330-360, 489-573`): a hash
  of what the block names; `Subscriber` keeps which block and which config an
  overlay is computed from.
* Node settings: a mapping of fields.  Creating the
  keys and the database folder is the step `BuildIndexerConfig` of `Startup`.
* Formatting, labels, the columns of imported rows: data that no property is
  about.
* Persistent state, the collators of the `venom` feature, gauges copied from the
  indexer: replaced or read whole, in one step under one lock.
* The DHT and the overlays that the resolver searches (external), beyond that
  they may find anything and fail at any time.
* Dashboard panels, Docker and Ansible files: no code of the system.

## Plan

Everything of the plan is done: the components above, their compositions, and a
theorem for each safety property of a passing run.  What would come next:

1. Safety parts of more liveness properties: that an entry which has samples is
   reached by every later walk, and that a failed import leaves a state from
   which each file can be imported.
2. Three handlers in `shard_map_live`, when two workchains are followed.
