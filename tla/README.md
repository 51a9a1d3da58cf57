# A TLA+ verification project for ddi

`ddi` copies rows from a Delta table (or a Kafka topic) into a Delta table,
exactly once, with no state of its own: the only durable offset is a `txn`
action in the target's log, written in the same commit as the rows. This
directory models that mechanism and the parts around it, checks them with TLC
on small instances, and proves with TLAPS, for all values of the constants,
that the daemons of a Delta pipeline and the members of a Kafka group deliver
every row exactly once, that reading the offsets back finds the newest, that
the guarded compaction keeps every row, that a commit lands in no target
but its own, and of the supervisor, the catalog, publishing, table opening,
lookups, once-mode, the start plan and the registry what their parts of a running
process promise.

Paths below are relative to the repository root.

## 1. Inventory

| component | source | state it keeps | operations | what makes it correct | modules |
|---|---|---|---|---|---|
| Delta pipeline | `src/pipeline.rs` | table handles, publish chain, coverage window | `open_with`, `step_delta`, `process`, `commit` | every row once, no gap, no reject lost | DeltaPipeline, ExactlyOnce |
| log stream | `src/source/*` | `cursor` (a commit boundary) | `next_batch`, `latest_version` | a batch never skips a commit; it fits the budget | DeltaPipeline, MemoryBudget |
| offset store | `src/offset.rs` | none: reads the target's `txn` | `last_committed_version`, `resume_cursor`, `txn_version_for` | resumes exactly after what is stored | DeltaPipeline |
| sink | `src/sink.rs` | target handle | `write`, `write_merge`, `refresh`, cleanup | rows and offset in one commit | DeltaPipeline, Upsert, TargetGuard |
| data-quality table | `src/dq.rs` | its handle | `open`, `write`, `write_kafka`, `landed` | no reject lost; twice only where announced | DeltaPipeline, KafkaDq |
| dbt handover | `src/dedup.rs`, `src/dbt/watermark.rs` | cut-off, window | detect a rebuild, rescan, replaced source | no gap and no duplicate after a rebuild | Handover |
| upsert, staging | `src/upsert.rs`, `src/stage.rs` | none | merge in a window, replan | one row per key, the newest | Upsert |
| publishing | `src/publish/*` | `prev_published_through`, breaker | `send`, near-time reader | a client notices what it missed | PublishChain |
| lookups | `src/lookup.rs` | expected identity | `snapshots`, policies | a retry joins the same rows | Lookups |
| supervisor | `src/main.rs`, `src/error.rs`, `src/gate.rs` | backoff, stop flag, permits, gauges | `drive`, `attempt`, `drive_near_time`, `run_all` | recovers, stops, tells the truth | Supervisor |
| table location | `src/locate.rs`, `src/trino.rs` | last known locations | `resolve`, follow | steps where the table is | Locate |
| table opening | `src/storage.rs` | none | `open`, replay, older versions | never a table with rows missing | TableOpen |
| memory, spill | `src/budget.rs`, `src/spill.rs` | measured ratio, disk counter | `install`, size a batch, spill | within one budget | MemoryBudget |
| grain, stats | `src/grain.rs`, `src/stats.rs` | none | uniqueness scan, file bounds | exact in bounded memory | GrainCheck, Handover |
| compaction guard | `src/compact.rs` | last version checked | check and put a commit | no row doubled or resurrected | Compaction |
| Kafka step | `src/kafka/{step,partitions,rebalance,context,mod}.rs` | per-partition state, buffer, held batch, events | poll, close, commit, hold, retry, assign, revoke, once | every commit goes on from the stored offset | KafkaPipeline, KafkaEvents, KafkaLag, TargetGuard |
| offset fence | `src/fence.rs` | bases, carried flags, handle version | refresh, verify, `read_txns`, takeover | the newest offset, in its own table | KafkaPipeline, OffsetLookup, TargetGuard |
| Kafka start, commands | `src/kafka/{start,plan,setoffsets,tools,clone}.rs` | none | era, start, `plan`, `set-offsets` | the preflight foretells the open | KafkaPipeline, KafkaPlan |
| Kafka decoding | `src/kafka/{decode,registry,conform}.rs`, `decode/wire.rs` | decoders, schema cache, union | message to row or reject | each message accounted for once, as its own row | KafkaDecoder, Wire, SchemaRegistry, SchemaUnion, Conform |
| configuration | `src/config.rs`, `src/config/kafka.rs` | none | resolve, conflicts, settings layers | what runs does not collide | ConfigResolve, KafkaSettings |
| schema coercion | `src/schema.rs` | none | cast, quarantine | no value changed in silence | Coerce, ArrowTypes |
| transforms | `src/transform/*` | cache of planned bodies | validate, rewrite, isolate | what runs is what was written | QueryRules, Isolation, Lambda, Unnest, Decimal |
| metrics | `src/metrics.rs` | gauges, counters | observe | | Supervisor, KafkaLag |

How they interact: the supervisor runs one task per pipeline and answers any
error by waiting and opening the pipeline again. A Delta step asks the stream
for a batch, transforms it, writes rejects to the data-quality table and commits
rows and offset to the target through the sink, then publishes. A Kafka step
polls librdkafka, admits messages per partition, decodes them, closes a batch and
commits it through the same `process`, with the fence deciding which `txn`
actions the commit carries; rebalances are deferred to the main loop. Pipelines
of one process share the gate, the budgets, the schema cache and the locator.
Different daemons, dbt, compactions and operators meet only in the Delta logs of
the shared tables.

What is hard: a crash between two commits of two tables; a commit that lands
and is not acknowledged; two daemons on one `app_id`; log retention and log
cleanup under a running read; rebuilds of the target and replacement of the
source; Kafka rebalances with a batch in hand; offsets moved by an operator;
caches that outlive what they were filled from. `PROJECT.json` lists each as a
hazard at its line.

## 2. Modules

A Delta table is the sequence of its commits, and a handle the length of the log
it has loaded. A commit planned on a handle is refused when a later commit wrote a
`txn` with one of its appIds (delta-rs's `ConcurrentTransaction`), and otherwise
appended: that is all ddi relies on. Definitions marked external in `PROJECT.json`
stand for delta-rs, the Delta kernel, librdkafka, the consumer group, Arrow,
DataFusion, the object store, the catalog, other engines, dbt and the producers.
The map of `PROJECT.json` names the code behind the definitions that carry the
behaviour of each module; small auxiliaries beside them have no entry of their own.

Each component has a module with its variables, one action per operation, `Spec`
(and `FairSpec` where something must happen in the end), and its properties. The two
that carry the exactly-once promise, DeltaPipeline and KafkaPipeline, have MC modules
with several configurations each. The others are checked in **suites**: `MCRuntime`,
`MCData` and `MCProgress` instantiate each component, some more than once with other
constants, and put the instances side by side. A suite's state is that of `Pool`:
`part` names the instance a behaviour is about and never changes, `v1`, `v2`, ... are
that instance's variables in the order of its declaration, and the rest are off. The
instances of a suite never act on one another; a property of a suite is a conjunction
over its instances (`part = "guard" => Dq!Guard!TargetGuarded`), so a run covers all
reachable states of all of them. `MCRuntime` holds the parts of the running process the
proofs are about, and instantiates the modules of their proofs (`Versions!Where` is the
Locate of OffsetLookup_proofs), so that MCRuntime_proofs can cite the theorems.
`MCData` holds what happens to tables and rows, and the settings.

Four modules of proofs prove of more than the component they extend: KafkaDq_proofs of
TargetGuard (`Guard`), TableOpen (`Opening`) and Compaction (`Compacting`),
OffsetLookup_proofs of Locate (`Where`), PublishChain (`Chain`) and KafkaLag
(`Reader`), KafkaEvents_proofs of SchemaRegistry (`Registry`) and KafkaPlan
(`Preflight`), Supervisor_proofs of Lookups (`Enriching`). Each guest has constants
and variables of its own there and shares only those of the same name and meaning with
its host; no proof relates the two.

### The Delta side

**DeltaPipeline** (with ExactlyOnce and DeltaPipeline_proofs): the daemons of one
append pipeline with its three tables.

| state | code |
|---|---|
| `source`, `tail` | the source's log; the oldest version retention has left |
| `target`, `dq` | commits as `[txn, rows]`; `rows` is the set of source versions whose rows (or rejects) a commit holds |
| `pc` | where the daemon is: down, opening, idle, in `next_batch`'s loop, with a batch, about to commit |
| `cursor`, `readable`, `scan`, `files`, `nfiles` | `LogStream::cursor` and the locals of `next_batch` |
| `seenT`, `seenD` | the handles on the target and on the data-quality table |

A source commit is its class (`classify`), its number of Adds, whether one has a
deletion vector, and whether its rows include some the target takes and some it
refuses. `OpenTarget`/`OpenDq` are `open_with`; `Poll`, `SkipCommit`, `TakeCommit`,
`EndBatch`, `EndEmpty` and `StreamError` are the branches of `next_batch`;
`SkipRejects`, `WriteRejects`, `WriteRejectsUnacked` and `RejectsFail` are the
data-quality write; `CommitBatch`, `CommitConflict` and `CommitUnacked` the commit.
Every error is answered as `drive` does, by forgetting the daemon's state and
opening again. Several daemons on one `app_id` are the misconfiguration the
repository's README says stays correct. `ExactlyOnce` has a position, a count of
copies per published item and the set of recorded rejects; one step moves the
position and applies everything it passes exactly once. `Implements` maps
`DeltaPipeline`'s tables to it.

**Handover**: where a pipeline resumes when dbt rebuilt its target or its source
was replaced, and what it filters as already there. A row has a partition and a
timestamp in half milliseconds; a file has bounds that may be truncated to the
millisecond or missing. Opening is one action per read (target state, watermark,
cut-off, source identity), so that a rebuild lands in between. Rejects, two
daemons, retention and NULL timestamps are left out.

**Upsert**: `Window::plan`, `collapse`, `newer_than_stored`, the merge with its
replanning and the offset-only commit, the two halves of a staged upsert. Rivals
are a rebuild, a co-writer who fills a column of its own, and a compaction.
`MERGE_ATTEMPTS` is a parameter (3 in the code, 2 in the instances). That a
compaction racing a merge is a conflict, or replaces files the plan then no longer
names, is delta-rs's checker, external here, as README.md:1787 describes it.

**Compaction** (proofs in KafkaDq_proofs): the guarded log store: planning,
reading every commit since the plan, and the put, with other engines between any two.

**GrainCheck**: the classes, the buffer with its compaction and splitting, and the
verification of nominated hashes, one batch of rows a step. The hash is a constant
of the instance and collides.

**PublishChain** (proofs in OffsetLookup_proofs): `Pipeline::publish` and the
near-time reader, the breaker, the network, and a client that follows the protocol of
USING_DDI.md.

**Lookups** (proofs in Supervisor_proofs): `snapshots_once` read by read, the
stability loop, `validate_lookup_tables` and `lookup_snapshots`, beside writers that
replace, recreate and truncate the lookup.

**MemoryBudget**: `budget::install`, `spill::install`, the sizing of a batch by the
measured ratio, one disk counter, and `classify_delta`. Ratios are parts per thousand.

**TableOpen** (proofs in KafkaDq_proofs): opening a table beside unreadable
checkpoints. Commit v adds row v.

**Supervisor** (proofs in Supervisor_proofs): `drive`, `drive_near_time`, `attempt`, `run_all`,
`observe_error`, the gate and the gauges; what a step does inside is one of its
outcomes. Backoff keeps its numbers (milliseconds scaled down).

**Locate** (proofs in OffsetLookup_proofs): one query after the other, the shared
cache, reopening on a move.

**ConfigResolve**, **KafkaSettings**: loading as a sequence of passes over the list of
entries (split, condemn, resolve); the four layers of librdkafka settings with their
aliases, the environment, and what is handed to the client. A URI is a table and a
spelling.

### The Kafka side

**KafkaPipeline** (with KafkaPipeline_proofs): the members of one pipeline,
the fence, the open, `set-offsets`.

| state | code |
|---|---|
| `low`, `high`, constant `Holes` | the topic: watermarks, and offsets without a message |
| `target` | commits `[by, txn, rows, marker]`: who wrote it, a txn per asserted partition, the offsets whose rows it holds, the takeover marker |
| `late` | a put whose answer was lost and which may still land, at its version only |
| `mem[m].st` | `down`, opening (`baseline`), polling, trying a batch, holding one, or flushing one for a revoke |
| `parts`, `next`, `reread`, `unbased` | `Partitions` and `unbased_start` |
| `pos`, `paused` | librdkafka's position; `KafkaSource::paused` |
| `seen`, `base`, `carried`, `marked` | the target handle and `Fence` |
| `buf`, `stalled`, `batch`, `blocked`, `recheck` | `Buffer`, `Stalled`, the batch being tried or `Held`, `blocked`, `next_recheck` |
| `evicted` | the group has given the partitions away and the member has not heard |

One action per branch of the step: `DropMessage`/`Take`/`Stall` are `take` with
`admit`; `Release`, `OutOfRange`, `RecheckBlocked`, `FeedStalled` the other things
a poll may do; `CloseBatch`, then `RefreshAged`, `CommitBatch`, `ResetInPlace`,
`CommitLost`, `CommitBlocked` and `ReadFails` are `try_commit` and
`after_failure`; `Retry` and `RecheckForBatch` are `due_work`; `Assign`,
`AssignUnresolved`, `Revoke`, `Lost` are the rebalance events; `OpenRead`,
`CommitBaseline`, `BaselineConflict`, `OpenRefused` are `open_kafka`;
`SetOffsets` is the operator's command. Reading and committing are separate
actions. A refresh of the target is several reads; the constant `FailsAt` names
the ones that may fail.

**OffsetLookup** (with OffsetLookup_proofs): `read_txns` as it walks the log: head,
hint, listing, commits in flight, the checkpoint's answer, and the marks below it, with
cleanup between reads. `answered` is the set of offsets the checkpoint (or the kernel)
answered, for which alone the reader goes on below it (fence.rs:568-574).

**TargetGuard** (proofs in KafkaDq_proofs): what `try_commit` asks of the target
before a commit and what a refresh accepts, beside engines that recreate, upgrade,
protect and clean it. A recreation falls between attempts (not between the HEAD and the
PUT of one), and a dropped table comes back.

**KafkaEvents** (proofs in KafkaEvents_proofs): the callback that queues, the loop
that answers, opening and closing. The group rebalances eagerly, waits for all, and
gives up on a member whose session ended. A closed consumer whose callback was served
and not answered is left to the group's timeout, which happens in runs with faults
only.

**KafkaLag** (proofs in OffsetLookup_proofs): statistics, lag, and once-mode's end.
Time is in ticks. `recv` hands on a waiting report before time passes in a poll and
before a message, as librdkafka's queue does.

**KafkaPlan** (proofs in KafkaEvents_proofs): `ddi kafka plan` beside the open it
foretells, over every era.

**KafkaDq** (proofs in KafkaDq_proofs): `write_kafka`'s retries, `landed`, reopening.
A commit whose acknowledgement is lost has landed or not by the time the failure is
reported.

**KafkaDecoder**, **Wire**: the chunks and the isolation of a bad message; the walk
over an Avro record, against what it means to be an encoding. A byte holds `Base`
values beside its continuation bit and a varint `MaxBytes` bytes (128 and 10 in the
code); float and double are scaled alike.

**SchemaRegistry** (proofs in KafkaEvents_proofs), **SchemaUnion** (proofs beside it):
the cache with a permit per id, retries and remembered refusals; the union of writer
schemas a batch is prepared with.

**Conform** (with ArrowTypes): alignment to the union and conformance to the target,
by name at every depth. `kdi_compat` and `kdi_null_text` are off.

### Rows and queries

**Coerce** (with ArrowTypes): `schema.rs`, over types small enough to enumerate all
values. `OnlyTheBadRow` leaves out unions, which Arrow converts as one value.

**QueryRules**: the checks of `validate.rs` over a family of queries whose answers are
computed, so that what is accepted can be judged by what it returns.

**Isolation**: `apply_isolating` and `bisect`; the recursion is a stack of calls.

**Lambda**: folding at load, the gate, quoting of text inside text, evaluation with the
shared cache. Text is the expression it parses to with a count of quote doublings. A
parameter named `__capture_N` and the static type of a filter's body are left out;
the simplifier's evaluation of constants is external.

**Unnest**: the rewrite against the FROM clause as written. Lookups have unique keys;
projection and WHERE are the names they use; the type of an element made by
`transform()` is unknown, as in the code.

**Decimal**: the conversion to DOUBLE and REAL with 5 and 3 bits for 53 and 24, and 2
digits for 18; exponents are unbounded, as no decimal reaches their limits.

## 3. Runs

A run marked *violation* states what the repository says and shows a behaviour of the
code that does otherwise; the others pass.

| run | module | properties | question |
|---|---|---|---|
| `two` | MCDeltaPipeline | TypeOK, GapFreePrefix, NoDoubleApply, RejectsNeverLost, OffsetMonotone | Two daemons on one app_id with a data-quality table, two crashes, unreadable opens or lost acknowledgements and log retention: the target stays a duplicate-free, gap-free prefix of the source, no reject is lost and the offset never moves back. |
| `refine` | MCDeltaPipeline | Implements | Two daemons with a starting version, ignore_changes and a foreign writer on the target implement the abstract exactly-once pipeline. |
| `kafka_one` | MCKafkaPipeline | TypeOK, EveryCommitContinues, NeverStuck | Two members hand one partition back and forth, with a hole, retention, crashes, lost answers, stalls, an operator's skips and reads that fail: every commit goes on from the stored offset, and nothing waits for ever. |
| `kafka_two` | MCKafkaPipeline | EveryCommitContinues | Two members and two partitions, so that a commit re-asserts partitions it did not read and a reset drops a batch only one of whose partitions moved. |
| `kafka_takeover` | MCKafkaPipeline | RowsOnce, OneMarker, OffsetsForward | Two members race to take over kafka-delta-ingest's target, with one offset expired and acknowledged and one partition that gets its first message meanwhile. |
| `unreachable` *violation* | MCDeltaPipeline | UnreachableMeansLoss | A pipeline whose resume version was reclaimed need not owe the target any row: commits it skipped never moved the stored offset. |
| `dqopen` *violation* | MCDeltaPipeline | UnreadableDqIsAnError | A data-quality table that is there but unreadable at open is treated as absent. |
| `kafka_stale` *violation* | MCKafkaPipeline | EveryCommitContinues | A refresh whose handle moved and whose read of the table id failed leaves the fence trusting offsets of the older handle; the retried batch lands a second time. |
| `kafka_aba` *violation* | MCKafkaPipeline | EveryCommitContinues | An operator moves an offset and moves it back between two refreshes of one commit; the batch survives, and what it holds is read and committed again. |
| `runtime` | MCRuntime | TypeOK, CleanHandoff, TargetGuarded, Foretold, NewestFound, Quarantined, Supervised, ClientsInformed, LookupsPinned, TablesWhole, RowsKept, StepsTruthful | A Kafka member's parts (rebalance events, lag and once-mode, the guard of the target, the plan of a start, the lookup of offsets, the registry's schemas, shared quarantine) and the process around the pipelines (supervisor, catalog, publishing, table opening, compaction, the choice of a lookup's version), each in all its interleavings with its environment: partitions change hands cleanly, nothing lands in a replaced table, offsets found are the newest, rejects are kept, clients overlook no gap, retries join the same lookup version, tables stay whole, gauges and exits are true. Every property of this run is a theorem of MCRuntime_proofs. |
| `data` | MCData | TypeOK, HandedOver, MergedOnce, GrainExact, MessagesAccounted, ValuesKept, QueriesMean, BadRowsFound, WithinMachine, ConfiguredApart, NeverUndone | The handover from dbt, merges and the grain check against their rivals, a row's way through decoding, alignment, coercion, query rules, rewrites and isolation, and memory, configuration and layered Kafka settings, over every input of a small scale: no row is lost, doubled, rolled back or changed in silence, and what is configured to run does not collide. |
| `progress` | MCProgress | RowsArrive, MessagesArrive, GroupSettles, ProcessSettles | Under the fairness of tasks and services, with finitely many faults: each component reaches what it is for (source drained, merges caught up, pipelines recovered and stopped, messages delivered, rebalances completed). |

### The properties of the suites

Each property of a suite conjoins properties the components state, where their own
comments say what could go wrong:

| suite | property | component properties |
|---|---|---|
| MCRuntime | CleanHandoff | KafkaEvents: Exclusive, Answered, BufferIsOwned |
| MCRuntime | TargetGuarded | TargetGuard: InOwnTable, UpgradeHeeded, NoFalseAlarm |
| MCRuntime | Foretold | KafkaPlan: CleanPlanOpens, BlockedPlanStops, StartKept |
| MCRuntime | NewestFound | OffsetLookup: Newest, NoNeedlessFailure, MarkIsTheOffsets, MarkIsNewest |
| MCRuntime | Quarantined | KafkaDq: NeverLost, OnceUnlessAnnounced; SchemaRegistry: FetchedOnce, NotBlamed, CellIsTrue |
| MCRuntime | Supervised | Supervisor: UpIsTrue, FreshStart, OperatorWaits, WithinLimits, ExitTells; Locate: StepsWhereItIs; KafkaLag: OnceIsComplete |
| MCRuntime | ClientsInformed | PublishChain: NoHole, AppliedOnce |
| MCRuntime | LookupsPinned | Lookups: Reproducible, NeverTheFuture, OneLineage |
| MCRuntime | TablesWhole | TableOpen: SnapshotWhole, CheckpointsWhole, CommitCompletes |
| MCRuntime | RowsKept | Compaction: RowsKept |
| MCRuntime | StepsTruthful | KafkaLag: CaughtUpIsTrue; TargetGuard: ProtectedKept; KafkaPlan: FreshOverRowsRefused; Supervisor: GaugeStays, ProgressIsReal; Locate: OutageMovesNothingBack |
| MCData | HandedOver | Handover: NoGap, NoDuplicate, StatsAgree |
| MCData | MergedOnce | Upsert: OneRowPerKey, Newest, CoWriterKept |
| MCData | GrainExact | GrainCheck: Exact, WithinCeiling, NeverUndividable |
| MCData | MessagesAccounted | KafkaDecoder: AccountedOnce, OwnRow, NoneBlamedInVain, PendingExact; SchemaUnion: Covered, NewestIn; Wire: BuiltWhenLegal, Exact, WorkBounded |
| MCData | ValuesKept | Conform: AlignedUnchanged, WrittenByName, DecimalsExact, NotNullHolds, Accounted; Coerce: NothingTruncated, NoSilentNull, OnlyTheBadRow, MomentKept |
| MCData | QueriesMean | QueryRules: NothingFromNothing, RowLocal, EnrichKeepsGrain, AcceptedResolves, PublishedAddsUp; Lambda: AsWritten, RefusedExactly; Unnest: FansOut, NamesKept; Decimal: LongIsNearest, SideIrrelevant |
| MCData | BadRowsFound | Isolation: RestInOrder, OnlyTheBad, CapHolds, CapFair, RunsBounded |
| MCData | WithinMachine | MemoryBudget: WithinBudget, OneSpillBudget, MachineIsCapacity |
| MCData | ConfiguredApart | ConfigResolve: StagePrivate, CascadeReadable, SplitNotCopied, PublishNeverStops, OnePublisher, OffsetsApart, RejectsApart; KafkaSettings: ForcedHold, OneNameEach, LastLayerWins, IdentityWhole, StartHonoured |
| MCData | NeverUndone | Upsert: NoRollback; SchemaUnion: OnlyGrows; Lambda: Settled |
| MCProgress | RowsArrive | DeltaPipeline: Drained; Handover: Delivered; Upsert: CaughtUp; MemoryBudget: EveryCommitDelivered |
| MCProgress | MessagesArrive | KafkaPipeline: Delivered; SchemaRegistry: Reaches leads to Decoded; KafkaDq: Writable leads to Through |
| MCProgress | GroupSettles | KafkaEvents: Stable again and again, Left; TargetGuard: Noticed |
| MCProgress | ProcessSettles | Supervisor: InOrder leads to CaughtUp, ShutDown; Locate: Follows; TableOpen: Whole leads to Served; Isolation: Ended |

`TypeOK` of a suite conjoins the type invariants of its components.

### Bounds

Two daemons or members are enough for every conflict: a commit conflicts with one
other. Three source commits with `max_files_per_batch` 2 give batches that end at the
ceiling, at a skipped commit and at the head, and a replay that ends elsewhere than the
first attempt. In `kafka_two` the partitions have one and two messages, the least with
which a re-asserted offset can be stale and a dropped batch can leave a message behind.
`kafka_takeover` has a partition for each case of the takeover check. `MaxFaults` bounds
crashes, lost answers, evictions, failed reads and operator commands together; the
longest known failure (`kafka_stale`) takes two. In the other modules:

- logs of three to six commits (OffsetLookup, TableOpen, Compaction, TargetGuard), so
  that a checkpoint lies below, between and above what is looked for;
- Handover's budgets allow two rebuilds, one recreation and one crash, the least with
  which the second rebuild can meet the first one's watermark;
- Upsert has two rivals and two attempts: one lost race that is replanned and one that
  exhausts the attempts;
- GrainCheck enumerates every target of up to five rows over a buffer of four hashes,
  so that the buffer fills, is compacted, and a class splits to the last bit;
- KafkaEvents has a third consumer that opens while one of two is closing or evicted;
- MemoryBudget has one container too small for a pipeline's floor, one that divides and
  one that does not bind;
- configurations are every list of up to three entries of a menu, since each rule
  relates at most a pair and a third;
- the pure conversions (Coerce, Conform, Wire, Unnest, Lambda, Decimal, QueryRules)
  enumerate all inputs of a small scale: value sets with a representative below, at and
  above each limit the code compares with.

Symmetry over daemons, members and consumers is used in safety runs only. Deadlock is
checked in the runs of DeltaPipeline and KafkaPipeline, where waiting is a step, as in
the code. A suite has parts that end (a load, an open, a search or a check is over, or
the bounded number of commits, messages, faults and ticks is used up), so it says
`CHECK_DEADLOCK FALSE`; that a component does not stop before it is done is what
`MCProgress` checks.

### What the passing runs leave out

A passing run leaves out the causes of disagreements found in its own module, so that
it shows that nothing else breaks the same property: `FailsAt` without `"id"` and
`AllowReplay = FALSE` (KafkaPipeline; the violation runs take them in); rebuilds only
between two starts (Handover); no lookback (Upsert); `CleanupRaces` and
`CleanupPartial` off (TableOpen); recreated tables shorter than the handle
(`Overtakes = FALSE`) and no blocked partition (`PartitionBlocked = FALSE`, TargetGuard);
`SlowCalls = FALSE` in once-mode (KafkaLag); `starting_offsets` the topic holds
(KafkaPlan); one spelling per table for Delta entries (ConfigResolve); no lambda over
literals (Lambda); arrays of plain values, and elements not qualified by the UNNEST's
alias (Unnest); queries with a FROM, without HAVING in publications, and with CTE names
used in scope (QueryRules); a spill file that cannot be created under a merge or a write
(MemoryBudget: it happens in the run, and `MachineIsCapacity` says nothing of it). Section
5 says what each of these does.

Two details that no property depends on are left out of the modules: a second failure
while `isolate` decodes a chunk again (KafkaDecoder; decoding is deterministic), and the
locations of lookups, which are asked for and compared as those of the source and the
target are (Locate).

### Fairness

`FairSpec` of `MCProgress` has three parts.

- `TasksRun`: weak fairness of each daemon's, member's and pipeline's own next step.
  `drive` runs a step for as long as the process lives and answers errors by trying
  again without end; each wait is bounded (TICK, a backoff, `blocked_recheck_secs`).
  `Faultless` is a step that is not a fault: nothing says that a fault happens.
- `ServicesAnswer`: weak fairness of what a caller waits for: the registry, the
  catalog, the group's coordinator and the end of a session, the clock.
- `Served`: strong fairness of four steps that are enabled again and again without
  staying so: a step that catches up, and a near-time poll that ends, since an outage
  that is over leaves some attempt to succeed (Supervisor); taking a permit, which
  tokio's semaphore hands out in order (SchemaRegistry); and the rebalance callback,
  which is served inside `recv` (KafkaEvents). Each is one conjunct per actor, in
  which the components, only one of which is running, share a line.

Producers, retention, operators, other engines and faults are not fair; faults are
finitely many, without which no retry ever succeeds. `Drained` and `Delivered` name
what excuses them: a refused or oversized commit, a reject with nowhere to go, messages
trimmed before they were read, a refused open.

## 4. Proofs

| module | theorem | states | what it establishes |
|---|---|---|---|
| DeltaPipeline_proofs | TypeCorrect | TypeOK | Every reachable state is well typed, and no batch holds more than max_files_per_batch files, for any set of daemons and any source. |
| DeltaPipeline_proofs | TargetIsPrefix | GapFreePrefix | The target holds exactly the rows of the source versions its offset covers, for any number of daemons, crashes, conflicts and lost acknowledgements. |
| DeltaPipeline_proofs | AppliedOnce | NoDoubleApply | No source version is applied by two commits of the target. |
| DeltaPipeline_proofs | RejectsKept | RejectsNeverLost | A version the offset covers has its rejects in the data-quality table, although the two tables cannot share a commit and a replay skips the write on equality of txns. |
| DeltaPipeline_proofs | OffsetNeverBack | OffsetMonotone | No step of any daemon, stale handle or not, moves the stored offset back. |
| DeltaPipeline_proofs | DaemonsAreExactlyOnce | Implements | Every behaviour of the daemons implements ExactlyOnce under the refinement mapping: the initial state maps to the initial state and every step of every daemon, crash included, maps to a step of the abstract delivery or to a stutter. |
| KafkaPipeline_proofs | TypeIsOK | TypeOK | Every reachable state of a Kafka group is well typed, for any members, partitions, topic and inherited log. |
| KafkaPipeline_proofs | CommitsContinue | EveryCommitContinues | Each commit of a member holds exactly the messages from the offset stored before it to the one it writes, for any group: rebalances, evictions, stale handles, lost puts that land late and failed reads included; without --allow-replay and without a failure to read the table's id. |
| KafkaPipeline_proofs | MarkerIsOne | OneMarker | At most one commit carries the takeover marker, however many members open, rebalance and lose puts at once, under the same two hypotheses. |
| KafkaPipeline_proofs | NobodyIsStuck | NeverStuck | A blocked member without a batch to retry, and a member with a blocked partition, has a recheck due in every reachable state, under the same two hypotheses. |
| KafkaPipeline_proofs | OffsetsGoForward | OffsetsForward | No step of a member, no baseline and no late put moves a stored offset back, under the same two hypotheses. |
| KafkaPipeline_proofs | EveryRowIsOnce | RowsOnce | No message is in the target twice, what kafka-delta-ingest wrote included, under the same two hypotheses, if every inherited row is behind the txn the log still holds of its partition. |
| KafkaDq_proofs | CompactionKeepsRows |  | However many compactors plan, check and commit beside however many writers, every row that a commit brought and no delete removed is in the files of the table, once: for any number of actors, versions and files. |
| OffsetLookup_proofs | TypeIsOK |  | Every reachable state of the reader of txns and of the log it reads is well typed, for any log, any partitions and any reading window. |
| OffsetLookup_proofs | ReadsAreTrue |  | For any log, any number of partitions and any window of reads in flight, below a checkpoint and in listings: an offset read is the newest the log tells of its partition, its mark is the one that belongs to it, and reading fails only when a commit it needs is gone, although checkpoints appear and cleanup removes commits between its reads. |
| KafkaDq_proofs | CommitsAreGuarded |  | For any number of tables, versions, checkpoints and ages: a commit lands only in the table the pipeline opened and over no upgrade its own read could have met, and the pipeline takes its target for replaced only where it was; if recreated tables are shorter than the handle and no partition waits for an operator. |
| KafkaDq_proofs | ProtectionIsKept |  | No cleanup after a commit of the writer touches a log that was protected before the commit, under the same two hypotheses. |
| KafkaEvents_proofs | TypesHold |  | Every reachable state of the consumers of a group, of what librdkafka waits for and of the events between the two is well typed, for any consumers and partitions. |
| KafkaEvents_proofs | PartitionsAreExclusive |  | No partition is held by two members the group counts, through any number of joins, leaves, lost sessions, kills and closings at any point of the loop. |
| KafkaEvents_proofs | BufferIsOfOwned |  | A buffered message is of a partition its consumer holds: none outlives the revoke, the loss or the fatal error that took the partition. |
| KafkaEvents_proofs | EventsAreAnswered |  | When the loop polls again every rebalance librdkafka told it of has been answered, however many joins, errors and lost sessions come between the callback and the drain of its queue. |
| SchemaUnion | BatchesAreCovered |  | For any set of writer schemas: the rows handed to the SQL have a place in the union for every schema they were decoded with, and a union rebuilt takes the newest usable version, although subjects are deleted and a preparation fails half way and is tried again. |
| SchemaUnion | UnionOnlyGrows |  | No step takes a schema out of the union the SQL was planned against. |
| KafkaDq_proofs | RejectsAreKept |  | For any group, any number of batches, retries and commits of other engines: the rejects of a batch the target has passed are in the data-quality table, whatever landed unacknowledged, conflicted or was compacted. |
| KafkaDq_proofs | RejectsAreOnce |  | A snapshot reader sees the rejects of a batch once, unless their duplicate was announced or stems from a compaction racing delta-rs's own retry: the search for the own commit finds what landed whenever the log has no gap. |
| KafkaDq_proofs | OpensWhole |  | A table opened behind an unreadable checkpoint has every file of the version it was opened at, for any number of commits and of foreign checkpoints; where cleanup removes what it removes at once, which a reader between two removals cannot tell. |
| KafkaDq_proofs | CheckpointsAreWhole |  | A checkpoint this process wrote holds every file of its version, though the handle it was written from was opened over the log with the checkpoint hidden; under the same hypothesis. |
| KafkaDq_proofs | CheckpointReadBack |  | The commit that writes a checkpoint completes: what it has just written can be read again; under the same hypothesis. |
| OffsetLookup_proofs | StepsFollowTheCatalog |  | A step runs over the relations as they were when the catalog was last heard, for any pipelines, any relations shared between them and any number of moves and failures. |
| OffsetLookup_proofs | OutagesMoveNothingBack |  | While the catalog is out of reach no table goes back to a place it was moved from, if no relation is read by two pipelines or from two ends. |
| OffsetLookup_proofs | ChainHasNoHole |  | A client that follows prev_published_through never stands on a message whose predecessor it lacks without knowing, for any number of versions, quiet ones among them, of faults and of messages in flight, published after the commit or by a near-time reader. |
| OffsetLookup_proofs | AppliedAtMostOnce |  | Nor does it apply a version twice, although restarts and retries send it again. |
| OffsetLookup_proofs | CaughtUpIsProved |  | When a member's report says that it is caught up, it has taken every message below the ends the report was made of, whatever was held, sought, paused or put off: for any partitions, logs and intervals. |
| OffsetLookup_proofs | OnceModeIsComplete |  | Once-mode ends with nothing unread below the ends it was started with, if no call outlasts the idle time. |
| KafkaEvents_proofs | SchemaFetchedOnce |  | The registry hands the schema of an id over at most once, whoever asks, whatever failed and whoever was cancelled, for any callers, ids, retries and faults. |
| KafkaEvents_proofs | OutageBlamesNone |  | A message is blamed only on an id that is not Avro or that the registry did not know when first asked: never on an outage or a cancelled call. |
| KafkaEvents_proofs | CellHoldsSchema |  | What the cell of an id holds is what the registry holds under it, and nobody fetches for a full one. |
| KafkaEvents_proofs | CleanPlansOpen |  | A plan of ddi kafka plan without a blocked partition is followed by an open that refuses nothing, if what the policy names is still in the topic: for any target, policy, neighbours and offsets, and a topic that grows meanwhile. |
| KafkaEvents_proofs | BlockedPlansStop |  | What a plan blocks on does stop the open, or a partition of the run that follows. |
| KafkaEvents_proofs | StartsAreKept |  | A process that ends before its first commit starts again where it had started, whatever of starting_offsets was taken away meanwhile, unless the policy is latest. |
| KafkaEvents_proofs | FreshOverRowsIsRefused |  | No step opens a fresh app_id over a target that holds rows of its topic unless each partition with messages has an entry. |
| Supervisor_proofs | TasksAreReported |  | The up series of a pipeline tells whether its task is there, and a once-run that exits 0 uninterrupted left every pipeline caught up, for any fleet: append, upsert and Kafka pipelines, near-time readers, gates, faults and panics. |
| Supervisor_proofs | BackoffIsRight |  | A pipeline that made progress starts its backoff afresh, and one that failed with an operator's error waits the longest time. |
| Supervisor_proofs | GateIsKept |  | However tasks fail, panic or stop while they wait or merge, no more of them merge or check at once than the gate allows, the limit given as 0 and the missing one included. |
| Supervisor_proofs | GaugesAreTrue |  | No step lowers a gauge of an append or a Kafka pipeline while what it tells an operator of is still missing, and none lets a pipeline in trouble report progress. |
| Supervisor_proofs | RetriesJoinTheSame |  | Whatever others write into a lookup, replace or truncate between two attempts, a batch tried again is pinned to the version it was pinned to before, for any source commits, policy, writes and failures. |
| Supervisor_proofs | PinnedToThePast |  | No pinned batch joins a lookup commit as young as its source commit. |
| Supervisor_proofs | OneTableEnriches |  | Under strict the rows of one table enrich the whole stream, through crashes, a marker that was lost and a replacement in the middle of a selection. |
| MCRuntime_proofs | EveryPartIsTyped | TypeOK | Every component of the suite is well typed in each state of its behaviours. |
| MCRuntime_proofs | HandoffIsClean | CleanHandoff | The suite inherits from KafkaEvents that a partition has one owner, the buffer is of the owned, and events are answered. |
| MCRuntime_proofs | TargetIsGuarded | TargetGuarded | The suite inherits from TargetGuard that no commit lands in another table or over an upgrade and no cleaned log is taken for another table; here ~Overtakes and ~PartitionBlocked are facts of the instance. |
| MCRuntime_proofs | PlansForetell | Foretold | The suite inherits from KafkaPlan that plan and open judge alike and that starts are kept; its policies name no latest. |
| MCRuntime_proofs | LookupsFindNewest | NewestFound | The suite inherits from OffsetLookup that what is found is the newest offset and its mark, for either window of reads. |
| MCRuntime_proofs | QuarantineIsRight | Quarantined | The suite inherits from KafkaDq that rejects are kept and are once, and from SchemaRegistry that nothing is blamed on the registry. |
| MCRuntime_proofs | ProcessSpeaksTrue | Supervised | The suite inherits from Supervisor, Locate and KafkaLag that up, backoff, permits, exit code, the place of a step and the end of once-mode are what they say. |
| MCRuntime_proofs | ClientsAreInformed | ClientsInformed | The suite inherits from PublishChain that a client overlooks no gap and applies nothing twice. |
| MCRuntime_proofs | LookupsArePinned | LookupsPinned | The suite inherits from Lookups that retries join the same version, never the future, and under strict one table's. |
| MCRuntime_proofs | TablesAreWhole | TablesWhole | The suite inherits from TableOpen that tables and checkpoints are whole; CleanupIsOrderly is a fact of the instance. |
| MCRuntime_proofs | RowsAreKept | RowsKept | The suite inherits from Compaction that the live files hold the rows they ought to, each once. |
| MCRuntime_proofs | StepsAreTruthful | StepsTruthful | The suite inherits the action properties of KafkaLag, TargetGuard, KafkaPlan, Supervisor and Locate; in the instance no relation is read twice. |

The theorems of the components hold for every value of the constants that satisfies
`ConstantsAssumption` and what else a theorem names; those of MCRuntime_proofs state the
very properties the run `runtime` checks. The invariants the proofs rest on were checked by TLC
on the suite's instances before they were proved.

### The Delta pipeline

From `ConstantsAssumption` alone (the constants have their types and `MaxFiles` is
positive), for any set of daemons, any source and any bounds. `GapFreePrefix` is not
inductive: it says nothing of the batch a daemon is about to commit. `IInv` adds

- `BatchComplete`: a batch in hand holds every emitting version from the stored
  offset to its end, and nothing the offset has passed *while its handle is
  fresh*. A stale daemon may hold anything: its commit conflicts;
- `DqCovers`: a reject commit with txn `e` holds every reject from the stored offset
  to `e`, which is why `already_recorded` may skip the write on equality of txns
  although batches of a replay end elsewhere;
- `RejectsFirst`: a daemon whose commit would land has its rejects recorded;
- `HandlesInLog`, `TxnsInLog`, `BatchEnds`: handles and txns lie in the logs.

The argument has one lemma per kind of step: steps that touch no table
(`OpenInv`, `ScanInv`, `SkipRejectsInv`, `LoseInv`), the source growing
(`ProduceInv`), foreign commits (`ForeignInv`), the two commits
(`RejectCommitInv`, `BatchCommitInv`). They rest on `TxnVersionAppend`: appending
a commit changes the newest txn only if the commit carries one.

`DaemonsAreExactlyOnce` is the refinement: under the mapping of `Implements`, the
initial state is one of ExactlyOnce and, in a state of `IInv`, every step of every
daemon is a step of ExactlyOnce or a stutter. A commit of the batch is the abstract
delivery because the batch is complete and its rejects are recorded; all other steps,
the loss of an acknowledgement and the crash of a daemon among them, leave the
abstract state alone.

### The Kafka group

For any members, partitions, topic, starting offsets and inherited log, any number of
faults and operator commands, under two hypotheses: `"id" \notin FailsAt` (a refresh
that has moved the handle does not then fail in reading the table's id) and
`~AllowReplay` (the operator does not pass `--allow-replay`). Neither is there to get
the proof through: the runs `kafka_stale` and `kafka_aba` show that without the one or
the other the code breaks `EveryCommitContinues`. All other reads may fail, members
crash, lose partitions without hearing of it, hold batches, lose the answers of puts
that land later, and several of them open at once over kafka-delta-ingest's target.

`IInv` is `TypeOK /\ EveryCommitContinues /\ OneMarker /\ LateOK` and, of each member:

- `HandleOK`: its handle is in the log, and the marker it knows of is there;
- `FenceOK`: a base the fence carries is the txn of its partition at the handle, and
  no base is ahead of what is stored: this is what `"id"` breaks;
- `PollOK`, `PositionOK`: what is buffered is exactly the messages from the base to
  where the partition is read next, and an unpaused partition is read there: what is
  taken next goes on from what is buffered;
- `BatchOK`: a batch is the messages from the bases it was read with to its last
  offsets; a partition whose base moved since is to be read again, or the reset drops
  the batch: this is what a replay breaks;
- `BaselineOK`: a baseline is committed only before there is a marker, and asserts no
  offset below one it has read;
- `WaitOK`: who waits has a recheck due.

`LateOK` says of a put whose answer was lost that, should its version still be free,
it is a commit which continues: it lands at that version or never. A commit conflicts
when a later one asserted one of its appIds, so a commit that lands has read the newest
txns; with `FenceOK` and `BatchOK` it continues from them. `OffsetsForward` follows
from the same invariant. `RowsOnce` needs in addition `RowsBehind` (no row is ahead of
the stored offset of its partition), and so `InheritedOnce` of the rows that were there
before ddi: they are behind the txns of kafka-delta-ingest that the log still has.
Where such a txn has expired (`kafka_takeover` has that case), `RowsOnce` stays with
TLC.

### Reading offsets back

`ReadsAreTrue` is for any log, any appIds, any window of requests, with checkpoints of
one or two files that appear and a cleanup that takes commits between any two reads.
`IInv` says of each phase what has been ruled out so far: `HeadOK` (nothing above
`next` holds a txn without an answer), `WalkOK` (the same on the walk, the checkpoint's
own version excepted), `BelowOK` with `Sought` (an offset whose mark is still looked
for was not written between `next` and the checkpoint, nor another from there to the
handle), `AnswersOK` (answers given are the newest), `MemoGood` (what is remembered of
a checkpoint holds at it), `Requested` and `Counted` (no request below the floor), and
`Uncleaned` (while nothing was cleaned up every commit asked for is there), from which
`NoNeedlessFailure` follows. That the newest of several commits exists is proved
through the library's `WFMin` over the naturals.

An earlier version of the module looked below the checkpoint for the marks of offsets
found on the walk as well; with two partitions that reader would have broken
`MarkIsNewest`, and `BelowOK` could not be proved of it. The code is right (its
`answered` holds the checkpoint's answers only), and the module now has that set.

### Compaction

`CompactionKeepsRows` needs no hypothesis. `RowsKept` is inductive together with
`NamedAfterCommit` (a file is added once, by the commit it is named after) and
`CheckedOK`: the files a compactor will remove were live in the version it checked
last, and when it puts, that version is the one just before its own. The put fails if
another commit took the version, so what was live is live still.

### The target

`CommitsAreGuarded` has the two hypotheses `~Overtakes` and `~PartitionBlocked`: section 5
says what happens without either. Its invariant says that a recreated table has held
the pipeline or is shorter than the handle, so that the handle's own commit is missed
(`Replaced`); that a handle which is not held knows of every upgrade up to its version
(`Upgrades`); and that an upgrade seen by the read before a commit is separated from
the handle by a commit that is gone, which makes delta-rs refuse (`SeenIsBlocked`).

### Rebalances

The three theorems of KafkaEvents rest on one invariant and on `ConstantsAssumption`.
`Exclusive` speaks of partitions held; what keeps it is what the group believes: `Holds`
is a consumer that runs, has not lost its session, and has partitions or is about to
take them, and `SharesDisjoint` says the shares given to two such consumers have nothing
in common. A rebalance can only give shares when all it waits for have given up theirs
(`GivesUp`): it does not wait for a member whose session is lost, and such a member no
longer `Holds`, though its loop may not know of the loss yet. `Carries` follows the one
event librdkafka waits for: of what is queued or drained at most one is a rebalance, it
is of the kind awaited, and errors of the group may stand before or behind it; `LoopOK`
says where it is at each place of the loop, so that at the top of the loop nothing is
awaited (`Answered`). A fatal error ends the step with events unanswered, but it closes
the consumer as well, so that its loop never polls again.

### Quarantine of a group

`IInv` of KafkaDq says what the log is made of (`CommitsOK`), that the last commit about a
file decides whether it is in the snapshot (`HasLasts`), and that a batch once written
has rows in every later snapshot (`Kept`): a compaction replaces a file by another of the
same batch and nothing else removes one. With `Passed` (what the target has passed was
written) this gives `NeverLost`.

For `OnceUnlessAnnounced`, `Fresh` says that of a batch without an announced duplicate
nothing was written before the attempt under way, and that what this attempt wrote lies
above the version the search starts from; `CallsOK` that a write id belongs to files of
one batch; `Looking` that where the code skips the search nothing of the writer can be
there. A search of an unbroken log therefore finds what landed, and a gap in it is one
of the announced cases. `OneFile` and `OneForm` then say that one file was written and
that it is in the snapshot as written or as compacted, never both. No bound of the model
is used: batches, retries, faults and foreign commits are any numbers.

### The union of schemas

`Covered` is not inductive over a preparation that fails half way: `ObservedIsSeen` adds
that what was observed of the batch is among the schemas remembered, so that a union
rebuilt of them, in this try or a later one, covers the batch; and that the newest
version asked for is among them if it can be used. A try that finds nothing new rebuilds
only if the batch is not covered (`missing`), and that suffices.

### The supervisor

`FleetInv` is for any fleet, in either mode. Beside the properties it says that a
once-run's task that ended well was caught up (`EndedCaughtUp`), that only upsert
pipelines ask for permits (`GateForUpserts`, so that those who merge are counted once),
and that a pipeline which is open is not one whose starting version is gone
(`BootstrapKnown`). `WithinLimits` counts tasks with a permit in hand by cardinality; a
task enters only when fewer than the limit are there, and each way out, a panic
included, takes it out. `ClassOfError` shows that `KafkaError::class` gives every error
exactly one class. In proving it, two arms of the class table turned out to overlap in
the model (delta-rs's errors that name an unwritable table were in the arm of the others
as well; the code's `match` takes the first), and the arms are now disjoint.

`GaugesAreTrue` is about append and Kafka pipelines. An upsert pipeline's merge commits
what its step read before the file went, and lowers the gauge then: the property as it
stood before the proof was false of upserts, though no run had one with that fault, and
now says so.

### The catalog

`FoundSince`: what a refresh located is where the relation was when the refresh began,
or later; `StepsWhereFound`: a pipeline that steps is open there. With `OpenWhole` (both
ends or none) `StepsWhereItIs` follows for shared relations as well.
`OutageMovesNothingBack` needs `CacheIsLast` (the cache is never older than what a
pipeline has open), which holds if no relation is read by two pipelines or from two ends
(`OneReaderEach`): with two readers a slow answer overwrites a newer one, section 5.

### Publishing

`ChainInv` says that each message continues the one before (`MessageOK`), that the
publisher's batch starts behind what it published last and behind all the target holds
(`PublisherOK`), and that what the client applied since its baseline is one stretch of
versions, each once (`ClientOK`). A message that is lost, capped or dropped by the open
breaker leaves `prev` naming what the client does not have, and so the client joins
afresh. In one invariant for both modes: behind a commit a message is bound to the
commit it belongs to (`Committed`), of a near-time reader only to its predecessor.

### Lag and once-mode

`PositionsHold`: what librdkafka has queued of a partition is a run of offsets up to
`fetch`, and what lies between the next offset expected and that run are no messages.
`ReportHolds`: a statistics report, which is taken apart from the loop, was true of
every partition unless it was sought since, and then `quiet` is 0. That exception is
needed between a seek and the next `recv` only. The proof showed that the model had
allowed more than the code does, two seeks with a report between them; the code's loop
passes `recv` after a seek (`src/kafka/step.rs`), and the module has the phase "sought"
for it. `OnceModeIsComplete` supposes `~SlowCalls`: with calls that outlast ONCE_IDLE it
is false, section 5.

### Lookups

`PicksOK` is the heart: what was chosen for a batch in an earlier attempt still fits
(`Fits`): where the lookup holds anything older than the source commit, the choice is
the newest of it. What others write is stamped when it lands, and the source commit has
happened already, so no later commit can come between. A selection reads the head, a
version and the head again, and the table may be replaced between any two reads;
`SelectionOK` says that what it has read holds of the log *if the head still bears the
id it began with*, since the log has then only grown, and the last read asks that. The
strict policy is `StrictOK`: the target's last commit names the table of all its
commits, and a pipeline that runs expects no other; so a crash cannot lose the memory of
an identity, which `OneLineage` needs. That there is a newest version older than a time
(`SelectedIsNewest`) follows from the well-foundedness of the naturals.

### Plan and start

`ReportForetells`: what the plan printed is still what the open would find, and has the
outcome that follows from it. A plan and an open resolve a partition by different code
(`plan.rs`, `start.rs`); the proof is that the two agree in every case of an offset
stored, an entry, a low end that moved, or neither. `CleanPlansOpen` supposes
`EntriesHeld` (what `starting_offsets` names is in the topic) and `StartsAreKept` that
no policy is `latest`; without either it is false, section 5.

### The registry

`PermitsOK`: the holder of an id's permit, and nobody else, is inside the fetch, and the
cell is empty meanwhile. `CellsOK`: what was handed over is in the cell, so it is handed
over once. `MissesOK`: what is remembered as not found was not held when asked.
A caller may be cancelled at any step; its permit goes with it.

### Opening a table

`OpenableLog`: the commits that are there reach up to the newest without a gap and begin
at version 0 or at the oldest checkpoint. A load that hides an unreadable checkpoint
needs commit 0 (`Trusting`), and a checkpoint written from the handle then is whole.
`CleanupIsOrderly` is the hypothesis that no cleanup comes between the look at commit 0
and the load, and none stops half way: section 5 says what happens otherwise.

### From the components to the suite

`MCRuntime_proofs` shows of each of the twenty-three instances that a behaviour of the suite
either is about it throughout, and is then a behaviour its module specifies, or never is
(`EventsApart`, `LagApart`, ...): `part` never changes, and a step of another component
is not possible. What the component's theorem says for every value of the constants then
holds of the instance, and each property of `runtime`, action properties included, is a
theorem. What a component's theorem supposes beyond `ConstantsAssumption` is a fact
about the values the suite gives, proved from them: `~Overtakes` and `~PartitionBlocked`
(the guard), `CleanupIsOrderly` (opening), `~SlowCalls` (once-mode), `NoneLatest` and
`EntriesHeld` (the plan), `OneReaderEach` (the catalog with relations of its own).

### What stays with TLC

Liveness, and with it all of `MCProgress`, since it rests on fairness and ENABLED.
Modules that declare RECURSIVE operators or compute over recursive data (Wire, Lambda,
Unnest, Decimal, Coerce, Conform, QueryRules, Isolation, ConfigResolve and others).
`MemoryBudget`, whose budgets are sums over all pipelines: what a fold computes is an
induction over data. `GrainCheck`, for the same reason. So the whole of `MCData`, but
for what SchemaUnion proves of `Covered` and of the union that only grows: Handover,
Upsert and KafkaDecoder are within the prover's reach, and not proved.

## 5. Findings

`PROJECT.json` quotes the line each of these disagrees with.

| run | source | kind |
|---|---|---|
| `unreachable` | `src/src/source/log_stream.rs:525` | documentation |
| `dqopen` | `src/src/dq.rs:223` | documentation |
| `kafka_stale` | `src/src/kafka/step.rs:1238` | code |
| `kafka_aba` | `src/src/kafka/step.rs:1161` | code |

`kafka_stale` and `kafka_aba` can put rows into the target twice; `dqopen` stops a
pipeline that was configured to set rows aside; `unreachable` tells an operator of lost
rows where none are.

Other disagreements between the code and what its documents or comments say were met
while modelling. Each is the reason for something a passing run leaves out (section 3),
or for a property that is stated as narrowly as it is.

- Rows twice, or in the wrong table. `src/kafka/step.rs:1246`: the recheck of a blocked
  partition refreshes the handle, and where the refresh refuses (a recreated table) it
  keeps the refreshed handle, with which the other partitions' next commit lands in the
  new table. `src/kafka/step.rs:988`: a recreated table with as many versions as the
  handle takes commits, each of which makes the handle young again, for longer than
  `handle_max_age`. `src/upsert.rs:301`: a candidate file exactly on the lookback's floor
  ends the walk before a file below the floor is seen, and the key is inserted again.
  `src/config.rs:1214`: a third pipeline that spells a stage table with a trailing slash
  is not held back. `set-offsets` of a partition whose kafka-delta-ingest txn has expired
  can be given an offset below rows already there without `--allow-replay`, since nothing
  stored says that it replays.
- Rows missing. `src/dbt/watermark.rs:235`, `src/pipeline.rs:2243`: a rebuild that lands
  while the daemon runs is hidden by its next commit, and a second rebuild's pre-hook is
  taken for the watermark of the first. `src/storage.rs:307`, `src/storage.rs:227`: a
  replay or an older version over a log cleaned meanwhile. `src/kafka/start.rs:143`: a
  restart before the first commit of `latest` starts at the new end.
  `src/kafka/step.rs:562`: a recheck longer than ONCE_IDLE counts as idle time, and the
  once-mode run ends with messages unread.
- A step at a table's old place. `src/locate.rs:71`: an answer given before a move
  arrives after a newer one and overwrites it in the shared cache; an outage then takes
  another pipeline back.
- Values. `src/transform/lambda.rs:772`: a lambda over literals whose inner body calls
  `now()`. `src/transform/unnest.rs:330`, `:210`: the first name of an unnested array of
  rows is given the whole row; the element named by the UNNEST's alias does not resolve.
  `src/transform/validate.rs:966`, `:846`, `:921`, `:1372`: queries without FROM, columns
  through a derived table, HAVING in a publication, a CTE's name out of its scope.
  `src/pipeline.rs:108`, `:217`: a failure after a `use_current` decision, and the first
  batch after an open that found another lookup.
- Failures later or harder than need be. `src/pipeline.rs:550`: a startup check that
  runs out of room is retried as a Config error. `src/main.rs:1382`: a near-time task's
  second outage waits longer than its first. `src/spill.rs:327`: a spill file that cannot
  be created under a merge is no capacity failure. `src/budget.rs:340`: a source that
  decodes to less than the assumed ratio is sized by the assumed one.
  `src/config.rs:1214`, `:1536`: which of two entries is held back.
  `src/kafka/registry.rs:329`, `:306`: a second lookup of an unknown id asks again; an id
  registered just after it was asked for stays unknown until the entry expires.
  `src/kafka/decode.rs:707`: a decoder that failed and cannot be replaced is fed again.
- What a client or an operator is told. `src/pipeline.rs:1581`: a client whose first
  message after its baseline is lost has nothing to compare with.
  `src/publish/mod.rs:521`: a payload that fails to build in the failure that opens the
  breaker is counted as skipped. `src/kafka/plan.rs:171`, `src/fence.rs:1502`: what the
  plan says of offsets outside the topic and of evidence in file statistics.

## 6. Not modelled, and the plan

- Topics that shrink or are recreated (`Regressed` by truncation, `Replaced`, and what
  `src/kafka/step.rs:1384` does then), expiry of a txn under ddi, `set-offsets
  --reassert`: each needs a second history of the topic in KafkaPipeline.
- That KafkaLag's reports and once-mode come to an end: its liveness needs strong
  fairness of every outcome of a poll and is out of the progress suite's time.
- `kdi_compat` and kafka-delta-ingest's text (`kdi_text.rs`), `transform/json*.rs`,
  `dialect.rs`, `udf.rs`: functions of one value defined by another program's text format;
  there is nothing in the repository to check them against but themselves.
- `dbt/{analyze,convert,mod,profiles}.rs`: a converter run by hand.
- `publish/{webpubsub,jwt}.rs`, `trino.rs`'s protocol, `kafka/client.rs`, `metrics.rs`'s
  responder, `clone-table`, `status`: requests, formatting and printing.
- `kafka/fault.rs`, `kafka/sr_stub.rs`: test support.
- `storage.rs`'s map of unfiltered stores, the choice of files of a compaction, writer
  tuning, credentials, TOML parsing.

To prove next: `NoGap` and `NoDuplicate` of Handover, `OneRowPerKey` of Upsert and
`OwnRow` of KafkaDecoder.
