------------------------------ MODULE MCRuntime -----------------------------
(***************************************************************************)
(* The running process, the parts of it that the theorems of               *)
(* MCRuntime_proofs are about, side by side. Of a Kafka member: the        *)
(* consumer's events under rebalances, lag and once-mode, the guard of the *)
(* target table, the plan of a start, the lookup of the offsets, the       *)
(* registry's schemas and the quarantine several members share. Around the *)
(* pipelines: the supervisor with its backoffs, gates and gauges, the      *)
(* polling of a catalog, publishing, opening a table whose log is cleaned  *)
(* up, compaction, and the choice of a lookup's version. The components    *)
(* are instantiated with their proofs, Versions!Where, say, being the      *)
(* Locate whose proofs are beside those of OffsetLookup.                   *)
(***************************************************************************)
EXTENDS Integers, Sequences, FiniteSets, TLC, Pool

CONSTANTS c1, c2, c3, NoCap, NoCaller

(* OffsetLookup: any of three commits moves the offset, and at most one writes the
   marker. *)
VersionLogs ==
  {l \in [0 .. 2 -> [{"p", "m"} -> [version : 0 .. 3, marked : {FALSE}]]] :
     /\ \A v \in 0 .. 2 : \A i \in {"p", "m"} : l[v][i].version \in {0, v + 1}
     /\ Cardinality({v \in 0 .. 2 : l[v]["m"].version # 0}) <= 1}

(* OffsetLookup: an offset that is moved on, moved back or asserted again, with a
   mark or without, beside one that was written long ago. *)
Txn(v, marked) == [version |-> v, marked |-> marked]
MarkLogs ==
  {l \in [0 .. 2 -> [{"p", "q"} -> {Txn(0, FALSE)} \cup {Txn(v, m) : v \in {1, 2}, m \in BOOLEAN}]] :
     /\ l[0]["p"] \in {Txn(0, FALSE), Txn(1, TRUE)}
     /\ l[2]["p"] # Txn(1, TRUE) /\ l[2]["p"] # Txn(2, TRUE)
     /\ l[0]["q"] = Txn(1, TRUE) /\ l[1]["q"] = Txn(0, FALSE) /\ l[2]["q"] = Txn(0, FALSE)}

(* KafkaPlan: what the target is. *)
File(topics, stats, min, max) == [topics |-> topics, stats |-> stats, min |-> min, max |-> max]
Table(files, column, recent) ==
  [files |-> files, column |-> column, recent |-> recent, checkpoint |-> {}, readable |-> TRUE,
   retention |-> FALSE, writable |-> TRUE, mapping |-> "unset"]
Mine == File({1, 2}, "exact", 1, 2)
Others == File({1}, "exact", 1, 1)
Cut == File({2}, "cut", 1, 1)
Unread == File({3}, "none", 1, 1)
Plain == Table({}, TRUE, {})
Targets ==
  {Plain, [Plain EXCEPT !.retention = TRUE], [Plain EXCEPT !.writable = FALSE],
   [Plain EXCEPT !.mapping = "name"], [Plain EXCEPT !.mapping = "none"]}
  \cup {Table(f, TRUE, r) : f \in {{Mine}, {Others}, {Others, Cut}, {Unread}},
                            r \in {{}, {"n"}, {"n", "old"}}}
  \cup {Table({Others}, FALSE, {"n"})}

(* KafkaPlan: starting_offsets, entries for partitions or a name for all. *)
NoEntries == [p \in {1, 2} |-> -1]
Entries ==
  {[entries |-> NoEntries, rest |-> "earliest", explicit |-> FALSE]}
  \cup {[entries |-> e, rest |-> r, explicit |-> TRUE] :
          e \in [{1, 2} -> {-1, 0, 1}], r \in {"none", "earliest"}}

(* Supervisor: what may go wrong. *)
FaultsOf(those) == [cause : those, dq : {FALSE}]
KafkaFaults ==
  FaultsOf({"DeltaStore", "Fenced", "Schema", "KafkaClientFatal"}) \cup {[cause |-> "Capacity", dq |-> TRUE]}

-----------------------------------------------------------------------------
(* The components *)

(* Two members and a third that opens later, one closing or evicted while the
   other reads. *)
Events == INSTANCE KafkaEvents_proofs WITH
  Consumer <- {c1, c2, c3}, Partition <- {1}, MaxRebalances <- 3, MaxFaults <- 1, MaxKills <- 1,
  group <- v1, rounds <- v2, faults <- v3, kills <- v4, life <- v5, joined <- v6, rejoined <- v7,
  share <- v8, due <- v9, waits <- v10, lost <- v11, fetching <- v12, assigned <- v13,
  events <- v14, drained <- v15, owned <- v16, full <- v17, phase <- v18,
  \* Registry, SchemaRegistry: Two decoders, one id, through faults of every kind.
  NoCaller <- NoCaller, Callers <- {"a", "b"}, Ids <- {1}, NotFoundTTL <- 2, Retries <- 1,
  MaxRegistryFaults <- 2, MaxCancels <- 1, Ticking <- TRUE,
  known <- v1, service <- v2, registryFaults <- v3, cancels <- v4, cell <- v5, permit <- v6,
  notFound <- v7, pc <- v8, asking <- v9, tries <- v10, answer <- v11, found <- v12,
  waitedOn <- v13,
  \* Preflight, KafkaPlan: Every era, target and policy whose entries the topic holds.
  Planned <- {1, 2}, MaxOffset <- 1, Tables <- Targets, Policies <- Entries, Neighbours <- {"n"},
  EntriesHeld <- TRUE, Compats <- {"unset", "true"},
  table <- v1, low <- v2, high <- v3, policy <- v4, compat <- v5, stored <- v6, marker <- v7,
  planPhase <- v8, report <- v9, start <- v10, first <- v11, settled <- v12

(* An offset and the takeover marker in three commits, under cleanup and
   checkpoints of one or two files. *)
Versions == INSTANCE OffsetLookup_proofs WITH
  Ids <- {"p", "m"}, Partitions <- {"p"}, Last <- 2, Values <- {1, 2, 3}, Logs <- VersionLogs,
  InFlight <- 2, BelowReads <- 1, ListingWindow <- 2, MaxWrites <- 2, MaxFaults <- 0,
  log <- v1, there <- v2, cps <- v3, hint <- v4, writes <- v5, faults <- v6, cleaned <- v7,
  pc <- v8, head <- v9, bottom <- v10, sent <- v11, next <- v12, found <- v13, memo <- v14,
  below <- v15, answered <- v16,
  \* Where, Locate: One pipeline, its relations its own, two moves each.
  Pipelines <- {"a"}, Near <- {}, Relations <- {"orders", "sums"},
  Source <- [p \in {"a"} |-> "orders"], Target <- [p \in {"a"} |-> "sums"], MaxMoves <- 2,
  MaxFailures <- 3,
  catalog <- v1, lastKnown <- v2, lookup <- v3, asking <- v4, answer <- v5, fresh <- v6,
  current <- v7, asOf <- v8, heard <- v9, failures <- v10,
  \* Chain, PublishChain: Published after the commit, with every fault.
  Mode <- "commit", Quiet <- {2}, Threshold <- 2, MaxVersion <- 5, MaxPublishFaults <- 3,
  MaxFlight <- 3,
  target <- v1, publisher <- v2, br <- v3, net <- v4, client <- v5, publishFaults <- v6,
  \* Reader, KafkaLag: Reports, markers, holds and seeks in any order over one partition.
  Partition <- {"p"}, MaxOffset <- 3, Interval <- 1, Idle <- 1, MaxHolds <- 1, Once <- FALSE,
  SlowCalls <- TRUE, Stuck <- {},
  topicLog <- v1, stable <- v2, fetch <- v3, queue <- v4, app <- v5, nextOffset <- v6,
  quiet <- v7, polled <- v8, paused <- v9, blocked <- v10, docs <- v11, age <- v12,
  caughtUp <- v13, full <- v14, held <- v15, holds <- v16, stopAt <- v17, tops <- v18,
  phase <- v19

(* Two partitions, the offset of one in three commits, their marks below a
   checkpoint. *)
Marks == INSTANCE OffsetLookup_proofs WITH
  Ids <- {"p", "q"}, Partitions <- {"p", "q"}, Last <- 2, Values <- {1, 2}, Logs <- MarkLogs,
  InFlight <- 2, BelowReads <- 2, ListingWindow <- 2, MaxWrites <- 1, MaxFaults <- 1,
  log <- v1, there <- v2, cps <- v3, hint <- v4, writes <- v5, faults <- v6, cleaned <- v7,
  pc <- v8, head <- v9, bottom <- v10, sent <- v11, next <- v12, found <- v13, memo <- v14,
  below <- v15, answered <- v16,
  \* Where, Locate: A pipeline and a near-time reader that share their relations, one move
  \* each.
  Pipelines <- {"a", "b"}, Near <- {"b"}, Relations <- {"orders", "sums"},
  Source <- [p \in {"a", "b"} |-> "orders"], Target <- [p \in {"a", "b"} |-> "sums"],
  MaxMoves <- 1, MaxFailures <- 1,
  catalog <- v1, lastKnown <- v2, lookup <- v3, asking <- v4, answer <- v5, fresh <- v6,
  current <- v7, asOf <- v8, heard <- v9, failures <- v10,
  \* Chain, PublishChain: Published from the source by a reader of its own.
  Mode <- "near", Quiet <- {2}, Threshold <- 1, MaxVersion <- 4, MaxPublishFaults <- 2,
  MaxFlight <- 1,
  target <- v1, publisher <- v2, br <- v3, net <- v4, client <- v5, publishFaults <- v6,
  \* Reader, KafkaLag: Once-mode over two partitions.
  Partition <- {"p", "q"}, MaxOffset <- 2, Interval <- 1, Idle <- 1, MaxHolds <- 1, Once <- TRUE,
  SlowCalls <- FALSE, Stuck <- {},
  topicLog <- v1, stable <- v2, fetch <- v3, queue <- v4, app <- v5, nextOffset <- v6,
  quiet <- v7, polled <- v8, paused <- v9, blocked <- v10, docs <- v11, age <- v12,
  caughtUp <- v13, full <- v14, held <- v15, holds <- v16, stopAt <- v17, tops <- v18,
  phase <- v19

(* Two members, two foreign commits, two faults. *)
Dq == INSTANCE KafkaDq_proofs WITH
  Members <- {"a", "b"}, Batches <- 1, Retries <- 1, MaxForeign <- 1, MaxFaults <- 2,
  log <- v1, floor <- v2, writable <- v3, foreign <- v4, faults <- v5, pc <- v6, why <- v7,
  batch <- v8, call <- v9, retries <- v10, handle <- v11, read <- v12, excused <- v13,
  \* Guard, TargetGuard: The table is recreated shorter, upgraded, protected and cleaned
  \* under a writer.
  MaxVersion <- 5, MaxTables <- 2, MaxAge <- 1, Interval <- 2, Overtakes <- FALSE,
  Reopens <- TRUE, PartitionBlocked <- FALSE, Rebases <- TRUE,
  id <- v1, present <- v2, checkpoints <- v3, upgraded <- v4, protected <- v5, writerHandle <- v6,
  age <- v7, since <- v8, phase <- v9, held <- v10, clean <- v11, seenUpgrade <- v12,
  landed <- v13,
  \* Opening, TableOpen: Six commits, a checkpoint every second one, two foreign checkpoints.
  MaxForeignCheckpoints <- 2, CleanupRaces <- FALSE, CleanupPartial <- FALSE,
  head <- v1, logFiles <- v2, checkpointed <- v3, foreignCheckpoints <- v4, opening <- v5,
  want <- v6, opened <- v7, hook <- v8,
  \* Compacting, Compaction: Two guarded compactors beside another engine that compacts,
  \* deletes and cleans up.
  Compactors <- {"a", "b"}, MaxCommits <- 4,
  commits <- v1, cleaned <- v2, rows <- v3, c <- v4

(* A pipeline under ddi run: an outage, a truncated log, a move, a panic, a
   stop. *)
Daemon == INSTANCE Supervisor_proofs WITH
  Pipelines <- {"a"}, Upserts <- {}, Kafkas <- {}, NearTimes <- {},
  Faults <- FaultsOf({"DeltaStore", "BootstrapUnreachable", "CursorUnavailable"}),
  Unbounded <- NoCap, MaxMerges <- NoCap, MaxPreflights <- NoCap, Once <- FALSE, RetryMin <- 100,
  RetryMax <- 500, MaxFaults <- 4, MaxPanics <- 1,
  cancelled <- v1, pc <- v2, backoff <- v3, wait <- v4, progressed <- v5, up <- v6, gauges <- v7,
  failure <- v8, drained <- v9, mergeQueue <- v10, checkQueue <- v11, moved <- v12, fault <- v13,
  faults <- v14, near <- v15, nearBackoff <- v16, nearWait <- v17, nearPolled <- v18,
  \* Enriching, Lookups: A lookup under the strict policy, written and replaced during
  \* selections.
  SourceTimes <- <<2, 3>>, UseCurrent <- FALSE, PreHistory <- -1, StabilityAttempts <- 2,
  MaxTime <- 3, MaxWrites <- 2, MaxFailures <- 1,
  now <- v1, log <- v2, kept <- v3, ids <- v4, writes <- v5, selecting <- v6, batch <- v7,
  tries <- v8, attempt <- v9, expected <- v10, marker <- v11, recorded <- v12, choice <- v13,
  picks <- v14, commits <- v15, failures <- v16

(* Two upsert pipelines behind a gate of one, one limit given as 0; room runs
   out. *)
Gated == INSTANCE Supervisor_proofs WITH
  Pipelines <- {"a", "b"}, Upserts <- {"a", "b"}, Kafkas <- {}, NearTimes <- {},
  Faults <- FaultsOf({"DeltaStore", "Capacity"}), Unbounded <- NoCap, MaxMerges <- 0,
  MaxPreflights <- 1, Once <- FALSE, RetryMin <- 100, RetryMax <- 500, MaxFaults <- 1,
  MaxPanics <- 1,
  cancelled <- v1, pc <- v2, backoff <- v3, wait <- v4, progressed <- v5, up <- v6, gauges <- v7,
  failure <- v8, drained <- v9, mergeQueue <- v10, checkQueue <- v11, moved <- v12, fault <- v13,
  faults <- v14, near <- v15, nearBackoff <- v16, nearWait <- v17, nearPolled <- v18,
  \* Enriching, Lookups: A lookup under use_current.
  SourceTimes <- <<2, 3>>, UseCurrent <- TRUE, PreHistory <- -1, StabilityAttempts <- 2,
  MaxTime <- 3, MaxWrites <- 2, MaxFailures <- 1,
  now <- v1, log <- v2, kept <- v3, ids <- v4, writes <- v5, selecting <- v6, batch <- v7,
  tries <- v8, attempt <- v9, expected <- v10, marker <- v11, recorded <- v12, choice <- v13,
  picks <- v14, commits <- v15, failures <- v16

(* A Kafka pipeline beside the supervisor: held, blocked, reset, and closed
   errors. *)
KafkaTask == INSTANCE Supervisor_proofs WITH
  Pipelines <- {"a"}, Upserts <- {}, Kafkas <- {"a"}, NearTimes <- {}, Faults <- KafkaFaults,
  Unbounded <- NoCap, MaxMerges <- NoCap, MaxPreflights <- NoCap, Once <- FALSE, RetryMin <- 100,
  RetryMax <- 500, MaxFaults <- 4, MaxPanics <- 1,
  cancelled <- v1, pc <- v2, backoff <- v3, wait <- v4, progressed <- v5, up <- v6, gauges <- v7,
  failure <- v8, drained <- v9, mergeQueue <- v10, checkQueue <- v11, moved <- v12, fault <- v13,
  faults <- v14, near <- v15, nearBackoff <- v16, nearWait <- v17, nearPolled <- v18,
  \* Enriching, Lookups: Source history older than the lookup, with an approved baseline.
  SourceTimes <- <<2, 3>>, UseCurrent <- FALSE, PreHistory <- 0, StabilityAttempts <- 2,
  MaxTime <- 4, MaxWrites <- 2, MaxFailures <- 1,
  now <- v1, log <- v2, kept <- v3, ids <- v4, writes <- v5, selecting <- v6, batch <- v7,
  tries <- v8, attempt <- v9, expected <- v10, marker <- v11, recorded <- v12, choice <- v13,
  picks <- v14, commits <- v15, failures <- v16

(* ddi once over an append and an upsert pipeline. *)
Once == INSTANCE Supervisor_proofs WITH
  Pipelines <- {"a", "b"}, Upserts <- {"b"}, Kafkas <- {}, NearTimes <- {"a"},
  Faults <- FaultsOf({"DeltaStore", "SourceFileVacuumed"}), Unbounded <- NoCap, MaxMerges <- 1,
  MaxPreflights <- 1, Once <- TRUE, RetryMin <- 100, RetryMax <- 500, MaxFaults <- 2,
  MaxPanics <- 1,
  cancelled <- v1, pc <- v2, backoff <- v3, wait <- v4, progressed <- v5, up <- v6, gauges <- v7,
  failure <- v8, drained <- v9, mergeQueue <- v10, checkQueue <- v11, moved <- v12, fault <- v13,
  faults <- v14, near <- v15, nearBackoff <- v16, nearWait <- v17, nearPolled <- v18,
  \* Enriching, Lookups: An approved baseline under use_current, and one try for a stable
  \* read.
  SourceTimes <- <<2, 3>>, UseCurrent <- TRUE, PreHistory <- 0, StabilityAttempts <- 1,
  MaxTime <- 3, MaxWrites <- 1, MaxFailures <- 1,
  now <- v1, log <- v2, kept <- v3, ids <- v4, writes <- v5, selecting <- v6, batch <- v7,
  tries <- v8, attempt <- v9, expected <- v10, marker <- v11, recorded <- v12, choice <- v13,
  picks <- v14, commits <- v15, failures <- v16

ASSUME ConstantsAssumption ==
  /\ Events!ConstantsAssumption
  /\ Versions!Reader!ConstantsAssumption
  /\ Marks!Reader!ConstantsAssumption
  /\ Dq!Guard!ConstantsAssumption
  /\ Events!Preflight!ConstantsAssumption
  /\ Versions!ConstantsAssumption
  /\ Marks!ConstantsAssumption
  /\ Dq!ConstantsAssumption
  /\ Daemon!ConstantsAssumption
  /\ Gated!ConstantsAssumption
  /\ KafkaTask!ConstantsAssumption
  /\ Once!ConstantsAssumption
  /\ Versions!Where!ConstantsAssumption
  /\ Marks!Where!ConstantsAssumption
  /\ Versions!Chain!ConstantsAssumption
  /\ Marks!Chain!ConstantsAssumption
  /\ Daemon!Enriching!ConstantsAssumption
  /\ Gated!Enriching!ConstantsAssumption
  /\ Once!Enriching!ConstantsAssumption
  /\ KafkaTask!Enriching!ConstantsAssumption
  /\ Dq!Opening!ConstantsAssumption
  /\ Dq!Compacting!ConstantsAssumption
  /\ Events!Registry!ConstantsAssumption

-----------------------------------------------------------------------------
Init ==
  \/ part = "events" /\ Events!Init /\ Idle18
  \/ part = "lag" /\ Versions!Reader!Init /\ Idle19
  \/ part = "lagonce" /\ Marks!Reader!Init /\ Idle19
  \/ part = "guard" /\ Dq!Guard!Init /\ Idle13
  \/ part = "plan" /\ Events!Preflight!Init /\ Idle12
  \/ part = "versions" /\ Versions!Init /\ Idle16
  \/ part = "marks" /\ Marks!Init /\ Idle16
  \/ part = "dq" /\ Dq!Init /\ Idle13
  \/ part = "daemon" /\ Daemon!Init /\ Idle18
  \/ part = "gated" /\ Gated!Init /\ Idle18
  \/ part = "kafkatask" /\ KafkaTask!Init /\ Idle18
  \/ part = "once" /\ Once!Init /\ Idle18
  \/ part = "own" /\ Versions!Where!Init /\ Idle10
  \/ part = "shared" /\ Marks!Where!Init /\ Idle10
  \/ part = "publish" /\ Versions!Chain!Init /\ Idle6
  \/ part = "near" /\ Marks!Chain!Init /\ Idle6
  \/ part = "pinned" /\ Daemon!Enriching!Init /\ Idle16
  \/ part = "current" /\ Gated!Enriching!Init /\ Idle16
  \/ part = "approved" /\ Once!Enriching!Init /\ Idle16
  \/ part = "baseline" /\ KafkaTask!Enriching!Init /\ Idle16
  \/ part = "opening" /\ Dq!Opening!Init /\ Idle8
  \/ part = "compactors" /\ Dq!Compacting!Init /\ Idle4
  \/ part = "registry" /\ Events!Registry!Init /\ Idle13

Next ==
  \/ part = "events" /\ Events!Next /\ UNCHANGED Rest18
  \/ part = "lag" /\ Versions!Reader!Next /\ UNCHANGED Rest19
  \/ part = "lagonce" /\ Marks!Reader!Next /\ UNCHANGED Rest19
  \/ part = "guard" /\ Dq!Guard!Next /\ UNCHANGED Rest13
  \/ part = "plan" /\ Events!Preflight!Next /\ UNCHANGED Rest12
  \/ part = "versions" /\ Versions!Next /\ UNCHANGED Rest16
  \/ part = "marks" /\ Marks!Next /\ UNCHANGED Rest16
  \/ part = "dq" /\ Dq!Next /\ UNCHANGED Rest13
  \/ part = "daemon" /\ Daemon!Next /\ UNCHANGED Rest18
  \/ part = "gated" /\ Gated!Next /\ UNCHANGED Rest18
  \/ part = "kafkatask" /\ KafkaTask!Next /\ UNCHANGED Rest18
  \/ part = "once" /\ Once!Next /\ UNCHANGED Rest18
  \/ part = "own" /\ Versions!Where!Next /\ UNCHANGED Rest10
  \/ part = "shared" /\ Marks!Where!Next /\ UNCHANGED Rest10
  \/ part = "publish" /\ Versions!Chain!Next /\ UNCHANGED Rest6
  \/ part = "near" /\ Marks!Chain!Next /\ UNCHANGED Rest6
  \/ part = "pinned" /\ Daemon!Enriching!Next /\ UNCHANGED Rest16
  \/ part = "current" /\ Gated!Enriching!Next /\ UNCHANGED Rest16
  \/ part = "approved" /\ Once!Enriching!Next /\ UNCHANGED Rest16
  \/ part = "baseline" /\ KafkaTask!Enriching!Next /\ UNCHANGED Rest16
  \/ part = "opening" /\ Dq!Opening!Next /\ UNCHANGED Rest8
  \/ part = "compactors" /\ Dq!Compacting!Next /\ UNCHANGED Rest4
  \/ part = "registry" /\ Events!Registry!Next /\ UNCHANGED Rest13

Spec == Init /\ [][Next]_vars

-----------------------------------------------------------------------------
(* Properties *)

(* Type invariant of each component. *)
TypeOK ==
  /\ part = "events" => Events!TypeOK
  /\ part = "lag" => Versions!Reader!TypeOK
  /\ part = "lagonce" => Marks!Reader!TypeOK
  /\ part = "guard" => Dq!Guard!TypeOK
  /\ part = "plan" => Events!Preflight!TypeOK
  /\ part = "versions" => Versions!TypeOK
  /\ part = "marks" => Marks!TypeOK
  /\ part = "dq" => Dq!TypeOK
  /\ part = "daemon" => Daemon!TypeOK
  /\ part = "gated" => Gated!TypeOK
  /\ part = "kafkatask" => KafkaTask!TypeOK
  /\ part = "once" => Once!TypeOK
  /\ part = "own" => Versions!Where!TypeOK
  /\ part = "shared" => Marks!Where!TypeOK
  /\ part = "publish" => Versions!Chain!TypeOK
  /\ part = "near" => Marks!Chain!TypeOK
  /\ part = "pinned" => Daemon!Enriching!TypeOK
  /\ part = "current" => Gated!Enriching!TypeOK
  /\ part = "approved" => Once!Enriching!TypeOK
  /\ part = "baseline" => KafkaTask!Enriching!TypeOK
  /\ part = "opening" => Dq!Opening!TypeOK
  /\ part = "registry" => Events!Registry!TypeOK

(* A partition has one owner at a time, who alone has its messages in the
   buffer, and the loop of kafka/context.rs polls again only when every
   rebalance callback it put off is answered: nothing that happens between the
   callback and its answer (an open, a close, an eviction, a kill) lets two
   members hold one partition or leaves the group waiting. *)
CleanHandoff ==
  part = "events" => Events!Exclusive /\ Events!Answered /\ Events!BufferIsOwned

(* try_commit's checks of the target (step.rs, fence.rs): no commit lands in a
   table that was recreated under the writer, none after an upgrade the writer
   does not know, and a log that was only cleaned is never taken for another
   table. *)
TargetGuarded == part = "guard" => Dq!Guard!TargetGuarded

(* ddi kafka plan foretells the open, which is judged by other code (plan.rs and
   start.rs): a clean plan opens, a blocked one does not, and a process that
   ends before its first commit starts where the one before it did. *)
Foretold ==
  part = "plan" =>
     /\ Events!Preflight!CleanPlanOpens
     /\ Events!Preflight!BlockedPlanStops
     /\ Events!Preflight!StartKept

(* read_txns (fence.rs) answers with the newest offset of each partition and the
   mark that belongs to it, and fails only when the log no longer tells,
   although checkpoints appear and cleanup removes commits between its reads. *)
NewestFound ==
  /\ part = "versions" => Versions!NewestFound
  /\ part = "marks" => Marks!NewestFound

(* write_kafka (dq.rs): rejects of a batch that went through are in the table,
   and are there twice only when the write said that it might be so, although
   answers are lost, commits conflict and the table cannot always be reopened;
   and no message is set aside for the registry's own trouble: an outage is not
   heard as an id that is unknown, whose schema is fetched once whoever asks
   (registry.rs). *)
Quarantined ==
  /\ part = "dq" => Dq!NeverLost /\ Dq!OnceUnlessAnnounced
  /\ part = "registry" =>
       /\ Events!Registry!FetchedOnce
       /\ Events!Registry!NotBlamed
       /\ Events!Registry!CellIsTrue

(* What the process says of itself is true (main.rs, gate.rs, locate.rs,
   step.rs): the up series follows the task, progress resets the backoff and an
   operator's error waits the longest, permits stay within their gate whatever
   fails, the exit code tells of every failure, a step runs where the catalog
   said the table is, and once-mode ends only when there was nothing left to
   read. *)
Supervised ==
  /\ part = "daemon" => Daemon!UpIsTrue /\ Daemon!FreshStart /\ Daemon!OperatorWaits
  /\ part = "kafkatask" => KafkaTask!UpIsTrue
  /\ part = "gated" => Gated!WithinLimits
  /\ part = "once" => Once!ExitTells
  /\ part = "own" => Versions!Where!StepsWhereItIs
  /\ part = "shared" => Marks!Where!StepsWhereItIs
  /\ part = "lagonce" => Marks!Reader!OnceIsComplete

(* A client that follows prev_published_through never applies a message after a
   gap without noticing it, nor one twice, although the breaker drops messages
   and restarts repeat them (publish/mod.rs, near_time.rs). *)
ClientsInformed ==
  /\ part = "publish" => Versions!Chain!NoHole /\ Versions!Chain!AppliedOnce
  /\ part = "near" => Marks!Chain!NoHole

(* A batch is joined with one version of a lookup, of one table, not newer than
   the source commit unless the policy says so, and a retry chooses the same
   (lookup.rs). *)
LookupsPinned ==
  /\ part = "pinned" =>
       /\ Daemon!Enriching!Reproducible
       /\ Daemon!Enriching!NeverTheFuture
       /\ Daemon!Enriching!OneLineage
  /\ part = "current" => Gated!Enriching!Reproducible /\ Gated!Enriching!NeverTheFuture
  /\ part = "approved" => Once!Enriching!Reproducible /\ Once!Enriching!NeverTheFuture
  /\ part = "baseline" =>
       /\ KafkaTask!Enriching!Reproducible
       /\ KafkaTask!Enriching!NeverTheFuture
       /\ KafkaTask!Enriching!OneLineage

(* A table opened behind an unreadable checkpoint has all its rows, so have the
   checkpoints written from it, and the commit that writes one completes
   (storage.rs). *)
TablesWhole ==
  part = "opening" =>
     /\ Dq!Opening!SnapshotWhole
     /\ Dq!Opening!CheckpointsWhole
     /\ Dq!Opening!CommitCompletes

(* Two compactions never leave a row in two files, and none brings a deleted row
   back: the live files hold exactly the rows they ought to, each once
   (GuardedLogStore::write_commit_entry). *)
RowsKept == part = "compactors" => Dq!Compacting!RowsKept

(* What no single step may do: report a member caught up that has not taken what
   its report knew of, clean up a protected checkpoint, start afresh over a
   target that holds the topic's rows, lower a gauge that waits for an operator
   or count progress without a commit, or move a table back because the catalog
   is out of reach. *)
StepsTruthful ==
  [][/\ part = "lag" => Versions!Reader!CaughtUpIsTrue
     /\ part = "guard" => Dq!Guard!ProtectedKept
     /\ part = "plan" => Events!Preflight!FreshOverRowsRefused
     /\ part = "daemon" => Daemon!GaugeStays
     /\ part = "kafkatask" => KafkaTask!GaugeStays /\ KafkaTask!ProgressIsReal
     /\ part = "own" => Versions!Where!OutageMovesNothingBack]_vars

Symmetry == Permutations({c1, c2, c3})
=============================================================================
