----------------------------- MODULE MCProgress -----------------------------
(***************************************************************************)
(* What must happen in the end, component by component, side by side.      *)
(***************************************************************************)
EXTENDS Integers, Sequences, FiniteSets, TLC, Pool

CONSTANTS NoCaller, NoCap, p1

(* Handover: two rows. *)
TwoRows ==
  {[rows |-> <<[part |-> "p", ts |-> 2], [part |-> "q", ts |-> 3]>>, mode |-> "timestamp", key |-> TRUE,
    part |-> FALSE, hook |-> "pre", stats |-> TRUE, trunc |-> TRUE]}
Disturbed ==
  [crash |-> 1, rebuild |-> 1, recreate |-> 1, replace |-> 0, optimize |-> 0, reconfigure |-> 0]

(* DeltaPipeline: rows the target takes, refuses, or never sees; rewrites; and what a
   pipeline refuses. *)
Commit(class, files, dv, good, bad) ==
  [class |-> class, files |-> files, dv |-> dv, good |-> good, bad |-> bad]
Mixed == Commit("Data", 1, FALSE, TRUE, TRUE)
Rejected == Commit("Data", 2, FALSE, FALSE, TRUE)
Dropped == Commit("Data", 1, FALSE, FALSE, FALSE)
Optimize == Commit("Compaction", 0, FALSE, FALSE, FALSE)
Update == Commit("Change", 1, FALSE, TRUE, FALSE)
SomeCommits == {Mixed, Dropped, Update}
AllCommits ==
  SomeCommits \cup {Rejected, Optimize}
  \cup {Commit("Data", 1, FALSE, TRUE, FALSE), Commit("NoData", 0, FALSE, FALSE, FALSE),
        Commit("Data", 3, FALSE, TRUE, FALSE), Commit("Data", 1, TRUE, TRUE, FALSE)}

(* Upsert: a commit the transform leaves nothing of, and rows older than those stored. *)
Staged(k, s, t) == [k |-> k, s |-> s, t |-> t]
Filtered == <<<<Staged(1, 3, 1), Staged(2, 1, 1)>>, <<>>, <<Staged(1, 2, 2), Staged(2, 3, 1)>>>>

(* Supervisor: an outage of the store. *)
Outage == {[cause |-> "DeltaStore", dq |-> FALSE]}

(* MemoryBudget: commits by their size and the ratio they decode at, in thousandths. *)
C(s, r) == [size |-> s, ratio |-> r]
Backlog == [a |-> <<C(2, 8000), C(4, 9000), C(3, 3000)>>, b |-> <<C(3, 8000), C(12, 2000)>>]

(* Isolation: four rows in two chunks. *)
Chunks == {<<<<1, 2, 3>>, <<4>>>>}
Machine == {[variant |-> "Execution", capacity |-> TRUE], [variant |-> "Internal", capacity |-> FALSE]}

-----------------------------------------------------------------------------
(* The components *)

(* Two daemons on one app_id, and a crash or a lost acknowledgement. *)
Pair == INSTANCE DeltaPipeline WITH
  Proc <- {"a", "b"}, Commits <- SomeCommits, ChangePolicy <- "Fail", StartingVersion <- 0,
  MaxFiles <- 2, HasDq <- TRUE, MaxSource <- 2, MaxForeign <- 0, MaxFaults <- 1,
  source <- v1, tail <- v2, target <- v3, dq <- v4, pc <- v5, cursor <- v6, readable <- v7,
  scan <- v8, files <- v9, nfiles <- v10, seenT <- v11, seenD <- v12, faults <- v13

(* One daemon, every kind of source commit, two faults. *)
Alone == INSTANCE DeltaPipeline WITH
  Proc <- {"a"}, Commits <- AllCommits, ChangePolicy <- "Fail", StartingVersion <- 0,
  MaxFiles <- 2, HasDq <- TRUE, MaxSource <- 2, MaxForeign <- 0, MaxFaults <- 2,
  source <- v1, tail <- v2, target <- v3, dq <- v4, pc <- v5, cursor <- v6, readable <- v7,
  scan <- v8, files <- v9, nfiles <- v10, seenT <- v11, seenD <- v12, faults <- v13

(* A crash, a rebuild of the target and a source that starts over. *)
Handed == INSTANCE Handover WITH
  Worlds <- TwoRows, RebuildAt <- {"down"}, Budget <- Disturbed,
  world <- v1, parted <- v2, src <- v3, gen <- v4, tgt <- v5, rb <- v6, wm <- v7, d <- v8,
  left <- v9

(* Merges that change nothing, and rivals that win two races. *)
Merged == INSTANCE Upsert WITH
  Source <- Filtered, Lookback <- -1, MergeAttempts <- 2, MaxGroup <- 1, MaxRivals <- 2,
  MaxFaults <- 0,
  stage <- v1, fed <- v2, log <- v3, p <- v4, theirs <- v5, warned <- v6, rivals <- v7,
  faults <- v8

(* Two upsert pipelines behind a gate of one, through an outage. *)
Gated == INSTANCE Supervisor WITH
  Pipelines <- {"a", "b"}, Upserts <- {"a", "b"}, Kafkas <- {}, NearTimes <- {}, Faults <- Outage,
  Unbounded <- NoCap, MaxMerges <- 1, MaxPreflights <- 1, Once <- FALSE, RetryMin <- 100,
  RetryMax <- 500, MaxFaults <- 1, MaxPanics <- 0,
  cancelled <- v1, pc <- v2, backoff <- v3, wait <- v4, progressed <- v5, up <- v6, gauges <- v7,
  failure <- v8, drained <- v9, mergeQueue <- v10, checkQueue <- v11, moved <- v12, fault <- v13,
  faults <- v14, near <- v15, nearBackoff <- v16, nearWait <- v17, nearPolled <- v18

(* A pipeline and its near-time publisher are told to stop. *)
Stopped == INSTANCE Supervisor WITH
  Pipelines <- {"a"}, Upserts <- {}, Kafkas <- {}, NearTimes <- {"a"}, Faults <- Outage,
  Unbounded <- NoCap, MaxMerges <- NoCap, MaxPreflights <- NoCap, Once <- FALSE, RetryMin <- 100,
  RetryMax <- 500, MaxFaults <- 1, MaxPanics <- 1,
  cancelled <- v1, pc <- v2, backoff <- v3, wait <- v4, progressed <- v5, up <- v6, gauges <- v7,
  failure <- v8, drained <- v9, mergeQueue <- v10, checkQueue <- v11, moved <- v12, fault <- v13,
  faults <- v14, near <- v15, nearBackoff <- v16, nearWait <- v17, nearPolled <- v18

(* Two decoders of one id that is registered late, through an outage. *)
Registry == INSTANCE SchemaRegistry WITH
  None <- NoCaller, Callers <- {"a", "b"}, Ids <- {1}, NotFoundTTL <- 2, Retries <- 0,
  MaxFaults <- 1, MaxCancels <- 1, Ticking <- TRUE,
  known <- v1, service <- v2, faults <- v3, cancels <- v4, cell <- v5, permit <- v6,
  notFound <- v7, pc <- v8, asking <- v9, tries <- v10, answer <- v11, found <- v12,
  waitedOn <- v13

(* Tables move twice, and the catalog fails twice. *)
Moved == INSTANCE Locate WITH
  Pipelines <- {"a"}, Near <- {}, Relations <- {"orders", "sums"},
  Source <- [p \in {"a"} |-> "orders"], Target <- [p \in {"a"} |-> "sums"], MaxMoves <- 2,
  MaxFailures <- 2,
  catalog <- v1, lastKnown <- v2, pc <- v3, asking <- v4, answer <- v5, fresh <- v6,
  current <- v7, asOf <- v8, heard <- v9, failures <- v10

(* Budgets down to nothing, and operations that run out of memory. *)
Memory == INSTANCE MemoryBudget WITH
  Pipelines <- {"a", "b"}, Kafka <- {"b"}, Commits <- Backlog, Configured <- 1000000,
  Containers <- {15, 230}, ReserveBytes <- 20, Assumed <- 8000, MaxBytes <- 16,
  SpillCaps <- {0, 2}, SpillFloor <- 1, SpillWrite <- 1, Causes <- {"memory"}, MaxFailures <- 2,
  container <- v1, cap <- v2, writable <- v3, phase <- v4, budget <- v5, pc <- v6, next <- v7,
  batch <- v8, amp <- v9, worst <- v10, spilled <- v11, used <- v12, route <- v13, failed <- v14,
  failures <- v15

(* One member and two batches of rejects, through conflicts and faults. *)
Dq == INSTANCE KafkaDq WITH
  Members <- {"a"}, Batches <- 2, Retries <- 1, MaxForeign <- 1, MaxFaults <- 2,
  log <- v1, floor <- v2, writable <- v3, foreign <- v4, faults <- v5, pc <- v6, why <- v7,
  batch <- v8, call <- v9, retries <- v10, handle <- v11, read <- v12, excused <- v13

(* A checkpoint every second commit, and two of another engine. *)
Opening == INSTANCE TableOpen WITH
  MaxVersion <- 4, Interval <- 2, MaxForeign <- 2, CleanupRaces <- FALSE, CleanupPartial <- FALSE,
  head <- v1, there <- v2, cps <- v3, foreign <- v4, pc <- v5, want <- v6, handle <- v7,
  hook <- v8

(* The target is recreated shorter under its writer. *)
Guard == INSTANCE TargetGuard WITH
  MaxVersion <- 3, MaxTables <- 2, MaxAge <- 1, Interval <- 2, Overtakes <- FALSE,
  Reopens <- TRUE, PartitionBlocked <- FALSE, Rebases <- FALSE,
  id <- v1, present <- v2, checkpoints <- v3, upgraded <- v4, protected <- v5, handle <- v6,
  age <- v7, since <- v8, phase <- v9, held <- v10, clean <- v11, seen <- v12, landed <- v13

(* Two members rebalance, shut down and die. *)
Events == INSTANCE KafkaEvents WITH
  Consumer <- {"a", "b"}, Partition <- {1}, MaxRebalances <- 4, MaxFaults <- 0, MaxKills <- 1,
  group <- v1, rounds <- v2, faults <- v3, kills <- v4, life <- v5, joined <- v6, rejoined <- v7,
  share <- v8, due <- v9, waits <- v10, lost <- v11, fetching <- v12, assigned <- v13,
  events <- v14, drained <- v15, owned <- v16, full <- v17, phase <- v18

(* Four rows, any of them bad, and failures of the query and the machine. *)
Search == INSTANCE Isolation WITH
  Inputs <- Chunks, Rejects <- {1, 5}, Sizes <- {0, 1}, MaxBad <- 4, MachineErrors <- Machine,
  input <- v1, bad <- v2, size <- v3, always <- v4, crossRow <- v5, max <- v6, phase <- v7,
  stack <- v8, ret <- v9, output <- v10, failed <- v11, runs <- v12, error <- v13

(* Two members on one partition of two messages, with two faults of every kind. *)
Faulty == INSTANCE KafkaPipeline WITH
  Member <- {"a", "b"}, Partition <- {p1}, Holes <- {}, Explicit <- [p \in {p1} |-> -1],
  Rest <- "earliest", Inherited <- <<>>, AllowReplay <- FALSE,
  FailsAt <- {"handle", "offsets", "watermarks"}, InitHigh <- [p \in {p1} |-> 2], MaxHigh <- 2,
  MaxLow <- 0, MaxFaults <- 2,
  low <- v1, high <- v2, target <- v3, late <- v4, mem <- v5, faults <- v6

(* Two members on one partition of two messages, one of which retention may
   take, and one fault. *)
Trimmed == INSTANCE KafkaPipeline WITH
  Member <- {"a", "b"}, Partition <- {p1}, Holes <- {}, Explicit <- [p \in {p1} |-> -1],
  Rest <- "earliest", Inherited <- <<>>, AllowReplay <- FALSE,
  FailsAt <- {"handle", "offsets", "watermarks"}, InitHigh <- [p \in {p1} |-> 2], MaxHigh <- 2,
  MaxLow <- 1, MaxFaults <- 1,
  low <- v1, high <- v2, target <- v3, late <- v4, mem <- v5, faults <- v6

ASSUME ConstantsAssumption ==
  /\ Handed!ConstantsAssumption
  /\ Merged!ConstantsAssumption
  /\ Gated!ConstantsAssumption
  /\ Stopped!ConstantsAssumption
  /\ Registry!ConstantsAssumption
  /\ Moved!ConstantsAssumption
  /\ Memory!ConstantsAssumption
  /\ Dq!ConstantsAssumption
  /\ Opening!ConstantsAssumption
  /\ Guard!ConstantsAssumption
  /\ Events!ConstantsAssumption
  /\ Search!ConstantsAssumption

-----------------------------------------------------------------------------
Init ==
  \/ part = "pair" /\ Pair!Init /\ Idle13
  \/ part = "alone" /\ Alone!Init /\ Idle13
  \/ part = "handed" /\ Handed!Init /\ Idle9
  \/ part = "merged" /\ Merged!Init /\ Idle8
  \/ part = "gated" /\ Gated!Init /\ Idle18
  \/ part = "stopped" /\ Stopped!Init /\ Idle18
  \/ part = "registry" /\ Registry!Init /\ Idle13
  \/ part = "moved" /\ Moved!Init /\ Idle10
  \/ part = "memory" /\ Memory!Init /\ Idle15
  \/ part = "dq" /\ Dq!Init /\ Idle13
  \/ part = "opening" /\ Opening!Init /\ Idle8
  \/ part = "guard" /\ Guard!Init /\ Idle13
  \/ part = "events" /\ Events!Init /\ Idle18
  \/ part = "search" /\ Search!Init /\ Idle13
  \/ part = "faulty" /\ Faulty!Init /\ Idle6
  \/ part = "trimmed" /\ Trimmed!Init /\ Idle6

Next ==
  \/ part = "pair" /\ Pair!Next /\ UNCHANGED Rest13
  \/ part = "alone" /\ Alone!Next /\ UNCHANGED Rest13
  \/ part = "handed" /\ Handed!Next /\ UNCHANGED Rest9
  \/ part = "merged" /\ Merged!Next /\ UNCHANGED Rest8
  \/ part = "gated" /\ Gated!Next /\ UNCHANGED Rest18
  \/ part = "stopped" /\ Stopped!Next /\ UNCHANGED Rest18
  \/ part = "registry" /\ Registry!Next /\ UNCHANGED Rest13
  \/ part = "moved" /\ Moved!Next /\ UNCHANGED Rest10
  \/ part = "memory" /\ Memory!Next /\ UNCHANGED Rest15
  \/ part = "dq" /\ Dq!Next /\ UNCHANGED Rest13
  \/ part = "opening" /\ Opening!Next /\ UNCHANGED Rest8
  \/ part = "guard" /\ Guard!Next /\ UNCHANGED Rest13
  \/ part = "events" /\ Events!Next /\ UNCHANGED Rest18
  \/ part = "search" /\ Search!Next /\ UNCHANGED Rest13
  \/ part = "faulty" /\ Faulty!Next /\ UNCHANGED Rest6
  \/ part = "trimmed" /\ Trimmed!Next /\ UNCHANGED Rest6

Spec == Init /\ [][Next]_vars

(* Every task of the process is scheduled again and again: a daemon is reopened after a
   failure, an upsert, a search or a member goes on, and so do the writers of sources
   that have something to write. *)
TasksRun ==
  /\ \A c \in {"a", "b"} : WF_vars(part = "pair" /\ Pair!Faultless(c) /\ UNCHANGED Rest13)
  /\ WF_vars(part = "alone" /\ Alone!Faultless("a") /\ UNCHANGED Rest13)
  /\ WF_vars(part = "handed" /\ Handed!Daemon /\ UNCHANGED Rest9)
  /\ WF_vars(part = "handed" /\ Handed!SourceAppends /\ UNCHANGED Rest9)
  /\ WF_vars(part = "merged" /\ Merged!Pipeline /\ UNCHANGED Rest8)
  /\ WF_vars(part = "merged" /\ Merged!Ingest /\ UNCHANGED Rest8)
  /\ \A c \in {"a", "b"} : WF_vars(part = "gated" /\ Gated!Progress(c) /\ UNCHANGED Rest18)
  /\ WF_vars(part = "stopped" /\ Stopped!Progress("a") /\ UNCHANGED Rest18)
  /\ WF_vars(part = "stopped" /\ Stopped!NearTask("a") /\ UNCHANGED Rest18)
  /\ \A c \in {"a", "b"} : WF_vars(part = "registry" /\ Registry!Lookup(c) /\ UNCHANGED Rest13)
  /\ WF_vars(part = "registry" /\ Registry!Tick /\ UNCHANGED Rest13)
  /\ WF_vars(part = "moved" /\ Moved!Do("a") /\ UNCHANGED Rest10)
  /\ WF_vars(part = "memory" /\ Memory!InstallBudget /\ UNCHANGED Rest15)
  /\ WF_vars(part = "memory" /\ Memory!InstallSpill /\ UNCHANGED Rest15)
  /\ \A c \in {"a", "b"} :
       WF_vars(part = "memory" /\ (Memory!Open(c) \/ Memory!NextBatch(c) \/ Memory!Scan(c)) /\ UNCHANGED Rest15)
  /\ \A c \in {"a", "b"} : WF_vars(part = "memory" /\ Memory!Deliver(c) /\ UNCHANGED Rest15)
  /\ WF_vars(part = "dq" /\ Dq!Do("a") /\ UNCHANGED Rest13)
  /\ WF_vars(part = "opening" /\ Opening!Do /\ UNCHANGED Rest8)
  /\ WF_vars(part = "guard" /\ Guard!Write /\ UNCHANGED Rest13)
  /\ WF_vars(part = "search" /\ Search!Next /\ UNCHANGED Rest13)
  /\ \A c \in {"a", "b"} : WF_vars(part = "events" /\ Events!Loop(c) /\ UNCHANGED Rest18)
  /\ \A c \in {"a", "b"} : WF_vars(part = "faulty" /\ Faulty!Faultless(c) /\ UNCHANGED Rest6)
  /\ \A c \in {"a", "b"} : WF_vars(part = "trimmed" /\ Trimmed!Faultless(c) /\ UNCHANGED Rest6)

(* What is outside the process answers: the catalog, the group and librdkafka, which
   serves its callbacks and ends sessions. *)
ServicesAnswer ==
  /\ WF_vars(part = "moved" /\ Moved!Execute("a") /\ UNCHANGED Rest10)
  /\ WF_vars(part = "events" /\ Events!Share /\ UNCHANGED Rest18)
  /\ WF_vars(part = "events" /\ Events!Continue /\ UNCHANGED Rest18)
  /\ \A c \in {"a", "b"} : WF_vars(part = "events" /\ Events!SessionEnds(c) /\ UNCHANGED Rest18)
  /\ \A c \in {"a", "b"} :
       WF_vars(part = "events" /\ (Events!CloseRevokes(c) \/ Events!CallbackClosing(c) \/ Events!CloseDone(c)) /\ UNCHANGED Rest18)

(* Strong fairness: a source is not written to for ever faster than it is read, so a
   pipeline, or a near-time reader, that steps for ever is caught up now and then; the
   semaphore under a cell of the registry serves its waiters in order; and recv serves
   the callback that is due. A behaviour is about one part, so that each conjunct is a
   conjunct of its own for every part. *)
Served ==
  /\ SF_vars(\/ part = "gated" /\ Gated!StepCaughtUp("a") /\ UNCHANGED Rest18
             \/ part = "stopped" /\ Stopped!StepCaughtUp("a") /\ UNCHANGED Rest18
             \/ part = "registry" /\ Registry!TakePermit("a") /\ UNCHANGED Rest13
             \/ part = "events" /\ Events!Callback("a") /\ UNCHANGED Rest18)
  /\ SF_vars(\/ part = "gated" /\ Gated!StepCaughtUp("b") /\ UNCHANGED Rest18
             \/ part = "stopped" /\ Stopped!NearCaughtUp("a") /\ UNCHANGED Rest18
             \/ part = "registry" /\ Registry!TakePermit("b") /\ UNCHANGED Rest13
             \/ part = "events" /\ Events!Callback("b") /\ UNCHANGED Rest18)

FairSpec == Spec /\ TasksRun /\ ServicesAnswer /\ Served

-----------------------------------------------------------------------------
(* Properties *)

(* Every commit of a Delta source arrives: an append drains its source, through
   faults and beside a second daemon, rows are delivered after a rebuild or a
   replaced source, merges catch up although they change nothing or lose races,
   and every commit fits some batch whatever the budget. What excuses a pipeline
   (a refused commit, a reject with nowhere to go) is in the component's own
   predicate. *)
RowsArrive ==
  /\ <>[](/\ part = "pair" => Pair!Drained
          /\ part = "alone" => Alone!Drained)
  /\ <>[](part = "handed" => Handed!Delivered)
  /\ <>[](part = "merged" => Merged!CaughtUp)
  /\ <>[](part = "memory" => Memory!EveryCommitDelivered)

(* Every message of a topic that retention leaves is committed, an id the
   registry knows is decoded in the end though it was once unknown or out of
   reach, and rejects are recorded once the table can be written. *)
MessagesArrive ==
  /\ <>[](/\ part = "faulty" => Faulty!Delivered
          /\ part = "trimmed" => Trimmed!Delivered)
  /\ \A c \in {"a", "b"} :
       <>[](part = "registry" => Registry!Reaches(c, 1)) => []<>(part = "registry" => Registry!Decoded(c))
  /\ <>[](part = "dq" => Dq!Writable) => <>[](part = "dq" => Dq!Through)

(* Rebalances complete again and again, every closed consumer leaves its group,
   and a writer notices that its target was replaced. *)
GroupSettles ==
  /\ []<>(part = "events" => Events!Stable)
  /\ <>[](part = "events" => Events!Left)
  /\ <>[](part = "guard" => Guard!Noticed)

(* After its faults are over a pipeline catches up again and again, each task
   ends when told to stop, a moved table is followed, a table whose log is whole
   is opened, and the search for bad rows ends. *)
ProcessSettles ==
  /\ \A c \in {"a", "b"} :
       <>[](part = "gated" => Gated!InOrder(c)) => []<>(part = "gated" => Gated!CaughtUp(c))
  /\ <>[](part = "stopped" => Stopped!ShutDown)
  /\ <>[](part = "moved" => Moved!Follows)
  /\ <>[](part = "opening" => Opening!Whole) => []<>(part = "opening" => Opening!Served)
  /\ <>[](part = "search" => Search!Ended)
=============================================================================
