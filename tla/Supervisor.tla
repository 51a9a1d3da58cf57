----------------------------- MODULE Supervisor -----------------------------
(***************************************************************************)
(* The supervisor of a fleet (main.rs): one task per pipeline that opens   *)
(* it, steps it, and on an error backs off and opens it again; one more    *)
(* task per near-time pipeline; the process-wide gate on merges and        *)
(* startup checks (gate.rs); and the health series each pipeline reports   *)
(* (metrics.rs). What a pipeline does inside a step is DeltaPipeline's and *)
(* KafkaPipeline's; here a step succeeds, waits, fails or panics, and      *)
(* `fault' is what is wrong with a pipeline's world at the moment.         *)
(***************************************************************************)
EXTENDS Integers, Sequences, FiniteSets

CONSTANTS
  Pipelines,        \* the pipelines of the fleet
  Upserts,          \* those with write_mode = "upsert"
  Kafkas,           \* those that read a Kafka topic
  NearTimes,        \* those with a near-time publisher
  Faults,           \* the errors that can befall a pipeline
  MaxMerges,        \* [runtime] max_concurrent_upsert_merges, or Unbounded
  MaxPreflights,    \* [runtime] max_concurrent_upsert_preflights, or Unbounded
  Unbounded,        \* no limit configured
  Once,             \* ddi once, rather than ddi run
  RetryMin,         \* RETRY_MIN, in hundredths of a unit of time
  RetryMax,         \* RETRY_MAX
  MaxFaults,        \* bound: how many times something breaks
  MaxPanics         \* bound: how many tasks panic

------------------------------------------------------------------------------
(* The errors a pipeline can fail with and what is done about each: how a Kafka
   pipeline's step handles one in place, and how long the supervisor waits after one
   that reached it (error.rs). The errors of delta-rs are told apart as far as the
   code tells them apart. An error is a record: its cause, and whether it comes
   wrapped in a DataQualityWrite.                                              *)

(* DeltaTableError, by the tests kafka_class and data_quality_class put to it. *)
DeltaErrors == {"DeltaConflict", "DeltaInvalidVersion", "DeltaUnreadableCheckpoint",
                "DeltaUnwritable", "DeltaStore", "DeltaUnfit", "DeltaUnreadableLog", "DeltaOther"}

StoreFault == {"DeltaStore"}
Unwritable == {"DeltaUnwritable"}
Unfit == {"DeltaUnfit"}
UnreadableLog == {"DeltaUnreadableLog"}

(* A commit of a Delta source that cannot be copied. *)
CommitErrors == {"ChangeCommit", "CommitTooLarge", "DeletionVectorUnsupported",
                 "UnsupportedProtocol"}

(* A resume, or a starting, version that is gone from the source's log. *)
LogErrors == {"CursorUnavailable", "BootstrapUnreachable"}

(* A source file that is gone, and a source that is another table now. *)
GoneErrors == {"SourceFileVacuumed", "SourceReplaced"}

SourceErrors == CommitErrors \cup LogErrors \cup GoneErrors

(* The fence's, and the data-quality table's. *)
FenceErrors == {"Fenced", "OffsetLogTruncated", "DataQualityConflict"}

(* A target that may not be written as it is. *)
TargetErrors == {"KafkaTxnRetention", "TargetProtocolUnsupported", "TargetReplaced",
                 "KafkaOffsetVanished"}

(* An operator has to say more before a Kafka pipeline opens. *)
SettingErrors == {"KafkaAppIdUnknown", "KafkaCompatUnset", "KafkaStartingOffsetsIncomplete"}

OpenErrors == {"KafkaOffsetMissing"} \cup SettingErrors

(* One partition's offsets against its log. *)
PartitionErrors == {"KafkaOffsetsUnavailable", "KafkaOffsetsRegressed", "KafkaTopicReplaced"}

(* Writer schemas against the configuration and the target. *)
SchemaErrors == {"KafkaSchemaReferences", "KafkaMetadataCollision",
                 "KafkaPartitionColumnUnmapped", "KafkaSchemaConflict"}

(* Messages that cannot be decoded and may not be set aside. *)
UndecodableErrors == {"KafkaUndecodable", "KafkaTooManyUndecodable"}

MessageErrors == SchemaErrors \cup UndecodableErrors

(* SchemaRegistryFailure and KafkaClientFailure, with the error that carries each. *)
RegistryErrors == {"SchemaRegistryUnavailable", "SchemaRegistryUnauthorized",
                   "SchemaRegistryRefused"}
ClientErrors == {"KafkaClientTransport", "KafkaClientFatal", "KafkaClientConfig"}

RowErrors == {"Transform", "Evaluation", "Schema"}
PlainErrors == {"Io", "Config", "Capacity", "Other"}

Causes == DeltaErrors \cup SourceErrors \cup FenceErrors \cup TargetErrors \cup OpenErrors
            \cup PartitionErrors \cup MessageErrors \cup RegistryErrors \cup ClientErrors
            \cup RowErrors \cup PlainErrors

(* Every failure of write_kafka but a conflict that outlasted its retries is its
   cause, wrapped. *)
ErrorKinds == [cause: Causes, dq: BOOLEAN]

(* The class of the cause beneath a DataQualityWrite. *)
DataQualityClass(e) ==
  CASE e = "Capacity" -> "Capacity"
    [] e = "TargetProtocolUnsupported" -> "BlockingPipeline"
    [] e \in StoreFault -> "Transient"
    [] e \in Unwritable \cup Unfit \cup UnreadableLog -> "BlockingPipeline"
    [] e = "Other" -> "ConsumerFatal"
    [] OTHER -> "Transient"

CauseClass(e) ==
  CASE e = "Capacity" -> "Capacity"
    [] e \in {"DataQualityConflict", "Io", "Config", "KafkaClientTransport",
              "SchemaRegistryUnavailable"} -> "Transient"
    [] e \in {"Fenced", "OffsetLogTruncated", "DeltaInvalidVersion", "DeltaConflict",
              "DeltaUnreadableCheckpoint"} -> "Replan"
    [] e \in Unwritable -> "BlockingPipeline"
    [] e \in StoreFault \cup Unfit \cup UnreadableLog \cup {"DeltaOther"} -> "Transient"
    [] e \in TargetErrors \cup RowErrors \cup MessageErrors \cup {"SchemaRegistryRefused"} ->
         "BlockingPipeline"
    [] e \in OpenErrors -> "OpenRefusal"
    [] e \in PartitionErrors -> "BlockingPartition"
    [] e \in {"KafkaClientFatal", "KafkaClientConfig", "SchemaRegistryUnauthorized", "Other"}
             \cup SourceErrors -> "ConsumerFatal"

KafkaClass(e) == IF e.dq THEN DataQualityClass(e.cause) ELSE CauseClass(e.cause)

(* Through the wrapper: what ran out is a fact about the machine either way. *)
IsCapacity(e) == e.cause = "Capacity"

(* The supervisor waits RETRY_MAX before it opens a Kafka pipeline again. *)
KafkaWaitsForAnOperator(e) ==
  \/ KafkaClass(e) \in {"OpenRefusal", "BlockingPipeline", "BlockingPartition", "Capacity"}
  \/ /\ KafkaClass(e) = "ConsumerFatal"
     /\ ~e.dq
     /\ e.cause \in {"KafkaClientConfig", "SchemaRegistryUnauthorized"}

------------------------------------------------------------------------------
(* Assumed of the constants; the suites that instantiate the module assume it. *)
ConstantsAssumption ==
  /\ IsFiniteSet(Pipelines)
  /\ Upserts \subseteq Pipelines /\ Kafkas \subseteq Pipelines /\ NearTimes \subseteq Pipelines
  /\ Upserts \cap Kafkas = {} /\ NearTimes \cap Kafkas = {}
  /\ Faults \subseteq ErrorKinds
  /\ MaxMerges \in Nat \cup {Unbounded} /\ MaxPreflights \in Nat \cup {Unbounded}
  /\ Once \in BOOLEAN
  /\ RetryMin \in Nat \ {0} /\ RetryMax \in Nat /\ RetryMin <= RetryMax
  /\ MaxFaults \in Nat /\ MaxPanics \in Nat

VARIABLES
  cancelled,   \* the CancellationToken
  pc,          \* where each pipeline's drive task is
  backoff,     \* drive's backoff
  wait,        \* how long the task sleeps now
  progressed,  \* a step of this attempt succeeded
  up,          \* ddi_pipeline_up
  gauges,      \* the gauges of this pipeline that read 1
  failure,     \* the last error drive saw, and the fault behind it
  drained,     \* the last attempt ended caught up
  mergeQueue,  \* callers waiting in gate.merge(), first come first served
  checkQueue,  \* callers waiting in gate.preflight()
  moved,       \* the catalog has a new location this task has not seen
  fault,       \* what is wrong with each pipeline's world
  faults,      \* how many times something broke
  near,        \* where each near-time task is
  nearBackoff, \* drive_near_time's backoff
  nearWait,    \* how long the near-time task sleeps now
  nearPolled   \* this near-time reader has polled successfully

vars == <<cancelled, pc, backoff, wait, progressed, up, gauges, failure, drained, mergeQueue,
          checkQueue, moved, fault, faults, near, nearBackoff, nearWait, nearPolled>>
gateVars == <<mergeQueue, checkQueue>>
nearVars == <<near, nearBackoff, nearWait, nearPolled>>
worldVars == <<cancelled, fault, faults, nearVars>>

NoFailure == [raised |-> "none", cause |-> "none"]
Ended == {"ok", "failed", "panicked"}
Open == {"running", "stepping", "mergeQueue", "merging", "idle", "reopening"}
States == {"start", "opening", "checkQueue", "checking", "backoff"} \cup Open \cup Ended

TypeOK ==
  /\ cancelled \in BOOLEAN
  /\ pc \in [Pipelines -> States]
  /\ backoff \in [Pipelines -> RetryMin .. RetryMax]
  /\ wait \in [Pipelines -> Nat]
  /\ progressed \in [Pipelines -> BOOLEAN] /\ up \in [Pipelines -> BOOLEAN]
  /\ gauges \in [Pipelines -> SUBSET {"vacuumed", "bootstrap", "resume", "capacity"}]
  /\ \A p \in Pipelines : failure[p] = NoFailure \/ failure[p].cause \in Causes
  /\ drained \in [Pipelines -> BOOLEAN] /\ moved \in [Pipelines -> BOOLEAN]
  /\ fault \in [Pipelines -> SUBSET Faults] /\ faults \in 0 .. MaxFaults
  /\ near \in [NearTimes -> {"start", "polling", "idle", "backoff"} \cup Ended]
  /\ nearBackoff \in [NearTimes -> RetryMin .. RetryMax] /\ nearWait \in [NearTimes -> Nat]
  /\ nearPolled \in [NearTimes -> BOOLEAN]

Init ==
  /\ cancelled = FALSE
  /\ pc = [p \in Pipelines |-> "start"]
  /\ backoff = [p \in Pipelines |-> RetryMin]
  /\ wait = [p \in Pipelines |-> 0]
  /\ progressed = [p \in Pipelines |-> FALSE]
  /\ up = [p \in Pipelines |-> FALSE]
  /\ gauges = [p \in Pipelines |-> {}]
  /\ failure = [p \in Pipelines |-> NoFailure]
  /\ drained = [p \in Pipelines |-> FALSE]
  /\ mergeQueue = <<>> /\ checkQueue = <<>>
  /\ moved = [p \in Pipelines |-> FALSE]
  /\ fault = [p \in Pipelines |-> {}] /\ faults = 0
  /\ near = [p \in NearTimes |-> "start"]
  /\ nearBackoff = [p \in NearTimes |-> RetryMin]
  /\ nearWait = [p \in NearTimes |-> 0]
  /\ nearPolled = [p \in NearTimes |-> FALSE]

-----------------------------------------------------------------------------
(* The gate: a limit of 0 is read as 1, and permits are granted in the order
   they were asked for. The holders are the tasks inside the guarded phase, so
   a permit goes back however the phase ends. *)

Limit(n) == IF n = Unbounded THEN Cardinality(Pipelines) ELSE IF n = 0 THEN 1 ELSE n
Merging == {p \in Pipelines : pc[p] = "merging"}
Checking == {p \in Pipelines : pc[p] = "checking"}

\* Mutant: no permit is asked for.
MergePassUngated(p) ==
  /\ pc[p] = "mergeQueue"
  /\ mergeQueue' = SelectSeq(mergeQueue, LAMBDA q : q # p)
  /\ pc' = [pc EXCEPT ![p] = "merging"]
  /\ UNCHANGED <<backoff, wait, progressed, up, gauges, failure, drained, checkQueue, moved,
                 worldVars>>

(* gate.merge(): taken before the batch is collapsed, held through the merge. *)
MergePass(p) ==
  /\ pc[p] = "mergeQueue" /\ Head(mergeQueue) = p
  /\ Cardinality(Merging) < Limit(MaxMerges)
  /\ mergeQueue' = Tail(mergeQueue)
  /\ pc' = [pc EXCEPT ![p] = "merging"]
  /\ UNCHANGED <<backoff, wait, progressed, up, gauges, failure, drained, checkQueue, moved,
                 worldVars>>

(* gate.preflight(): held across the startup uniqueness check. *)
CheckPass(p) ==
  /\ pc[p] = "checkQueue" /\ Head(checkQueue) = p
  /\ Cardinality(Checking) < Limit(MaxPreflights)
  /\ checkQueue' = Tail(checkQueue)
  /\ pc' = [pc EXCEPT ![p] = "checking"]
  /\ UNCHANGED <<backoff, wait, progressed, up, gauges, failure, drained, mergeQueue, moved,
                 worldVars>>

-----------------------------------------------------------------------------
(* The world *)

(* The starting version of a pipeline that is open was in the log. *)
Break(p, e) ==
  /\ faults < MaxFaults /\ e \notin fault[p] /\ pc[p] \notin Ended
  /\ e.cause = "BootstrapUnreachable" => pc[p] \notin Open
  /\ p \in Kafkas \/ ~e.dq
  /\ fault' = [fault EXCEPT ![p] = @ \cup {e}] /\ faults' = faults + 1
  /\ UNCHANGED <<cancelled, pc, backoff, wait, progressed, up, gauges, failure, drained,
                 gateVars, moved, nearVars>>

Repair(p, e) ==
  /\ e \in fault[p]
  /\ fault' = [fault EXCEPT ![p] = @ \ {e}]
  /\ UNCHANGED <<cancelled, pc, backoff, wait, progressed, up, gauges, failure, drained,
                 gateVars, moved, faults, nearVars>>

(* A catalog entry is pointed elsewhere: counted among the faults. *)
Relocate(p) ==
  /\ faults < MaxFaults /\ ~moved[p] /\ pc[p] \notin Ended
  /\ moved' = [moved EXCEPT ![p] = TRUE] /\ faults' = faults + 1
  /\ UNCHANGED <<cancelled, pc, backoff, wait, progressed, up, gauges, failure, drained,
                 gateVars, fault, nearVars>>

(* Ctrl-C, or SIGTERM when a Kafka pipeline runs. *)
Cancel ==
  /\ ~cancelled /\ cancelled' = TRUE
  /\ UNCHANGED <<pc, backoff, wait, progressed, up, gauges, failure, drained, gateVars, moved,
                 fault, faults, nearVars>>

(* The phase of an attempt an error is raised in. *)
RaisedIn(e) ==
  CASE e.cause \in {"BootstrapUnreachable", "Config"} \cup OpenErrors -> {"opening", "reopening"}
    [] e.cause = "CursorUnavailable" -> {"opening", "reopening", "stepping"}
    [] e.cause \in {"SourceFileVacuumed", "ChangeCommit"} \cup RowErrors -> {"stepping"}
    [] e.cause = "Capacity" -> {"checking", "stepping", "merging"}
    [] OTHER -> {"opening", "reopening", "stepping", "merging", "checking"}

InForce(p) == {e \in fault[p] : pc[p] \in RaisedIn(e)}

-----------------------------------------------------------------------------
(* The health series *)

GaugeOf(e) == (IF e.cause = "SourceFileVacuumed" THEN {"vacuumed"} ELSE {})
         \cup (IF e.cause = "BootstrapUnreachable" THEN {"bootstrap"} ELSE {})
         \cup (IF e.cause = "CursorUnavailable" THEN {"resume"} ELSE {})
         \cup (IF IsCapacity(e) THEN {"capacity"} ELSE {})

\* Mutant: an error of another kind lowers the gauges.
ObserveErrorAfresh(p, e) ==
  /\ up' = [up EXCEPT ![p] = FALSE]
  /\ gauges' = [gauges EXCEPT ![p] = GaugeOf(e)]

(* Raised, never lowered here: a later attempt failing some other way says
   nothing about what was missing. *)
ObserveError(p, e) ==
  /\ up' = [up EXCEPT ![p] = FALSE]
  /\ gauges' = [gauges EXCEPT ![p] = @ \cup GaugeOf(e)]

(* mark_progress, with the attempt's `progressed' flag beside it. *)
MarkProgress(p) ==
  /\ up' = [up EXCEPT ![p] = TRUE]
  /\ gauges' = [gauges EXCEPT ![p] = {}]
  /\ progressed' = [progressed EXCEPT ![p] = TRUE]

-----------------------------------------------------------------------------
(* drive: after a failed attempt *)

(* Up to a quarter either way, by the name and the attempt: any factor. *)
Jitter(d) == {(d * 75) \div 100, d, (d * 125) \div 100}

Doubled(d) == IF 2 * d > RetryMax THEN RetryMax ELSE 2 * d

(* The failures that wait the full backoff from the first retry on. *)
WaitsLong(p, e) ==
  \/ IsCapacity(e)
  \/ e.cause \in {"BootstrapUnreachable", "CursorUnavailable"}
  \/ p \in Kafkas /\ KafkaWaitsForAnOperator(e)

\* Mutant: progress does not reset the backoff.
BackoffFromKept(p, e) == IF WaitsLong(p, e) THEN RetryMax ELSE backoff[p]

BackoffFrom(p, e) ==
  IF WaitsLong(p, e) THEN RetryMax ELSE IF progressed[p] THEN RetryMin ELSE backoff[p]

\* Mutant: a long wait is set for the next failure, not this one.
FailLate(p, e, cause) ==
  /\ ObserveError(p, e)
  /\ failure' = [failure EXCEPT ![p] = [raised |-> e.cause, cause |-> cause]]
  /\ \/ /\ Once
        /\ pc' = [pc EXCEPT ![p] = "failed"] /\ UNCHANGED <<backoff, wait>>
     \/ /\ ~Once /\ cancelled
        /\ pc' = [pc EXCEPT ![p] = "ok"] /\ UNCHANGED <<backoff, wait>>
     \/ /\ ~Once /\ ~cancelled
        /\ backoff' = [backoff EXCEPT ![p] = BackoffFrom(p, e)]
        /\ \E w \in Jitter(backoff[p]) : wait' = [wait EXCEPT ![p] = w]
        /\ pc' = [pc EXCEPT ![p] = "backoff"]
  /\ UNCHANGED <<progressed, drained, gateVars, worldVars>>

\* Mutant: a failed once-run is reported as done.
FailQuietly(p, e, cause) ==
  /\ ObserveError(p, e)
  /\ failure' = [failure EXCEPT ![p] = [raised |-> e.cause, cause |-> cause]]
  /\ pc' = [pc EXCEPT ![p] = "ok"]
  /\ UNCHANGED <<backoff, wait, progressed, drained, gateVars, worldVars>>

(* drive's Err arm: e is what was raised, cause the fault behind it. *)
Fail(p, e, cause) ==
  /\ ObserveError(p, e)
  /\ failure' = [failure EXCEPT ![p] = [raised |-> e.cause, cause |-> cause]]
  /\ \/ /\ Once
        /\ pc' = [pc EXCEPT ![p] = "failed"] /\ UNCHANGED <<backoff, wait>>
     \/ /\ ~Once /\ cancelled
        /\ pc' = [pc EXCEPT ![p] = "ok"] /\ UNCHANGED <<backoff, wait>>
     \/ /\ ~Once /\ ~cancelled
        /\ backoff' = [backoff EXCEPT ![p] = BackoffFrom(p, e)]
        /\ \E w \in Jitter(BackoffFrom(p, e)) : wait' = [wait EXCEPT ![p] = w]
        /\ pc' = [pc EXCEPT ![p] = "backoff"]
  /\ UNCHANGED <<progressed, drained, gateVars, worldVars>>

\* Mutant: a failed pipeline is given up on, as a failed once-run is.
WakeGivesUp(p) ==
  /\ pc[p] = "backoff"
  /\ pc' = [pc EXCEPT ![p] = "ok"]
  /\ wait' = [wait EXCEPT ![p] = 0]
  /\ UNCHANGED <<backoff, progressed, up, gauges, failure, drained, gateVars, moved, worldVars>>

(* sleep_or_cancel ends; a cancelled task does not pay for one more open. *)
WakeFromBackoff(p) ==
  /\ pc[p] = "backoff"
  /\ IF cancelled
     THEN pc' = [pc EXCEPT ![p] = "ok"] /\ UNCHANGED <<backoff, progressed>>
     ELSE /\ backoff' = [backoff EXCEPT ![p] = Doubled(@)]
          /\ progressed' = [progressed EXCEPT ![p] = FALSE]
          /\ pc' = [pc EXCEPT ![p] = "start"]
  /\ wait' = [wait EXCEPT ![p] = 0]
  /\ UNCHANGED <<up, gauges, failure, drained, gateVars, moved, worldVars>>

-----------------------------------------------------------------------------
(* attempt: open *)

Start(p) ==
  /\ pc[p] = "start"
  /\ pc' = [pc EXCEPT ![p] = IF cancelled THEN "ok" ELSE "opening"]
  /\ moved' = [moved EXCEPT ![p] = IF cancelled THEN @ ELSE FALSE]
  /\ UNCHANGED <<backoff, wait, progressed, up, gauges, failure, drained, gateVars, worldVars>>

(* Both tables open; an upsert pipeline still has its startup check to make. *)
OpenTables(p) ==
  /\ pc[p] \in {"opening", "reopening"} /\ InForce(p) = {}
  /\ IF p \in Upserts
     THEN /\ pc' = [pc EXCEPT ![p] = "checkQueue"]
          /\ checkQueue' = Append(checkQueue, p) /\ UNCHANGED up
     ELSE /\ pc' = [pc EXCEPT ![p] = "running"] /\ UNCHANGED checkQueue
          /\ up' = [up EXCEPT ![p] = TRUE]
  /\ UNCHANGED <<backoff, wait, progressed, gauges, failure, drained, mergeQueue, moved,
                 worldVars>>

CheckGrain(p) ==
  /\ pc[p] = "checking" /\ InForce(p) = {}
  /\ pc' = [pc EXCEPT ![p] = "running"]
  /\ up' = [up EXCEPT ![p] = TRUE]
  /\ UNCHANGED <<backoff, wait, progressed, gauges, failure, drained, gateVars, moved, worldVars>>

OpenFails(p) ==
  /\ pc[p] \in {"opening", "reopening"}
  /\ \E e \in InForce(p) : Fail(p, e, e.cause)
  /\ UNCHANGED moved

(* Whatever the startup check fails with is wrapped in a Config error. *)
CheckFails(p) ==
  /\ pc[p] = "checking"
  /\ \E e \in InForce(p) : Fail(p, [e EXCEPT !.cause = "Config"], e.cause)
  /\ UNCHANGED moved

(* attempt: the loop *)

\* Mutant: the loop does not look at the token.
StopNever(p) ==
  /\ pc[p] = "running" /\ cancelled
  /\ UNCHANGED vars

Stop(p) ==
  /\ pc[p] = "running" /\ cancelled
  /\ pc' = [pc EXCEPT ![p] = "ok"]
  /\ up' = [up EXCEPT ![p] = FALSE]
  /\ UNCHANGED <<backoff, wait, progressed, gauges, failure, drained, gateVars, moved, worldVars>>

Reopen(p) ==
  /\ pc[p] = "running" /\ ~cancelled /\ moved[p]
  /\ pc' = [pc EXCEPT ![p] = "reopening"] /\ moved' = [moved EXCEPT ![p] = FALSE]
  /\ UNCHANGED <<backoff, wait, progressed, up, gauges, failure, drained, gateVars, worldVars>>

BeginStep(p) ==
  /\ pc[p] = "running" /\ ~cancelled /\ ~moved[p]
  /\ pc' = [pc EXCEPT ![p] = "stepping"]
  /\ UNCHANGED <<backoff, wait, progressed, up, gauges, failure, drained, gateVars, moved,
                 worldVars>>

(* An upsert step has read its batch and asks for a merge permit. *)
AskToMerge(p) ==
  /\ pc[p] = "stepping" /\ p \in Upserts /\ InForce(p) = {}
  /\ pc' = [pc EXCEPT ![p] = "mergeQueue"] /\ mergeQueue' = Append(mergeQueue, p)
  /\ UNCHANGED <<backoff, wait, progressed, up, gauges, failure, drained, checkQueue, moved,
                 worldVars>>

(* StepOutcome::Progressed, or Skipped. *)
StepCommits(p) ==
  /\ pc[p] = (IF p \in Upserts THEN "merging" ELSE "stepping") /\ InForce(p) = {}
  /\ MarkProgress(p)
  /\ pc' = [pc EXCEPT ![p] = "running"]
  /\ UNCHANGED <<backoff, wait, failure, drained, gateVars, moved, worldVars>>

(* StepOutcome::CaughtUp: the end of a once-run, a pause otherwise. A Kafka
   pipeline is caught up only in once-mode. *)
StepCaughtUp(p) ==
  /\ pc[p] = "stepping" /\ InForce(p) = {}
  /\ p \in Kafkas => Once
  /\ drained' = [drained EXCEPT ![p] = TRUE]
  /\ IF Once
     THEN /\ pc' = [pc EXCEPT ![p] = "ok"]
          /\ up' = [up EXCEPT ![p] = FALSE]
          /\ gauges' = [gauges EXCEPT ![p] = {}]
          /\ progressed' = [progressed EXCEPT ![p] = TRUE]
     ELSE MarkProgress(p) /\ pc' = [pc EXCEPT ![p] = "idle"]
  /\ UNCHANGED <<backoff, wait, failure, gateVars, moved, worldVars>>

Idle(p) ==
  /\ pc[p] = "idle"
  /\ pc' = [pc EXCEPT ![p] = "running"]
  /\ drained' = [drained EXCEPT ![p] = FALSE]
  /\ UNCHANGED <<backoff, wait, progressed, up, gauges, failure, gateVars, moved, worldVars>>

(* What a Kafka pipeline reports after a step it neither committed nor failed:
   `quiet' when nothing is assigned, it is caught up or it committed lately. *)
KafkaProgress(class, quiet) ==
  [retrying |-> class \in {"Transient", "Capacity"},
   blocked |-> class \in {"BlockingPipeline", "BlockingPartition"},
   heldWhole |-> class = "BlockingPipeline",
   reset |-> class = "Replan",
   capacity |-> class = "Capacity",
   quiet |-> quiet]

\* Mutant: a member that has just reset itself counts as making progress.
CountsResetToo(k) == ~(k.retrying \/ k.blocked) /\ k.quiet

Counts(k) == ~(k.retrying \/ k.blocked \/ k.reset) /\ k.quiet

KafkaWaits(p, k) ==
  /\ IF Counts(k)
     THEN /\ progressed' = [progressed EXCEPT ![p] = TRUE]
          /\ gauges' = [gauges EXCEPT ![p] = IF k.capacity THEN {"capacity"} ELSE {}]
     ELSE /\ gauges' = [gauges EXCEPT ![p] = @ \cup (IF k.capacity THEN {"capacity"} ELSE {})]
          /\ UNCHANGED progressed
  /\ up' = [up EXCEPT ![p] = ~k.heldWhole]
  /\ pc' = [pc EXCEPT ![p] = "running"]

(* StepOutcome::Waiting. *)
StepWaits(p) ==
  /\ pc[p] = "stepping" /\ p \in Kafkas
  /\ \E quiet \in BOOLEAN :
       \/ InForce(p) = {} /\ KafkaWaits(p, KafkaProgress("none", quiet))
       \/ \E e \in InForce(p) :
            /\ KafkaClass(e) # "ConsumerFatal"
            /\ KafkaWaits(p, KafkaProgress(KafkaClass(e), quiet))
  /\ UNCHANGED <<backoff, wait, failure, drained, gateVars, moved, worldVars>>

(* A Delta pipeline's step returns every error; a Kafka pipeline's only those
   that end its consumer. *)
StepFails(p) ==
  /\ pc[p] \in {"stepping", "merging"}
  /\ \E e \in InForce(p) :
       /\ p \in Kafkas => KafkaClass(e) = "ConsumerFatal"
       /\ Fail(p, e, e.cause)
  /\ UNCHANGED moved

\* Mutant: the gauge is cleared on the error path only.
PanicNoGuard(p) ==
  /\ pc[p] \in {"opening", "checking", "stepping", "merging"}
  /\ Cardinality({q \in Pipelines : pc[q] = "panicked"}) < MaxPanics
  /\ pc' = [pc EXCEPT ![p] = "panicked"]
  /\ UNCHANGED <<backoff, wait, progressed, up, gauges, failure, drained, gateVars, moved,
                 worldVars>>

(* A panic unwinds the task: the Up guard and a permit are dropped, and
   nothing opens the pipeline again. *)
Panic(p) ==
  /\ pc[p] \in {"opening", "checking", "stepping", "merging"}
  /\ Cardinality({q \in Pipelines : pc[q] = "panicked"}) < MaxPanics
  /\ pc' = [pc EXCEPT ![p] = "panicked"]
  /\ up' = [up EXCEPT ![p] = FALSE]
  /\ UNCHANGED <<backoff, wait, progressed, gauges, failure, drained, gateVars, moved, worldVars>>

-----------------------------------------------------------------------------
(* drive_near_time: a second task, with a reader and a backoff of its own. *)

PipelineVars == <<pc, backoff, wait, progressed, up, gauges, failure, drained, gateVars, moved>>

NearFault(p) ==
  \E e \in fault[p] : e.cause \in {"DeltaStore", "SourceFileVacuumed", "CursorUnavailable"}

NearFails(p) ==
  \/ /\ Once
     /\ near' = [near EXCEPT ![p] = "failed"] /\ UNCHANGED <<nearBackoff, nearWait>>
  \/ /\ ~Once /\ cancelled
     /\ near' = [near EXCEPT ![p] = "ok"] /\ UNCHANGED <<nearBackoff, nearWait>>
  \/ /\ ~Once /\ ~cancelled
     /\ \E w \in Jitter(nearBackoff[p]) : nearWait' = [nearWait EXCEPT ![p] = w]
     /\ near' = [near EXCEPT ![p] = "backoff"] /\ UNCHANGED nearBackoff

(* attempt_near_time opens its reader; one whose setup is broken has nothing
   to retry and ends. *)
NearStart(p) ==
  /\ near[p] = "start"
  /\ \/ cancelled /\ near' = [near EXCEPT ![p] = "ok"] /\ UNCHANGED <<nearBackoff, nearWait>>
     \/ ~cancelled /\ NearFault(p) /\ NearFails(p)
     \/ /\ ~cancelled /\ ~NearFault(p) /\ UNCHANGED <<nearBackoff, nearWait>>
        /\ \E to \in {"polling", "ok"} : near' = [near EXCEPT ![p] = to]
  /\ nearPolled' = [nearPolled EXCEPT ![p] = FALSE]
  /\ UNCHANGED <<PipelineVars, cancelled, fault, faults>>

NearPoll(p) ==
  /\ near[p] = "polling" /\ ~cancelled
  /\ \/ /\ NearFault(p) /\ NearFails(p) /\ UNCHANGED nearPolled
     \/ /\ ~NearFault(p)
        /\ \E to \in {"polling", IF Once THEN "ok" ELSE "idle"} : near' = [near EXCEPT ![p] = to]
        /\ nearPolled' = [nearPolled EXCEPT ![p] = TRUE]
        /\ UNCHANGED <<nearBackoff, nearWait>>
  /\ UNCHANGED <<PipelineVars, cancelled, fault, faults>>

NearStops(p) ==
  /\ near[p] = "polling" /\ cancelled
  /\ near' = [near EXCEPT ![p] = "ok"]
  /\ UNCHANGED <<PipelineVars, cancelled, fault, faults, nearBackoff, nearWait, nearPolled>>

NearWakes(p) ==
  /\ \/ near[p] = "idle" /\ near' = [near EXCEPT ![p] = "polling"] /\ UNCHANGED nearBackoff
     \/ /\ near[p] = "backoff" /\ cancelled
        /\ near' = [near EXCEPT ![p] = "ok"] /\ UNCHANGED nearBackoff
     \/ /\ near[p] = "backoff" /\ ~cancelled
        /\ near' = [near EXCEPT ![p] = "start"]
        /\ nearBackoff' = [nearBackoff EXCEPT ![p] = Doubled(@)]
  /\ nearWait' = [nearWait EXCEPT ![p] = 0]
  /\ UNCHANGED <<PipelineVars, cancelled, fault, faults, nearPolled>>

-----------------------------------------------------------------------------
AllEnded == (\A p \in Pipelines : pc[p] \in Ended) /\ (\A p \in NearTimes : near[p] \in Ended)

(* run_all's join loop: it ends with the last task, and reports a failure when
   any task failed or panicked. *)
ExitOk == AllEnded /\ (\A p \in Pipelines : pc[p] = "ok") /\ (\A p \in NearTimes : near[p] = "ok")

Exited == AllEnded /\ UNCHANGED vars

(* What the runtime schedules: everything but the world and a panic. *)
Progress(p) ==
  \/ Start(p) \/ OpenTables(p) \/ CheckGrain(p) \/ OpenFails(p) \/ CheckFails(p) \/ CheckPass(p)
  \/ Stop(p) \/ Reopen(p) \/ BeginStep(p) \/ AskToMerge(p) \/ MergePass(p)
  \/ StepCommits(p) \/ StepCaughtUp(p) \/ Idle(p) \/ StepWaits(p) \/ StepFails(p)
  \/ WakeFromBackoff(p)

NearCaughtUp(p) == NearPoll(p) /\ near'[p] # "polling"
NearTask(p) == NearStart(p) \/ NearPoll(p) \/ NearStops(p) \/ NearWakes(p)

Next ==
  \/ Cancel
  \/ \E p \in Pipelines : Progress(p) \/ Panic(p) \/ Relocate(p)
  \/ \E p \in Pipelines, e \in Faults : Break(p, e) \/ Repair(p, e)
  \/ \E p \in NearTimes : NearTask(p)
  \/ Exited

Spec == Init /\ [][Next]_vars

(* Every task is scheduled again and again. A source is not written to for
   ever faster than it is read, so a pipeline that steps for ever is caught up
   now and then. *)
Fairness ==
  /\ \A p \in Pipelines : WF_vars(Progress(p)) /\ SF_vars(StepCaughtUp(p))
  /\ \A p \in NearTimes : WF_vars(NearTask(p)) /\ SF_vars(NearCaughtUp(p))

FairSpec == Spec /\ Fairness

-----------------------------------------------------------------------------
(* ddi_pipeline_up reads 1 only for a pipeline that is open and whose task is
   alive: not while it backs off, not after a panic took its task (main.rs's
   Up guard and observe_error). *)
UpIsTrue == \A p \in Pipelines : up[p] => pc[p] \notin Ended \cup {"start", "opening", "backoff"}

(* Failures that a brief wait cannot help. *)
LongWaits == {"Capacity", "BootstrapUnreachable", "CursorUnavailable"}

(* The first failure after a success waits about RETRY_MIN, unless it is one
   that waiting briefly cannot help: an outage last week leaves no penalty
   (drive). *)
FreshStart ==
  \A p \in Pipelines \ Kafkas :
    pc[p] = "backoff" /\ progressed[p] /\ failure[p].raised \notin LongWaits =>
      wait[p] <= (RetryMin * 125) \div 100

(* A failure that needs an operator or more room waits at least three quarters
   of RETRY_MAX, from the first retry on. *)
OperatorWaits ==
  \A p \in Pipelines :
    pc[p] = "backoff" /\ failure[p].raised \in LongWaits => wait[p] >= (RetryMax * 75) \div 100

(* No more merges, and no more startup checks, run at once than the gate
   allows, whatever fails or panics inside them (gate.rs). *)
WithinLimits ==
  /\ Cardinality(Merging) <= Limit(MaxMerges)
  /\ Cardinality(Checking) <= Limit(MaxPreflights)

(* A once-run that exits 0, uninterrupted, left every pipeline caught up. *)
ExitTells == Once /\ ExitOk /\ ~cancelled => \A p \in Pipelines : drained[p]

(* The cause a gauge stands for. *)
GaugeOfCause(g) ==
  CASE g = "vacuumed" -> "SourceFileVacuumed" [] g = "bootstrap" -> "BootstrapUnreachable"
    [] g = "resume" -> "CursorUnavailable" [] g = "capacity" -> "Capacity"

(* A gauge that tells an operator what is missing is lowered only once it is
   there again: another error in between lowers nothing (metrics.rs,
   observe_error and mark_progress). A merge commits what an upsert step had
   read before the file or the version went, and lowers the gauges then. *)
GaugeStays ==
  \A p \in Pipelines \ Upserts : \A g \in gauges[p] \ gauges'[p] :
    \A e \in fault[p] : e.cause # GaugeOfCause(g)

(* A pipeline in trouble never reports progress: not while it retries, is
   blocked, or has just reset (§3.9, KafkaProgress::counts). *)
ProgressIsReal ==
  \A p \in Pipelines : progressed'[p] /\ ~progressed[p] => InForce(p) = {}

InOrder(p) == fault[p] = {}
CaughtUp(p) == drained[p] \/ pc[p] = "panicked" \/ cancelled

(* A pipeline whose world is in order again catches up in the end, unless it
   panicked or the process was told to stop: one failure is never the end of
   it, and no other pipeline's failure holds it up. *)
Recovers == \A p \in Pipelines \ Kafkas : <>[]InOrder(p) => []<>CaughtUp(p)

(* From some point on: a process told to stop, in whatever its tasks are, has stopped. *)
ShutDown == cancelled => AllEnded

=============================================================================
