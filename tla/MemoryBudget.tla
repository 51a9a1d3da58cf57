---------------------------- MODULE MemoryBudget ----------------------------
(***************************************************************************)
(* One memory number and one spill budget for the pipelines of a process   *)
(* (src/src/budget.rs, src/src/spill.rs, the batch sizing of               *)
(* src/src/source/log_stream.rs).                                          *)
(*                                                                         *)
(* The budget is the smaller of the configured one and three quarters of   *)
(* the container's, less librdkafka's reserve, divided by the pipelines.   *)
(* A batch is sized in compressed bytes by what decoding cost before; each *)
(* DataFusion operation takes its memory from its pipeline's share and     *)
(* spills into one directory whose counter all of them charge.             *)
(*                                                                         *)
(* Ratios are parts per thousand, as Amplification stores them.            *)
(***************************************************************************)
EXTENDS Integers, Sequences, FiniteSets, FiniteSetsExt, Functions

CONSTANTS
  Pipelines,
  Kafka,          \* the pipelines that hold librdkafka's memory besides
  Commits,        \* each pipeline's source: a sequence of [size, ratio]
  Configured,     \* [runtime] max_memory, or NoLimit
  Containers,     \* the cgroup limits the process may find, NoLimit among them
  ReserveBytes,   \* KAFKA_RESERVE_BYTES
  Assumed,        \* ASSUMED_AMPLIFICATION
  MaxBytes,       \* max_bytes_per_batch
  SpillCaps,      \* the max_temp_directory_size a configuration may name
  SpillFloor,     \* MIN_TEMP_DIRECTORY_SIZE
  SpillWrite,     \* the bytes of one spill file
  Causes,         \* what may go wrong in an operation besides a full directory
  MaxFailures     \* bound on the failed operations
NoLimit == 1000000

(* Assumed of the constants; the suites that instantiate the module assume it. *)
ConstantsAssumption ==
  /\ Kafka \subseteq Pipelines
  /\ Configured \in Nat /\ Containers \subseteq Nat /\ ReserveBytes \in Nat
  /\ Assumed \in Nat \ {0} /\ MaxBytes \in Nat \ {0}
  /\ Causes \subseteq {"memory", "create", "value"}

VARIABLES
  container,  \* the cgroup's limit
  cap,        \* max_temp_directory_size
  writable,   \* whether temp_directory takes the probe file
  phase,      \* "start", "budgeted", "running", "refused"
  budget,     \* what Budget::current answers: bytes per pipeline, or NoLimit
  pc,         \* each pipeline: "down", "idle", "read", "work"
  next,       \* each pipeline's first commit not yet delivered
  batch,      \* how many commits its batch holds
  amp,        \* Amplification
  worst,      \* the worst ratio it has measured since it opened
  spilled,    \* the bytes its operation has on disk
  used,       \* the shared DiskManager's counter
  route,      \* how its error reached this crate: "datafusion" or "delta"
  failed,     \* what its last operation failed on, and how that was classified
  failures

env == <<container, cap, writable>>
vars == <<env, phase, budget, pc, next, batch, amp, worst, spilled, used, route, failed, failures>>

Min2(a, b) == IF a < b THEN a ELSE b
Max2(a, b) == IF a > b THEN a ELSE b
None == [cause |-> "none", class |-> "none"]

Init ==
  /\ container \in Containers /\ cap \in SpillCaps /\ writable \in BOOLEAN
  /\ phase = "start" /\ budget = NoLimit
  /\ pc = [p \in Pipelines |-> "down"]
  /\ next = [p \in Pipelines |-> 1]
  /\ batch = [p \in Pipelines |-> 0]
  /\ amp = [p \in Pipelines |-> Assumed]
  /\ worst = [p \in Pipelines |-> 0]
  /\ spilled = [p \in Pipelines |-> 0]
  /\ used = 0
  /\ route \in [Pipelines -> {"datafusion", "delta"}]
  /\ failed = [p \in Pipelines |-> None]
  /\ failures = 0

----------------------------------------------------------------------------
(* Startup: the budgets are resolved and installed before a pipeline opens. *)

(* Budget::total *)
Total == Min2(Configured, IF container = NoLimit THEN NoLimit ELSE (container * 3) \div 4)
Reserved == Cardinality(Kafka) * ReserveBytes

(* Budget::resolve_reserving *)
Share ==
  IF Total = NoLimit THEN NoLimit
  ELSE (Total - Min2(Reserved, Total)) \div Max2(Cardinality(Pipelines), 1)

Started == <<pc, next, batch, amp, worst, spilled, used, route, failed, failures>>

RefuseBudget ==
  /\ phase = "start"
  /\ Total # NoLimit /\ Reserved > 0 /\ Total <= Reserved
  /\ phase' = "refused"
  /\ UNCHANGED <<env, budget, Started>>

InstallBudget ==
  /\ phase = "start"
  /\ ~(Total # NoLimit /\ Reserved > 0 /\ Total <= Reserved)
  /\ budget' = Share
  /\ phase' = "budgeted"
  /\ UNCHANGED <<env, Started>>

(* Config::spill and Spill::resolve: a cap no spill fits in, and a directory
   that does not take a probe file, stop the process before anything runs. *)
RefuseSpill ==
  /\ phase = "budgeted"
  /\ cap < SpillFloor \/ ~writable
  /\ phase' = "refused"
  /\ UNCHANGED <<env, budget, Started>>

InstallSpill ==
  /\ phase = "budgeted"
  /\ cap >= SpillFloor /\ writable
  /\ phase' = "running"
  /\ UNCHANGED <<env, budget, Started>>

----------------------------------------------------------------------------
(* Sizing and reading a batch *)

Open(p) ==
  /\ phase = "running" /\ pc[p] = "down"
  /\ pc' = [pc EXCEPT ![p] = "idle"]
  /\ amp' = [amp EXCEPT ![p] = Assumed]
  /\ worst' = [worst EXCEPT ![p] = 0]
  /\ UNCHANGED <<env, phase, budget, next, batch, spilled, used, route, failed, failures>>

SizeOf(p, n) == FoldFunctionOnSet(LAMBDA c, s : c.size + s, 0, Commits[p], next[p] .. next[p] + n - 1)
DecodedOf(p, n) ==
  FoldFunctionOnSet(LAMBDA c, s : (c.size * c.ratio) \div 1000 + s, 0, Commits[p],
                    next[p] .. next[p] + n - 1)

(* Budget::bytes_per_batch *)
BytesPerBatch(p) == (budget * 1000) \div (2 * Max2(amp[p], 1000))

CombinedCeiling(p) == IF budget = NoLimit THEN MaxBytes ELSE Min2(MaxBytes, BytesPerBatch(p))

\* Mutant: the first commit of a batch is held to the memory budget too.
FitsBudgeted(p, n) == \A k \in 1 .. n : SizeOf(p, k) <= CombinedCeiling(p)

(* The first commit is admitted against the configured limit alone. *)
Fits(p, n) == SizeOf(p, 1) <= MaxBytes /\ \A k \in 2 .. n : SizeOf(p, k) <= CombinedCeiling(p)

Left(p) == Len(Commits[p]) - next[p] + 1

NextBatch(p) ==
  /\ pc[p] = "idle" /\ Left(p) > 0
  /\ Fits(p, 1)
  /\ batch' = [batch EXCEPT ![p] = Max({n \in 1 .. Left(p) : Fits(p, n)})]
  /\ pc' = [pc EXCEPT ![p] = "read"]
  /\ UNCHANGED <<env, phase, budget, next, amp, worst, spilled, used, route, failed, failures>>

\* Mutant: the newest ratio replaces the estimate.
ObserveNewest(p, seen) == seen

(* Amplification::observe *)
Observe(p, seen) == Max2(amp[p], seen)

(* The files are decoded, and what that cost is folded in. *)
Scan(p) ==
  /\ pc[p] = "read"
  /\ LET seen == (DecodedOf(p, batch[p]) * 1000) \div SizeOf(p, batch[p])
     IN  /\ amp' = [amp EXCEPT ![p] = Observe(p, seen)]
         /\ worst' = [worst EXCEPT ![p] = Max2(@, seen)]
  /\ pc' = [pc EXCEPT ![p] = "work"]
  /\ UNCHANGED <<env, phase, budget, next, batch, spilled, used, route, failed, failures>>

----------------------------------------------------------------------------
(* Working on it: operations that spill into the shared directory *)

\* Mutant: every runtime gets a disk manager of its own.
CounterOwn(p) == spilled[p]

(* Spill::runtime_builder: every runtime shares the prototype's DiskManager. *)
Counter(p) == used

Spills(p) ==
  /\ pc[p] = "work"
  /\ Counter(p) + SpillWrite <= cap
  /\ spilled' = [spilled EXCEPT ![p] = @ + SpillWrite]
  /\ used' = used + SpillWrite
  /\ UNCHANGED <<env, phase, budget, pc, next, batch, amp, worst, route, failed, failures>>

(* is_capacity, for what DataFusion raises to this crate. *)
Classify(cause) == IF cause \in {"memory", "disk", "create"} THEN "Capacity" ELSE "Transform"

\* Mutant: delta-rs's string is not read.
ClassifyDeltaNot(cause) == "Delta"

(* classify_delta, for what comes back through delta-rs as a string: of a spill
   file that cannot be created it knows nothing. *)
ClassifyDelta(cause) == IF cause \in {"memory", "disk"} THEN "Capacity" ELSE "Delta"

(* The operation fails and what it had on disk is removed; its pipeline goes down. *)
Fail(p, cause) ==
  /\ failures < MaxFailures
  /\ failures' = failures + 1
  /\ failed' = [failed EXCEPT ![p] =
                 [cause |-> cause,
                  class |-> IF route[p] = "delta" THEN ClassifyDelta(cause) ELSE Classify(cause)]]
  /\ used' = used - spilled[p]
  /\ spilled' = [spilled EXCEPT ![p] = 0]
  /\ pc' = [pc EXCEPT ![p] = "down"]
  /\ batch' = [batch EXCEPT ![p] = 0]
  /\ UNCHANGED <<env, phase, budget, next, amp, worst, route>>

(* A refused write is taken back, and costs the query that hit the cap. *)
SpillRefused(p) ==
  /\ pc[p] = "work"
  /\ Counter(p) + SpillWrite > cap
  /\ Fail(p, "disk")

OperationFails(p) ==
  /\ pc[p] = "work"
  /\ \E cause \in Causes : Fail(p, cause)

Deliver(p) ==
  /\ pc[p] = "work"
  /\ next' = [next EXCEPT ![p] = @ + batch[p]]
  /\ batch' = [batch EXCEPT ![p] = 0]
  /\ used' = used - spilled[p]
  /\ spilled' = [spilled EXCEPT ![p] = 0]
  /\ failed' = [failed EXCEPT ![p] = None]
  /\ pc' = [pc EXCEPT ![p] = "idle"]
  /\ UNCHANGED <<env, phase, budget, amp, worst, route, failures>>

Next ==
  \/ RefuseBudget \/ InstallBudget \/ RefuseSpill \/ InstallSpill
  \/ \E p \in Pipelines :
       \/ Open(p) \/ NextBatch(p) \/ Scan(p) \/ Spills(p) \/ SpillRefused(p)
       \/ OperationFails(p) \/ Deliver(p)

Spec == Init /\ [][Next]_vars

(* Startup runs, and each pipeline's task keeps stepping: an operation that may
   go on ends. *)
FairSpec ==
  /\ Spec /\ WF_vars(InstallBudget) /\ WF_vars(InstallSpill)
  /\ \A p \in Pipelines :
       WF_vars(Open(p) \/ NextBatch(p) \/ Scan(p)) /\ WF_vars(Deliver(p))

----------------------------------------------------------------------------
(* Properties *)

(* Type invariant. *)
TypeOK ==
  /\ phase \in {"start", "budgeted", "running", "refused"}
  /\ \A p \in Pipelines :
       /\ pc[p] \in {"down", "idle", "read", "work"}
       /\ next[p] \in 1 .. Len(Commits[p]) + 1
       /\ batch[p] \in 0 .. Left(p)
       /\ pc[p] \in {"read", "work"} => batch[p] > 0

(* A batch put together from several commits that decode no worse than what was
   assumed or has been measured since the pipeline opened. *)
Sized(p) ==
  /\ batch[p] > 1
  /\ \A i \in next[p] .. next[p] + batch[p] - 1 :
       Commits[p][i].ratio <= Max2(Max2(worst[p], Assumed), 1000)

(* The batches in memory, when every pipeline holds one it has put together and
   sized, fit the process's budget with librdkafka's memory beside them, and leave each
   pipeline half of its share. (budget.rs:65) *)
WithinBudget ==
  (phase = "running" /\ Total # NoLimit /\ \A p \in Pipelines : Sized(p) \/ batch[p] = 0) =>
    MapThenSumSet(LAMBDA p : 2 * DecodedOf(p, batch[p]), Pipelines) + Reserved <= Total

(* One cap for the process: what all operations have on disk together, however
   many run at once and whichever have failed. (spill.rs:31) *)
OneSpillBudget ==
  /\ MapThenSumSet(LAMBDA p : spilled[p], Pipelines) <= cap
  /\ used = MapThenSumSet(LAMBDA p : spilled[p], Pipelines)

(* Memory or spill space that ran out is a capacity failure, whether DataFusion's
   error reached this crate as such or as a string of delta-rs; so is a spill file
   that cannot be created, where DataFusion's own error arrives; an error about a
   value never is.  Nothing is said of a spill file that cannot be created under a
   merge or a write: classify_delta does not know its sentence.
   (spill.rs:305, 317, 325) *)
MachineIsCapacity ==
  \A p \in Pipelines :
    /\ failed[p].cause \in {"memory", "disk"} => failed[p].class = "Capacity"
    /\ failed[p].cause = "create" /\ route[p] = "datafusion" => failed[p].class = "Capacity"
    /\ failed[p].cause = "value" => failed[p].class # "Capacity"

(* From some point on: a commit within the configured limit is delivered however tight
   memory is, so that no budget turns a pipeline that worked into one that stops.
   (log_stream.rs:197) *)
EveryCommitDelivered ==
  phase = "running" => \A p \in Pipelines : next[p] = Len(Commits[p]) + 1

=============================================================================
