-------------------------- MODULE Supervisor_proofs --------------------------
(***************************************************************************)
(* What the supervisor keeps of every fleet: any number of pipelines, of   *)
(* near-time readers, faults and limits of the gate, in either mode.       *)
(* Beside it, what a pipeline of the fleet keeps that enriches its         *)
(* batches: any times of the source's commits, any policy and any number   *)
(* of writes to the lookup, replacements of it, failures and retries.      *)
(***************************************************************************)
EXTENDS Supervisor, FiniteSetTheorems, WellFoundedInduction, TLAPS

-----------------------------------------------------------------------------
(* The inductive invariant *)

(* What drive remembers of the last error. *)
Failures == [raised : Causes, cause : Causes] \cup {NoFailure}

(* The starting version of a pipeline that is open was in the log: what the
   bootstrap gauge stands for is raised again only by an open. *)
BootstrapKnown ==
  \A p \in Pipelines \ Upserts :
    pc[p] \in Open => \A e \in fault[p] : e.cause # "BootstrapUnreachable"

(* A task of a once-run that ended well, and was not told to, was caught up. *)
EndedCaughtUp == \A p \in Pipelines : Once /\ pc[p] = "ok" /\ ~cancelled => drained[p]

(* Only an upsert pipeline asks for permits. *)
GateForUpserts ==
  \A p \in Pipelines :
    pc[p] \in {"checkQueue", "checking", "mergeQueue", "merging"} => p \in Upserts

FleetTyped == TypeOK /\ failure \in [Pipelines -> Failures]

FleetInv ==
  /\ FleetTyped
  /\ UpIsTrue
  /\ FreshStart
  /\ OperatorWaits
  /\ WithinLimits
  /\ EndedCaughtUp
  /\ BootstrapKnown
  /\ GateForUpserts

-----------------------------------------------------------------------------
(* The errors *)

Classes == {"Transient", "Capacity", "BlockingPipeline", "BlockingPartition", "Replan",
            "OpenRefusal", "ConsumerFatal"}

\* Every error has a class, and only what an open meets refuses one (KafkaError::class).
LEMMA ClassOfError ==
  ASSUME NEW e \in ErrorKinds
  PROVE  /\ KafkaClass(e) \in Classes
         /\ KafkaClass(e) = "OpenRefusal" => e.cause \in OpenErrors
<1> DEFINE c == e.cause
<1>1. c \in Causes /\ e.dq \in BOOLEAN BY DEF ErrorKinds
<1>2. /\ DataQualityClass(c) \in Classes
      /\ DataQualityClass(c) # "OpenRefusal"
  BY DEF DataQualityClass, Classes, StoreFault, Unwritable, Unfit, UnreadableLog
<1>3. /\ CauseClass(c) \in Classes
      /\ CauseClass(c) = "OpenRefusal" => c \in OpenErrors
  <2>1. CASE c \in DeltaErrors
    BY <2>1 DEF CauseClass, Classes, DeltaErrors, StoreFault, Unwritable, Unfit, UnreadableLog,
                SourceErrors, CommitErrors, LogErrors, GoneErrors, TargetErrors, RowErrors,
                MessageErrors, SchemaErrors, UndecodableErrors, OpenErrors, SettingErrors,
                PartitionErrors
  <2>2. CASE c \in SourceErrors \cup FenceErrors \cup TargetErrors \cup OpenErrors
    BY <2>2 DEF CauseClass, Classes, StoreFault, Unwritable, Unfit, UnreadableLog, FenceErrors,
                SourceErrors, CommitErrors, LogErrors, GoneErrors, TargetErrors, RowErrors,
                MessageErrors, SchemaErrors, UndecodableErrors, OpenErrors, SettingErrors,
                PartitionErrors
  <2>3. CASE c \in PartitionErrors \cup MessageErrors \cup RegistryErrors \cup ClientErrors
                     \cup RowErrors \cup PlainErrors
    BY <2>3 DEF CauseClass, Classes, StoreFault, Unwritable, Unfit, UnreadableLog,
                SourceErrors, CommitErrors, LogErrors, GoneErrors, TargetErrors, RowErrors,
                MessageErrors, SchemaErrors, UndecodableErrors, OpenErrors, SettingErrors,
                PartitionErrors, RegistryErrors, ClientErrors, PlainErrors
  <2> QED BY <1>1, <2>1, <2>2, <2>3 DEF Causes
<1> QED BY <1>1, <1>2, <1>3 DEF KafkaClass

\* A Kafka pipeline with something wrong in its step does not count as progressing
\* (KafkaProgress::counts).
LEMMA TroubleNeverCounts ==
  ASSUME NEW p \in Pipelines, pc[p] = "stepping", NEW e \in ErrorKinds, e \in InForce(p),
         KafkaClass(e) # "ConsumerFatal", NEW quiet \in BOOLEAN
  PROVE  ~Counts(KafkaProgress(KafkaClass(e), quiet))
<1>1. e.cause \notin OpenErrors BY DEF InForce, RaisedIn, OpenErrors, SettingErrors, RowErrors
<1>2. KafkaClass(e) \in Classes \ {"OpenRefusal", "ConsumerFatal"} BY <1>1, ClassOfError
<1> QED BY <1>2 DEF Counts, KafkaProgress, Classes

\* What a gauge stands for is in force in the step that would lower it.
LEMMA GaugeIsInForce ==
  ASSUME NEW p \in Pipelines, pc[p] = "stepping", NEW e \in fault[p],
         NEW g \in {"vacuumed", "resume", "capacity"}, e.cause = GaugeOfCause(g)
  PROVE  e \in InForce(p)
<1>1. e.cause \in {"SourceFileVacuumed", "CursorUnavailable", "Capacity"} BY DEF GaugeOfCause
<1>2. e.cause \notin OpenErrors \cup RowErrors
  BY <1>1 DEF OpenErrors, SettingErrors, RowErrors
<1> QED BY <1>1, <1>2 DEF InForce, RaisedIn

-----------------------------------------------------------------------------
(* Waits and limits *)

\* A wait is near what it is drawn from, and the backoff keeps its range (drive).
LEMMA Waits ==
  ASSUME NEW d \in Nat
  PROVE  \A w \in Jitter(d) : w \in Nat /\ (d * 75) \div 100 <= w /\ w <= (d * 125) \div 100
<1>1. /\ (d * 75) \div 100 \in Nat /\ (d * 125) \div 100 \in Nat
      /\ (d * 75) \div 100 <= d /\ d <= (d * 125) \div 100
  OBVIOUS
<1> QED BY <1>1 DEF Jitter

\* Doubling a backoff keeps its range (drive).
LEMMA DoubledInRange ==
  ASSUME ConstantsAssumption, NEW d \in RetryMin .. RetryMax
  PROVE  Doubled(d) \in RetryMin .. RetryMax
BY DEF ConstantsAssumption, Doubled

\* A limit is a number.
LEMMA LimitIsNat ==
  ASSUME ConstantsAssumption, NEW n \in Nat \cup {Unbounded}
  PROVE  Limit(n) \in Nat
BY FS_CardinalityType DEF ConstantsAssumption, Limit

\* Permits that only come back keep within the gate (gate.rs).
LEMMA GateKept ==
  ASSUME ConstantsAssumption, WithinLimits, Merging' \subseteq Merging, Checking' \subseteq Checking
  PROVE  WithinLimits'
<1>1. IsFiniteSet(Merging) /\ IsFiniteSet(Checking)
  BY FS_Subset DEF ConstantsAssumption, Merging, Checking
<1>2. /\ Cardinality(Merging') <= Cardinality(Merging)
      /\ Cardinality(Checking') <= Cardinality(Checking)
      /\ IsFiniteSet(Merging') /\ IsFiniteSet(Checking')
  BY <1>1, FS_Subset
<1>3. /\ Cardinality(Merging) \in Nat /\ Cardinality(Checking) \in Nat
      /\ Cardinality(Merging') \in Nat /\ Cardinality(Checking') \in Nat
      /\ Limit(MaxMerges) \in Nat /\ Limit(MaxPreflights) \in Nat
  BY <1>1, <1>2, FS_CardinalityType, LimitIsNat DEF ConstantsAssumption
<1> QED BY <1>2, <1>3 DEF WithinLimits, Limit
-----------------------------------------------------------------------------
(* The steps *)

\* Start keeps the invariant: an attempt starts with its sensors down.
LEMMA StartKeeps ==
  ASSUME ConstantsAssumption, FleetInv, NEW p \in Pipelines, Start(p)
  PROVE  FleetInv'
<1>1. FleetTyped' BY DEF FleetInv, FleetTyped, TypeOK, States, Open, Ended, Start, worldVars, nearVars, gateVars
<1>2. UpIsTrue' BY DEF FleetInv, FleetTyped, TypeOK, UpIsTrue, Open, Ended, Start
<1>3. FreshStart' BY DEF FleetInv, FleetTyped, TypeOK, FreshStart, Start
<1>4. OperatorWaits' BY DEF FleetInv, FleetTyped, TypeOK, OperatorWaits, Start
<1>5. WithinLimits' BY GateKept DEF FleetInv, FleetTyped, TypeOK, Merging, Checking, Start
<1>6. EndedCaughtUp' BY DEF FleetInv, FleetTyped, TypeOK, EndedCaughtUp, Start, worldVars
<1>7. BootstrapKnown' BY DEF FleetInv, FleetTyped, TypeOK, BootstrapKnown, Open, Start, worldVars
<1>8. GateForUpserts' BY DEF FleetInv, FleetTyped, TypeOK, GateForUpserts, Start
<1> QED BY <1>1, <1>2, <1>3, <1>4, <1>5, <1>6, <1>7, <1>8 DEF FleetInv

\* Open keeps the invariant: what it reads has its starting version.
LEMMA OpenTablesKeeps ==
  ASSUME ConstantsAssumption, FleetInv, NEW p \in Pipelines, OpenTables(p)
  PROVE  FleetInv'
<1>1. FleetTyped' BY DEF FleetInv, FleetTyped, TypeOK, States, Open, Ended, OpenTables, worldVars, nearVars, gateVars
<1>2. UpIsTrue' BY DEF FleetInv, FleetTyped, TypeOK, UpIsTrue, Open, Ended, OpenTables
<1>3. FreshStart' BY DEF FleetInv, FleetTyped, TypeOK, FreshStart, OpenTables
<1>4. OperatorWaits' BY DEF FleetInv, FleetTyped, TypeOK, OperatorWaits, OpenTables
<1>5. WithinLimits' BY GateKept DEF FleetInv, FleetTyped, TypeOK, Merging, Checking, OpenTables
<1>6. EndedCaughtUp' BY DEF FleetInv, FleetTyped, TypeOK, EndedCaughtUp, OpenTables, worldVars
<1>7. BootstrapKnown'
  <2>1. \A e \in fault[p] : e.cause # "BootstrapUnreachable" BY DEF OpenTables, InForce, RaisedIn, RowErrors, OpenErrors, SettingErrors
  <2> QED BY <2>1 DEF FleetInv, FleetTyped, TypeOK, BootstrapKnown, Open, OpenTables, worldVars
<1>8. GateForUpserts' BY DEF FleetInv, FleetTyped, TypeOK, GateForUpserts, OpenTables
<1> QED BY <1>1, <1>2, <1>3, <1>4, <1>5, <1>6, <1>7, <1>8 DEF FleetInv

\* The startup check keeps the invariant; only an upsert pipeline makes one.
LEMMA CheckGrainKeeps ==
  ASSUME ConstantsAssumption, FleetInv, NEW p \in Pipelines, CheckGrain(p)
  PROVE  FleetInv'
<1>1. FleetTyped' BY DEF FleetInv, FleetTyped, TypeOK, States, Open, Ended, CheckGrain, worldVars, nearVars, gateVars
<1>2. UpIsTrue' BY DEF FleetInv, FleetTyped, TypeOK, UpIsTrue, Open, Ended, CheckGrain
<1>3. FreshStart' BY DEF FleetInv, FleetTyped, TypeOK, FreshStart, CheckGrain
<1>4. OperatorWaits' BY DEF FleetInv, FleetTyped, TypeOK, OperatorWaits, CheckGrain
<1>5. WithinLimits' BY GateKept DEF FleetInv, FleetTyped, TypeOK, Merging, Checking, CheckGrain
<1>6. EndedCaughtUp' BY DEF FleetInv, FleetTyped, TypeOK, EndedCaughtUp, CheckGrain, worldVars
<1>7. BootstrapKnown'
  <2>1. p \in Upserts BY DEF FleetInv, GateForUpserts, CheckGrain
  <2> QED BY <2>1 DEF FleetInv, FleetTyped, TypeOK, BootstrapKnown, Open, CheckGrain, worldVars
<1>8. GateForUpserts' BY DEF FleetInv, FleetTyped, TypeOK, GateForUpserts, CheckGrain
<1> QED BY <1>1, <1>2, <1>3, <1>4, <1>5, <1>6, <1>7, <1>8 DEF FleetInv

\* A permit for a startup check is given while one is left.
LEMMA CheckPassKeeps ==
  ASSUME ConstantsAssumption, FleetInv, NEW p \in Pipelines, CheckPass(p)
  PROVE  FleetInv'
<1>1. FleetTyped' BY DEF FleetInv, FleetTyped, TypeOK, States, Open, Ended, CheckPass, worldVars, nearVars, gateVars
<1>2. UpIsTrue' BY DEF FleetInv, FleetTyped, TypeOK, UpIsTrue, Open, Ended, CheckPass
<1>3. FreshStart' BY DEF FleetInv, FleetTyped, TypeOK, FreshStart, CheckPass
<1>4. OperatorWaits' BY DEF FleetInv, FleetTyped, TypeOK, OperatorWaits, CheckPass
<1>5. WithinLimits'
  <2>1. Checking' = Checking \cup {p} /\ Merging' \subseteq Merging
    BY DEF FleetInv, FleetTyped, TypeOK, Merging, Checking, CheckPass
  <2>2. IsFiniteSet(Checking) /\ Cardinality(Checking') <= Cardinality(Checking) + 1
    <3>1. IsFiniteSet(Checking) BY FS_Subset DEF ConstantsAssumption, Checking
    <3>2. Cardinality(Checking) \in Nat BY <3>1, FS_CardinalityType
    <3>3. Cardinality(Checking \cup {p}) = IF p \in Checking THEN Cardinality(Checking) ELSE Cardinality(Checking) + 1
      BY <3>1, FS_AddElement, Zenon
    <3>4. p \notin Checking BY DEF Checking, CheckPass
    <3> QED BY <2>1, <3>1, <3>2, <3>3, <3>4
  <2>3. Cardinality(Checking) \in Nat /\ Limit(MaxPreflights) \in Nat /\ Cardinality(Checking') \in Nat
    BY <2>1, <2>2, FS_AddElement, FS_CardinalityType, LimitIsNat DEF ConstantsAssumption
  <2>4. Cardinality(Checking') <= Limit(MaxPreflights) BY <2>2, <2>3 DEF CheckPass
  <2>5. Cardinality(Merging') <= Cardinality(Merging) /\ Cardinality(Merging') \in Nat
        /\ Cardinality(Merging) \in Nat
    BY <2>1, FS_Subset, FS_CardinalityType DEF ConstantsAssumption, Merging
  <2>6. Limit(MaxMerges) \in Nat /\ Limit(MaxPreflights) \in Nat
    BY LimitIsNat DEF ConstantsAssumption
  <2> QED BY <2>4, <2>5, <2>6 DEF FleetInv, WithinLimits, Limit
<1>6. EndedCaughtUp' BY DEF FleetInv, FleetTyped, TypeOK, EndedCaughtUp, CheckPass, worldVars
<1>7. BootstrapKnown' BY DEF FleetInv, FleetTyped, TypeOK, BootstrapKnown, Open, CheckPass, worldVars
<1>8. GateForUpserts' BY DEF FleetInv, FleetTyped, TypeOK, GateForUpserts, CheckPass
<1> QED BY <1>1, <1>2, <1>3, <1>4, <1>5, <1>6, <1>7, <1>8 DEF FleetInv

\* A permit for a merge is given while one is left.
LEMMA MergePassKeeps ==
  ASSUME ConstantsAssumption, FleetInv, NEW p \in Pipelines, MergePass(p)
  PROVE  FleetInv'
<1>1. FleetTyped' BY DEF FleetInv, FleetTyped, TypeOK, States, Open, Ended, MergePass, worldVars, nearVars, gateVars
<1>2. UpIsTrue' BY DEF FleetInv, FleetTyped, TypeOK, UpIsTrue, Open, Ended, MergePass
<1>3. FreshStart' BY DEF FleetInv, FleetTyped, TypeOK, FreshStart, MergePass
<1>4. OperatorWaits' BY DEF FleetInv, FleetTyped, TypeOK, OperatorWaits, MergePass
<1>5. WithinLimits'
  <2>1. Merging' = Merging \cup {p} /\ Checking' \subseteq Checking
    BY DEF FleetInv, FleetTyped, TypeOK, Merging, Checking, MergePass
  <2>2. IsFiniteSet(Merging) /\ Cardinality(Merging') <= Cardinality(Merging) + 1
    <3>1. IsFiniteSet(Merging) BY FS_Subset DEF ConstantsAssumption, Merging
    <3>2. Cardinality(Merging) \in Nat BY <3>1, FS_CardinalityType
    <3>3. Cardinality(Merging \cup {p}) = IF p \in Merging THEN Cardinality(Merging) ELSE Cardinality(Merging) + 1
      BY <3>1, FS_AddElement, Zenon
    <3>4. p \notin Merging BY DEF Merging, MergePass
    <3> QED BY <2>1, <3>1, <3>2, <3>3, <3>4
  <2>3. Cardinality(Merging) \in Nat /\ Limit(MaxMerges) \in Nat /\ Cardinality(Merging') \in Nat
    BY <2>1, <2>2, FS_AddElement, FS_CardinalityType, LimitIsNat DEF ConstantsAssumption
  <2>4. Cardinality(Merging') <= Limit(MaxMerges) BY <2>2, <2>3 DEF MergePass
  <2>5. Cardinality(Checking') <= Cardinality(Checking) /\ Cardinality(Checking') \in Nat
        /\ Cardinality(Checking) \in Nat
    BY <2>1, FS_Subset, FS_CardinalityType DEF ConstantsAssumption, Checking
  <2>6. Limit(MaxMerges) \in Nat /\ Limit(MaxPreflights) \in Nat
    BY LimitIsNat DEF ConstantsAssumption
  <2> QED BY <2>4, <2>5, <2>6 DEF FleetInv, WithinLimits, Limit
<1>6. EndedCaughtUp' BY DEF FleetInv, FleetTyped, TypeOK, EndedCaughtUp, MergePass, worldVars
<1>7. BootstrapKnown' BY DEF FleetInv, FleetTyped, TypeOK, BootstrapKnown, Open, MergePass, worldVars
<1>8. GateForUpserts' BY DEF FleetInv, FleetTyped, TypeOK, GateForUpserts, MergePass
<1> QED BY <1>1, <1>2, <1>3, <1>4, <1>5, <1>6, <1>7, <1>8 DEF FleetInv

\* A stopped task takes its sensor with it.
LEMMA StopKeeps ==
  ASSUME ConstantsAssumption, FleetInv, NEW p \in Pipelines, Stop(p)
  PROVE  FleetInv'
<1>1. FleetTyped' BY DEF FleetInv, FleetTyped, TypeOK, States, Open, Ended, Stop, worldVars, nearVars, gateVars
<1>2. UpIsTrue' BY DEF FleetInv, FleetTyped, TypeOK, UpIsTrue, Open, Ended, Stop
<1>3. FreshStart' BY DEF FleetInv, FleetTyped, TypeOK, FreshStart, Stop
<1>4. OperatorWaits' BY DEF FleetInv, FleetTyped, TypeOK, OperatorWaits, Stop
<1>5. WithinLimits' BY GateKept DEF FleetInv, FleetTyped, TypeOK, Merging, Checking, Stop
<1>6. EndedCaughtUp' BY DEF FleetInv, FleetTyped, TypeOK, EndedCaughtUp, Stop, worldVars
<1>7. BootstrapKnown' BY DEF FleetInv, FleetTyped, TypeOK, BootstrapKnown, Open, Stop, worldVars
<1>8. GateForUpserts' BY DEF FleetInv, FleetTyped, TypeOK, GateForUpserts, Stop
<1> QED BY <1>1, <1>2, <1>3, <1>4, <1>5, <1>6, <1>7, <1>8 DEF FleetInv

\* A catalog move is opened with the sensor up: the task is alive.
LEMMA ReopenKeeps ==
  ASSUME ConstantsAssumption, FleetInv, NEW p \in Pipelines, Reopen(p)
  PROVE  FleetInv'
<1>1. FleetTyped' BY DEF FleetInv, FleetTyped, TypeOK, States, Open, Ended, Reopen, worldVars, nearVars, gateVars
<1>2. UpIsTrue' BY DEF FleetInv, FleetTyped, TypeOK, UpIsTrue, Open, Ended, Reopen
<1>3. FreshStart' BY DEF FleetInv, FleetTyped, TypeOK, FreshStart, Reopen
<1>4. OperatorWaits' BY DEF FleetInv, FleetTyped, TypeOK, OperatorWaits, Reopen
<1>5. WithinLimits' BY GateKept DEF FleetInv, FleetTyped, TypeOK, Merging, Checking, Reopen
<1>6. EndedCaughtUp' BY DEF FleetInv, FleetTyped, TypeOK, EndedCaughtUp, Reopen, worldVars
<1>7. BootstrapKnown' BY DEF FleetInv, FleetTyped, TypeOK, BootstrapKnown, Open, Reopen, worldVars
<1>8. GateForUpserts' BY DEF FleetInv, FleetTyped, TypeOK, GateForUpserts, Reopen
<1> QED BY <1>1, <1>2, <1>3, <1>4, <1>5, <1>6, <1>7, <1>8 DEF FleetInv

\* The start of a step keeps the invariant.
LEMMA BeginStepKeeps ==
  ASSUME ConstantsAssumption, FleetInv, NEW p \in Pipelines, BeginStep(p)
  PROVE  FleetInv'
<1>1. FleetTyped' BY DEF FleetInv, FleetTyped, TypeOK, States, Open, Ended, BeginStep, worldVars, nearVars, gateVars
<1>2. UpIsTrue' BY DEF FleetInv, FleetTyped, TypeOK, UpIsTrue, Open, Ended, BeginStep
<1>3. FreshStart' BY DEF FleetInv, FleetTyped, TypeOK, FreshStart, BeginStep
<1>4. OperatorWaits' BY DEF FleetInv, FleetTyped, TypeOK, OperatorWaits, BeginStep
<1>5. WithinLimits' BY GateKept DEF FleetInv, FleetTyped, TypeOK, Merging, Checking, BeginStep
<1>6. EndedCaughtUp' BY DEF FleetInv, FleetTyped, TypeOK, EndedCaughtUp, BeginStep, worldVars
<1>7. BootstrapKnown' BY DEF FleetInv, FleetTyped, TypeOK, BootstrapKnown, Open, BeginStep, worldVars
<1>8. GateForUpserts' BY DEF FleetInv, FleetTyped, TypeOK, GateForUpserts, BeginStep
<1> QED BY <1>1, <1>2, <1>3, <1>4, <1>5, <1>6, <1>7, <1>8 DEF FleetInv

\* The request for a merge permit keeps the invariant.
LEMMA AskToMergeKeeps ==
  ASSUME ConstantsAssumption, FleetInv, NEW p \in Pipelines, AskToMerge(p)
  PROVE  FleetInv'
<1>1. FleetTyped' BY DEF FleetInv, FleetTyped, TypeOK, States, Open, Ended, AskToMerge, worldVars, nearVars, gateVars
<1>2. UpIsTrue' BY DEF FleetInv, FleetTyped, TypeOK, UpIsTrue, Open, Ended, AskToMerge
<1>3. FreshStart' BY DEF FleetInv, FleetTyped, TypeOK, FreshStart, AskToMerge
<1>4. OperatorWaits' BY DEF FleetInv, FleetTyped, TypeOK, OperatorWaits, AskToMerge
<1>5. WithinLimits' BY GateKept DEF FleetInv, FleetTyped, TypeOK, Merging, Checking, AskToMerge
<1>6. EndedCaughtUp' BY DEF FleetInv, FleetTyped, TypeOK, EndedCaughtUp, AskToMerge, worldVars
<1>7. BootstrapKnown' BY DEF FleetInv, FleetTyped, TypeOK, BootstrapKnown, Open, AskToMerge, worldVars
<1>8. GateForUpserts' BY DEF FleetInv, FleetTyped, TypeOK, GateForUpserts, AskToMerge
<1> QED BY <1>1, <1>2, <1>3, <1>4, <1>5, <1>6, <1>7, <1>8 DEF FleetInv

\* A committed step keeps the invariant.
LEMMA StepCommitsKeeps ==
  ASSUME ConstantsAssumption, FleetInv, NEW p \in Pipelines, StepCommits(p)
  PROVE  FleetInv'
<1>1. FleetTyped' BY DEF FleetInv, FleetTyped, TypeOK, States, Open, Ended, StepCommits, MarkProgress, worldVars, nearVars, gateVars
<1>2. UpIsTrue' BY DEF FleetInv, FleetTyped, TypeOK, UpIsTrue, Open, Ended, StepCommits, MarkProgress
<1>3. FreshStart' BY DEF FleetInv, FleetTyped, TypeOK, FreshStart, StepCommits, MarkProgress
<1>4. OperatorWaits' BY DEF FleetInv, FleetTyped, TypeOK, OperatorWaits, StepCommits, MarkProgress
<1>5. WithinLimits' BY GateKept DEF FleetInv, FleetTyped, TypeOK, Merging, Checking, StepCommits, MarkProgress
<1>6. EndedCaughtUp' BY DEF FleetInv, FleetTyped, TypeOK, EndedCaughtUp, StepCommits, MarkProgress, worldVars
<1>7. BootstrapKnown' BY DEF FleetInv, FleetTyped, TypeOK, BootstrapKnown, Open, StepCommits, MarkProgress, worldVars
<1>8. GateForUpserts' BY DEF FleetInv, FleetTyped, TypeOK, GateForUpserts, StepCommits, MarkProgress
<1> QED BY <1>1, <1>2, <1>3, <1>4, <1>5, <1>6, <1>7, <1>8 DEF FleetInv

\* A step that is caught up ends a once-run drained.
LEMMA StepCaughtUpKeeps ==
  ASSUME ConstantsAssumption, FleetInv, NEW p \in Pipelines, StepCaughtUp(p)
  PROVE  FleetInv'
<1>1. FleetTyped'
  BY ZenonT(30) DEF FleetInv, FleetTyped, TypeOK, States, Open, Ended, StepCaughtUp, MarkProgress, worldVars,
    nearVars, gateVars
<1>2. UpIsTrue' BY DEF FleetInv, FleetTyped, TypeOK, UpIsTrue, Open, Ended, StepCaughtUp, MarkProgress
<1>3. FreshStart' BY DEF FleetInv, FleetTyped, TypeOK, FreshStart, StepCaughtUp, MarkProgress
<1>4. OperatorWaits' BY DEF FleetInv, FleetTyped, TypeOK, OperatorWaits, StepCaughtUp, MarkProgress
<1>5. WithinLimits' BY GateKept DEF FleetInv, FleetTyped, TypeOK, Merging, Checking, StepCaughtUp, MarkProgress
<1>6. EndedCaughtUp' BY DEF FleetInv, FleetTyped, TypeOK, EndedCaughtUp, StepCaughtUp, MarkProgress, worldVars
<1>7. BootstrapKnown' BY DEF FleetInv, FleetTyped, TypeOK, BootstrapKnown, Open, StepCaughtUp, MarkProgress, worldVars
<1>8. GateForUpserts' BY DEF FleetInv, FleetTyped, TypeOK, GateForUpserts, StepCaughtUp, MarkProgress
<1> QED BY <1>1, <1>2, <1>3, <1>4, <1>5, <1>6, <1>7, <1>8 DEF FleetInv

\* The end of a pause keeps the invariant.
LEMMA IdleKeeps ==
  ASSUME ConstantsAssumption, FleetInv, NEW p \in Pipelines, Idle(p)
  PROVE  FleetInv'
<1>1. FleetTyped' BY DEF FleetInv, FleetTyped, TypeOK, States, Open, Ended, Idle, worldVars, nearVars, gateVars
<1>2. UpIsTrue' BY DEF FleetInv, FleetTyped, TypeOK, UpIsTrue, Open, Ended, Idle
<1>3. FreshStart' BY DEF FleetInv, FleetTyped, TypeOK, FreshStart, Idle
<1>4. OperatorWaits' BY DEF FleetInv, FleetTyped, TypeOK, OperatorWaits, Idle
<1>5. WithinLimits' BY GateKept DEF FleetInv, FleetTyped, TypeOK, Merging, Checking, Idle
<1>6. EndedCaughtUp' BY DEF FleetInv, FleetTyped, TypeOK, EndedCaughtUp, Idle, worldVars
<1>7. BootstrapKnown' BY DEF FleetInv, FleetTyped, TypeOK, BootstrapKnown, Open, Idle, worldVars
<1>8. GateForUpserts' BY DEF FleetInv, FleetTyped, TypeOK, GateForUpserts, Idle
<1> QED BY <1>1, <1>2, <1>3, <1>4, <1>5, <1>6, <1>7, <1>8 DEF FleetInv

\* What a Kafka pipeline reports of a step without a commit keeps the invariant.
LEMMA StepWaitsKeeps ==
  ASSUME ConstantsAssumption, FleetInv, NEW p \in Pipelines, StepWaits(p)
  PROVE  FleetInv'
<1>1. FleetTyped'
  <2>1. PICK k : KafkaWaits(p, k) BY DEF StepWaits
  <2>2. \/ gauges' = [gauges EXCEPT ![p] = IF k.capacity THEN {"capacity"} ELSE {}]
           /\ progressed' = [progressed EXCEPT ![p] = TRUE]
        \/ gauges' = [gauges EXCEPT ![p] = @ \cup (IF k.capacity THEN {"capacity"} ELSE {})]
           /\ UNCHANGED progressed
    BY <2>1 DEF KafkaWaits
  <2>3. /\ gauges' \in [Pipelines -> SUBSET {"vacuumed", "bootstrap", "resume", "capacity"}]
        /\ progressed' \in [Pipelines -> BOOLEAN]
    <3>1. /\ gauges \in [Pipelines -> SUBSET {"vacuumed", "bootstrap", "resume", "capacity"}]
          /\ progressed \in [Pipelines -> BOOLEAN]
      BY DEF FleetInv, FleetTyped, TypeOK
    <3> DEFINE v == IF k.capacity THEN {"capacity"} ELSE {}
    <3>2. v \subseteq {"vacuumed", "bootstrap", "resume", "capacity"} OBVIOUS
    <3>3. \/ gauges' = [gauges EXCEPT ![p] = v] /\ progressed' = [progressed EXCEPT ![p] = TRUE]
          \/ gauges' = [gauges EXCEPT ![p] = @ \cup v] /\ UNCHANGED progressed
      BY <2>2
    <3> HIDE DEF v
    <3> QED BY <3>1, <3>2, <3>3
  <2>4. /\ up' \in [Pipelines -> BOOLEAN]
        /\ pc' \in [Pipelines -> States]
    BY <2>1, Zenon DEF FleetInv, FleetTyped, TypeOK, KafkaWaits, States, Open
  <2> QED BY <2>3, <2>4 DEF FleetInv, FleetTyped, TypeOK, StepWaits, worldVars, nearVars, gateVars
<1>2. UpIsTrue' BY DEF FleetInv, FleetTyped, TypeOK, UpIsTrue, Open, Ended, StepWaits, KafkaWaits
<1>3. FreshStart' BY DEF FleetInv, FleetTyped, TypeOK, FreshStart, StepWaits, KafkaWaits
<1>4. OperatorWaits' BY DEF FleetInv, FleetTyped, TypeOK, OperatorWaits, StepWaits, KafkaWaits
<1>5. WithinLimits' BY GateKept DEF FleetInv, FleetTyped, TypeOK, Merging, Checking, StepWaits, KafkaWaits
<1>6. EndedCaughtUp' BY DEF FleetInv, FleetTyped, TypeOK, EndedCaughtUp, StepWaits, KafkaWaits, worldVars
<1>7. BootstrapKnown' BY DEF FleetInv, FleetTyped, TypeOK, BootstrapKnown, Open, StepWaits, KafkaWaits, worldVars
<1>8. GateForUpserts' BY DEF FleetInv, FleetTyped, TypeOK, GateForUpserts, StepWaits, KafkaWaits
<1> QED BY <1>1, <1>2, <1>3, <1>4, <1>5, <1>6, <1>7, <1>8 DEF FleetInv

\* The end of a backoff doubles it within its range.
LEMMA WakeKeeps ==
  ASSUME ConstantsAssumption, FleetInv, NEW p \in Pipelines, WakeFromBackoff(p)
  PROVE  FleetInv'
<1>1. FleetTyped'
  <2>1. Doubled(backoff[p]) \in RetryMin .. RetryMax
    BY DoubledInRange DEF FleetInv, FleetTyped, TypeOK
  <2>2. /\ pc' \in [Pipelines -> States]
        /\ backoff' \in [Pipelines -> RetryMin .. RetryMax]
        /\ progressed' \in [Pipelines -> BOOLEAN]
    <3>1. CASE cancelled
      BY <3>1 DEF FleetInv, FleetTyped, TypeOK, States, Ended, WakeFromBackoff
    <3>2. CASE ~cancelled
      <4>1. pc' = [pc EXCEPT ![p] = "start"] /\ backoff' = [backoff EXCEPT ![p] = Doubled(@)]
            /\ progressed' = [progressed EXCEPT ![p] = FALSE]
        BY <3>2 DEF WakeFromBackoff
      <4> QED BY <2>1, <4>1 DEF FleetInv, FleetTyped, TypeOK, States
    <3> QED BY <3>1, <3>2
  <2>3. wait' \in [Pipelines -> Nat]
    BY DEF FleetInv, FleetTyped, TypeOK, WakeFromBackoff
  <2> QED
    BY <2>2, <2>3 DEF FleetInv, FleetTyped, TypeOK, WakeFromBackoff, worldVars, nearVars
<1>2. UpIsTrue' BY DEF FleetInv, FleetTyped, TypeOK, UpIsTrue, Open, Ended, WakeFromBackoff
<1>3. FreshStart' BY DEF FleetInv, FleetTyped, TypeOK, FreshStart, WakeFromBackoff
<1>4. OperatorWaits' BY DEF FleetInv, FleetTyped, TypeOK, OperatorWaits, WakeFromBackoff
<1>5. WithinLimits' BY GateKept DEF FleetInv, FleetTyped, TypeOK, Merging, Checking, WakeFromBackoff
<1>6. EndedCaughtUp' BY DEF FleetInv, FleetTyped, TypeOK, EndedCaughtUp, WakeFromBackoff, worldVars
<1>7. BootstrapKnown' BY DEF FleetInv, FleetTyped, TypeOK, BootstrapKnown, Open, WakeFromBackoff, worldVars
<1>8. GateForUpserts' BY DEF FleetInv, FleetTyped, TypeOK, GateForUpserts, WakeFromBackoff
<1> QED BY <1>1, <1>2, <1>3, <1>4, <1>5, <1>6, <1>7, <1>8 DEF FleetInv

\* A panic takes the sensor and the permit back.
LEMMA PanicKeeps ==
  ASSUME ConstantsAssumption, FleetInv, NEW p \in Pipelines, Panic(p)
  PROVE  FleetInv'
<1>1. FleetTyped' BY DEF FleetInv, FleetTyped, TypeOK, States, Open, Ended, Panic, worldVars, nearVars, gateVars
<1>2. UpIsTrue' BY DEF FleetInv, FleetTyped, TypeOK, UpIsTrue, Open, Ended, Panic
<1>3. FreshStart' BY DEF FleetInv, FleetTyped, TypeOK, FreshStart, Panic
<1>4. OperatorWaits' BY DEF FleetInv, FleetTyped, TypeOK, OperatorWaits, Panic
<1>5. WithinLimits' BY GateKept DEF FleetInv, FleetTyped, TypeOK, Merging, Checking, Panic
<1>6. EndedCaughtUp' BY DEF FleetInv, FleetTyped, TypeOK, EndedCaughtUp, Panic, worldVars
<1>7. BootstrapKnown' BY DEF FleetInv, FleetTyped, TypeOK, BootstrapKnown, Open, Panic, worldVars
<1>8. GateForUpserts' BY DEF FleetInv, FleetTyped, TypeOK, GateForUpserts, Panic
<1> QED BY <1>1, <1>2, <1>3, <1>4, <1>5, <1>6, <1>7, <1>8 DEF FleetInv

\* A move in the catalog is not seen yet.
LEMMA RelocateKeeps ==
  ASSUME ConstantsAssumption, FleetInv, NEW p \in Pipelines, Relocate(p)
  PROVE  FleetInv'
<1>1. FleetTyped'
  BY DEF ConstantsAssumption, FleetInv, FleetTyped, TypeOK, States, Open, Ended, Relocate, nearVars, gateVars
<1>2. UpIsTrue' BY DEF FleetInv, FleetTyped, TypeOK, UpIsTrue, Open, Ended, Relocate
<1>3. FreshStart' BY DEF FleetInv, FleetTyped, TypeOK, FreshStart, Relocate
<1>4. OperatorWaits' BY DEF FleetInv, FleetTyped, TypeOK, OperatorWaits, Relocate
<1>5. WithinLimits' BY GateKept DEF FleetInv, FleetTyped, TypeOK, Merging, Checking, Relocate
<1>6. EndedCaughtUp' BY DEF FleetInv, FleetTyped, TypeOK, EndedCaughtUp, Relocate, worldVars
<1>7. BootstrapKnown' BY DEF FleetInv, FleetTyped, TypeOK, BootstrapKnown, Open, Relocate, worldVars
<1>8. GateForUpserts' BY DEF FleetInv, FleetTyped, TypeOK, GateForUpserts, Relocate
<1> QED BY <1>1, <1>2, <1>3, <1>4, <1>5, <1>6, <1>7, <1>8 DEF FleetInv
\* Break keeps the invariant: a starting version is not lost under an open pipeline.
LEMMA BreakKeeps ==
  ASSUME ConstantsAssumption, FleetInv, NEW p \in Pipelines, NEW e \in Faults, Break(p, e)
  PROVE  FleetInv'
<1>1. FleetTyped'
  BY DEF ConstantsAssumption, FleetInv, FleetTyped, TypeOK, Break, nearVars, gateVars
<1>2. BootstrapKnown' BY DEF FleetInv, FleetTyped, TypeOK, BootstrapKnown, Break
<1>3. UpIsTrue' /\ FreshStart' /\ OperatorWaits' /\ EndedCaughtUp' /\ GateForUpserts'
  BY DEF FleetInv, UpIsTrue, FreshStart, OperatorWaits, EndedCaughtUp, GateForUpserts, Break
<1>4. WithinLimits' BY DEF FleetInv, WithinLimits, Limit, Merging, Checking, Break
<1> QED BY <1>1, <1>2, <1>3, <1>4 DEF FleetInv

\* Repair keeps the invariant.
LEMMA RepairKeeps ==
  ASSUME ConstantsAssumption, FleetInv, NEW p \in Pipelines, NEW e \in Faults, Repair(p, e)
  PROVE  FleetInv'
<1>1. FleetTyped' BY DEF FleetInv, FleetTyped, TypeOK, Repair, nearVars, gateVars
<1>2. BootstrapKnown' BY DEF FleetInv, FleetTyped, TypeOK, BootstrapKnown, Repair
<1>3. UpIsTrue' /\ FreshStart' /\ OperatorWaits' /\ EndedCaughtUp' /\ GateForUpserts'
  BY DEF FleetInv, UpIsTrue, FreshStart, OperatorWaits, EndedCaughtUp, GateForUpserts, Repair
<1>4. WithinLimits' BY DEF FleetInv, WithinLimits, Limit, Merging, Checking, Repair
<1> QED BY <1>1, <1>2, <1>3, <1>4 DEF FleetInv

\* Cancel keeps the invariant.
LEMMA CancelKeeps ==
  ASSUME ConstantsAssumption, FleetInv, Cancel
  PROVE  FleetInv'
<1>1. FleetTyped' BY DEF FleetInv, FleetTyped, TypeOK, Cancel, nearVars, gateVars
<1>2. UpIsTrue' /\ FreshStart' /\ OperatorWaits' /\ EndedCaughtUp' /\ GateForUpserts' /\ BootstrapKnown'
  BY DEF FleetInv, UpIsTrue, FreshStart, OperatorWaits, EndedCaughtUp, GateForUpserts,
         BootstrapKnown, Cancel
<1>3. WithinLimits' BY DEF FleetInv, WithinLimits, Limit, Merging, Checking, Cancel
<1> QED BY <1>1, <1>2, <1>3 DEF FleetInv

\* A failed attempt keeps the invariant: the sensors go down, the gauges only up, and the
\* wait is about RETRY_MAX where waiting briefly cannot help, about RETRY_MIN on the first
\* failure after a success (drive's Err arm).
LEMMA FailKeeps ==
  ASSUME ConstantsAssumption, FleetInv, NEW p \in Pipelines, UNCHANGED moved,
         pc[p] \notin {"backoff"} \cup Ended,
         NEW e, NEW cause \in Causes, e.cause \in Causes, Fail(p, e, cause)
  PROVE  FleetInv'
<1> DEFINE b == BackoffFrom(p, e)
<1>1. /\ b \in RetryMin .. RetryMax
      /\ WaitsLong(p, e) => b = RetryMax
      /\ ~WaitsLong(p, e) /\ progressed[p] => b = RetryMin
  BY DEF ConstantsAssumption, BackoffFrom, FleetInv, FleetTyped, TypeOK
<1>2. /\ failure' = [failure EXCEPT ![p] = [raised |-> e.cause, cause |-> cause]]
      /\ up' = [up EXCEPT ![p] = FALSE]
      /\ gauges' = [gauges EXCEPT ![p] = @ \cup GaugeOf(e)]
      /\ UNCHANGED <<progressed, drained, gateVars, worldVars>>
  BY DEF Fail, ObserveError
<1>3. \/ Once /\ pc' = [pc EXCEPT ![p] = "failed"] /\ UNCHANGED <<backoff, wait>>
      \/ ~Once /\ cancelled /\ pc' = [pc EXCEPT ![p] = "ok"] /\ UNCHANGED <<backoff, wait>>
      \/ /\ ~Once /\ pc' = [pc EXCEPT ![p] = "backoff"]
         /\ backoff' = [backoff EXCEPT ![p] = b]
         /\ \E w \in Nat : /\ wait' = [wait EXCEPT ![p] = w]
                           /\ (b * 75) \div 100 <= w /\ w <= (b * 125) \div 100
  <2>1. \A w \in Jitter(b) : w \in Nat /\ (b * 75) \div 100 <= w /\ w <= (b * 125) \div 100
    BY <1>1, Waits DEF ConstantsAssumption
  <2> QED BY <2>1 DEF Fail
<1>4. failure[p]' = [raised |-> e.cause, cause |-> cause]
  BY <1>2 DEF FleetInv, FleetTyped
<1>5. FleetTyped'
  <2>1. GaugeOf(e) \subseteq {"vacuumed", "bootstrap", "resume", "capacity"} BY DEF GaugeOf
  <2>2. /\ failure' \in [Pipelines -> Failures]
        /\ \A q \in Pipelines : failure'[q] = NoFailure \/ failure'[q].cause \in Causes
    BY <1>2 DEF FleetInv, FleetTyped, TypeOK, Failures
  <2>3. /\ pc' \in [Pipelines -> States]
        /\ backoff' \in [Pipelines -> RetryMin .. RetryMax]
        /\ wait' \in [Pipelines -> Nat]
    BY <1>1, <1>3 DEF FleetInv, FleetTyped, TypeOK, States, Ended
  <2>4. /\ gauges' \in [Pipelines -> SUBSET {"vacuumed", "bootstrap", "resume", "capacity"}]
        /\ up' \in [Pipelines -> BOOLEAN]
    BY <1>2, <2>1 DEF FleetInv, FleetTyped, TypeOK
  <2> QED BY <1>2, <2>2, <2>3, <2>4 DEF FleetInv, FleetTyped, TypeOK, worldVars, nearVars
<1>6. UpIsTrue' BY <1>2, <1>3 DEF FleetInv, FleetTyped, TypeOK, UpIsTrue
<1>7. FreshStart'
  <2> SUFFICES ASSUME NEW q \in Pipelines \ Kafkas, pc'[q] = "backoff", progressed'[q],
                      failure'[q].raised \notin LongWaits
               PROVE  wait'[q] <= (RetryMin * 125) \div 100
    BY DEF FreshStart
  <2>1. CASE q = p
    <3>1. e.cause \notin LongWaits BY <2>1, <1>4
    <3>2. ~WaitsLong(p, e) BY <2>1, <3>1 DEF WaitsLong, LongWaits, IsCapacity
    <3>3. b = RetryMin BY <1>1, <1>2, <2>1, <3>2
    <3>4. \E w \in Nat : wait' = [wait EXCEPT ![p] = w] /\ w <= (b * 125) \div 100
      BY <1>3, <2>1 DEF FleetInv, FleetTyped, TypeOK
    <3> QED BY <2>1, <3>3, <3>4 DEF FleetInv, FleetTyped, TypeOK
  <2>2. CASE q # p
    BY <2>2, <1>2, <1>3 DEF FleetInv, FleetTyped, TypeOK, FreshStart
  <2> QED BY <2>1, <2>2
<1>8. OperatorWaits'
  <2> SUFFICES ASSUME NEW q \in Pipelines, pc'[q] = "backoff", failure'[q].raised \in LongWaits
               PROVE  wait'[q] >= (RetryMax * 75) \div 100
    BY DEF OperatorWaits
  <2>1. CASE q = p
    <3>1. WaitsLong(p, e) BY <2>1, <1>4 DEF WaitsLong, LongWaits, IsCapacity
    <3>2. b = RetryMax BY <1>1, <3>1
    <3>3. \E w \in Nat : wait' = [wait EXCEPT ![p] = w] /\ (b * 75) \div 100 <= w
      BY <1>3, <2>1 DEF FleetInv, FleetTyped, TypeOK
    <3> QED BY <2>1, <3>2, <3>3 DEF FleetInv, FleetTyped, TypeOK, ConstantsAssumption
  <2>2. CASE q # p
    BY <2>2, <1>2, <1>3 DEF FleetInv, FleetTyped, TypeOK, OperatorWaits
  <2> QED BY <2>1, <2>2
<1>9. WithinLimits' BY <1>3, GateKept DEF FleetInv, FleetTyped, TypeOK, Merging, Checking
<1>10. EndedCaughtUp'
  BY <1>2, <1>3 DEF FleetInv, FleetTyped, TypeOK, EndedCaughtUp, worldVars
<1>11. BootstrapKnown' /\ GateForUpserts'
  BY <1>2, <1>3 DEF FleetInv, FleetTyped, TypeOK, BootstrapKnown, GateForUpserts, Open, worldVars
<1> QED BY <1>5, <1>6, <1>7, <1>8, <1>9, <1>10, <1>11 DEF FleetInv

\* The three places an attempt fails in.
LEMMA FailuresKeep ==
  ASSUME ConstantsAssumption, FleetInv, NEW p \in Pipelines,
         OpenFails(p) \/ CheckFails(p) \/ StepFails(p)
  PROVE  FleetInv'
<1>1. \A e \in InForce(p) : e \in ErrorKinds
  BY DEF InForce, ConstantsAssumption, FleetInv, FleetTyped, TypeOK
<1>2. \A e \in ErrorKinds : e.cause \in Causes BY DEF ErrorKinds
<1>3. "Config" \in Causes BY DEF Causes, PlainErrors
<1>4. CASE OpenFails(p)
  <2>1. PICK e \in InForce(p) : Fail(p, e, e.cause) BY <1>4 DEF OpenFails
  <2> QED BY <2>1, <1>1, <1>2, <1>4, FailKeeps DEF OpenFails, Ended
<1>5. CASE CheckFails(p)
  <2>1. PICK e \in InForce(p) : Fail(p, [e EXCEPT !.cause = "Config"], e.cause)
    BY <1>5 DEF CheckFails
  <2>2. [e EXCEPT !.cause = "Config"].cause \in Causes BY <1>1, <1>3, <2>1 DEF ErrorKinds
  <2> QED BY <2>1, <2>2, <1>1, <1>2, <1>5, FailKeeps DEF CheckFails, Ended
<1>6. CASE StepFails(p)
  <2>1. PICK e \in InForce(p) : Fail(p, e, e.cause) BY <1>6 DEF StepFails
  <2> QED BY <2>1, <1>1, <1>2, <1>6, FailKeeps DEF StepFails, Ended
<1> QED BY <1>4, <1>5, <1>6

\* A near-time task touches its own state only, and keeps it typed (drive_near_time).
LEMMA NearKeeps ==
  ASSUME ConstantsAssumption, FleetInv, NEW p \in NearTimes, NearTask(p)
  PROVE  FleetInv'
<1>1. UNCHANGED <<PipelineVars, cancelled, fault, faults>>
  BY DEF NearTask, NearStart, NearPoll, NearStops, NearWakes
<1>2. /\ near' \in [NearTimes -> {"start", "polling", "idle", "backoff"} \cup Ended]
      /\ nearBackoff' \in [NearTimes -> RetryMin .. RetryMax]
      /\ nearWait' \in [NearTimes -> Nat]
      /\ nearPolled' \in [NearTimes -> BOOLEAN]
  <2> DEFINE NearTyped ==
        /\ near \in [NearTimes -> {"start", "polling", "idle", "backoff"} \cup Ended]
        /\ nearBackoff \in [NearTimes -> RetryMin .. RetryMax]
        /\ nearWait \in [NearTimes -> Nat]
        /\ nearPolled \in [NearTimes -> BOOLEAN]
  <2>1. NearTyped BY DEF FleetInv, FleetTyped, TypeOK
  <2>2. Jitter(nearBackoff[p]) \subseteq Nat BY <2>1, Waits DEF ConstantsAssumption
  <2>3. Doubled(nearBackoff[p]) \in RetryMin .. RetryMax BY <2>1, DoubledInRange
  <2>4. ASSUME NearFails(p)
        PROVE  /\ near' \in [NearTimes -> {"start", "polling", "idle", "backoff"} \cup Ended]
               /\ UNCHANGED nearBackoff /\ nearWait' \in [NearTimes -> Nat]
    BY <2>1, <2>2, <2>4 DEF NearFails, Ended
  <2>5. CASE NearStart(p) BY <2>1, <2>4, <2>5 DEF NearStart, Ended
  <2>6. CASE NearPoll(p) BY <2>1, <2>4, <2>6 DEF NearPoll, Ended
  <2>7. CASE NearStops(p) BY <2>1, <2>7 DEF NearStops, Ended
  <2>8. CASE NearWakes(p) BY <2>1, <2>3, <2>8 DEF NearWakes, Ended
  <2> QED BY <2>5, <2>6, <2>7, <2>8 DEF NearTask
<1>3. FleetTyped' BY <1>1, <1>2 DEF FleetInv, FleetTyped, TypeOK, PipelineVars
<1>4. UpIsTrue' /\ FreshStart' /\ OperatorWaits' /\ EndedCaughtUp' /\ GateForUpserts' /\ BootstrapKnown'
  BY <1>1 DEF FleetInv, UpIsTrue, FreshStart, OperatorWaits, EndedCaughtUp, GateForUpserts,
              BootstrapKnown, PipelineVars
<1>5. WithinLimits'
  BY <1>1 DEF FleetInv, WithinLimits, Limit, Merging, Checking, PipelineVars
<1> QED BY <1>3, <1>4, <1>5 DEF FleetInv

-----------------------------------------------------------------------------
(* The theorems *)

\* A fleet starts with nothing up, nothing failed and no permit out.
LEMMA FleetStarts ==
  ASSUME ConstantsAssumption, Init
  PROVE  FleetInv
<1>1. FleetTyped
  <2>1. failure \in [Pipelines -> Failures] BY DEF Init, Failures
  <2>2. \A p \in Pipelines : failure[p] = NoFailure BY DEF Init
  <2>3. /\ backoff \in [Pipelines -> RetryMin .. RetryMax]
        /\ nearBackoff \in [NearTimes -> RetryMin .. RetryMax]
        /\ faults \in 0 .. MaxFaults
    BY DEF ConstantsAssumption, Init
  <2> QED BY <2>1, <2>2, <2>3 DEF Init, FleetTyped, TypeOK, States
<1>2. UpIsTrue /\ FreshStart /\ OperatorWaits /\ EndedCaughtUp /\ GateForUpserts /\ BootstrapKnown
  BY DEF Init, UpIsTrue, FreshStart, OperatorWaits, EndedCaughtUp, GateForUpserts, BootstrapKnown
<1>3. WithinLimits
  <2>1. Merging = {} /\ Checking = {} BY DEF Init, Merging, Checking
  <2>2. Limit(MaxMerges) \in Nat /\ Limit(MaxPreflights) \in Nat
    BY LimitIsNat DEF ConstantsAssumption
  <2> QED BY <2>1, <2>2, FS_EmptySet DEF WithinLimits
<1> QED BY <1>1, <1>2, <1>3 DEF FleetInv

\* Every step keeps the invariant.
LEMMA FleetSteps ==
  ASSUME ConstantsAssumption, FleetInv, [Next]_vars
  PROVE  FleetInv'
<1>1. ASSUME NEW p \in Pipelines, Progress(p) PROVE FleetInv'
  BY <1>1, StartKeeps, OpenTablesKeeps, CheckGrainKeeps, FailuresKeep, CheckPassKeeps, StopKeeps,
     ReopenKeeps, BeginStepKeeps, AskToMergeKeeps, MergePassKeeps, StepCommitsKeeps,
     StepCaughtUpKeeps, IdleKeeps, StepWaitsKeeps, WakeKeeps DEF Progress
<1>2. ASSUME NEW p \in Pipelines, Panic(p) \/ Relocate(p) PROVE FleetInv'
  BY <1>2, PanicKeeps, RelocateKeeps
<1>3. ASSUME NEW p \in Pipelines, NEW e \in Faults, Break(p, e) \/ Repair(p, e) PROVE FleetInv'
  BY <1>3, BreakKeeps, RepairKeeps
<1>4. ASSUME NEW p \in NearTimes, NearTask(p) PROVE FleetInv'
  BY <1>4, NearKeeps
<1>5. CASE UNCHANGED vars
  <2>1. WithinLimits' BY <1>5 DEF FleetInv, WithinLimits, Limit, Merging, Checking, vars
  <2> QED
    BY <1>5, <2>1 DEF FleetInv, FleetTyped, TypeOK, UpIsTrue, FreshStart, OperatorWaits,
                EndedCaughtUp, GateForUpserts, BootstrapKnown, vars, gateVars, nearVars
<1>6. CASE Exited BY <1>5, <1>6 DEF Exited
<1>7. CASE Cancel BY <1>7, CancelKeeps
<1> QED BY <1>1, <1>2, <1>3, <1>4, <1>5, <1>6, <1>7 DEF Next

\* FleetInv holds in every reachable state of every fleet.
THEOREM FleetInvariance ==
  ASSUME ConstantsAssumption
  PROVE  Spec => []FleetInv
<1>1. Init => FleetInv BY FleetStarts
<1>2. FleetInv /\ [Next]_vars => FleetInv' BY FleetSteps
<1> QED BY <1>1, <1>2, PTL DEF Spec

\* Every reachable state of a fleet is well typed.
THEOREM FleetTypes ==
  ASSUME ConstantsAssumption
  PROVE  Spec => []TypeOK
<1>1. FleetInv => TypeOK BY DEF FleetInv, FleetTyped
<1> QED BY <1>1, FleetInvariance, PTL

\* What the process says of its tasks is true: the up series reads 1 only for a task that is
\* alive with its tables open (Up guard, observe_error), a once-run that exits 0 left every
\* pipeline caught up (run_all).
THEOREM TasksAreReported ==
  ASSUME ConstantsAssumption
  PROVE  Spec => [](UpIsTrue /\ ExitTells)
<1>1. FleetInv => UpIsTrue /\ ExitTells
  BY DEF FleetInv, EndedCaughtUp, ExitTells, ExitOk
<1> QED BY <1>1, FleetInvariance, PTL

\* The first failure after a success waits about RETRY_MIN, one that waiting briefly cannot
\* help about RETRY_MAX (drive).
THEOREM BackoffIsRight ==
  ASSUME ConstantsAssumption
  PROVE  Spec => [](FreshStart /\ OperatorWaits)
<1>1. FleetInv => FreshStart /\ OperatorWaits BY DEF FleetInv
<1> QED BY <1>1, FleetInvariance, PTL

\* No more merges and no more startup checks run at once than the gate allows, whatever
\* fails or panics with a permit in hand (gate.rs).
THEOREM GateIsKept ==
  ASSUME ConstantsAssumption
  PROVE  Spec => []WithinLimits
<1>1. FleetInv => WithinLimits BY DEF FleetInv
<1> QED BY <1>1, FleetInvariance, PTL

\* What a step does to the gauges and to `progressed' (observe_error, mark_progress).
LEMMA OnlyProgressLowers ==
  ASSUME ConstantsAssumption, FleetInv, [Next]_vars, NEW p \in Pipelines
  PROVE  \/ gauges[p] \subseteq gauges'[p] /\ (progressed'[p] => progressed[p])
         \/ /\ InForce(p) = {}
            /\ pc[p] = (IF p \in Upserts THEN "merging" ELSE "stepping") \/ pc[p] = "stepping"
<1> USE DEF FleetInv, FleetTyped, TypeOK
<1>1. ASSUME NEW q \in Pipelines, UNCHANGED <<gauges, progressed>>
      PROVE  gauges[p] \subseteq gauges'[p] /\ (progressed'[p] => progressed[p])
  BY <1>1
<1>2. ASSUME NEW q \in Pipelines, NEW e, NEW c, Fail(q, e, c)
      PROVE  gauges[p] \subseteq gauges'[p] /\ (progressed'[p] => progressed[p])
  BY <1>2 DEF Fail, ObserveError
<1>3. ASSUME NEW q \in Pipelines, StepCommits(q)
      PROVE  \/ gauges[p] \subseteq gauges'[p] /\ (progressed'[p] => progressed[p])
             \/ InForce(p) = {} /\ pc[p] = (IF p \in Upserts THEN "merging" ELSE "stepping")
  BY <1>3 DEF StepCommits, MarkProgress
<1>4. ASSUME NEW q \in Pipelines, StepCaughtUp(q)
      PROVE  \/ gauges[p] \subseteq gauges'[p] /\ (progressed'[p] => progressed[p])
             \/ InForce(p) = {} /\ pc[p] = "stepping"
  BY <1>4 DEF StepCaughtUp, MarkProgress
<1>5. ASSUME NEW q \in Pipelines, StepWaits(q)
      PROVE  \/ gauges[p] \subseteq gauges'[p] /\ (progressed'[p] => progressed[p])
             \/ InForce(p) = {} /\ pc[p] = "stepping"
  <2>1. CASE q # p
    <3>1. PICK k : KafkaWaits(q, k) BY <1>5 DEF StepWaits
    <3> QED BY <2>1, <3>1 DEF KafkaWaits
  <2>2. CASE q = p /\ InForce(p) = {} BY <2>2, <1>5 DEF StepWaits
  <2>3. CASE q = p /\ InForce(p) # {}
    <3>1. PICK quiet \in BOOLEAN, e \in InForce(p) :
             KafkaClass(e) # "ConsumerFatal" /\ KafkaWaits(p, KafkaProgress(KafkaClass(e), quiet))
      BY <2>3, <1>5 DEF StepWaits
    <3>2. e \in ErrorKinds BY <3>1 DEF InForce, ConstantsAssumption
    <3>3. ~Counts(KafkaProgress(KafkaClass(e), quiet))
      BY <1>5, <2>3, <3>1, <3>2, TroubleNeverCounts DEF StepWaits
    <3> QED BY <3>1, <3>3 DEF KafkaWaits
  <2> QED BY <2>1, <2>2, <2>3
<1>6. ASSUME NEW q \in Pipelines, WakeFromBackoff(q)
      PROVE  gauges[p] \subseteq gauges'[p] /\ (progressed'[p] => progressed[p])
  BY <1>6 DEF WakeFromBackoff
<1>7. ASSUME NEW q \in Pipelines, Progress(q)
      PROVE  \/ gauges[p] \subseteq gauges'[p] /\ (progressed'[p] => progressed[p])
             \/ /\ InForce(p) = {}
                /\ pc[p] = (IF p \in Upserts THEN "merging" ELSE "stepping") \/ pc[p] = "stepping"
  <2>1. CASE Start(q) \/ OpenTables(q) \/ CheckGrain(q) \/ CheckPass(q) \/ Stop(q) \/ Reopen(q)
               \/ BeginStep(q) \/ AskToMerge(q) \/ MergePass(q) \/ Idle(q)
    BY <2>1, <1>1 DEF Start, OpenTables, CheckGrain, CheckPass, Stop, Reopen, BeginStep, AskToMerge,
                 MergePass, Idle
  <2>2. CASE OpenFails(q) \/ CheckFails(q) \/ StepFails(q)
    BY <2>2, <1>2 DEF OpenFails, CheckFails, StepFails
  <2> QED BY <1>3, <1>4, <1>5, <1>6, <1>7, <2>1, <2>2 DEF Progress
<1>8. CASE UNCHANGED <<gauges, progressed>> BY <1>8
<1>9. ASSUME NEW q \in Pipelines, NEW e \in Faults,
             Panic(q) \/ Relocate(q) \/ Break(q, e) \/ Repair(q, e)
      PROVE  UNCHANGED <<gauges, progressed>>
  BY <1>9 DEF Panic, Relocate, Break, Repair
<1>10. ASSUME NEW q \in Pipelines, Panic(q) \/ Relocate(q)
       PROVE  UNCHANGED <<gauges, progressed>>
  BY <1>10 DEF Panic, Relocate
<1>11. ASSUME NEW q \in NearTimes, NearTask(q) PROVE UNCHANGED <<gauges, progressed>>
  BY <1>11 DEF NearTask, NearStart, NearPoll, NearStops, NearWakes, PipelineVars
<1>12. CASE Cancel BY <1>12, <1>8 DEF Cancel
<1>13. CASE Exited \/ UNCHANGED vars BY <1>13, <1>8 DEF Exited, vars
<1> QED BY <1>7, <1>8, <1>9, <1>10, <1>11, <1>12, <1>13 DEF Next

\* No step lowers a gauge while what it stands for is still so, and none counts as progress
\* while something is wrong (observe_error, mark_progress, KafkaProgress::counts).
THEOREM GaugesAreTrue ==
  ASSUME ConstantsAssumption
  PROVE  Spec => [][GaugeStays /\ ProgressIsReal]_vars
<1>1. ASSUME FleetInv, [Next]_vars PROVE GaugeStays
  <2> SUFFICES ASSUME NEW p \in Pipelines \ Upserts, NEW g \in gauges[p] \ gauges'[p],
                      NEW e \in fault[p], e.cause = GaugeOfCause(g)
               PROVE  FALSE
    BY DEF GaugeStays
  <2>1. InForce(p) = {} /\ pc[p] = "stepping" BY <1>1, OnlyProgressLowers
  <2>2. g \in {"vacuumed", "bootstrap", "resume", "capacity"}
    BY <1>1 DEF FleetInv, FleetTyped, TypeOK
  <2>3. CASE g = "bootstrap"
    BY <1>1, <2>1, <2>3 DEF GaugeOfCause, FleetInv, BootstrapKnown, Open
  <2>4. CASE g # "bootstrap"
    BY <2>1, <2>2, <2>4, GaugeIsInForce
  <2> QED BY <2>3, <2>4
<1>2. ASSUME FleetInv, [Next]_vars PROVE ProgressIsReal
  BY <1>2, OnlyProgressLowers DEF ProgressIsReal
<1>3. FleetInv /\ [Next]_vars => GaugeStays /\ ProgressIsReal BY <1>1, <1>2
<1> QED BY <1>3, FleetInvariance, PTL DEF Spec

-----------------------------------------------------------------------------
\* Lookups, for any times of the source's commits, any policy and any number of writes,
\* replacements and failures: a batch tried again joins what it joined before, no pinned
\* batch joins what is younger, and under strict one table's rows enrich the stream.
CONSTANTS SourceTimes, UseCurrent, PreHistory, StabilityAttempts, MaxTime, MaxWrites, MaxFailures
VARIABLES now, log, kept, ids, writes, selecting, batch, tries, attempt, expected, marker,
          recorded, choice, picks, commits, failures

Enriching == INSTANCE Lookups WITH pc <- selecting

Snapshot ==
  [head : Nat, headId : Nat, version : Nat, id : Nat, ts : Nat, pre : BOOLEAN, current : BOOLEAN]

LookupTyped ==
  /\ now \in Nat /\ ids \in Nat \ {0} /\ writes \in Nat /\ failures \in Nat
  /\ log \in Seq([ts : Nat, id : Nat]) /\ Len(log) > 0 /\ kept \in 0 .. Len(log) - 1
  /\ Enriching!TypeOK
  /\ attempt \in Snapshot /\ choice \in Snapshot
  /\ expected \in Nat /\ marker \in BOOLEAN /\ recorded \in Nat
  /\ picks \in [DOMAIN SourceTimes -> SUBSET Snapshot]
  /\ commits \in Seq(Snapshot)

(* Nothing in the log is of the future, and a table id is never used again: the head bears
   the newest. *)
LookupLogOK ==
  /\ \A v \in 0 .. Len(log) - 1 : log[v + 1].ts <= now /\ log[v + 1].id \in 1 .. ids
  /\ log[Len(log)].id = ids

(* Where anything in the log is older than t, c is the newest of it. *)
Fits(t, c) ==
  \A v \in 0 .. Len(log) - 1 :
    log[v + 1].ts < t =>
      /\ c.version \in v .. Len(log) - 1
      /\ log[c.version + 1].ts < t
      /\ log[c.version + 1].id = c.id

Alike(c, d) == <<c.id, c.version>> = <<d.id, d.version>>

(* What was chosen before, of this table or of one that is gone, fits still: what comes
   into the log after a source commit is never older than it. *)
PicksOK ==
  /\ Enriching!Reproducible
  /\ \A b \in DOMAIN SourceTimes : \A c \in picks[b] :
       SourceTimes[b] <= now /\ (Enriching!Pinned(c) => Fits(SourceTimes[b], c))

(* A snapshot is chosen for a batch whose source commit is there. *)
BatchIsThere ==
  selecting \notin {"down", "idle"} =>
    batch \in DOMAIN SourceTimes /\ SourceTimes[batch] <= now

(* What the selection has read so far. While the head's id is the one it began with,
   the log has only grown. *)
SelectionOK ==
  /\ selecting = "at" =>
       /\ ~attempt.pre /\ ~attempt.current /\ attempt.headId \in 1 .. ids
       /\ \A v \in 0 .. Len(log) - 1 : log[v + 1].ts < SourceTimes[batch] => v <= attempt.head
  /\ selecting \in {"version", "verify"} =>
       /\ ~attempt.current /\ attempt.headId \in 1 .. ids
       /\ ~attempt.pre /\ attempt.headId = ids =>
            /\ attempt.version \in 0 .. Len(log) - 1
            /\ log[attempt.version + 1].ts < SourceTimes[batch]
            /\ \A v \in 0 .. Len(log) - 1 :
                 log[v + 1].ts < SourceTimes[batch] => v <= attempt.version
  /\ selecting = "verify" =>
       /\ attempt.id \in 1 .. ids
       /\ ~attempt.pre /\ attempt.headId = ids =>
            log[attempt.version + 1] = [ts |-> attempt.ts, id |-> attempt.id]
  /\ selecting = "verified" =>
       /\ attempt.id \in 1 .. ids /\ attempt.headId \in 1 .. ids
       /\ attempt.current => UseCurrent
       /\ Enriching!Pinned(attempt) =>
            /\ attempt.ts < SourceTimes[batch] /\ Fits(SourceTimes[batch], attempt)
            /\ \A c \in picks[batch] : Enriching!Pinned(c) => Alike(c, attempt)

(* What was decided on may be committed. *)
DecisionOK ==
  selecting = "decided" =>
    /\ choice.id \in 1 .. ids
    /\ Enriching!Pinned(choice) => choice.ts < SourceTimes[batch]
    /\ ~UseCurrent => choice = attempt /\ ~Enriching!Ambiguous

(* Under strict the target's last commit names the table of all its commits, and a
   pipeline that runs expects no other. *)
StrictOK ==
  ~UseCurrent =>
    /\ \A i \in DOMAIN commits : commits[i].id = recorded
    /\ recorded = 0 => commits = <<>>
    /\ selecting # "down" => recorded \in {0, expected}
    /\ ~marker

LookupInv ==
  /\ LookupTyped /\ LookupLogOK /\ PicksOK /\ BatchIsThere /\ SelectionOK /\ DecisionOK
  /\ StrictOK /\ Enriching!NeverTheFuture

-----------------------------------------------------------------------------
(* The newest version older than the source commit *)

\* Every set of naturals has a least element.
LEMMA LeastNatural ==
  ASSUME NEW T \in SUBSET Nat, T # {}
  PROVE  \E x \in T : \A y \in T : x <= y
<1> PICK R : R = {pair \in Nat \X Nat : pair[1] < pair[2]} OBVIOUS
<1>1. IsWellFoundedOn(R, Nat) BY NatLessThanWellFounded DEF OpToRel
<1>2. PICK x \in T : \A y \in T : ~(<<y, x>> \in R) BY <1>1, WFMin
<1>3. ASSUME NEW y \in T PROVE x <= y
  <2> PICK z : z = <<y, x>> OBVIOUS
  <2>1. z \in Nat \X Nat /\ z[1] = y /\ z[2] = x /\ z \notin R BY <1>2
  <2>2. ~(y < x) BY <2>1
  <2> QED BY <2>2
<1> QED BY <1>3

\* A bounded set of naturals has a greatest element.
LEMMA GreatestVersion ==
  ASSUME NEW n \in Nat, NEW S \in SUBSET (0 .. n), S # {}
  PROVE  Enriching!Max(S) \in S /\ \A y \in S : y <= Enriching!Max(S)
<1> PICK T : T = {n - y : y \in S} OBVIOUS
<1>1. \A y \in S : n - y \in Nat OBVIOUS
<1>2. T \in SUBSET Nat /\ T # {} BY <1>1
<1>3. PICK x \in T : \A y \in T : x <= y BY <1>2, LeastNatural
<1>4. PICK m \in S : x = n - m BY <1>3
<1>5. ASSUME NEW y \in S PROVE m >= y
  <2>1. n - y \in T OBVIOUS
  <2>2. n - m <= n - y BY <1>3, <1>4, <2>1
  <2> QED BY <2>2
<1>6. \A y \in S : Enriching!Max(S) >= y /\ Enriching!Max(S) \in S BY <1>5 DEF Enriching!Max
<1> QED BY <1>6

LEMMA Element ==
  ASSUME NEW S, NEW q \in Seq(S), NEW i \in 1 .. Len(q)
  PROVE  q[i] \in S
  OBVIOUS

LEMMA Appended ==
  ASSUME NEW S, NEW q \in Seq(S), NEW e \in S
  PROVE  /\ Append(q, e) \in Seq(S) /\ Len(Append(q, e)) = Len(q) + 1 /\ Len(q) \in Nat
         /\ Append(q, e)[Len(q) + 1] = e
         /\ \A i \in 1 .. Len(q) : Append(q, e)[i] = q[i]
         /\ \A v \in 0 .. Len(q) - 1 : Append(q, e)[v + 1] = q[v + 1]
<1>1. /\ Append(q, e) \in Seq(S) /\ Len(Append(q, e)) = Len(q) + 1 /\ Len(q) \in Nat
      /\ Append(q, e)[Len(q) + 1] = e
      /\ \A i \in 1 .. Len(q) : Append(q, e)[i] = q[i]
  OBVIOUS
<1>2. ASSUME NEW v \in 0 .. Len(q) - 1 PROVE Append(q, e)[v + 1] = q[v + 1]
  <2>1. v + 1 \in 1 .. Len(q) BY <1>1
  <2> QED BY <1>1, <2>1
<1> QED BY <1>1, <1>2

LEMMA LogIsTyped ==
  ASSUME LookupTyped
  PROVE  /\ Len(log) \in Nat /\ Len(log) - 1 \in Nat /\ kept \in 0 .. Len(log) - 1
         /\ now \in Nat /\ ids \in Nat
         /\ \A v \in 0 .. Len(log) - 1 :
              log[v + 1] \in [ts : Nat, id : Nat] /\ log[v + 1].ts \in Nat /\ log[v + 1].id \in Nat
<1>1. /\ log \in Seq([ts : Nat, id : Nat]) /\ Len(log) > 0 /\ kept \in 0 .. Len(log) - 1
      /\ now \in Nat /\ ids \in Nat
  BY DEF LookupTyped
<1>2. Len(log) \in Nat BY <1>1
<1>3. ASSUME NEW v \in 0 .. Len(log) - 1
      PROVE  log[v + 1] \in [ts : Nat, id : Nat]
  <2>1. v + 1 \in 1 .. Len(log) BY <1>2
  <2> QED BY <1>1, <2>1, Element
<1> QED BY <1>1, <1>2, <1>3

\* Time travel lands anywhere among the versions held; with what follows and is older
\* still, the selection is at the newest version older than the source commit
\* (lookup.rs, advance_to_boundary).
LEMMA SelectedIsNewest ==
  ASSUME Enriching!ConstantsAssumption, LookupInv, selecting = "at",
         NEW v \in Enriching!TimeTravel(SourceTimes[batch] - 1), ~Enriching!Clamped(v)
  PROVE  /\ Enriching!Advanced(v) \in 0 .. Len(log) - 1
         /\ log[Enriching!Advanced(v) + 1].ts < SourceTimes[batch]
         /\ \A u \in 0 .. Len(log) - 1 :
              log[u + 1].ts < SourceTimes[batch] => u <= Enriching!Advanced(v)
<1> PICK t : t = SourceTimes[batch] OBVIOUS
<1> PICK last : last = Len(log) - 1 OBVIOUS
<1>1. /\ last \in Nat /\ kept \in 0 .. last /\ batch \in DOMAIN SourceTimes
      /\ attempt.head \in Nat
      /\ \A u \in 0 .. last : log[u + 1].ts \in Nat
      /\ \A u \in 0 .. last : log[u + 1].ts < t => u <= attempt.head
  <2>1. LookupTyped /\ BatchIsThere /\ SelectionOK BY DEF LookupInv
  <2>2. attempt \in Snapshot BY <2>1 DEF LookupTyped
  <2>3. attempt.head \in Nat BY <2>2 DEF Snapshot
  <2>4. batch \in DOMAIN SourceTimes BY <2>1 DEF BatchIsThere
  <2>5. \A u \in 0 .. last : log[u + 1].ts < t => u <= attempt.head BY <2>1 DEF SelectionOK
  <2> QED BY <2>1, <2>3, <2>4, <2>5, LogIsTyped
<1>0. t \in Nat BY <1>1 DEF LookupInv, Enriching!ConstantsAssumption
<1> PICK older : older = {u \in kept .. last : log[u + 1].ts <= t - 1} OBVIOUS
<1>2. v = kept \/ v \in older \/ (older # {} /\ v = Enriching!Max(older))
  BY DEF Enriching!TimeTravel, Enriching!Retained, Enriching!Last, Enriching!Ts
<1>3. v \in 0 .. last
  <2>0. older \in SUBSET (0 .. last) BY <1>1
  <2>1. older # {} => Enriching!Max(older) \in older BY <1>1, <2>0, GreatestVersion
  <2> QED BY <1>1, <1>2, <2>1
<1>4. log[v + 1].ts < t
  BY <1>0, <1>1, <1>3 DEF Enriching!Clamped, Enriching!Ts, Enriching!SourceTime
<1> PICK S : S = {v} \cup {w \in v .. last : w <= attempt.head /\ log[w + 1].ts < t} OBVIOUS
<1>5. Enriching!Advanced(v) = Enriching!Max(S)
  BY DEF Enriching!Advanced, Enriching!Last, Enriching!Ts, Enriching!SourceTime
<1>6. Enriching!Max(S) \in S /\ \A y \in S : y <= Enriching!Max(S)
  <2>1. S \in SUBSET (0 .. last) /\ S # {} BY <1>1, <1>3
  <2> QED BY <1>1, <2>1, GreatestVersion
<1>7. Enriching!Max(S) \in 0 .. last /\ log[Enriching!Max(S) + 1].ts < t
  BY <1>1, <1>3, <1>4, <1>6
<1>8. ASSUME NEW u \in 0 .. last, log[u + 1].ts < t PROVE u <= Enriching!Max(S)
  <2>1. CASE u < v BY <1>1, <1>3, <1>6, <1>7, <2>1
  <2>2. CASE u >= v
    <3>1. u \in S BY <1>1, <1>3, <1>8, <2>2
    <3> QED BY <1>6, <3>1
  <2> QED BY <1>1, <1>3, <2>1, <2>2
<1> QED BY <1>5, <1>7, <1>8

-----------------------------------------------------------------------------
(* The lookup's writers *)

\* The log grows by what is not older than now, or is that of a new table.
LogMoves ==
  /\ now' \in Nat /\ now <= now' /\ ids' \in Nat /\ ids <= ids'
  /\ log' \in Seq([ts : Nat, id : Nat]) /\ Len(log') > 0 /\ kept' \in 0 .. Len(log') - 1
  /\ writes' \in Nat
  /\ LookupLogOK'
  /\ \/ /\ Len(log) <= Len(log')
        /\ \A v \in 0 .. Len(log) - 1 : log'[v + 1] = log[v + 1]
        /\ \A v \in Len(log) .. Len(log') - 1 : log'[v + 1].ts = now
     \/ /\ ids < ids'
        /\ \A v \in 0 .. Len(log') - 1 : log'[v + 1].ts = now

LEMMA WritersMoveLog ==
  ASSUME LookupInv,
         \/ Enriching!Tick \/ Enriching!Write \/ Enriching!Replace \/ Enriching!Recreate
         \/ Enriching!Truncate
  PROVE  LogMoves /\ UNCHANGED Enriching!pipeline
<1>0. /\ Len(log) \in Nat /\ log \in Seq([ts : Nat, id : Nat]) /\ now \in Nat /\ ids \in Nat
      /\ Len(log) > 0 /\ kept \in 0 .. Len(log) - 1 /\ writes \in Nat
      /\ LookupTyped /\ LookupLogOK
  BY DEF LookupInv, LookupTyped
<1>1. UNCHANGED Enriching!pipeline
  BY DEF Enriching!Tick, Enriching!Write, Enriching!Replace, Enriching!Recreate, Enriching!Truncate
<1>2. CASE Enriching!Tick
  <2>1. now' = now + 1 /\ UNCHANGED <<log, kept, ids, writes>> BY <1>2 DEF Enriching!Tick
  <2>2. ASSUME NEW v \in 0 .. Len(log) - 1 PROVE log[v + 1].ts <= now'
    BY <1>0, <2>1, LogIsTyped DEF LookupLogOK
  <2>3. LookupLogOK' BY <1>0, <2>1, <2>2 DEF LookupLogOK
  <2>4. now' \in Nat /\ now <= now' BY <1>0, <2>1
  <2>5. \A v \in Len(log) .. Len(log) - 1 : FALSE BY <1>0
  <2> QED BY <1>0, <1>1, <2>1, <2>3, <2>4, <2>5 DEF LogMoves
<1>3. CASE Enriching!Truncate
  <2>1. kept < Len(log) - 1 /\ kept' = kept + 1 /\ UNCHANGED <<now, log, ids, writes>>
    BY <1>3 DEF Enriching!Truncate, Enriching!Last
  <2>2. LookupLogOK' BY <1>0, <2>1 DEF LookupLogOK
  <2>3. \A v \in Len(log) .. Len(log) - 1 : FALSE BY <1>0
  <2>4. kept' \in 0 .. Len(log') - 1 BY <1>0, <2>1
  <2> QED BY <1>0, <1>1, <2>1, <2>2, <2>3, <2>4 DEF LogMoves
<1>4. ASSUME NEW i \in Nat, ids <= i, i <= ids + 1, ids' = i, now' = now, kept' = kept,
             writes' = writes + 1, log' = Append(log, [ts |-> now, id |-> i])
      PROVE  LogMoves
  <2>1. /\ Len(log') = Len(log) + 1 /\ log' \in Seq([ts : Nat, id : Nat])
        /\ \A v \in 0 .. Len(log) - 1 : log'[v + 1] = log[v + 1]
        /\ log'[Len(log) + 1] = [ts |-> now, id |-> i]
    <3>1. [ts |-> now, id |-> i] \in [ts : Nat, id : Nat] BY <1>0, <1>4
    <3> QED BY <1>0, <1>4, <3>1, Appended
  <2>2. \A v \in 0 .. Len(log') - 1 : v \in 0 .. Len(log) - 1 \/ v = Len(log) BY <2>1
  <2>3. \A v \in 0 .. Len(log') - 1 : log'[v + 1].ts <= now' /\ log'[v + 1].id \in 1 .. ids'
    <3> SUFFICES ASSUME NEW v \in 0 .. Len(log') - 1
                 PROVE  log'[v + 1].ts <= now' /\ log'[v + 1].id \in 1 .. ids'
      OBVIOUS
    <3>1. CASE v = Len(log)
      <4>1. log'[v + 1] = [ts |-> now, id |-> i] BY <2>1, <3>1
      <4>2. log'[v + 1].ts = now /\ log'[v + 1].id = i BY <4>1
      <4>3. 1 <= ids BY <1>0 DEF LookupTyped
      <4>4. i \in 1 .. ids' BY <1>0, <1>4, <4>3
      <4>5. now <= now' BY <1>0, <1>4
      <4> QED BY <4>2, <4>4, <4>5
    <3>2. CASE v \in 0 .. Len(log) - 1
      <4>1. log'[v + 1] = log[v + 1] BY <2>1, <3>2
      <4>2. log[v + 1].ts <= now /\ log[v + 1].id \in 1 .. ids BY <1>0, <3>2 DEF LookupLogOK
      <4>3. 1 .. ids \subseteq 1 .. ids' BY <1>0, <1>4
      <4> QED BY <1>4, <4>1, <4>2, <4>3
    <3> QED BY <2>2, <3>1, <3>2
  <2>4. LookupLogOK' BY <1>4, <2>1, <2>3 DEF LookupLogOK
  <2>5. \A v \in Len(log) .. Len(log') - 1 : log'[v + 1].ts = now
    <3>1. \A v \in Len(log) .. Len(log') - 1 : v = Len(log) BY <1>0, <2>1
    <3> QED BY <2>1, <3>1
  <2>6. /\ now' \in Nat /\ now <= now' /\ ids' \in Nat /\ ids <= ids' /\ Len(log') > 0
        /\ kept' \in 0 .. Len(log') - 1 /\ writes' \in Nat /\ Len(log) <= Len(log')
    BY <1>0, <1>4, <2>1
  <2> QED BY <2>1, <2>4, <2>5, <2>6 DEF LogMoves
<1>5. CASE Enriching!Write
  <2>1. /\ log' = Append(log, [ts |-> now, id |-> log[Len(log)].id]) /\ writes' = writes + 1
        /\ UNCHANGED <<now, kept, ids>>
    BY <1>5 DEF Enriching!Write, Enriching!HeadId
  <2>2. log[Len(log)].id = ids BY <1>0 DEF LookupLogOK
  <2>3. log' = Append(log, [ts |-> now, id |-> ids]) BY <2>1, <2>2
  <2> QED BY <1>0, <1>1, <1>4, <2>1, <2>3
<1>6. CASE Enriching!Replace
  <2>1. /\ log' = Append(log, [ts |-> now, id |-> ids + 1]) /\ ids' = ids + 1
        /\ writes' = writes + 1 /\ UNCHANGED <<now, kept>>
    BY <1>6 DEF Enriching!Replace
  <2>2. ids + 1 \in Nat /\ ids <= ids + 1 BY <1>0
  <2> QED BY <1>0, <1>1, <1>4, <2>1, <2>2
<1>7. CASE Enriching!Recreate
  <2>1. /\ log' = <<[ts |-> now, id |-> ids + 1]>> /\ ids' = ids + 1 /\ kept' = 0
        /\ writes' = writes + 1 /\ now' = now
    BY <1>7 DEF Enriching!Recreate
  <2>2. Len(log') = 1 /\ log'[1] = [ts |-> now, id |-> ids + 1] BY <2>1
  <2>3. \A v \in 0 .. Len(log') - 1 : log'[v + 1] = [ts |-> now, id |-> ids + 1] BY <2>2
  <2>4. LookupLogOK'
    <3>1. \A v \in 0 .. Len(log') - 1 : log'[v + 1].ts <= now' /\ log'[v + 1].id \in 1 .. ids'
      BY <1>0, <2>1, <2>3
    <3> QED BY <2>1, <2>2, <3>1 DEF LookupLogOK
  <2>5. log' \in Seq([ts : Nat, id : Nat]) BY <1>0, <2>1
  <2>6. \A v \in 0 .. Len(log') - 1 : log'[v + 1].ts = now BY <2>3
  <2>7. /\ now' \in Nat /\ now <= now' /\ ids' \in Nat /\ ids < ids' /\ ids <= ids'
        /\ Len(log') > 0 /\ kept' \in 0 .. Len(log') - 1 /\ writes' \in Nat
    BY <1>0, <2>1, <2>2
  <2> QED BY <1>1, <2>4, <2>5, <2>6, <2>7 DEF LogMoves
<1> QED BY <1>1, <1>2, <1>3, <1>5, <1>6, <1>7

\* What fits a source commit that is there fits it still.
LEMMA FitsStill ==
  ASSUME LookupTyped, LogMoves, NEW t \in Nat, t <= now, NEW s \in Snapshot, Fits(t, s)
  PROVE  Fits(t, s)'
<1> SUFFICES ASSUME NEW v \in 0 .. Len(log') - 1, log'[v + 1].ts < t
             PROVE  /\ s.version \in v .. Len(log') - 1
                    /\ log'[s.version + 1].ts < t
                    /\ log'[s.version + 1].id = s.id
  BY DEF Fits
<1>1. now \in Nat /\ Len(log) \in Nat /\ Len(log') \in Nat BY LogIsTyped DEF LogMoves
<1>0. log'[v + 1].ts # now BY <1>1
<1>2. /\ Len(log) <= Len(log') /\ \A u \in 0 .. Len(log) - 1 : log'[u + 1] = log[u + 1]
      /\ \A u \in Len(log) .. Len(log') - 1 : log'[u + 1].ts = now
  BY <1>0 DEF LogMoves
<1>3. v \in 0 .. Len(log) - 1
  <2>1. v \in Len(log) .. Len(log') - 1 => log'[v + 1].ts = now BY <1>2
  <2>2. v \notin Len(log) .. Len(log') - 1 BY <1>0, <2>1
  <2> QED BY <1>1, <2>2
<1>4. /\ s.version \in v .. Len(log) - 1 /\ log[s.version + 1].ts < t
      /\ log[s.version + 1].id = s.id
  BY <1>2, <1>3 DEF Fits
<1>5. s.version \in 0 .. Len(log) - 1 /\ log'[s.version + 1] = log[s.version + 1]
  BY <1>1, <1>2, <1>3, <1>4
<1> QED BY <1>1, <1>2, <1>4, <1>5

LEMMA WritersKeep ==
  ASSUME Enriching!ConstantsAssumption, LookupInv, LogMoves, UNCHANGED Enriching!pipeline
  PROVE  LookupInv'
<1>1. /\ UNCHANGED <<selecting, batch, tries, attempt, expected, marker, recorded, choice, picks>>
      /\ UNCHANGED <<commits, failures>>
  BY DEF Enriching!pipeline
<1>2. LookupTyped'
  <2>1. LookupTyped BY DEF LookupInv
  <2>2. Enriching!TypeOK' BY <1>1, <2>1 DEF LookupTyped, LogMoves, Enriching!TypeOK, Enriching!Last
  <2>3. ids' \in Nat \ {0} BY <2>1 DEF LookupTyped, LogMoves
  <2> QED BY <1>1, <2>1, <2>2, <2>3 DEF LookupTyped, LogMoves
<1>3. \A b \in DOMAIN SourceTimes : SourceTimes[b] \in Nat BY DEF Enriching!ConstantsAssumption
<1>4. now \in Nat /\ now' \in Nat /\ now <= now' /\ ids \in Nat /\ ids' \in Nat /\ ids <= ids'
  BY DEF LogMoves, LookupInv, LookupTyped
<1>5. PicksOK'
  <2>1. Enriching!Reproducible' BY <1>1 DEF LookupInv, PicksOK, Enriching!Reproducible, Enriching!Pinned
  <2>2. ASSUME NEW b \in DOMAIN SourceTimes, NEW s \in picks[b]
        PROVE  SourceTimes[b] <= now' /\ (Enriching!Pinned(s) => Fits(SourceTimes[b], s)')
    <3>1. s \in Snapshot BY DEF LookupInv, LookupTyped
    <3>2. SourceTimes[b] <= now /\ (Enriching!Pinned(s) => Fits(SourceTimes[b], s))
      BY DEF LookupInv, PicksOK
    <3>3. SourceTimes[b] <= now' BY <1>3, <1>4, <3>2
    <3> QED BY <1>3, <3>1, <3>2, <3>3, FitsStill DEF LookupInv
  <2> QED BY <1>1, <2>1, <2>2 DEF PicksOK
<1>6. BatchIsThere' BY <1>1, <1>3, <1>4 DEF LookupInv, BatchIsThere
<1>7. SelectionOK'
  <2> SUFFICES ASSUME selecting \in {"at", "version", "verify", "verified"} PROVE SelectionOK'
    BY <1>1 DEF SelectionOK
  <2> PICK t : t = SourceTimes[batch] OBVIOUS
  <2>1. t \in Nat /\ t <= now BY <1>3 DEF LookupInv, BatchIsThere
  <2>2. attempt \in Snapshot BY DEF LookupInv, LookupTyped
  <2>3. ASSUME NEW h \in Nat, \A v \in 0 .. Len(log) - 1 : log[v + 1].ts < t => v <= h
        PROVE  \A v \in 0 .. Len(log') - 1 : log'[v + 1].ts < t => v <= h
    <3> SUFFICES ASSUME NEW v \in 0 .. Len(log') - 1, log'[v + 1].ts < t PROVE v <= h OBVIOUS
    <3>1. log'[v + 1].ts # now BY <1>4, <2>1
    <3>2. /\ Len(log) <= Len(log') /\ \A u \in 0 .. Len(log) - 1 : log'[u + 1] = log[u + 1]
          /\ \A u \in Len(log) .. Len(log') - 1 : log'[u + 1].ts = now
      BY <3>1 DEF LogMoves
    <3>3. Len(log) \in Nat /\ Len(log') \in Nat BY LogIsTyped DEF LookupInv, LogMoves
    <3>4. v \in 0 .. Len(log) - 1
      <4>1. v \in Len(log) .. Len(log') - 1 => log'[v + 1].ts = now BY <3>2
      <4>2. v \notin Len(log) .. Len(log') - 1 BY <3>1, <4>1
      <4> QED BY <3>3, <4>2
    <3> QED BY <2>3, <3>2, <3>4
  <2>4. attempt.head \in Nat /\ attempt.version \in Nat /\ attempt.headId \in Nat
    BY <2>2 DEF Snapshot
  <2>5. 1 .. ids \subseteq 1 .. ids' BY <1>4
  <2>6. CASE selecting = "at"
    BY <1>1, <2>3, <2>4, <2>5, <2>6 DEF LookupInv, SelectionOK
  <2>7. ASSUME selecting \in {"version", "verify"}, ~attempt.pre, attempt.headId = ids'
        PROVE  /\ attempt.headId = ids
               /\ attempt.version \in 0 .. Len(log) - 1 /\ attempt.version \in 0 .. Len(log') - 1
               /\ log'[attempt.version + 1] = log[attempt.version + 1]
    <3>1. attempt.headId = ids BY <1>4, <2>7 DEF LookupInv, SelectionOK
    <3>2. attempt.version \in 0 .. Len(log) - 1 BY <2>7, <3>1 DEF LookupInv, SelectionOK
    <3>3. ids' = ids BY <2>7, <3>1
    <3>4. Len(log) <= Len(log') /\ \A u \in 0 .. Len(log) - 1 : log'[u + 1] = log[u + 1]
      BY <1>4, <3>3 DEF LogMoves
    <3>5. Len(log) \in Nat /\ Len(log') \in Nat BY LogIsTyped DEF LookupInv, LogMoves
    <3> QED BY <3>1, <3>2, <3>4, <3>5
  <2>8. CASE selecting \in {"version", "verify"}
    <3>1. ~attempt.current /\ attempt.headId \in 1 .. ids' BY <2>5, <2>8 DEF LookupInv, SelectionOK
    <3>2. ASSUME ~attempt.pre, attempt.headId = ids'
          PROVE  /\ attempt.version \in 0 .. Len(log') - 1 /\ log'[attempt.version + 1].ts < t
                 /\ \A v \in 0 .. Len(log') - 1 : log'[v + 1].ts < t => v <= attempt.version
      BY <2>3, <2>4, <2>7, <2>8, <3>2 DEF LookupInv, SelectionOK
    <3>3. selecting = "verify" =>
            /\ attempt.id \in 1 .. ids'
            /\ ~attempt.pre /\ attempt.headId = ids' =>
                 log'[attempt.version + 1] = [ts |-> attempt.ts, id |-> attempt.id]
      BY <2>5, <2>7, <2>8 DEF LookupInv, SelectionOK
    <3> QED BY <1>1, <2>8, <3>1, <3>2, <3>3 DEF SelectionOK
  <2>9. CASE selecting = "verified"
    <3>1. /\ attempt.id \in 1 .. ids' /\ attempt.headId \in 1 .. ids' /\ (attempt.current => UseCurrent)
          /\ Enriching!Pinned(attempt) =>
               /\ attempt.ts < t /\ Fits(t, attempt)
               /\ \A s \in picks[batch] : Enriching!Pinned(s) => Alike(s, attempt)
      BY <2>5, <2>9 DEF LookupInv, SelectionOK
    <3>2. Enriching!Pinned(attempt) => Fits(t, attempt)'
      <4>1. LookupTyped BY DEF LookupInv
      <4> SUFFICES ASSUME Enriching!Pinned(attempt) PROVE Fits(t, attempt)' OBVIOUS
      <4> PICK s \in Snapshot : s = attempt BY <2>2
      <4>2. Fits(t, s) BY <3>1
      <4>3. Fits(t, s)' BY <2>1, <4>1, <4>2, FitsStill
      <4> QED BY <1>1, <4>3 DEF Fits
    <3>3. Enriching!Pinned(attempt)' = Enriching!Pinned(attempt) BY <1>1 DEF Enriching!Pinned
    <3>4. (\A s \in picks[batch] : Enriching!Pinned(s) => Alike(s, attempt))
            => (\A s \in picks[batch] : Enriching!Pinned(s) => Alike(s, attempt))'
      BY <1>1 DEF Enriching!Pinned, Alike
    <3> QED BY <1>1, <2>9, <3>1, <3>2, <3>3, <3>4 DEF SelectionOK, Fits, Alike, Enriching!Pinned
  <2> QED BY <2>6, <2>8, <2>9
<1>8. DecisionOK'
  BY <1>1, <1>4 DEF LookupInv, DecisionOK, Enriching!Pinned, Enriching!Ambiguous
<1>9. StrictOK' BY <1>1 DEF LookupInv, StrictOK
<1>10. Enriching!NeverTheFuture' BY <1>1 DEF LookupInv, Enriching!NeverTheFuture, Enriching!Pinned
<1>11. LookupLogOK' BY DEF LogMoves
<1> QED BY <1>2, <1>5, <1>6, <1>7, <1>8, <1>9, <1>10, <1>11 DEF LookupInv

-----------------------------------------------------------------------------
(* The pipeline *)

\* While a batch is being selected only what has been read changes.
LEMMA ReadingKeeps ==
  ASSUME Enriching!ConstantsAssumption, LookupInv, selecting \notin {"down", "idle"},
         NEW a \in Snapshot, Enriching!Reading(a), tries' \in 0 .. StabilityAttempts,
         selecting' \in {"down", "head", "at", "version", "verify", "verified"}, SelectionOK'
  PROVE  LookupInv'
<1>1. /\ attempt' = a
      /\ UNCHANGED <<now, log, kept, ids, writes, batch, expected, marker, recorded, choice, picks>>
      /\ UNCHANGED <<commits, failures>>
  BY DEF Enriching!Reading, Enriching!table
<1>2. LookupTyped'
  <2>1. LookupTyped BY DEF LookupInv
  <2>2. Enriching!TypeOK' BY <1>1, <2>1 DEF LookupTyped, Enriching!TypeOK, Enriching!Last
  <2> QED BY <1>1, <2>1, <2>2 DEF LookupTyped
<1>3. LookupLogOK' BY <1>1 DEF LookupInv, LookupLogOK
<1>4. PicksOK' BY <1>1 DEF LookupInv, PicksOK, Enriching!Reproducible, Enriching!Pinned, Fits
<1>5. BatchIsThere' BY <1>1 DEF LookupInv, BatchIsThere
<1>6. DecisionOK' BY DEF DecisionOK
<1>7. StrictOK' BY <1>1 DEF LookupInv, StrictOK
<1>8. Enriching!NeverTheFuture' BY <1>1 DEF LookupInv, Enriching!NeverTheFuture, Enriching!Pinned
<1> QED BY <1>2, <1>3, <1>4, <1>5, <1>6, <1>7, <1>8 DEF LookupInv

LEMMA FailingKeeps ==
  ASSUME Enriching!ConstantsAssumption, LookupInv, selecting \notin {"down", "idle"}, Enriching!Fails
  PROVE  LookupInv'
<1>1. Enriching!Nothing \in Snapshot BY DEF Enriching!Nothing, Snapshot
<1>2. selecting' = "down" /\ tries' = 0 /\ Enriching!Reading(Enriching!Nothing) BY DEF Enriching!Fails
<1>3. SelectionOK' BY <1>2 DEF SelectionOK
<1>4. 0 \in 0 .. StabilityAttempts BY DEF Enriching!ConstantsAssumption
<1> QED BY <1>1, <1>2, <1>3, <1>4, ReadingKeeps

\* A lookup whose history is gone is read at its head under use_current, and refused under
\* strict (lookup_history_unavailable, current_snapshots).
LEMMA HistoryGoneKeeps ==
  ASSUME Enriching!ConstantsAssumption, LookupInv, selecting \notin {"down", "idle"},
         Enriching!HistoryUnavailable
  PROVE  LookupInv'
<1>1. CASE ~UseCurrent BY <1>1, FailingKeeps DEF Enriching!HistoryUnavailable
<1>2. CASE UseCurrent
  <2> PICK last : last = Len(log) - 1 OBVIOUS
  <2> PICK a : a = [Enriching!Nothing EXCEPT !.head = Enriching!Last, !.headId = Enriching!HeadId,
                      !.version = Enriching!Last, !.id = Enriching!HeadId,
                      !.ts = Enriching!Ts(Enriching!Last), !.current = TRUE]
    OBVIOUS
  <2>1. Enriching!Reading(a) /\ selecting' = "verified" /\ tries' = tries
    BY <1>2 DEF Enriching!HistoryUnavailable
  <2>2. /\ LookupTyped /\ log[Len(log)].id = ids /\ ids \in Nat \ {0}
        /\ tries \in 0 .. StabilityAttempts
    BY DEF LookupInv, LookupTyped, LookupLogOK, Enriching!TypeOK
  <2>3. last \in 0 .. Len(log) - 1 /\ last \in Nat BY <2>2, LogIsTyped
  <2>4. log[last + 1].ts \in Nat BY <2>2, <2>3, LogIsTyped
  <2>5. Enriching!Last \in Nat /\ Enriching!Ts(Enriching!Last) \in Nat /\ Enriching!HeadId = ids
    BY <2>2, <2>3, <2>4 DEF Enriching!Last, Enriching!HeadId, Enriching!Ts
  <2>0. a \in Snapshot /\ a.current /\ a.id = ids /\ a.headId = ids
    BY <2>2, <2>5 DEF Snapshot, Enriching!Nothing
  <2>6. attempt' = a /\ ids' = ids BY <2>1 DEF Enriching!Reading, Enriching!table
  <2>7. a.current /\ a.id \in 1 .. ids /\ a.headId \in 1 .. ids BY <2>0, <2>2
  <2>8. SelectionOK' BY <1>2, <2>1, <2>6, <2>7 DEF SelectionOK, Enriching!Pinned
  <2> QED BY <2>0, <2>1, <2>2, <2>8, ReadingKeeps
<1> QED BY <1>1, <1>2

LEMMA OpenKeeps ==
  ASSUME Enriching!ConstantsAssumption, LookupInv, Enriching!Open
  PROVE  LookupInv'
<1>1. /\ selecting = "down" /\ selecting' = "idle" /\ (recorded \in {0, log[Len(log)].id} \/ UseCurrent)
      /\ expected' = log[Len(log)].id /\ marker' = (recorded \notin {0, log[Len(log)].id})
      /\ UNCHANGED <<now, log, kept, ids, writes, batch, tries, attempt, recorded, choice, picks>>
      /\ UNCHANGED <<commits, failures>>
  BY DEF Enriching!Open, Enriching!table, Enriching!HeadId
<1>2. LookupTyped'
  <2>1. LookupTyped /\ log[Len(log)].id = ids BY DEF LookupInv, LookupLogOK
  <2>2. Enriching!TypeOK' BY <1>1, <2>1 DEF LookupTyped, Enriching!TypeOK, Enriching!Last
  <2>3. expected' \in Nat /\ marker' \in BOOLEAN BY <1>1, <2>1 DEF LookupTyped
  <2> QED BY <1>1, <2>1, <2>2, <2>3 DEF LookupTyped
<1>3. LookupLogOK' BY <1>1 DEF LookupInv, LookupLogOK
<1>4. PicksOK' BY <1>1 DEF LookupInv, PicksOK, Enriching!Reproducible, Enriching!Pinned, Fits
<1>5. BatchIsThere' /\ SelectionOK' /\ DecisionOK'
  BY <1>1 DEF BatchIsThere, SelectionOK, DecisionOK
<1>6. StrictOK' BY <1>1 DEF LookupInv, StrictOK
<1>7. Enriching!NeverTheFuture' BY <1>1 DEF LookupInv, Enriching!NeverTheFuture, Enriching!Pinned
<1> QED BY <1>2, <1>3, <1>4, <1>5, <1>6, <1>7 DEF LookupInv

LEMMA BeginKeeps ==
  ASSUME Enriching!ConstantsAssumption, LookupInv, Enriching!Begin
  PROVE  LookupInv'
<1>1. /\ selecting = "idle" /\ selecting' = "head" /\ batch <= Len(SourceTimes)
      /\ SourceTimes[batch] <= now /\ tries' = 1
      /\ UNCHANGED <<now, log, kept, ids, writes, batch, attempt, expected, marker, recorded, choice>>
      /\ UNCHANGED <<picks, commits, failures>>
  BY DEF Enriching!Begin, Enriching!table, Enriching!SourceTime
<1>2. LookupTyped'
  <2>1. LookupTyped BY DEF LookupInv
  <2>2. 1 \in 0 .. StabilityAttempts BY DEF Enriching!ConstantsAssumption
  <2>3. Enriching!TypeOK' BY <1>1, <2>1, <2>2 DEF LookupTyped, Enriching!TypeOK, Enriching!Last
  <2> QED BY <1>1, <2>1, <2>3 DEF LookupTyped
<1>3. LookupLogOK' BY <1>1 DEF LookupInv, LookupLogOK
<1>4. PicksOK' BY <1>1 DEF LookupInv, PicksOK, Enriching!Reproducible, Enriching!Pinned, Fits
<1>5. BatchIsThere'
  <2>1. batch = Len(commits) + 1 /\ Len(commits) \in Nat
    BY DEF LookupInv, LookupTyped, Enriching!TypeOK
  <2>2. DOMAIN SourceTimes = 1 .. Len(SourceTimes) /\ Len(SourceTimes) \in Nat
    BY DEF Enriching!ConstantsAssumption
  <2> QED BY <1>1, <2>1, <2>2 DEF BatchIsThere
<1>6. SelectionOK' /\ DecisionOK' BY <1>1 DEF SelectionOK, DecisionOK
<1>7. StrictOK' BY <1>1 DEF LookupInv, StrictOK
<1>8. Enriching!NeverTheFuture' BY <1>1 DEF LookupInv, Enriching!NeverTheFuture, Enriching!Pinned
<1> QED BY <1>2, <1>3, <1>4, <1>5, <1>6, <1>7, <1>8 DEF LookupInv

LEMMA OpenHeadKeeps ==
  ASSUME Enriching!ConstantsAssumption, LookupInv, Enriching!OpenHead
  PROVE  LookupInv'
<1> PICK a : a = [Enriching!Nothing EXCEPT !.head = Enriching!Last, !.headId = Enriching!HeadId]
  OBVIOUS
<1>1. selecting = "head" /\ Enriching!Reading(a) /\ selecting' = "at" /\ tries' = tries
  BY DEF Enriching!OpenHead
<1>2. /\ LookupTyped /\ log[Len(log)].id = ids /\ ids \in Nat \ {0} /\ tries \in 0 .. StabilityAttempts
  BY DEF LookupInv, LookupTyped, LookupLogOK, Enriching!TypeOK
<1>3. Len(log) - 1 \in Nat /\ Len(log) \in Nat BY <1>2, LogIsTyped
<1>4. /\ a \in Snapshot /\ a.head = Len(log) - 1 /\ a.headId = ids /\ ~a.pre /\ ~a.current
  BY <1>2, <1>3 DEF Snapshot, Enriching!Nothing, Enriching!Last, Enriching!HeadId
<1>5. attempt' = a /\ UNCHANGED <<ids, log>> BY <1>1 DEF Enriching!Reading, Enriching!table
<1>6. SelectionOK'
  <2>1. \A v \in 0 .. Len(log) - 1 : v <= Len(log) - 1 BY <1>3
  <2> QED BY <1>1, <1>2, <1>4, <1>5, <2>1 DEF SelectionOK
<1> QED BY <1>1, <1>2, <1>4, <1>6, ReadingKeeps

LEMMA SelectPinnedKeeps ==
  ASSUME Enriching!ConstantsAssumption, LookupInv, Enriching!SelectPinned
  PROVE  LookupInv'
<1>1. PICK v \in Enriching!TimeTravel(SourceTimes[batch] - 1) :
        /\ ~Enriching!Clamped(v)
        /\ Enriching!Reading([attempt EXCEPT !.version = Enriching!Advanced(v)])
        /\ selecting' = "version"
  BY DEF Enriching!SelectPinned, Enriching!SourceTime
<1>2. selecting = "at" /\ tries' = tries BY DEF Enriching!SelectPinned
<1> PICK w : w = Enriching!Advanced(v) OBVIOUS
<1>3. /\ w \in 0 .. Len(log) - 1 /\ log[w + 1].ts < SourceTimes[batch]
      /\ \A u \in 0 .. Len(log) - 1 : log[u + 1].ts < SourceTimes[batch] => u <= w
  BY <1>1, <1>2, SelectedIsNewest
<1> PICK a : a = [attempt EXCEPT !.version = w] OBVIOUS
<1>4. LookupTyped /\ SelectionOK /\ attempt \in Snapshot /\ tries \in 0 .. StabilityAttempts
  BY DEF LookupInv, LookupTyped, Enriching!TypeOK
<1>5. w \in Nat BY <1>3, <1>4, LogIsTyped
<1>6. a \in Snapshot BY <1>4, <1>5 DEF Snapshot
<1>7. a.version = w /\ a.pre = attempt.pre /\ a.current = attempt.current /\ a.headId = attempt.headId
  BY <1>4 DEF Snapshot
<1>8. attempt' = a /\ UNCHANGED <<ids, log, batch>> BY <1>1 DEF Enriching!Reading, Enriching!table
<1>9. SelectionOK' BY <1>1, <1>2, <1>3, <1>4, <1>7, <1>8 DEF SelectionOK
<1> QED BY <1>1, <1>2, <1>4, <1>6, <1>9, ReadingKeeps

LEMMA SelectPreHistoryKeeps ==
  ASSUME Enriching!ConstantsAssumption, LookupInv, Enriching!SelectPreHistory
  PROVE  LookupInv'
<1>1. selecting = "at" /\ PreHistory >= 0 BY DEF Enriching!SelectPreHistory
<1>2. CASE PreHistory > attempt.head
  BY <1>1, <1>2, FailingKeeps DEF Enriching!SelectPreHistory
<1>3. CASE ~(PreHistory > attempt.head)
  <2> PICK a : a = [attempt EXCEPT !.version = PreHistory, !.pre = TRUE] OBVIOUS
  <2>1. Enriching!Reading(a) /\ selecting' = "version" /\ tries' = tries
    BY <1>3 DEF Enriching!SelectPreHistory
  <2>2. SelectionOK /\ attempt \in Snapshot /\ tries \in 0 .. StabilityAttempts
    BY DEF LookupInv, LookupTyped, Enriching!TypeOK
  <2>3. PreHistory \in Nat BY <1>1 DEF Enriching!ConstantsAssumption
  <2>4. a \in Snapshot /\ a.pre /\ a.current = attempt.current /\ a.headId = attempt.headId
    BY <2>2, <2>3 DEF Snapshot
  <2>5. attempt' = a /\ UNCHANGED <<ids, log, batch>> BY <2>1 DEF Enriching!Reading, Enriching!table
  <2>6. SelectionOK' BY <1>1, <2>1, <2>2, <2>4, <2>5 DEF SelectionOK
  <2> QED BY <1>1, <2>1, <2>2, <2>4, <2>6, ReadingKeeps
<1> QED BY <1>2, <1>3

LEMMA OpenVersionKeeps ==
  ASSUME Enriching!ConstantsAssumption, LookupInv, Enriching!OpenVersion
  PROVE  LookupInv'
<1>1. selecting = "version" BY DEF Enriching!OpenVersion
<1>2. CASE attempt.version \notin Enriching!Retained
  BY <1>1, <1>2, HistoryGoneKeeps DEF Enriching!OpenVersion
<1>3. CASE attempt.version \in Enriching!Retained
  <2> PICK commit : commit = log[attempt.version + 1] OBVIOUS
  <2> PICK a : a = [attempt EXCEPT !.id = commit.id, !.ts = commit.ts] OBVIOUS
  <2>1. Enriching!Reading(a) /\ selecting' = "verify" /\ tries' = tries
    BY <1>3 DEF Enriching!OpenVersion, Enriching!Ts
  <2>2. LookupTyped /\ LookupLogOK /\ SelectionOK /\ attempt \in Snapshot /\ tries \in 0 .. StabilityAttempts
    BY DEF LookupInv, LookupTyped, Enriching!TypeOK
  <2>3. attempt.version \in 0 .. Len(log) - 1
    BY <1>3, <2>2, LogIsTyped DEF Enriching!Retained, Enriching!Last
  <2>4. /\ commit \in [ts : Nat, id : Nat] /\ commit.ts \in Nat /\ commit.id \in Nat
        /\ commit.id \in 1 .. ids
    BY <2>2, <2>3, LogIsTyped DEF LookupLogOK
  <2>5. /\ a \in Snapshot /\ a.id = commit.id /\ a.ts = commit.ts /\ a.version = attempt.version
        /\ a.pre = attempt.pre /\ a.current = attempt.current /\ a.headId = attempt.headId
    BY <2>2, <2>4 DEF Snapshot
  <2>6. commit = [ts |-> a.ts, id |-> a.id] BY <2>4, <2>5
  <2>7. attempt' = a /\ UNCHANGED <<ids, log, batch>> BY <2>1 DEF Enriching!Reading, Enriching!table
  <2>8. SelectionOK' BY <1>1, <2>1, <2>2, <2>4, <2>5, <2>6, <2>7 DEF SelectionOK
  <2> QED BY <1>1, <2>1, <2>2, <2>5, <2>8, ReadingKeeps
<1> QED BY <1>2, <1>3

\* A table replaced since the head was opened has another id: what was selected is the
\* newest version older than the source commit, and so was what was chosen before.
LEMMA VerifyKeeps ==
  ASSUME Enriching!ConstantsAssumption, LookupInv, Enriching!Verify
  PROVE  LookupInv'
<1>1. selecting = "verify" BY DEF Enriching!Verify
<1>2. /\ LookupTyped /\ LookupLogOK /\ SelectionOK /\ PicksOK /\ attempt \in Snapshot
      /\ tries \in 0 .. StabilityAttempts /\ log[Len(log)].id = ids /\ ids \in Nat
      /\ batch \in DOMAIN SourceTimes
  BY <1>1 DEF LookupInv, LookupTyped, LookupLogOK, Enriching!TypeOK, BatchIsThere
<1>3. CASE ids = attempt.headId
  <2> PICK a : a = [attempt EXCEPT !.head = Len(log) - 1] OBVIOUS
  <2>1. Enriching!Reading(a) /\ selecting' = "verified" /\ tries' = tries
    BY <1>2, <1>3 DEF Enriching!Verify, Enriching!Last, Enriching!HeadId
  <2>2. Len(log) - 1 \in Nat BY <1>2, LogIsTyped
  <2>3. /\ a \in Snapshot /\ a.id = attempt.id /\ a.ts = attempt.ts /\ a.version = attempt.version
        /\ a.pre = attempt.pre /\ a.current = attempt.current /\ a.headId = attempt.headId
    BY <1>2, <2>2 DEF Snapshot
  <2>4. attempt' = a /\ UNCHANGED <<now, ids, log, batch, picks>>
    BY <2>1 DEF Enriching!Reading, Enriching!table
  <2> PICK t : t = SourceTimes[batch] OBVIOUS
  <2>5. a.id \in 1 .. ids /\ a.headId \in 1 .. ids /\ ~a.current
    BY <1>1, <1>2, <2>3 DEF SelectionOK
  <2>6. ASSUME ~a.pre
        PROVE  /\ a.version \in 0 .. Len(log) - 1 /\ log[a.version + 1].ts < t
               /\ log[a.version + 1].id = a.id /\ a.ts = log[a.version + 1].ts
               /\ \A v \in 0 .. Len(log) - 1 : log[v + 1].ts < t => v <= a.version
    BY <1>1, <1>2, <1>3, <2>3, <2>6 DEF SelectionOK
  <2>7. ASSUME ~a.pre PROVE Fits(t, a)
    <3> SUFFICES ASSUME NEW v \in 0 .. Len(log) - 1, log[v + 1].ts < t
                 PROVE  a.version \in v .. Len(log) - 1
      BY <2>6, <2>7 DEF Fits
    <3>1. v <= a.version /\ a.version \in 0 .. Len(log) - 1 BY <2>6, <2>7
    <3> QED BY <2>2, <3>1
  <2>8. ASSUME ~a.pre, NEW s \in picks[batch], Enriching!Pinned(s) PROVE Alike(s, a)
    <3>1. Fits(t, s) BY <1>2, <2>8 DEF PicksOK
    <3>2. a.version \in 0 .. Len(log) - 1 /\ log[a.version + 1].ts < t BY <2>6, <2>8
    <3>3. /\ s.version \in a.version .. Len(log) - 1 /\ log[s.version + 1].ts < t
          /\ log[s.version + 1].id = s.id
      BY <3>1, <3>2 DEF Fits
    <3>4. s.version \in 0 .. Len(log) - 1 BY <2>2, <3>2, <3>3
    <3>5. s.version <= a.version BY <2>6, <2>8, <3>3, <3>4
    <3>6. s.version = a.version BY <2>2, <3>2, <3>3, <3>5
    <3> QED BY <2>6, <2>8, <3>3, <3>6 DEF Alike
  <2>9. Fits(t, a)' = Fits(t, a) BY <2>4 DEF Fits
  <2>10. SelectionOK'
    <3>1. Enriching!Pinned(attempt)' => ~a.pre BY <2>4 DEF Enriching!Pinned
    <3>2. ASSUME ~a.pre PROVE a.ts < t /\ Fits(t, attempt)'
      BY <2>4, <2>6, <2>7, <3>2 DEF Fits
    <3>3. ASSUME ~a.pre
          PROVE  \A s \in picks[batch] : Enriching!Pinned(s) => Alike(s, a)
      BY <2>8, <3>3
    <3>4. ~a.pre => (\A s \in picks[batch] : Enriching!Pinned(s) => Alike(s, attempt))'
      BY <2>4, <3>3 DEF Enriching!Pinned, Alike
    <3> QED BY <2>1, <2>4, <2>5, <3>1, <3>2, <3>4 DEF SelectionOK, Fits, Alike, Enriching!Pinned
  <2> QED BY <1>1, <1>2, <2>1, <2>3, <2>10, ReadingKeeps
<1>4. CASE ids # attempt.headId /\ tries < StabilityAttempts
  <2>1. Enriching!Reading(Enriching!Nothing) /\ selecting' = "head" /\ tries' = tries + 1
    BY <1>2, <1>4 DEF Enriching!Verify, Enriching!HeadId
  <2>2. Enriching!Nothing \in Snapshot BY DEF Enriching!Nothing, Snapshot
  <2>3. SelectionOK' BY <2>1 DEF SelectionOK
  <2>4. tries' \in 0 .. StabilityAttempts BY <1>2, <1>4, <2>1 DEF Enriching!ConstantsAssumption
  <2> QED BY <1>1, <2>1, <2>2, <2>3, <2>4, ReadingKeeps
<1>5. CASE ids # attempt.headId /\ ~(tries < StabilityAttempts)
  BY <1>1, <1>2, <1>5, FailingKeeps DEF Enriching!Verify, Enriching!HeadId
<1> QED BY <1>3, <1>4, <1>5

LEMMA ChooseKeeps ==
  ASSUME Enriching!ConstantsAssumption, LookupInv, selecting = "verified",
         NEW s \in Snapshot, Enriching!Choose(s), s.id \in 1 .. ids,
         ~UseCurrent => s = attempt /\ ~Enriching!Ambiguous,
         Enriching!Pinned(s) => s = attempt
  PROVE  LookupInv'
<1>1. /\ choice' = s /\ picks' = [picks EXCEPT ![batch] = @ \cup {s}] /\ selecting' = "decided"
      /\ UNCHANGED <<now, log, kept, ids, writes, batch, tries, attempt, expected, marker, recorded>>
      /\ UNCHANGED <<commits, failures>>
  BY DEF Enriching!Choose, Enriching!table
<1> PICK t : t = SourceTimes[batch] OBVIOUS
<1>2. batch \in DOMAIN SourceTimes /\ t <= now BY DEF LookupInv, BatchIsThere
<1>3. Enriching!Pinned(s) =>
        /\ s.ts < t /\ Fits(t, s)
        /\ \A e \in picks[batch] : Enriching!Pinned(e) => Alike(e, s)
  BY DEF LookupInv, SelectionOK
<1>4. picks \in [DOMAIN SourceTimes -> SUBSET Snapshot] BY DEF LookupInv, LookupTyped
<1>5. /\ picks' \in [DOMAIN SourceTimes -> SUBSET Snapshot]
      /\ picks'[batch] = picks[batch] \cup {s}
      /\ \A b \in DOMAIN SourceTimes : b # batch => picks'[b] = picks[b]
  BY <1>1, <1>2, <1>4
<1>6. LookupTyped'
  <2>1. LookupTyped BY DEF LookupInv
  <2>2. Enriching!TypeOK' BY <1>1, <2>1 DEF LookupTyped, Enriching!TypeOK, Enriching!Last
  <2> QED BY <1>1, <1>5, <2>1, <2>2 DEF LookupTyped
<1>7. LookupLogOK' BY <1>1 DEF LookupInv, LookupLogOK
<1>8. PicksOK'
  <2>1. PicksOK BY DEF LookupInv
  <2>2. ASSUME NEW b \in DOMAIN SourceTimes, NEW d \in picks'[b], NEW e \in picks'[b],
               Enriching!Pinned(d), Enriching!Pinned(e)
        PROVE  Alike(d, e)
    <3>1. d \in picks[b] /\ e \in picks[b] => Alike(d, e)
      BY <1>4, <2>1, <2>2 DEF PicksOK, Enriching!Reproducible, Alike
    <3>2. b = batch /\ d = s => Alike(d, e) BY <1>3, <1>5, <2>2 DEF Alike
    <3>3. b = batch /\ e = s => Alike(d, e) BY <1>3, <1>5, <2>2 DEF Alike
    <3>4. (d \in picks[b] \/ (b = batch /\ d = s)) /\ (e \in picks[b] \/ (b = batch /\ e = s))
      BY <1>5, <2>2
    <3> QED BY <3>1, <3>2, <3>3, <3>4
  <2>3. ASSUME NEW b \in DOMAIN SourceTimes, NEW d \in picks'[b]
        PROVE  SourceTimes[b] <= now /\ (Enriching!Pinned(d) => Fits(SourceTimes[b], d))
    <3>1. d \in picks[b] \/ (b = batch /\ d = s) BY <1>5, <2>3
    <3>2. d \in picks[b] => SourceTimes[b] <= now /\ (Enriching!Pinned(d) => Fits(SourceTimes[b], d))
      BY <2>1 DEF PicksOK
    <3> QED BY <1>2, <1>3, <3>1, <3>2
  <2>4. DOMAIN picks' = DOMAIN SourceTimes BY <1>5
  <2>5. Enriching!Reproducible' BY <2>2, <2>4 DEF Enriching!Reproducible, Enriching!Pinned, Alike
  <2>6. \A b \in DOMAIN SourceTimes : \A d \in picks'[b] :
          SourceTimes[b] <= now' /\ (Enriching!Pinned(d) => Fits(SourceTimes[b], d)')
    BY <1>1, <2>3 DEF Fits
  <2> QED BY <2>5, <2>6 DEF PicksOK, Enriching!Pinned
<1>9. BatchIsThere' BY <1>1, <1>2 DEF BatchIsThere
<1>10. SelectionOK' BY <1>1 DEF SelectionOK
<1>11. DecisionOK' BY <1>1, <1>3 DEF DecisionOK, Enriching!Pinned, Enriching!Ambiguous
<1>12. StrictOK' BY <1>1 DEF LookupInv, StrictOK
<1>13. Enriching!NeverTheFuture' BY <1>1 DEF LookupInv, Enriching!NeverTheFuture, Enriching!Pinned
<1> QED BY <1>6, <1>7, <1>8, <1>9, <1>10, <1>11, <1>12, <1>13 DEF LookupInv

LEMMA CommitKeeps ==
  ASSUME Enriching!ConstantsAssumption, LookupInv, Enriching!Commit
  PROVE  LookupInv'
<1>1. /\ selecting = "decided" /\ selecting' = "idle" /\ commits' = Append(commits, choice)
      /\ recorded' = choice.id
      /\ expected' = IF Enriching!Ambiguous \/ marker THEN choice.headId ELSE expected
      /\ marker' = FALSE /\ batch' = batch + 1
      /\ UNCHANGED <<now, log, kept, ids, writes, tries, attempt, choice, picks, failures>>
  BY DEF Enriching!Commit, Enriching!table
<1>2. LookupTyped /\ commits \in Seq(Snapshot) /\ choice \in Snapshot /\ batch = Len(commits) + 1
  BY DEF LookupInv, LookupTyped, Enriching!TypeOK
<1>3. /\ commits' \in Seq(Snapshot) /\ Len(commits') = Len(commits) + 1 /\ Len(commits) \in Nat
      /\ commits'[Len(commits) + 1] = choice
      /\ \A i \in 1 .. Len(commits) : commits'[i] = commits[i]
  BY <1>1, <1>2, Appended
<1>4. DOMAIN commits = 1 .. Len(commits) /\ DOMAIN commits' = 1 .. Len(commits')
  BY <1>2, <1>3
<1>5. \A i \in DOMAIN commits' :
        \/ i \in DOMAIN commits /\ commits'[i] = commits[i]
        \/ i = batch /\ commits'[i] = choice
  <2>1. \A i \in 1 .. Len(commits) + 1 : i \in 1 .. Len(commits) \/ i = Len(commits) + 1 BY <1>3
  <2> QED BY <1>2, <1>3, <1>4, <2>1
<1>6. choice.id \in Nat /\ choice.headId \in Nat /\ choice.id \in 1 .. ids
  BY <1>1, <1>2 DEF Snapshot, LookupInv, DecisionOK
<1>7. LookupTyped'
  <2>1. Enriching!TypeOK' BY <1>1, <1>2, <1>3 DEF LookupTyped, Enriching!TypeOK, Enriching!Last
  <2>2. expected' \in Nat BY <1>1, <1>2, <1>6 DEF LookupTyped
  <2> QED BY <1>1, <1>2, <1>3, <1>6, <2>1, <2>2 DEF LookupTyped
<1>8. LookupLogOK' BY <1>1 DEF LookupInv, LookupLogOK
<1>9. PicksOK' BY <1>1 DEF LookupInv, PicksOK, Enriching!Reproducible, Enriching!Pinned, Fits
<1>10. BatchIsThere' /\ SelectionOK' /\ DecisionOK'
  BY <1>1 DEF BatchIsThere, SelectionOK, DecisionOK
<1>11. StrictOK'
  <2> SUFFICES ASSUME ~UseCurrent PROVE StrictOK' BY DEF StrictOK
  <2>1. choice = attempt /\ ~Enriching!Ambiguous BY <1>1 DEF LookupInv, DecisionOK
  <2>2. choice.id = expected BY <2>1 DEF Enriching!Ambiguous
  <2>3. /\ \A i \in DOMAIN commits : commits[i].id = recorded
        /\ recorded = 0 => commits = <<>>
        /\ recorded \in {0, expected} /\ ~marker
    BY <1>1 DEF LookupInv, StrictOK
  <2>4. expected' = expected /\ recorded' = expected /\ recorded' # 0
    BY <1>1, <1>6, <2>1, <2>2, <2>3
  <2>5. \A i \in DOMAIN commits : commits[i].id = expected
    <3>1. recorded = 0 => DOMAIN commits = {} BY <2>3
    <3> QED BY <2>3, <3>1
  <2>6. \A i \in DOMAIN commits' : commits'[i].id = recorded' BY <1>5, <2>2, <2>4, <2>5
  <2> QED BY <1>1, <2>4, <2>6 DEF StrictOK
<1>12. Enriching!NeverTheFuture'
  <2>1. Enriching!Pinned(choice) => choice.ts < SourceTimes[batch]
    BY <1>1 DEF LookupInv, DecisionOK
  <2> SUFFICES ASSUME NEW i \in DOMAIN commits', ~commits'[i].current, ~commits'[i].pre
               PROVE  commits'[i].ts < SourceTimes[i]
    BY DEF Enriching!NeverTheFuture, Enriching!Pinned
  <2> QED BY <1>5, <2>1 DEF LookupInv, Enriching!NeverTheFuture, Enriching!Pinned
<1> QED BY <1>7, <1>8, <1>9, <1>10, <1>11, <1>12 DEF LookupInv

LEMMA CrashKeeps ==
  ASSUME Enriching!ConstantsAssumption, LookupInv, Enriching!FailOrCrash
  PROVE  LookupInv'
<1>1. /\ selecting' = "down" /\ attempt' = Enriching!Nothing /\ tries' = 0 /\ failures' = failures + 1
      /\ UNCHANGED <<now, log, kept, ids, writes, batch, expected, marker, recorded, choice, picks>>
      /\ UNCHANGED commits
  BY DEF Enriching!FailOrCrash, Enriching!table
<1>2. LookupTyped'
  <2>1. LookupTyped BY DEF LookupInv
  <2>2. 0 \in 0 .. StabilityAttempts BY DEF Enriching!ConstantsAssumption
  <2>3. Enriching!TypeOK' BY <1>1, <2>1, <2>2 DEF LookupTyped, Enriching!TypeOK, Enriching!Last
  <2>4. Enriching!Nothing \in Snapshot BY DEF Enriching!Nothing, Snapshot
  <2>5. failures' \in Nat BY <1>1, <2>1 DEF LookupTyped
  <2> QED BY <1>1, <2>1, <2>3, <2>4, <2>5 DEF LookupTyped
<1>3. LookupLogOK' BY <1>1 DEF LookupInv, LookupLogOK
<1>4. PicksOK' BY <1>1 DEF LookupInv, PicksOK, Enriching!Reproducible, Enriching!Pinned, Fits
<1>5. BatchIsThere' /\ SelectionOK' /\ DecisionOK'
  BY <1>1 DEF BatchIsThere, SelectionOK, DecisionOK
<1>6. StrictOK' BY <1>1 DEF LookupInv, StrictOK
<1>7. Enriching!NeverTheFuture' BY <1>1 DEF LookupInv, Enriching!NeverTheFuture, Enriching!Pinned
<1> QED BY <1>2, <1>3, <1>4, <1>5, <1>6, <1>7 DEF LookupInv

LEMMA LookupInvariance ==
  ASSUME Enriching!ConstantsAssumption
  PROVE  Enriching!Spec => []LookupInv
<1>1. ASSUME Enriching!Init PROVE LookupInv
  <2>1. /\ now = 1 /\ log = <<[ts |-> 1, id |-> 1]>> /\ kept = 0 /\ ids = 1 /\ writes = 0
        /\ selecting = "down" /\ batch = 1 /\ tries = 0 /\ attempt = Enriching!Nothing
        /\ expected = 0 /\ marker = FALSE /\ recorded = 0 /\ choice = Enriching!Nothing
        /\ picks = [b \in DOMAIN SourceTimes |-> {}] /\ commits = <<>> /\ failures = 0
    BY <1>1 DEF Enriching!Init
  <2>2. Enriching!Nothing \in Snapshot BY DEF Enriching!Nothing, Snapshot
  <2>3. Len(log) = 1 /\ log \in Seq([ts : Nat, id : Nat]) /\ log[1] = [ts |-> 1, id |-> 1]
    BY <2>1
  <2>4. 0 \in 0 .. StabilityAttempts BY DEF Enriching!ConstantsAssumption
  <2>5. Enriching!TypeOK BY <2>1, <2>3, <2>4 DEF Enriching!TypeOK, Enriching!Last
  <2>0. picks \in [DOMAIN SourceTimes -> SUBSET Snapshot] /\ commits \in Seq(Snapshot) BY <2>1
  <2>12. kept \in 0 .. Len(log) - 1 /\ Len(log) > 0
    <3> PICK n : n = Len(log) OBVIOUS
    <3>1. n = 1 /\ kept = 0 BY <2>1, <2>3
    <3>2. kept \in 0 .. n - 1 /\ n > 0 BY <3>1
    <3> QED BY <3>2
  <2>11. /\ now \in Nat /\ ids \in Nat \ {0} /\ writes \in Nat /\ failures \in Nat
         /\ expected \in Nat /\ recorded \in Nat
    BY <2>1
  <2>14. marker \in BOOLEAN BY <2>1
  <2>13. attempt \in Snapshot /\ choice \in Snapshot BY <2>1, <2>2
  <2>6. LookupTyped BY <2>0, <2>3, <2>5, <2>11, <2>12, <2>13, <2>14 DEF LookupTyped
  <2>7. LookupLogOK
    <3>1. \A v \in 0 .. Len(log) - 1 : v = 0 BY <2>3
    <3> QED BY <2>1, <2>3, <3>1 DEF LookupLogOK
  <2>8. PicksOK BY <2>1 DEF PicksOK, Enriching!Reproducible
  <2>9. BatchIsThere /\ SelectionOK /\ DecisionOK BY <2>1 DEF BatchIsThere, SelectionOK, DecisionOK
  <2>10. StrictOK /\ Enriching!NeverTheFuture BY <2>1 DEF StrictOK, Enriching!NeverTheFuture
  <2> QED BY <2>6, <2>7, <2>8, <2>9, <2>10 DEF LookupInv
<1>2. ASSUME LookupInv, [Enriching!Next]_(Enriching!vars) PROVE LookupInv'
  <2>1. CASE \/ Enriching!Tick \/ Enriching!Write \/ Enriching!Replace \/ Enriching!Recreate
             \/ Enriching!Truncate
    BY <1>2, <2>1, WritersMoveLog, WritersKeep
  <2>2. CASE Enriching!SelectNothing
    <3>1. selecting = "at" /\ (Enriching!HistoryUnavailable \/ Enriching!Fails)
      BY <2>2 DEF Enriching!SelectNothing
    <3> QED BY <1>2, <3>1, HistoryGoneKeeps, FailingKeeps
  <2>3. CASE Enriching!DecidePinned
    <3>1. /\ selecting = "verified" /\ ~Enriching!Ambiguous /\ Enriching!Choose(attempt)
          /\ attempt \in Snapshot /\ attempt.id \in 1 .. ids
      BY <1>2, <2>3 DEF Enriching!DecidePinned, LookupInv, LookupTyped, SelectionOK
    <3> PICK s \in Snapshot : s = attempt BY <3>1
    <3>2. Enriching!Choose(s) BY <3>1
    <3> QED BY <1>2, <3>1, <3>2, ChooseKeeps
  <2>4. CASE Enriching!DecideCurrent
    <3> PICK s : s = [attempt EXCEPT !.version = attempt.head, !.id = attempt.headId,
                                     !.current = TRUE, !.pre = FALSE]
      OBVIOUS
    <3>1. /\ selecting = "verified" /\ UseCurrent /\ Enriching!Choose(s)
          /\ attempt \in Snapshot /\ attempt.headId \in 1 .. ids
      BY <1>2, <2>4 DEF Enriching!DecideCurrent, LookupInv, LookupTyped, SelectionOK
    <3>2. s \in Snapshot /\ s.current /\ s.id = attempt.headId BY <3>1 DEF Snapshot
    <3> QED BY <1>2, <3>1, <3>2, ChooseKeeps DEF Enriching!Pinned
  <2>5. CASE Enriching!RefuseAmbiguous
    BY <1>2, <2>5, FailingKeeps DEF Enriching!RefuseAmbiguous
  <2>6. CASE UNCHANGED Enriching!vars
    <3>1. /\ UNCHANGED <<now, log, kept, ids, writes, selecting, batch, tries, attempt, expected>>
          /\ UNCHANGED <<marker, recorded, choice, picks, commits, failures>>
      BY <2>6 DEF Enriching!vars
    <3> QED BY <1>2, <3>1 DEF LookupInv, LookupTyped, LookupLogOK, PicksOK, BatchIsThere, SelectionOK,
      DecisionOK, StrictOK, Enriching!NeverTheFuture, Enriching!Reproducible, Enriching!Pinned,
      Enriching!Ambiguous, Enriching!TypeOK, Enriching!Last, Fits, Alike
  <2> QED
    BY <1>2, <2>1, <2>2, <2>3, <2>4, <2>5, <2>6, OpenKeeps, BeginKeeps, OpenHeadKeeps,
       SelectPinnedKeeps, SelectPreHistoryKeeps, OpenVersionKeeps, VerifyKeeps, CommitKeeps, CrashKeeps
       DEF Enriching!Next
<1> QED BY <1>1, <1>2, PTL DEF Enriching!Spec

\* Every reachable state of the lookup and of the pipeline that reads it is well typed.
LEMMA LookupTypesHold ==
  ASSUME Enriching!ConstantsAssumption
  PROVE  Enriching!Spec => []Enriching!TypeOK
<1>1. LookupInv => Enriching!TypeOK BY DEF LookupInv, LookupTyped
<1> QED BY <1>1, LookupInvariance, PTL

\* Whatever others write into the lookup between two attempts, a batch tried again is
\* pinned to the version it was pinned to before (lookup_snapshots of pipeline.rs).
THEOREM RetriesJoinTheSame ==
  ASSUME Enriching!ConstantsAssumption
  PROVE  Enriching!Spec => []Enriching!Reproducible
<1>1. LookupInv => Enriching!Reproducible BY DEF LookupInv, PicksOK
<1> QED BY <1>1, LookupInvariance, PTL

\* No pinned batch joins a lookup commit as young as its source commit or younger
\* (snapshots_once of lookup.rs).
THEOREM PinnedToThePast ==
  ASSUME Enriching!ConstantsAssumption
  PROVE  Enriching!Spec => []Enriching!NeverTheFuture
<1>1. LookupInv => Enriching!NeverTheFuture BY DEF LookupInv
<1> QED BY <1>1, LookupInvariance, PTL

\* Under strict one table's rows enrich the whole stream, through crashes and while the
\* table is replaced during a selection (validate_lookup_tables, lookup_table_id_changed).
THEOREM OneTableEnriches ==
  ASSUME Enriching!ConstantsAssumption
  PROVE  Enriching!Spec => []Enriching!OneLineage
<1>1. LookupInv => Enriching!OneLineage BY DEF LookupInv, StrictOK, Enriching!OneLineage
<1> QED BY <1>1, LookupInvariance, PTL
=============================================================================
