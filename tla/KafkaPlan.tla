------------------------------ MODULE KafkaPlan ------------------------------
(***************************************************************************)
(* The preflight of a Kafka pipeline, `ddi kafka plan` (src/src/kafka/     *)
(* plan.rs, tools.rs), beside the open it foretells (kafka/start.rs,       *)
(* kafka/step.rs, fence.rs): the target is read, its offsets' era decided, *)
(* the open refuses or records where the topic starts, and every partition *)
(* is given its start or blocked.  An offset is the last one the target    *)
(* holds; None is none.                                                    *)
(***************************************************************************)
EXTENDS Integers, FiniteSets

CONSTANTS
  Partition,
  MaxOffset,   \* bound on the topic's high watermark
  Tables,      \* what the target's files, txns of others and properties are
  Policies,    \* the values of starting_offsets
  Neighbours,  \* the app_ids of other pipelines on the target
  EntriesHeld, \* whether the topic holds the offsets the entries name
  Compats      \* the values of kdi_compat: "unset", "true" or "false"

None == -1
Topic == 2     \* topics are numbers, in the order of their names

(* A file: the topics of its rows, and its statistics of the topic column.  Cut
   bounds are of the length at which writers truncate. *)
Files == [topics : SUBSET (1 .. 3), stats : {"none", "exact", "cut"}, min : 1 .. 3, max : 1 .. 3]
(* starting_offsets: entries by partition, and what "*" or a plain name says. *)
Policy == [entries : [Partition -> None .. MaxOffset + 1], rest : {"none", "earliest", "latest"},
           explicit : BOOLEAN]

(* Assumed of the constants; the suites that instantiate the module assume it. *)
ConstantsAssumption ==
  /\ IsFiniteSet(Partition) /\ MaxOffset \in Nat /\ EntriesHeld \in BOOLEAN
  /\ Policies \subseteq Policy /\ Compats \subseteq {"unset", "true", "false"}
  /\ \A t \in Tables :
       /\ t.files \subseteq Files /\ t.column \in BOOLEAN /\ t.readable \in BOOLEAN
       /\ t.retention \in BOOLEAN /\ t.writable \in BOOLEAN /\ t.mapping \in {"unset", "none", "name"}
       /\ \A f \in t.files : f.stats = "exact" => \A x \in f.topics : f.min <= x /\ x <= f.max

VARIABLES
  table, low, high, policy, compat,  \* the target, the topic and the configuration
  stored, marker,                    \* the offsets of the app_id, and its takeover marker
  phase,     \* "plan", "open", "assign", "run" or "refused"
  report,    \* what the plan prints as blocking
  start,     \* where each partition starts; Blocked; Unset
  first,     \* where it started when it was first given a start
  settled    \* an open of this configuration has written the marker

facts == <<table, policy, compat>>
topic == <<low, high>>
vars == <<facts, topic, stored, marker, phase, report, start, first, settled>>
Unset == -2
Blocked == -3

----------------------------------------------------------------------------
(* What the target says *)

Era == IF marker THEN "Ddi" ELSE IF \E p \in Partition : stored[p] # None THEN "Kdi" ELSE "Fresh"

\* Mutant: bounds are believed whatever their length.
HoldsRowsCut ==
  table.files # {} /\ (table.column =>
    \E f \in table.files : f.stats = "none" \/ (f.min <= Topic /\ Topic <= f.max))

(* target_rows. *)
HoldsRows ==
  table.files # {} /\ (table.column =>
    \E f \in table.files : f.stats # "exact" \/ (f.min <= Topic /\ Topic <= f.max))

(* recent_txn_app_ids: the newest commits and the checkpoint, if it can be read. *)
RecentAppIds == table.recent \cup (IF table.readable THEN table.checkpoint ELSE {})

TypoGuard(ids) ==
  table.files = {} \/ policy.explicit \/ (ids # {} /\ ids \subseteq Neighbours)

Retention == table.retention
Unwritable == ~table.writable \/ table.mapping = "name"

----------------------------------------------------------------------------
(* The open *)

Acknowledged == {p \in Partition : policy.entries[p] # None}

(* takeover_check. *)
TakeoverRefuses(acks) ==
  /\ Era = "Kdi" \/ (Era = "Fresh" /\ HoldsRows)
  /\ \E p \in Partition \ acks : stored[p] = None /\ high[p] > 0

Incomplete == policy.rest = "none" /\ Acknowledged # Partition

FreshStart(p) ==
  IF p \in Acknowledged THEN policy.entries[p]
  ELSE IF policy.rest = "latest" THEN high[p] ELSE low[p]

(* fresh_baseline: a partition that starts at zero gets no offset. *)
FreshBaseline == [p \in Partition |-> IF FreshStart(p) > 0 THEN FreshStart(p) - 1 ELSE None]

\* Mutant: only what has an offset is written again.
TakeoverBaselineStored == stored

(* takeover_baseline: the offsets again, and the acknowledgments above zero. *)
TakeoverBaseline ==
  [p \in Partition |-> IF stored[p] = None /\ policy.entries[p] > 0 THEN policy.entries[p] - 1 ELSE stored[p]]

(* plan_open. *)
OpenRefuses ==
  \/ Era = "Fresh" /\ ~TypoGuard(RecentAppIds)
  \/ TakeoverRefuses(Acknowledged)
  \/ compat = "unset" /\ (Era = "Kdi" \/ (Era = "Fresh" /\ HoldsRows))
  \/ Era = "Fresh" /\ Incomplete

(* start_without_offset. *)
StartWithoutOffset(p) ==
  IF p \in Acknowledged
  THEN IF policy.entries[p] < low[p] \/ policy.entries[p] > high[p] THEN Blocked ELSE policy.entries[p]
  ELSE IF low[p] = 0 THEN 0 ELSE Blocked

(* resolve: an offset read again is dropped, so reading goes on behind it. *)
Resolve(p) ==
  IF stored[p] = None THEN StartWithoutOffset(p)
  ELSE CASE stored[p] + 1 < low[p] -> Blocked
         [] stored[p] + 1 = low[p] -> low[p]
         [] stored[p] >= high[p] -> Blocked
         [] OTHER -> stored[p] + 1

----------------------------------------------------------------------------
(* The plan *)

(* PartitionStatus::verdict. *)
Verdict(p) ==
  IF stored[p] = None THEN IF low[p] = 0 THEN "zero" ELSE "blocked"
  ELSE CASE stored[p] + 1 < low[p] -> "gap"
         [] stored[p] >= high[p] -> "regressed"
         [] OTHER -> "ok"

\* Mutant: a partition without an offset is the open's to judge.
PartitionBlocksGaps(p) == Verdict(p) \in {"gap", "regressed"}

\* Mutant: a partition without an offset over trimmed messages blocks in any era.
PartitionBlocksFresh(p) == Verdict(p) \in {"gap", "regressed", "blocked"} /\ p \notin Acknowledged

PartitionBlocks(p) ==
  \/ Verdict(p) \in {"gap", "regressed"}
  \/ Verdict(p) = "blocked" /\ p \notin Acknowledged /\ Era = "Ddi"

Blocking ==
  (IF OpenRefuses THEN {"refused"} ELSE {})
  \cup (IF Retention THEN {"retention"} ELSE {})
  \cup (IF Unwritable THEN {"protocol"} ELSE {})
  \cup {"partition" : p \in {q \in Partition : PartitionBlocks(q)}}

----------------------------------------------------------------------------

Init ==
  /\ table \in Tables /\ policy \in Policies /\ compat \in Compats
  /\ high \in [Partition -> 0 .. MaxOffset]
  /\ low \in {l \in [Partition -> 0 .. MaxOffset] : \A p \in Partition : l[p] <= high[p]}
  /\ EntriesHeld => \A p \in Partition :
       policy.entries[p] # None => low[p] <= policy.entries[p] /\ policy.entries[p] <= high[p]
  /\ stored \in [Partition -> None .. MaxOffset] /\ marker \in BOOLEAN
  /\ phase = "plan" /\ report = {}
  /\ start = [p \in Partition |-> Unset] /\ first = [p \in Partition |-> Unset]
  /\ settled = FALSE

Plan ==
  /\ phase = "plan"
  /\ report' = Blocking /\ phase' = "open"
  /\ UNCHANGED <<facts, topic, stored, marker, start, first, settled>>

OpenFails ==
  /\ phase = "open" /\ (Retention \/ Unwritable \/ OpenRefuses)
  /\ phase' = "refused"
  /\ UNCHANGED <<facts, topic, stored, marker, report, start, first, settled>>

(* The baseline is committed with the marker where it holds an offset. *)
Open ==
  /\ phase = "open" /\ ~(Retention \/ Unwritable \/ OpenRefuses)
  /\ stored' = CASE Era = "Fresh" -> FreshBaseline
                 [] Era = "Kdi" -> TakeoverBaseline
                 [] OTHER -> stored
  /\ marker' = (Era # "Fresh" \/ \E p \in Partition : FreshStart(p) > 0)
  /\ phase' = "assign"
  /\ settled' = (settled \/ (marker' /\ ~marker))
  /\ UNCHANGED <<facts, topic, report, start, first>>

Assign ==
  /\ phase = "assign"
  /\ start' = [p \in Partition |-> Resolve(p)]
  /\ first' = [p \in Partition |-> IF first[p] < 0 THEN Resolve(p) ELSE first[p]]
  /\ phase' = "run"
  /\ UNCHANGED <<facts, topic, stored, marker, report, settled>>

Produce(p) ==
  /\ phase = "run" /\ high[p] < MaxOffset
  /\ high' = [high EXCEPT ![p] = @ + 1]
  /\ UNCHANGED <<facts, low, stored, marker, phase, report, start, first, settled>>

(* The process ends before its first commit, and opens again; the entries may be
   removed once the open that wrote the marker had them. *)
Unlisted == [policy EXCEPT !.entries = [p \in Partition |-> None], !.rest = "earliest"]
Restart ==
  /\ phase = "run"
  /\ policy' \in {policy} \cup (IF settled THEN {Unlisted} ELSE {})
  /\ phase' = "plan" /\ start' = [p \in Partition |-> Unset] /\ report' = {}
  /\ UNCHANGED <<table, compat, topic, stored, marker, first, settled>>

Next ==
  \/ Plan \/ OpenFails \/ Open \/ Assign \/ Restart
  \/ \E p \in Partition : Produce(p)

Spec == Init /\ [][Next]_vars

----------------------------------------------------------------------------
(* Properties *)

(* Type invariant. *)
TypeOK ==
  /\ phase \in {"plan", "open", "assign", "run", "refused"}
  /\ report \subseteq {"refused", "retention", "protocol", "partition"}
  /\ stored \in [Partition -> None .. MaxOffset] /\ marker \in BOOLEAN
  /\ start \in [Partition -> Blocked .. MaxOffset] /\ settled \in BOOLEAN
  /\ \A p \in Partition : start[p] <= high[p]

(* A plan that blocks nothing is followed by an open that refuses nothing and blocks
   no partition. (plan.rs:76) *)
CleanPlanOpens ==
  phase # "plan" /\ report = {} =>
    /\ phase # "refused"
    /\ phase = "run" => \A p \in Partition : start[p] # Blocked

(* What the plan blocks on does stop the open or a partition: no takeover is put off
   for nothing. *)
BlockedPlanStops == phase = "run" /\ report # {} => \E p \in Partition : start[p] = Blocked

(* The open of a fresh app_id over rows of its topic, whoever wrote them, is refused
   unless an operator gave every partition with messages its offset.
   (start.rs:210, fence.rs:207) *)
FreshOverRowsRefused ==
  phase = "open" /\ phase' = "assign" /\ Era = "Fresh"
  /\ (\E f \in table.files : Topic \in f.topics)
    => \A p \in Partition : high[p] > 0 => p \in Acknowledged

(* Where a partition starts is settled by the first open that gave it a start: an
   open after it, before anything was committed, skips nothing and reads nothing
   twice. (start.rs:134) *)
StartKept == phase = "run" => \A p \in Partition : first[p] >= 0 => start[p] = first[p]

=============================================================================
