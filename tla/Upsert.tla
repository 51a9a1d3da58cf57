------------------------------- MODULE Upsert -------------------------------
(***************************************************************************)
(* A pipeline that merges by key: src/src/upsert.rs (the window, the       *)
(* collapse and the rule for "newer"), Sink::upsert, Pipeline::upsert with *)
(* its replanning, and the staged form of src/src/stage.rs, whose ingest   *)
(* half regroups the source's commits before the merge sees them.          *)
(*                                                                         *)
(* A row is a key k, a sequence s and a tie-breaker t, and in the target a *)
(* column x that only a co-writer fills.  A file is the rows one commit    *)
(* wrote, with the statistics its writer recorded.                         *)
(***************************************************************************)
EXTENDS Integers, SequencesExt

CONSTANTS
    Source,        \* the source's commits, each a sequence of rows
    Lookback,      \* upsert_lookback, or NoFloor
    MergeAttempts, \* MERGE_ATTEMPTS
    MaxGroup,      \* bound: source commits staged, or read, at once
    MaxRivals,     \* bound: commits of other writers of the target
    MaxFaults      \* bound: crashes and failed requests

NoFloor == -1

(* Assumed of the constants; the suites that instantiate the module assume it. *)
ConstantsAssumption ==
    /\ Lookback \in Nat \cup {NoFloor}
    /\ MergeAttempts \in Nat \ {0} /\ MaxGroup \in Nat \ {0}
    /\ MaxRivals \in Nat /\ MaxFaults \in Nat
    /\ \A i \in DOMAIN Source : \A j \in DOMAIN Source[i] :
           Source[i][j].k \in Nat /\ Source[i][j].s \in Nat /\ Source[i][j].t \in Nat

VARIABLES
    stage,   \* the commits the merging half reads
    fed,     \* source commits in them
    log,     \* the target: after each commit its files and the offset
    p,       \* the merging pipeline
    theirs,  \* what the co-writer last wrote for each key
    warned,  \* a clamped window was reported
    rivals, faults

vars == <<stage, fed, log, p, theirs, warned, rivals, faults>>

Target == log[Len(log)]

\* The target's rows, each with the file that holds it.
Stored(files) == UNION {{<<f.id, r>> : r \in f.rows} : f \in files}

RivalTurn == rivals < MaxRivals /\ rivals' = rivals + 1
Fault == faults < MaxFaults /\ faults' = faults + 1

-----------------------------------------------------------------------------
(* Which row is the newer one.                                             *)

\* Mutant: each column is tested on its own.
NewerByAnyColumn(a, b) == a.s > b.s \/ a.t > b.t

\* newer_than_stored, and the row encoding `collapse' compares.
Newer(a, b) == a.s > b.s \/ (a.s = b.s /\ a.t > b.t)

\* One row per key, the newest; of rows no column tells apart, the last.
Collapse(rows) ==
    {rows[i] : i \in {i \in DOMAIN rows : \A j \in DOMAIN rows :
        rows[j].k = rows[i].k =>
            ~Newer(rows[j], rows[i]) /\ (j > i => Newer(rows[i], rows[j]))}}

-----------------------------------------------------------------------------
(* The window: what of the target could hold the batch's keys.             *)

\* A writer may truncate a recorded bound.
Recorded(v) == 2 * (v \div 2)

\* Slack::above: what a truncated maximum may stand for.
Loosened(max) == IF max % 2 = 0 THEN max + 1 ELSE max

KeyMin(f) == Recorded(Min({r.k : r \in f.rows}))
KeyMax(f) == Loosened(Recorded(Max({r.k : r \in f.rows})))
SequenceMin(f) == Recorded(Min({r.s : r \in f.rows}))

\* range_touches_any.
Candidate(f, batch) == f.stats # "none" /\ \E b \in batch : KeyMin(f) <= b.k /\ b.k <= KeyMax(f)

\* Statistics that leave the question open: none, or none of the sequence column.
Unanswered(f, batch) == f.stats = "none" \/ (Candidate(f, batch) /\ f.stats = "key")

BatchMin(batch) == Min({b.s : b \in batch})

Floor(batch) == IF Lookback = NoFloor THEN 0 ELSE Max({0, BatchMin(batch) - Lookback})

Unbounded == [lo |-> 0, clamped |-> FALSE]

\* Mutant: the newest of the candidates bounds the window.
BoundedByNewest(seen, batch) ==
    LET mins == {SequenceMin(f) : f \in {f \in seen : Candidate(f, batch)}}
        lower == IF mins = {} THEN BatchMin(batch) ELSE Max(mins)
    IN  [lo |-> Max({lower, Floor(batch)}), clamped |-> lower < Floor(batch)]

\* The lowest sequence of every candidate seen, raised to the floor.
Bounded(seen, batch) ==
    LET mins == {SequenceMin(f) : f \in {f \in seen : Candidate(f, batch)}}
        lower == IF mins = {} THEN BatchMin(batch) ELSE Min(mins)
    IN  [lo |-> Max({lower, Floor(batch)}), clamped |-> lower < Floor(batch)]

\* Window::plan walks the files in no particular order, gives up at the first one that
\* leaves the question open, and stops at the first that sinks to the floor.
Windows(files, batch) ==
    LET open == {f \in files : Unanswered(f, batch)}
        sinks == {f \in files \ open : /\ Lookback # NoFloor /\ Candidate(f, batch)
                                       /\ SequenceMin(f) <= Floor(batch)}
    IN  (IF open # {} THEN {Unbounded} ELSE {})
        \cup (IF open \cup sinks = {} THEN {Bounded(files, batch)} ELSE {})
        \cup {Bounded(seen, batch) : seen \in {q \in SUBSET (files \ open) :
                                                 Cardinality(q \cap sinks) = 1}}

-----------------------------------------------------------------------------
(* MERGE.                                                                  *)

\* The ON clause.
Matches(r, b) == r.k = b.k /\ r.s >= p.lo

\* Mutant: every column is written, the co-writer's too.
UpdatedWhole(r) ==
    IF \E b \in p.batch : Matches(r, b) /\ Newer(b, r)
    THEN LET b == CHOOSE b \in p.batch : Matches(r, b) /\ Newer(b, r)
         IN  [r EXCEPT !.s = b.s, !.t = b.t, !.x = 0]
    ELSE r

\* Mutant: WHEN MATCHED, without a condition.
UpdatedAlways(r) ==
    IF \E b \in p.batch : Matches(r, b)
    THEN LET b == CHOOSE b \in p.batch : Matches(r, b) IN [r EXCEPT !.s = b.s, !.t = b.t]
    ELSE r

\* WHEN MATCHED AND newer_than_stored: the columns the transform produced.
Updated(r) ==
    IF \E b \in p.batch : Matches(r, b) /\ Newer(b, r)
    THEN LET b == CHOOSE b \in p.batch : Matches(r, b) /\ Newer(b, r)
         IN  [r EXCEPT !.s = b.s, !.t = b.t]
    ELSE r

\* WHEN NOT MATCHED, with nothing in the co-writer's column.
Inserted(files) ==
    {[k |-> b.k, s |-> b.s, t |-> b.t, x |-> 0] :
        b \in {b \in p.batch : \A f \in files : \A r \in f.rows : ~Matches(r, b)}}

\* Files with an updated row are rewritten whole.
Touched(files) == {f \in files : \E r \in f.rows : Updated(r) # r}

ChangesNothing(files) == Touched(files) = {} /\ Inserted(files) = {}

Merged(files) ==
    (files \ Touched(files)) \cup
    {[id |-> Len(log) + 1, stats |-> "all",
      rows |-> {Updated(r) : r \in UNION {f.rows : f \in Touched(files)}} \cup Inserted(files)]}

\* Another writer rewrote files of the target since the merge was planned, which
\* delta-rs reports, or whose checkpoint it fails to read while it looks.
Conflicting == \E v \in p.handle + 1 .. Len(log) : log[v].rewrites

-----------------------------------------------------------------------------
(* The merging pipeline.                                                   *)

Closed == [pc |-> "closed", cursor |-> 1, through |-> 0, batch |-> {}, handle |-> 1,
           attempt |-> 1, lo |-> 0]

Init ==
    /\ stage = << >> /\ fed = 0
    /\ log = <<[files |-> {}, txn |-> 0, rewrites |-> FALSE, whole |-> FALSE]>>
    /\ p = Closed
    /\ theirs = << >>
    /\ warned = FALSE
    /\ rivals = 0 /\ faults = 0

OneRow(files) == \A a, b \in Stored(files) : a[2].k = b[2].k => a = b

\* The preflight's grain check refuses a target with two rows for a key; a target that
\* a rebuild overwrote may be read again from an earlier position.
Open ==
    \E cursor \in 1 .. Target.txn + 1 :
        /\ p.pc = "closed"
        /\ OneRow(Target.files)
        /\ cursor < Target.txn + 1 => Target.whole
        /\ p' = [Closed EXCEPT !.pc = "idle", !.cursor = cursor, !.handle = Len(log)]
        /\ UNCHANGED <<stage, fed, log, theirs, warned, rivals, faults>>

\* The next commits are read, transformed and collapsed.
Read ==
    \E through \in p.cursor .. Len(stage) :
        LET rows == FlattenSeq(SubSeq(stage, p.cursor, through)) IN
        /\ p.pc = "idle" /\ through < p.cursor + MaxGroup
        /\ p' = [p EXCEPT !.through = through, !.batch = Collapse(rows), !.attempt = 1,
                          !.pc = IF rows = << >> THEN "empty" ELSE "plan"]
        /\ UNCHANGED <<stage, fed, log, theirs, warned, rivals, faults>>

Plan ==
    /\ p.pc = "plan"
    /\ \E w \in Windows(log[p.handle].files, p.batch) :
        /\ p' = [p EXCEPT !.pc = "merge", !.lo = w.lo]
        /\ warned' = (warned \/ w.clamped)
        /\ UNCHANGED <<stage, fed, log, theirs, rivals, faults>>

Committed(files) ==
    log' = Append(log, [files |-> files, txn |-> p.through, rewrites |-> FALSE,
                        whole |-> FALSE])

Advanced == p' = [p EXCEPT !.pc = "idle", !.cursor = p.through + 1, !.handle = Len(log) + 1,
                           !.batch = {}, !.lo = 0]

Merge ==
    /\ p.pc = "merge" /\ ~Conflicting /\ ~ChangesNothing(log[p.handle].files)
    /\ Committed(Merged(Target.files))
    /\ Advanced
    /\ UNCHANGED <<stage, fed, theirs, warned, rivals, faults>>

\* Mutant: a merge that changed nothing is taken for a commit.
MergeNothingAsDone ==
    /\ p.pc = "merge" /\ ChangesNothing(log[p.handle].files)
    /\ p' = [p EXCEPT !.pc = "idle", !.batch = {}]
    /\ UNCHANGED <<stage, fed, log, theirs, warned, rivals, faults>>

\* delta-rs commits nothing, not even the offset.
MergeNothing ==
    /\ p.pc = "merge" /\ ChangesNothing(log[p.handle].files)
    /\ p' = [p EXCEPT !.pc = "empty"]
    /\ UNCHANGED <<stage, fed, log, theirs, warned, rivals, faults>>

\* So an empty append carries it.
CommitOffset ==
    /\ p.pc = "empty" /\ ~Conflicting
    /\ Committed(Target.files)
    /\ Advanced
    /\ UNCHANGED <<stage, fed, theirs, warned, rivals, faults>>

\* The target is opened anew, and the merge planned against what is there now, up to
\* MERGE_ATTEMPTS times; then the error ends the step and the pipeline is reopened.
Replanned ==
    p' = IF p.attempt = MergeAttempts \/ p.batch = {}
         THEN Closed
         ELSE [p EXCEPT !.pc = "plan", !.attempt = @ + 1, !.handle = Len(log')]

Conflict ==
    /\ p.pc \in {"merge", "empty"} /\ Conflicting
    /\ UNCHANGED log /\ Replanned
    /\ UNCHANGED <<stage, fed, theirs, warned, rivals, faults>>

\* The commit landed, its answer was lost, and the retry conflicts with itself.
LandsUnseen ==
    /\ p.pc = "merge" /\ ~Conflicting /\ ~ChangesNothing(log[p.handle].files) /\ Fault
    /\ Committed(Merged(Target.files))
    /\ Replanned
    /\ UNCHANGED <<stage, fed, theirs, warned, rivals>>

\* The process dies, or the step fails in a way replanning cannot help.
Crash ==
    /\ p.pc # "closed" /\ Fault
    /\ p' = Closed
    /\ UNCHANGED <<stage, fed, log, theirs, warned, rivals>>

-----------------------------------------------------------------------------
(* The source, through the ingest half, and the target's other writers.    *)

\* Some source commits arrive as one commit of what the merging half reads.
Ingest ==
    \E n \in 1 .. MaxGroup :
        /\ fed + n <= Len(Source)
        /\ stage' = Append(stage, FlattenSeq(SubSeq(Source, fed + 1, fed + n)))
        /\ fed' = fed + n
        /\ UNCHANGED <<log, p, theirs, warned, rivals, faults>>

FedRows == FlattenSeq(SubSeq(Source, 1, fed))

\* A rebuild of the model from everything the source holds.
Rebuild ==
    \E stats \in {"all", "key", "none"} :
        LET rows == {[k |-> r.k, s |-> r.s, t |-> r.t, x |-> 0] : r \in Collapse(FedRows)} IN
        /\ FedRows # << >> /\ RivalTurn
        /\ log' = Append(log, [files |-> {[id |-> Len(log) + 1, stats |-> stats, rows |-> rows]},
                               txn |-> Target.txn, rewrites |-> TRUE, whole |-> TRUE])
        /\ theirs' = << >>
        /\ UNCHANGED <<stage, fed, p, warned, faults>>

\* The co-writer fills its column for a key the target holds.
CoWrite ==
    \E f \in Target.files : \E r \in f.rows :
        /\ RivalTurn
        /\ log' = Append(log, [Target EXCEPT
               !.files = (@ \ {f}) \cup {[f EXCEPT !.id = Len(log) + 1,
                                                   !.rows = (@ \ {r}) \cup {[r EXCEPT !.x = rivals + 1]}]},
               !.rewrites = TRUE, !.whole = FALSE])
        /\ theirs' = [k \in DOMAIN theirs \cup {r.k} |-> IF k = r.k THEN rivals + 1 ELSE theirs[k]]
        /\ UNCHANGED <<stage, fed, p, warned, faults>>

\* Another engine compacts the target.
CompactTarget ==
    \E files \in SUBSET Target.files, stats \in {"all", "none"} :
        /\ Cardinality(files) > 1 /\ RivalTurn
        /\ log' = Append(log, [Target EXCEPT
               !.files = (@ \ files) \cup {[id |-> Len(log) + 1, stats |-> stats,
                                           rows |-> UNION {f.rows : f \in files}]},
               !.rewrites = TRUE])
        /\ UNCHANGED <<stage, fed, p, theirs, warned, faults>>

Pipeline ==
    Open \/ Read \/ Plan \/ Merge \/ MergeNothing \/ CommitOffset \/ Conflict

Next ==
    \/ Pipeline \/ LandsUnseen \/ Crash
    \/ Ingest \/ Rebuild \/ CoWrite \/ CompactTarget

Spec == Init /\ [][Next]_vars

\* The pipeline's loop goes on, and the source delivers what it has.
FairSpec == Spec /\ WF_vars(Pipeline) /\ WF_vars(Ingest)

-----------------------------------------------------------------------------
(* Properties.                                                             *)

TypeOK ==
    /\ p.pc \in {"closed", "idle", "plan", "merge", "empty"}
    /\ p.attempt \in 1 .. MergeAttempts
    /\ p.handle \in 1 .. Len(log) /\ p.cursor \in 1 .. Len(stage) + 1
    /\ \A v \in DOMAIN log : log[v].txn \in 0 .. Len(stage)
    /\ \A f \in Target.files : f.rows # {}
    /\ p.pc = "merge" => \A b, c \in p.batch : b.k = c.k => b = c

\* The target holds a key once, whatever its files' statistics could not tell, whoever
\* wrote beside the merge and however often it was redone (MergePlan, Sink::upsert).
\* Below a lookback's floor a key may be inserted again, and then it was reported.
OneRowPerKey == OneRow(Target.files) \/ warned

\* Whatever the grouping of commits, replays and replanned merges, a row the offset says
\* was read is in the target, or a newer one of its key (newer_than_stored, collapse).
Newest ==
    \A v \in 1 .. Target.txn : \A i \in DOMAIN stage[v] :
        \E a \in Stored(Target.files) : a[2].k = stage[v][i].k /\ ~Newer(stage[v][i], a[2])

\* A merge leaves the co-writer's column alone (update_columns).
CoWriterKept ==
    ~warned => \A a \in Stored(Target.files) :
        a[2].k \in DOMAIN theirs => a[2].x = theirs[a[2].k]

\* No commit takes a key back to an older row (newer_than_stored).
NoRollback ==
    \A a \in Stored(Target.files), b \in Stored(Target'.files) :
        a[2].k = b[2].k /\ ~warned' => ~Newer(a[2], b[2])

\* From some point on: every commit of the source is merged; the offset advances although
\* a merge of old rows changes nothing, and although rivals win some of the races.
CaughtUp == Target.txn = Len(stage) /\ fed = Len(Source)

=============================================================================
