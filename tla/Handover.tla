------------------------------ MODULE Handover ------------------------------
(***************************************************************************)
(* A Delta pipeline whose target dbt rebuilds and whose source may be      *)
(* replaced: where src/src/pipeline.rs resumes (resume_cursor,             *)
(* adjust_for_replaced_source), what it takes the target to hold already   *)
(* (coverage_cutoff, src/src/dedup.rs) and how it notices either           *)
(* (src/src/dbt/watermark.rs, the stream's identity in log_stream.rs).     *)
(*                                                                         *)
(* A row is its number in the source's history; `world' gives its          *)
(* partition and timestamp.  Versions are counted from 1, and so is        *)
(* starting_version.  A timestamp is in half milliseconds: an even one is  *)
(* a whole millisecond.                                                    *)
(*                                                                         *)
(* Left out: rejects and two daemons on one app_id (DeltaPipeline), log    *)
(* retention, max_scan, null timestamps and partitions, stage sources.     *)
(***************************************************************************)
EXTENDS Integers, Sequences, FiniteSets, FiniteSetsExt

CONSTANTS
    Worlds,     \* configurations and histories: World records
    RebuildAt,  \* the daemon's pc's at which a rebuild's overwrite may land
    Budget      \* bound: how often each of Event happens

None == 0

Event == {"crash", "rebuild", "recreate", "replace", "optimize", "reconfigure"}

World ==
    [rows  : Seq([part : {"p", "q"}, ts : Nat]),  \* in order of arrival
     mode  : {"timestamp", "watermark"},          \* dedup_timestamp is set, or watermark_uri
     key   : BOOLEAN,                             \* dedup_key is set
     part  : BOOLEAN,                             \* dedup_partition is set at first
     hook  : {"pre", "post"},                     \* when dbt records the version it read
     stats : BOOLEAN,                             \* every source commit has statistics
     trunc : BOOLEAN]                             \* and they are in whole milliseconds

(* Assumed of the constants; the suites that instantiate the module assume it. *)
ConstantsAssumption ==
    /\ Worlds \subseteq World /\ Worlds # {}
    /\ RebuildAt \subseteq {"down", "opening", "idle", "batch"}
    /\ Budget \in [Event -> Nat]

VARIABLES
    world,   \* one of Worlds
    parted,  \* dedup_partition is set
    src,     \* the source's log: [kind, adds, id, stats]
    gen,     \* how many tables there have been at the source's path
    tgt,     \* the target's log: [txn, rows, wipe, cut, id, at]
    rb,      \* dbt's run: where it is, the rows and the version it read
    wm,      \* the newest version in the watermark table
    d,       \* the daemon
    left     \* events that may still happen

vars == <<world, parted, src, gen, tgt, rb, wm, d, left>>

-----------------------------------------------------------------------------
(* The tables.                                                             *)

SrcHead == Len(src)

NewCommit(kind, adds, id, stats) ==
    [kind |-> kind, adds |-> adds, id |-> id, stats |-> stats]

\* The rows the source's table has been given.
Sent == UNION {src[v].adds : v \in 1 .. SrcHead}

HasData(v) == src[v].kind = "data"

\* The index of the newest commit of the target that passes Test, or 0.
Newest(Test(_)) == Max({0} \cup {i \in 1 .. Len(tgt) : Test(i)})

LastOverwrite == LET Wipes(i) == tgt[i].wipe IN Newest(Wipes)

\* How often the target holds row r, and the rows it holds.
Copies(r) ==
    Cardinality({i \in 1 .. Len(tgt) : i >= LastOverwrite /\ r \in tgt[i].rows})

Content == UNION {tgt[i].rows : i \in {j \in 1 .. Len(tgt) : j >= LastOverwrite}}

Happens(e) == left[e] > 0 /\ left' = [left EXCEPT ![e] = @ - 1]

-----------------------------------------------------------------------------
(* The cut-off.                                                            *)

Ts(r) == world.rows[r].ts

\* The partition a row's mark is kept for; one for all without dedup_partition.
Group(r) == IF parted THEN world.rows[r].part ELSE "all"

\* Dedup::read_partitioned: the newest timestamp of each partition of the target,
\* and the keys of the rows that share it.
ReadMarks ==
    LET groups  == {Group(r) : r \in Content}
        mark    == [g \in groups |-> Max({Ts(r) : r \in {x \in Content : Group(x) = g}})]
    IN  [mark |-> mark, keys |-> {r \in Content : Ts(r) = mark[Group(r)]}]

Inert(m) == DOMAIN m.mark = {}

\* A row past its partition's mark, or in a partition the target does not hold.
Beyond(m, r) ==
    Group(r) \notin DOMAIN m.mark \/ Ts(r) > m.mark[Group(r)]

\* Dedup::filter drops a row when the target holds it: below the mark, or at it
\* with a key the target has there; at it without dedup_key.
Covered(m, r) ==
    /\ ~Beyond(m, r)
    /\ Ts(r) = m.mark[Group(r)] /\ world.key => r \in m.keys

\* What the recorded minimum and maximum of commit v can stand for: one in whole
\* milliseconds may have been truncated, which only ever lowers it.
Recorded(t) == IF world.trunc THEN t - (t % 2) ELSE t

StatMin(v) == Recorded(Min({Ts(r) : r \in src[v].adds}))

\* Mutant: the recorded maximum is taken at its word.
StatMaxAsRecorded(v) == Recorded(Max({Ts(r) : r \in src[v].adds}))

StatMax(v) ==
    LET stat == Recorded(Max({Ts(r) : r \in src[v].adds}))
    IN  IF stat % 2 = 0 THEN stat + 1 ELSE stat

\* file_coverage_from_stats: a file of one partition against its mark; one that
\* mixes partitions only against the highest of all.
StatCoverage(m, v) ==
    LET groups  == {Group(r) : r \in src[v].adds}
        g       == CHOOSE x \in groups : TRUE
        highest == Max({m.mark[x] : x \in DOMAIN m.mark})
    IN  CASE ~src[v].stats                                      -> "unknown"
          [] Cardinality(groups) > 1 /\ StatMin(v) > highest    -> "uncovered"
          [] Cardinality(groups) > 1                            -> "unknown"
          [] g \notin DOMAIN m.mark                             -> "uncovered"
          [] StatMax(v) < m.mark[g]                             -> "covered"
          [] StatMin(v) > m.mark[g]                             -> "uncovered"
          [] OTHER                                              -> "unknown"

\* Probe::read: the file's rows are read; at the mark one counts only with its key.
ProbeCovers(m, v) ==
    \A r \in src[v].adds : Covered(m, r) /\ (Ts(r) = m.mark[Group(r)] => world.key)

\* Every row of commit v is certainly held.
CommitCovered(m, v) ==
    /\ HasData(v)
    /\ IF parted
       THEN \/ StatCoverage(m, v) = "covered"
            \/ StatCoverage(m, v) = "unknown" /\ ProbeCovers(m, v)
       ELSE src[v].stats /\ StatMax(v) < m.mark["all"]

\* bounded_rescan_start: the walk back from head h ends at a covered commit, and
\* gives up at one without the statistics a single cut-off needs.
EndsWalk(m, h) ==
    {v \in 1 .. h : CommitCovered(m, v) \/ (~parted /\ HasData(v) /\ ~src[v].stats)}

RescanStart(m, h) ==
    IF Inert(m) \/ h > SrcHead \/ EndsWalk(m, h) = {} THEN 1
    ELSE LET v == Max(EndsWalk(m, h)) IN IF CommitCovered(m, v) THEN v + 1 ELSE 1

-----------------------------------------------------------------------------
(* Who writes the tables besides the daemon.                               *)

\* The daemon before it opened.  `head' is the version its open, and then its
\* stream, last saw; `at' and `id' the stream's identity; `table' and `opened'
\* say which table at the path and which target it opened, and are not read.
Closed ==
    [pc |-> "down", head |-> 0, id |-> 0, at |-> 0, cursor |-> 0, cut |-> << >>,
     batch |-> {}, end |-> 0, table |-> 0, opened |-> 0]

Init ==
    /\ world \in Worlds
    /\ parted = world.part
    /\ src = <<NewCommit("quiet", {}, 1, TRUE)>>
    /\ gen = 1
    /\ tgt = << >>
    /\ rb = [st |-> "none", rows |-> {}, v |-> 0]
    /\ wm = None
    /\ d = Closed
    /\ left = Budget

\* The source's writer appends the next rows, with or without statistics.
SourceAppends ==
    \E n \in 1 .. 2, stats \in {TRUE, world.stats} :
        LET sent == Cardinality(Sent) IN
        /\ sent + n <= Len(world.rows)
        /\ src' = Append(src, NewCommit("data", sent + 1 .. sent + n, src[SrcHead].id, stats))
        /\ UNCHANGED <<world, parted, gen, tgt, rb, wm, d, left>>

\* OPTIMIZE, or a commit without files.
Optimize ==
    /\ Happens("optimize")
    /\ src' = Append(src, NewCommit("quiet", {}, src[SrcHead].id, TRUE))
    /\ UNCHANGED <<world, parted, gen, tgt, rb, wm, d>>

\* CREATE OR REPLACE: a new id in the same log; its Removes make it a change.
ReplaceInPlace ==
    /\ Happens("replace")
    /\ src' = Append(src, NewCommit("change", {}, src[SrcHead].id + 1, TRUE))
    /\ UNCHANGED <<world, parted, gen, tgt, rb, wm, d>>

\* The source is dropped and created again at its path; its writer
\* seeds it anew.
Recreate ==
    /\ Happens("recreate")
    /\ gen' = gen + 1
    /\ src' = <<NewCommit("quiet", {}, src[SrcHead].id + 1, TRUE)>>
    /\ UNCHANGED <<world, parted, tgt, rb, wm, d>>

\* dbt starts: a pre-hook records the version, and the model reads at it.
RebuildRead ==
    /\ rb.st = "none" /\ Happens("rebuild")
    /\ rb' = [st |-> "read", rows |-> Sent, v |-> SrcHead]
    /\ wm' = IF world.hook = "pre" THEN Max({wm, SrcHead}) ELSE wm
    /\ UNCHANGED <<world, parted, src, gen, tgt, d>>

\* Its overwrite lands; only files that are there give it Removes.
RebuildWrite ==
    /\ rb.st = "read" /\ d.pc \in RebuildAt
    /\ tgt' = Append(tgt, [txn |-> None, rows |-> rb.rows, wipe |-> Content # {},
                           cut |-> << >>, id |-> 0, at |-> 0])
    /\ rb' = IF world.hook = "post" THEN [rb EXCEPT !.st = "hook"] ELSE [rb EXCEPT !.st = "none"]
    /\ UNCHANGED <<world, parted, src, gen, wm, d, left>>

\* A post-hook records the version afterwards.
RebuildHook ==
    /\ rb.st = "hook"
    /\ wm' = Max({wm, rb.v})
    /\ rb' = [rb EXCEPT !.st = "none"]
    /\ UNCHANGED <<world, parted, src, gen, tgt, d, left>>

\* The operator sets or removes dedup_partition between two starts.
Reconfigure ==
    /\ d.pc = "down" /\ world.mode = "timestamp" /\ Happens("reconfigure")
    /\ parted' = ~parted
    /\ UNCHANGED <<world, src, gen, tgt, rb, wm, d>>

-----------------------------------------------------------------------------
(* Opening.                                                                *)

\* Our newest commit; its txn is the stored offset.
LastOurs == LET IsOurs(i) == tgt[i].txn # None IN Newest(IsOurs)

Stored == IF LastOurs = 0 THEN None ELSE tgt[LastOurs].txn

\* target_state: another writer removed data after our newest commit.
Overwritten == LastOverwrite > LastOurs

\* Mutant: the stored offset is trusted after a rebuild.
ResumeAtOffset(m) ==
    [cursor |-> Stored + 1, bootstrap |-> Stored = None, rebuilt |-> FALSE, refused |-> FALSE]

\* resume_cursor: our own offset, or after a rebuild a rescan (dedup_timestamp) or
\* dbt's watermark, and a refusal where none is recorded.
Resume(m) ==
    LET at(v, boot, rebuilt, refused) ==
            [cursor |-> v, bootstrap |-> boot, rebuilt |-> rebuilt, refused |-> refused]
    IN  CASE ~Overwritten               -> at(Stored + 1, Stored = None, FALSE, FALSE)
          [] world.mode = "timestamp"   -> at(RescanStart(m, d.head), FALSE, TRUE, FALSE)
          [] OTHER                      -> at(wm + 1, FALSE, FALSE, wm = None)

\* keeps_identity: the log still gives version v the id it had.
KeepsIdentity(h, v, id) == v <= h /\ v <= SrcHead /\ src[v].id = id

\* Mutant: a source that was dropped and recreated goes unnoticed.
NeverReplaced(r) == FALSE

\* adjust_for_replaced_source: the id of the table our newest commit read from is
\* gone from the log, or the log is shorter than our position.
Replaced(r) ==
    \/ /\ LastOurs # 0 /\ tgt[LastOurs].id # d.id
       /\ ~KeepsIdentity(d.head, tgt[LastOurs].at, tgt[LastOurs].id)
    \/ ~r.bootstrap /\ r.cursor > d.head + 1

\* has_data_commit_between; a version the log does not have counts as data.
DataBetween(a, b) == \E v \in a .. b : v > SrcHead \/ src[v].kind # "quiet"

Window(m, through) == <<[mark |-> m.mark, keys |-> m.keys, through |-> through]>>

\* Mutant: a window is opened on an empty target too, and not resumed.
CoverageOfNothing(m, r, replaced, cursor) ==
    IF r.rebuilt \/ r.bootstrap THEN Window(m, d.head) ELSE << >>

\* Mutant: the window over a replaced source ends at the head this open loaded.
CoverageToHead(m, r, replaced, cursor) ==
    IF (replaced \/ r.rebuilt \/ r.bootstrap) /\ ~Inert(m) THEN Window(m, d.head) ELSE << >>

\* coverage_cutoff, first match wins; << >> where there is no window.  A window
\* recorded in our newest commit is resumed only in the form it was recorded in.
Coverage(m, r, replaced, cursor) ==
    LET recorded == IF LastOurs = 0 THEN << >> ELSE tgt[LastOurs].cut
        resumes  == /\ recorded # << >>
                    /\ recorded[1].through # None => DataBetween(cursor, recorded[1].through)
                    /\ recorded[1].parted = parted
        through  == CASE replaced                 -> None
                      [] r.rebuilt \/ r.bootstrap -> d.head
                      [] resumes                  -> recorded[1].through
                      [] OTHER                    -> None
    IN  IF \/ world.mode # "timestamp"
           \/ ~(replaced \/ r.rebuilt \/ r.bootstrap \/ resumes)
           \/ Inert(m)
           \/ through # None /\ cursor > through
        THEN << >>
        ELSE Window(m, through)

\* Pipeline::open loads the source first: its head, and the table's id there.
OpenSource ==
    /\ d.pc = "down"
    /\ d' = [Closed EXCEPT !.pc = "opening", !.head = SrcHead, !.id = src[SrcHead].id,
                           !.at = SrcHead, !.table = gen]
    /\ UNCHANGED <<world, parted, src, gen, tgt, rb, wm, left>>

\* Then the target, and from the two where to read and what is covered.
Start(r, replaced) == IF replaced THEN 1 ELSE r.cursor

OpenTarget ==
    LET m        == ReadMarks
        r        == Resume(m)
        replaced == Replaced(r)
        cursor   == Start(r, replaced)
    IN  /\ d.pc = "opening"
        /\ ~r.refused
        /\ replaced => world.mode = "timestamp"
        /\ d' = [d EXCEPT !.pc = "idle", !.cursor = cursor, !.opened = Len(tgt),
                          !.cut = Coverage(m, r, replaced, cursor)]
        /\ UNCHANGED <<world, parted, src, gen, tgt, rb, wm, left>>

\* No watermark for a rebuilt target, or a replaced source without a timestamp.
OpenRefused ==
    LET r == Resume(ReadMarks) IN
    /\ d.pc = "opening"
    /\ r.refused \/ (Replaced(r) /\ world.mode # "timestamp")
    /\ d' = Closed
    /\ UNCHANGED <<world, parted, src, gen, tgt, rb, wm, left>>

-----------------------------------------------------------------------------
(* A step.                                                                 *)

\* retire_cutoff_if_read_through: the window's head has been read.
Retired(cut, cursor) ==
    IF cut # << >> /\ cut[1].through # None /\ cursor > cut[1].through THEN << >> ELSE cut

\* The stream stops at the window's head.
Readable(cut) == IF cut = << >> \/ cut[1].through = None THEN SrcHead ELSE Min({cut[1].through, SrcHead})

\* next_batch finds no data: the cursor passes what it skipped.
PollNothing ==
    LET cut == Retired(d.cut, d.cursor) IN
    /\ d.pc = "idle" /\ SrcHead >= d.head
    /\ \A v \in d.cursor .. Readable(cut) : ~HasData(v)
    /\ d' = [d EXCEPT !.head = SrcHead, !.cursor = Max({@, Readable(cut) + 1}), !.cut = cut]
    /\ d' # d
    /\ UNCHANGED <<world, parted, src, gen, tgt, rb, wm, left>>

\* check_identity: id now, unless the log no longer gives the version last seen
\* the id it had.
SameTable(id) == id = d.id \/ (d.at <= SrcHead /\ src[d.at].id = d.id)

\* next_batch ends at a data commit `through', or passes the commits without data
\* behind it.
Poll ==
    LET cut == Retired(d.cut, d.cursor)
        top == Readable(cut)
    IN  \E through \in d.cursor .. top :
        LET more == {v \in through + 1 .. top : HasData(v)} IN
        \E end \in {through + 1, IF more = {} THEN top + 1 ELSE Min(more)} :
            /\ d.pc = "idle" /\ SrcHead >= d.head
            /\ HasData(through)
            /\ SameTable(src[through].id)
            /\ d' = [d EXCEPT !.pc = "batch", !.head = SrcHead, !.cut = cut, !.end = end,
                              !.batch = UNION {src[v].adds : v \in d.cursor .. through},
                              !.at = through, !.id = src[through].id]
            /\ UNCHANGED <<world, parted, src, gen, tgt, rb, wm, left>>

\* The stream finds another table at its path, and the pipeline is reopened.
SourceReplaced ==
    /\ d.pc = "idle"
    /\ \/ SrcHead < d.head
       \/ \E v \in d.cursor .. Readable(Retired(d.cut, d.cursor)) :
              HasData(v) /\ ~SameTable(src[v].id)
    /\ d' = Closed
    /\ UNCHANGED <<world, parted, src, gen, tgt, rb, wm, left>>

\* window_closes_after: a row past the marks, or the window's head was read.
ClosesAfter(cut, end, rows) ==
    \/ \E r \in rows : Beyond(cut[1], r)
    \/ cut[1].through # None /\ end > cut[1].through

\* process: what the target holds is dropped, the rest committed with the offset and,
\* while the window stays open, the window; settle_cutoff follows the commit.
Commit ==
    LET closes == d.cut # << >> /\ ClosesAfter(d.cut, d.end, d.batch)
        kept   == {r \in d.batch : d.cut = << >> \/ ~Covered(d.cut[1], r)}
        record == IF d.cut = << >> \/ closes THEN << >>
                  ELSE <<[through |-> d.cut[1].through, parted |-> parted]>>
    IN  /\ d.pc = "batch"
        /\ tgt' = Append(tgt, [txn |-> d.end - 1, rows |-> kept, wipe |-> FALSE,
                               cut |-> record, id |-> d.id, at |-> d.at])
        /\ d' = [d EXCEPT !.pc = "idle", !.cursor = d.end, !.batch = {}, !.end = 0,
                          !.cut = IF closes THEN << >> ELSE @]
        /\ UNCHANGED <<world, parted, src, gen, rb, wm, left>>

\* The process dies, or a step fails and the supervisor reopens.
Crash ==
    /\ d.pc # "down" /\ Happens("crash")
    /\ d' = Closed
    /\ UNCHANGED <<world, parted, src, gen, tgt, rb, wm>>

Daemon ==
    \/ OpenSource \/ OpenTarget \/ OpenRefused
    \/ PollNothing \/ Poll \/ SourceReplaced \/ Commit

Next ==
    \/ SourceAppends \/ Optimize \/ ReplaceInPlace \/ Recreate
    \/ RebuildRead \/ RebuildWrite \/ RebuildHook \/ Reconfigure
    \/ Daemon \/ Crash

\* The supervisor reopens after every failure and steps on; the source's writer
\* goes on.
Fairness == WF_vars(Daemon) /\ WF_vars(SourceAppends)

Spec == Init /\ [][Next]_vars
FairSpec == Spec /\ Fairness

-----------------------------------------------------------------------------
(* Properties.                                                             *)

Rows == 1 .. Len(world.rows)

\* The tables, the windows and the positions are well formed: offsets are versions
\* of some table, a window has marks, a batch is read under the identity recorded.
TypeOK ==
    /\ \A i \in 1 .. Len(tgt) :
        /\ tgt[i].rows \subseteq Rows
        /\ tgt[i].cut # << >> => tgt[i].txn # None /\ world.mode = "timestamp"
    /\ d.pc \in {"down", "opening", "idle", "batch"}
    /\ d.cut # << >> => ~Inert(d.cut[1])
    /\ d.pc = "batch" => d.batch # {} /\ d.end > d.at /\ d.end > d.cursor

\* What the statistics of a commit settle is what its rows would: the walk that
\* bounds a rescan never takes a row for held, or reads on, on their word alone
\* (file_coverage_from_stats, Slack::above, against Probe::read).
StatsAgree ==
    parted /\ Content # {} =>
        \A v \in 1 .. SrcHead : HasData(v) =>
            /\ StatCoverage(ReadMarks, v) = "covered" => ProbeCovers(ReadMarks, v)
            /\ StatCoverage(ReadMarks, v) = "uncovered" => ~ProbeCovers(ReadMarks, v)

\* The daemon reads the table it opened and a target nobody rebuilt since.
Undisturbed ==
    /\ d.pc \in {"idle", "batch"}
    /\ d.table = gen
    /\ \A i \in d.opened + 1 .. Len(tgt) : tgt[i].txn # None

\* No gap: every row of a source version below the cursor is in the target, however
\* rebuilds, replacements, crashes and half-read windows came before
\* (resume_cursor, rescan_start, coverage_cutoff: "never a gap").
NoGap ==
    Undisturbed =>
        \A v \in 1 .. Min({d.cursor - 1, SrcHead}) : src[v].adds \subseteq Content

\* No row is in the target twice: what a rescan, a first start on a filled target
\* or a replaced source reads again is dropped, across restarts inside the window
\* (Dedup::filter, the recorded cut-off).
NoDuplicate == \A r \in Rows : Copies(r) <= 1

\* The daemon still reads a table that is gone, and the one at its path has no
\* version beyond the cursor that would show it (latest_version's floor, and the id,
\* which is only looked at where a batch ends).
Unnoticed == d.pc = "idle" /\ d.table # gen /\ d.cursor > SrcHead

\* From some point on: once the disturbances end, every row of the source reaches the
\* target and stays, through rescans, windows, restarts and a source that starts over; a
\* source recreated at the very length that was read is noticed only when it grows.
Delivered == Rows \subseteq Content \/ Unnoticed

=============================================================================
