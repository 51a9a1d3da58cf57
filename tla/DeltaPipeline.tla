---------------------------- MODULE DeltaPipeline ----------------------------
(***************************************************************************)
(* One Delta-to-Delta pipeline in append mode: src/src/pipeline.rs with    *)
(* the stream (source/log_stream.rs), the offset (offset.rs), the sink     *)
(* (sink.rs) and the data-quality table (dq.rs).                           *)
(*                                                                         *)
(* The three tables are Delta logs.  `source' grows, and log retention     *)
(* moves `tail' past its oldest commits.  `target' and `dq' are sequences  *)
(* of commits, each carrying a txn action or none; the only durable state  *)
(* of a pipeline is the txn action of its own last commit in each.         *)
(*                                                                         *)
(* Proc is the set of daemons started with this app_id.  One is the        *)
(* supported deployment; two or more are the misconfiguration README.md    *)
(* ("Concurrency") says stays correct.  Everything a daemon knows is lost  *)
(* by a crash, and by any error too: `drive' answers every error by        *)
(* opening the pipeline again.                                             *)
(*                                                                         *)
(* dedup_timestamp, lookups and publishing are not configured here, and    *)
(* the source keeps its identity: those are other modules of the plan.     *)
(***************************************************************************)
EXTENDS Integers, Sequences, FiniteSets

CONSTANTS
    Proc,             \* daemons running this app_id
    Commits,          \* the source commits a producer may write
    ChangePolicy,     \* "Fail", "SkipChangeCommits" or "IgnoreChanges"
    StartingVersion,  \* starting_version
    MaxFiles,         \* max_files_per_batch
    HasDq,            \* whether a data-quality table exists
    MaxSource,        \* bound: commits in the source log
    MaxForeign,       \* bound: commits of other writers in the target log
    MaxFaults         \* bound: crashes and lost acknowledgements

CommitClass == {"Data", "Change", "Compaction", "NoData"}

\* A source commit: its class, how many dataChange Adds it has, whether one of
\* them carries a deletion vector, and whether its rows, once transformed,
\* include some the target takes (good) and some it refuses (bad).
CommitType ==
    [class : CommitClass, files : Nat, dv : BOOLEAN, good : BOOLEAN, bad : BOOLEAN]

ASSUME ConstantsAssumption ==
    /\ Commits \subseteq CommitType
    /\ ChangePolicy \in {"Fail", "SkipChangeCommits", "IgnoreChanges"}
    /\ StartingVersion \in Nat
    /\ MaxFiles \in Nat \ {0}
    /\ HasDq \in BOOLEAN
    /\ MaxSource \in Nat
    /\ MaxForeign \in Nat
    /\ MaxFaults \in Nat

VARIABLES
    source,   \* every commit the source ever had; version v is source[v + 1]
    tail,     \* oldest version log retention has left
    target,   \* the target's commits: [txn, rows]
    dq,       \* the data-quality table's commits: [txn, rows]
    pc,       \* where each daemon is
    cursor,   \* LogStream::cursor, always a commit boundary
    readable, \* next_batch's `readable': the head it may read to
    scan,     \* next_batch's loop cursor
    files,    \* versions whose Adds are in the batch
    nfiles,   \* how many Adds that is
    seenT,    \* length of the target log in the daemon's handle
    seenD,    \* the same for the data-quality log; None without a handle
    faults    \* faults so far

tables == <<source, tail, target, dq>>
daemon == <<pc, cursor, readable, scan, files, nfiles, seenT, seenD>>
vars   == <<source, tail, target, dq, pc, cursor, readable, scan, files, nfiles, seenT, seenD, faults>>

-----------------------------------------------------------------------------
(* Delta logs, as the code in src/ uses delta-rs.                          *)

\* "No txn action": the Option's None.
None == -1

\* A table's commit: the txn version it carries, and the source versions whose
\* rows it holds.
TableCommit == [txn : {None} \cup Nat, rows : SUBSET Nat]

\* snapshot.transaction_version(app_id) of the first n commits of log t: the
\* newest of them that carries a txn action.
NewestTxn(t, n, i) == t[i].txn # None /\ \A j \in i + 1 .. n : t[j].txn = None

TxnVersion(t, n) ==
    IF \E i \in 1 .. n : NewestTxn(t, n, i)
    THEN t[CHOOSE i \in 1 .. n : NewestTxn(t, n, i)].txn
    ELSE None

\* Mutant: commits under one appId never conflict.
ConcurrentTransactionIgnored(t, n) == FALSE

\* A commit planned on a handle at length n conflicts when a later commit
\* carries the same appId (ConcurrentTransaction).  Any other append rebases.
ConcurrentTransaction(t, n) == \E i \in n + 1 .. Len(t) : t[i].txn # None

LatestVersion == Len(source) - 1

Commit(v) == source[v + 1]

\* What the loop in next_batch does with a commit it could read.
Emits(c) ==
    /\ \/ c.class = "Data"
       \/ c.class = "Change" /\ ChangePolicy = "IgnoreChanges"
    /\ c.files > 0

Refused(c) ==
    \/ c.class = "Change" /\ ChangePolicy = "Fail"
    \/ Emits(c) /\ c.dv

Skipped(c) == ~Emits(c) /\ ~Refused(c)

\* The rows of a batch: those the target takes, those it refuses.
Good(vs) == {v \in vs : Commit(v).good}
Bad(vs)  == {v \in vs : Commit(v).bad}

\* Mutant: the exclusive end stored as if it were the last version read.
TxnVersionForExclusive(end) == end

\* OffsetStore::resume_cursor and txn_version_for.
ResumeCursor(stored) == IF stored = None THEN StartingVersion ELSE stored + 1

TxnVersionFor(end) == end - 1

Stored == TxnVersion(target, Len(target))

-----------------------------------------------------------------------------
Init ==
    /\ source = << >> /\ tail = 0
    /\ target = << >> /\ dq = << >>
    /\ pc = [p \in Proc |-> "down"]
    /\ cursor = [p \in Proc |-> 0]
    /\ readable = [p \in Proc |-> 0]
    /\ scan = [p \in Proc |-> 0]
    /\ files = [p \in Proc |-> {}]
    /\ nfiles = [p \in Proc |-> 0]
    /\ seenT = [p \in Proc |-> 0]
    /\ seenD = [p \in Proc |-> 0]
    /\ faults = 0

-----------------------------------------------------------------------------
(* The environment.                                                        *)

\* The producer commits to the source.
Produce ==
    /\ Len(source) < MaxSource
    /\ \E c \in Commits : source' = Append(source, c)
    /\ UNCHANGED <<tail, target, dq>> /\ UNCHANGED daemon

\* Log retention reclaims the oldest commit; never the head.
Reclaim ==
    /\ tail < LatestVersion
    /\ tail' = tail + 1
    /\ UNCHANGED <<source, target, dq>> /\ UNCHANGED daemon

\* Another writer commits to the target without touching our rows: an OPTIMIZE,
\* or its own append.
ForeignCommit ==
    /\ Cardinality({i \in 1 .. Len(target) : target[i].txn = None}) < MaxForeign
    /\ target' = Append(target, [txn |-> None, rows |-> {}])
    /\ UNCHANGED <<source, tail, dq>> /\ UNCHANGED daemon

-----------------------------------------------------------------------------
(* The daemon.                                                             *)

\* next_batch returns: its locals are gone.
DropLocals(p) ==
    /\ readable' = [readable EXCEPT ![p] = 0]
    /\ scan' = [scan EXCEPT ![p] = 0]
    /\ nfiles' = [nfiles EXCEPT ![p] = 0]

\* Everything in memory goes: a kill, or an error `drive' answers by reopening.
Lose(p) ==
    /\ pc' = [pc EXCEPT ![p] = "down"]
    /\ cursor' = [cursor EXCEPT ![p] = 0]
    /\ DropLocals(p)
    /\ files' = [files EXCEPT ![p] = {}]
    /\ seenT' = [seenT EXCEPT ![p] = 0]
    /\ seenD' = [seenD EXCEPT ![p] = 0]

\* SIGKILL, or a storage error, at any point between two durable steps.
Crash(p) ==
    /\ pc[p] # "down"
    /\ Lose(p)
    /\ UNCHANGED tables

\* refuse_an_unreachable_bootstrap: a pipeline that has never committed does
\* not open while the commit it starts at is gone.
BootstrapUnreachable(start) == start =< LatestVersion /\ start < tail

\* Pipeline::open fails: no source yet, or the bootstrap is refused.  `drive'
\* waits and tries again.
OpenRefused(p) ==
    /\ pc[p] = "down"
    /\ \/ source = << >>
       \/ Stored = None /\ BootstrapUnreachable(ResumeCursor(Stored))
    /\ UNCHANGED vars

\* Pipeline::open, up to the target's handle and the offset read from it.
OpenTarget(p) ==
    LET start == ResumeCursor(Stored)
    IN  /\ pc[p] = "down"
        /\ source # << >>
        /\ ~(Stored = None /\ BootstrapUnreachable(start))
        /\ pc' = [pc EXCEPT ![p] = "opening"]
        /\ cursor' = [cursor EXCEPT ![p] = start]
        /\ seenT' = [seenT EXCEPT ![p] = Len(target)]
        /\ UNCHANGED <<readable, scan, files, nfiles, seenD>>
        /\ UNCHANGED tables

\* DataQuality::open, the last table Pipeline::open opens.
OpenDq(p) ==
    /\ pc[p] = "opening"
    /\ pc' = [pc EXCEPT ![p] = "idle"]
    /\ seenD' = [seenD EXCEPT ![p] = IF HasDq THEN Len(dq) ELSE None]
    /\ UNCHANGED <<cursor, readable, scan, files, nfiles, seenT>>
    /\ UNCHANGED tables

\* Any error opening a table that is there, `Err(_) => Ok(None)', is taken for
\* there being none: this daemon runs without one until it reopens.
OpenDqUnreadable(p) ==
    /\ pc[p] = "opening" /\ HasDq
    /\ pc' = [pc EXCEPT ![p] = "idle"]
    /\ seenD' = [seenD EXCEPT ![p] = None]
    /\ UNCHANGED <<cursor, readable, scan, files, nfiles, seenT>>
    /\ UNCHANGED tables

\* step_delta calls next_batch, which reads the head.  A cursor past it is
\* CaughtUp, which changes nothing; the daemon polls again.
CaughtUp(p) ==
    /\ pc[p] = "idle"
    /\ cursor[p] > LatestVersion
    /\ UNCHANGED vars

Poll(p) ==
    /\ pc[p] = "idle"
    /\ cursor[p] =< LatestVersion
    /\ pc' = [pc EXCEPT ![p] = "scan"]
    /\ readable' = [readable EXCEPT ![p] = LatestVersion]
    /\ scan' = [scan EXCEPT ![p] = cursor[p]]
    /\ UNCHANGED <<cursor, files, nfiles, seenT, seenD>>
    /\ UNCHANGED tables

\* The loop in next_batch is about to read a commit that is still in the log.
AtCommit(p) == pc[p] = "scan" /\ scan[p] =< readable[p] /\ scan[p] >= tail

\* Mutant: the ceiling is checked before the commit's files are counted.
FitsBefore(p) == nfiles[p] < MaxFiles

Fits(p) == nfiles[p] + Commit(scan[p]).files =< MaxFiles

\* A compaction, a marker, or a change commit the policy skips.
SkipCommit(p) ==
    /\ AtCommit(p)
    /\ Skipped(Commit(scan[p]))
    /\ scan' = [scan EXCEPT ![p] = @ + 1]
    /\ UNCHANGED <<pc, cursor, readable, files, nfiles, seenT, seenD>>
    /\ UNCHANGED tables

\* A commit whose Adds fit in the batch: it is taken whole.
TakeCommit(p) ==
    /\ AtCommit(p)
    /\ Emits(Commit(scan[p])) /\ ~Refused(Commit(scan[p]))
    /\ Fits(p)
    /\ files' = [files EXCEPT ![p] = @ \cup {scan[p]}]
    /\ nfiles' = [nfiles EXCEPT ![p] = @ + Commit(scan[p]).files]
    /\ scan' = [scan EXCEPT ![p] = @ + 1]
    /\ UNCHANGED <<pc, cursor, readable, seenT, seenD>>
    /\ UNCHANGED tables

\* Mutant: the cursor jumps to the head although a commit was left out.
EndBatchJumps(p) ==
    /\ pc[p] = "scan" /\ files[p] # {}
    /\ \/ scan[p] > readable[p]
       \/ scan[p] < tail
       \/ /\ AtCommit(p)
          /\ Emits(Commit(scan[p])) /\ ~Refused(Commit(scan[p]))
    /\ cursor' = [cursor EXCEPT ![p] = readable[p] + 1]
    /\ pc' = [pc EXCEPT ![p] = "batch"]
    /\ DropLocals(p)
    /\ UNCHANGED <<files, seenT, seenD>>
    /\ UNCHANGED tables

\* The loop ends with files in hand: at the head, at a commit retention took
\* meanwhile, at one that does not fit, or at one the byte ceiling leaves out.
\* The stream's cursor moves to the end of the batch, in memory.
EndBatch(p) ==
    /\ pc[p] = "scan" /\ files[p] # {}
    /\ \/ scan[p] > readable[p]
       \/ scan[p] < tail
       \/ /\ AtCommit(p)
          /\ Emits(Commit(scan[p])) /\ ~Refused(Commit(scan[p]))
    /\ cursor' = [cursor EXCEPT ![p] = scan[p]]
    /\ pc' = [pc EXCEPT ![p] = "batch"]
    /\ DropLocals(p)
    /\ UNCHANGED <<files, seenT, seenD>>
    /\ UNCHANGED tables

\* The loop ends at the head with nothing in hand: the skipped commits move the
\* cursor, in memory only, and the step is CaughtUp.
EndEmpty(p) ==
    /\ pc[p] = "scan" /\ files[p] = {}
    /\ scan[p] > readable[p]
    /\ cursor' = [cursor EXCEPT ![p] = scan[p]]
    /\ pc' = [pc EXCEPT ![p] = "idle"]
    /\ DropLocals(p)
    /\ UNCHANGED <<files, seenT, seenD>>
    /\ UNCHANGED tables

\* next_batch's errors: CursorUnavailable, ChangeCommit,
\* DeletionVectorUnsupported and CommitTooLarge.
CursorUnavailable(p) ==
    pc[p] = "scan" /\ scan[p] =< readable[p] /\ scan[p] < tail /\ files[p] = {}

CommitRefused(p) == AtCommit(p) /\ Refused(Commit(scan[p]))

CommitTooLarge(p) ==
    /\ AtCommit(p) /\ files[p] = {}
    /\ Emits(Commit(scan[p])) /\ ~Refused(Commit(scan[p]))
    /\ ~Fits(p)

StreamError(p) ==
    /\ CursorUnavailable(p) \/ CommitRefused(p) \/ CommitTooLarge(p)
    /\ Lose(p)
    /\ UNCHANGED tables

\* already_recorded: the txn in the daemon's own handle, compared by equality.
AlreadyRecorded(p) == TxnVersion(dq, seenD[p]) = TxnVersionFor(cursor[p])

\* Mutant: without a data-quality handle the rejects are dropped.
SkipRejectsDrops(p) ==
    /\ pc[p] = "batch"
    /\ Bad(files[p]) = {} \/ seenD[p] = None \/ AlreadyRecorded(p)
    /\ pc' = [pc EXCEPT ![p] = "commit"]
    /\ UNCHANGED <<cursor, readable, scan, files, nfiles, seenT, seenD>>
    /\ UNCHANGED tables

\* process, step 4b: rejects are written before the target commits.
\* Nothing to write, or a replay of a batch whose rejects are there.
SkipRejects(p) ==
    /\ pc[p] = "batch"
    /\ \/ Bad(files[p]) = {}
       \/ seenD[p] # None /\ AlreadyRecorded(p)
    /\ pc' = [pc EXCEPT ![p] = "commit"]
    /\ UNCHANGED <<cursor, readable, scan, files, nfiles, seenT, seenD>>
    /\ UNCHANGED tables

MustWriteRejects(p) ==
    pc[p] = "batch" /\ Bad(files[p]) # {} /\ seenD[p] # None /\ ~AlreadyRecorded(p)

RejectCommit(p) == [txn |-> TxnVersionFor(cursor[p]), rows |-> Bad(files[p])]

\* DataQuality::write lands and is acknowledged.
WriteRejects(p) ==
    /\ MustWriteRejects(p)
    /\ ~ConcurrentTransaction(dq, seenD[p])
    /\ dq' = Append(dq, RejectCommit(p))
    /\ seenD' = [seenD EXCEPT ![p] = Len(dq) + 1]
    /\ pc' = [pc EXCEPT ![p] = "commit"]
    /\ UNCHANGED <<source, tail, target>>
    /\ UNCHANGED <<cursor, readable, scan, files, nfiles, seenT>>

\* It lands and the acknowledgement is lost: the batch fails.
WriteRejectsUnacked(p) ==
    /\ MustWriteRejects(p)
    /\ ~ConcurrentTransaction(dq, seenD[p])
    /\ dq' = Append(dq, RejectCommit(p))
    /\ Lose(p)
    /\ UNCHANGED <<source, tail, target>>

\* It conflicts with another daemon's, or there is no table to write it to (the
\* strict cast fails the batch): either way the batch is not committed.
RejectsFail(p) ==
    /\ \/ MustWriteRejects(p) /\ ConcurrentTransaction(dq, seenD[p])
       \/ pc[p] = "batch" /\ seenD[p] = None /\ Bad(files[p]) # {}
    /\ Lose(p)
    /\ UNCHANGED tables

\* Mutant: a batch with no row left to write carries no txn.
BatchCommitRowsOnly(p) ==
    [txn  |-> IF Good(files[p]) = {} THEN None ELSE TxnVersionFor(cursor[p]),
     rows |-> Good(files[p])]

\* Rows and txn in one commit.  A batch with no row left still commits its txn.
BatchCommit(p) == [txn |-> TxnVersionFor(cursor[p]), rows |-> Good(files[p])]

\* Sink::commit lands and is acknowledged: Progressed, or Skipped if no row.
CommitBatch(p) ==
    /\ pc[p] = "commit"
    /\ ~ConcurrentTransaction(target, seenT[p])
    /\ target' = Append(target, BatchCommit(p))
    /\ seenT' = [seenT EXCEPT ![p] = Len(target) + 1]
    /\ pc' = [pc EXCEPT ![p] = "idle"]
    /\ files' = [files EXCEPT ![p] = {}]
    /\ UNCHANGED <<source, tail, dq>>
    /\ UNCHANGED <<cursor, readable, scan, nfiles, seenD>>

\* Mutant: the batch is kept and committed again on the reloaded handle.
CommitUnackedRetries(p) ==
    /\ pc[p] = "commit"
    /\ ~ConcurrentTransaction(target, seenT[p])
    /\ target' = Append(target, BatchCommit(p))
    /\ seenT' = [seenT EXCEPT ![p] = Len(target) + 1]
    /\ UNCHANGED <<source, tail, dq>>
    /\ UNCHANGED <<pc, cursor, readable, scan, files, nfiles, seenD>>

\* It lands and the acknowledgement is lost.
CommitUnacked(p) ==
    /\ pc[p] = "commit"
    /\ ~ConcurrentTransaction(target, seenT[p])
    /\ target' = Append(target, BatchCommit(p))
    /\ Lose(p)
    /\ UNCHANGED <<source, tail, dq>>

\* Another daemon committed under this app_id since the handle was loaded.
CommitConflict(p) ==
    /\ pc[p] = "commit"
    /\ ConcurrentTransaction(target, seenT[p])
    /\ Lose(p)
    /\ UNCHANGED tables

-----------------------------------------------------------------------------
Step(p) ==
    \/ OpenRefused(p) \/ OpenTarget(p) \/ OpenDq(p) \/ CaughtUp(p) \/ Poll(p)
    \/ SkipCommit(p) \/ TakeCommit(p) \/ EndBatch(p) \/ EndEmpty(p) \/ StreamError(p)
    \/ SkipRejects(p) \/ WriteRejects(p) \/ RejectsFail(p)
    \/ CommitBatch(p) \/ CommitConflict(p)

Fault(p) ==
    /\ faults < MaxFaults
    /\ faults' = faults + 1
    /\ Crash(p) \/ OpenDqUnreadable(p) \/ WriteRejectsUnacked(p) \/ CommitUnacked(p)

Next ==
    \/ (Produce \/ Reclaim \/ ForeignCommit) /\ UNCHANGED faults
    \/ \E p \in Proc : Step(p) /\ UNCHANGED faults
    \/ \E p \in Proc : Fault(p)

Spec == Init /\ [][Next]_vars

\* The daemon's task keeps running; nothing obliges the producer, retention,
\* another writer or a fault to act.
Faultless(p) == Step(p) /\ UNCHANGED faults
FairSpec == Spec /\ \A p \in Proc : WF_vars(Faultless(p))

-----------------------------------------------------------------------------
(* Properties.                                                             *)

Running == {"opening", "idle", "scan", "batch", "commit"}

TypeOK ==
    /\ source \in Seq(Commits)
    /\ tail \in Nat /\ (tail = 0 \/ tail =< LatestVersion)
    /\ target \in Seq(TableCommit)
    /\ dq \in Seq(TableCommit)
    /\ pc \in [Proc -> Running \cup {"down"}]
    /\ cursor \in [Proc -> Nat]
    /\ readable \in [Proc -> Nat]
    /\ scan \in [Proc -> Nat]
    /\ files \in [Proc -> SUBSET Nat]
    /\ nfiles \in [Proc -> 0 .. MaxFiles]
    /\ seenT \in [Proc -> Nat]
    /\ seenD \in [Proc -> Nat \cup {None}]
    /\ faults \in 0 .. MaxFaults

\* The source versions the stored offset says have been processed.
Consumed == StartingVersion .. ResumeCursor(Stored) - 1

Emitting(vs) == {v \in vs : v < Len(source) /\ Emits(Commit(v))}

\* README.md "How exactly-once works": after every kill the target holds a
\* gap-free prefix of the source.  The rows in the target are those of exactly
\* the source versions up to the stored txn, whatever crashed, conflicted or
\* lost its acknowledgement.
GapFreePrefix ==
    UNION {target[i].rows : i \in 1 .. Len(target)} = Good(Emitting(Consumed))

\* ... with no duplicates: no two commits of the target hold rows of the same
\* source version, even with several daemons on one app_id ("the txn action
\* prevents double-apply").
NoDoubleApply ==
    \A i, j \in 1 .. Len(target) :
        i # j => target[i].rows \cap target[j].rows = {}

\* README.md "Bad rows and broken streams": a crash between the two commits can
\* duplicate a reject but never lose one.  Whenever the offset says a version is
\* processed, its rejects are in the data-quality table.
RejectsNeverLost ==
    \A v \in Bad(Emitting(Consumed)) : \E i \in 1 .. Len(dq) : v \in dq[i].rows

\* The offset in the target never moves back, also while a daemon with a stale
\* handle still has an older batch in hand.
OffsetMonotone == [][Stored' >= Stored]_vars

\* What is left to deliver, and why it may be impossible: a refused or oversized
\* commit, a reject with no table for it, or a commit retention has reclaimed.
Owed == Emitting(ResumeCursor(Stored) .. LatestVersion)

Blocked ==
    \E v \in ResumeCursor(Stored) .. LatestVersion :
        \/ v < tail
        \/ Refused(Commit(v))
        \/ Emits(Commit(v)) /\ Commit(v).files > MaxFiles
        \/ Emits(Commit(v)) /\ Commit(v).bad /\ ~HasDq

\* DataQuality::open: "Anything else - a table that is there but unreadable - is
\* [an error], because silently treating it as absent would discard the rejects".
\* A daemon that opened while a data-quality table exists has a handle on it.
UnreadableDqIsAnError ==
    \A p \in Proc : HasDq /\ pc[p] \in Running \ {"opening"} => seenD[p] # None

\* README.md, on ddi_resume_unreachable: "Rows it owed the target are gone".
\* When a pipeline that has committed finds the version it must resume at
\* reclaimed, some version it had yet to deliver has been reclaimed.
UnreachableMeansLoss ==
    \A p \in Proc :
        CursorUnavailable(p) /\ Stored # None => \E v \in Owed : v < tail

\* From some point on: every commit of the source is delivered, however many
\* faults came first, unless something named in Blocked stands in the way: no
\* daemon waits for another, no replay repeats for ever, a batch with no row
\* still moves the offset.
Drained == Owed = {} \/ Blocked

-----------------------------------------------------------------------------
(* The inductive invariant behind the safety properties.                   *)

\* The daemon's handle has every commit of this app_id: its own would land.
Fresh(p) == ~ConcurrentTransaction(target, seenT[p])

\* The first version the batch in hand, complete or not, does not reach.
End(p) == IF pc[p] = "scan" THEN scan[p] ELSE cursor[p]

HandlesInLog ==
    \A p \in Proc :
        /\ seenT[p] =< Len(target)
        /\ seenD[p] # None => seenD[p] =< Len(dq)

TxnsInLog ==
    /\ \A i \in 1 .. Len(target) :
          target[i].txn # None => target[i].txn \in StartingVersion .. LatestVersion
    /\ \A i \in 1 .. Len(dq) : dq[i].txn \in StartingVersion .. LatestVersion

\* A batch holds every emitting version from the stored offset to its end, and
\* none the offset has passed while the handle is fresh.  A stale daemon may
\* hold versions the offset has passed; its commit will conflict.
Complete(p) ==
    /\ cursor[p] >= StartingVersion
    /\ End(p) =< Len(source) \/ End(p) =< StartingVersion
    /\ \A v \in files[p] : /\ v \in StartingVersion .. End(p) - 1
                           /\ v < Len(source) /\ Emits(Commit(v))
    /\ \A v \in ResumeCursor(Stored) .. End(p) - 1 :
          v < Len(source) /\ Emits(Commit(v)) => v \in files[p]
    /\ Fresh(p) => /\ ResumeCursor(Stored) =< cursor[p]
                   /\ \A v \in files[p] : ResumeCursor(Stored) =< v
    /\ pc[p] = "scan" => cursor[p] =< scan[p] /\ scan[p] =< readable[p] + 1
    /\ pc[p] \in {"batch", "commit"} => files[p] # {}

BatchComplete == \A p \in Proc : pc[p] # "down" => Complete(p)

\* A version is only in a batch past the point of its Adds being read.
BatchEnds ==
    \A p \in Proc :
        /\ pc[p] = "scan" => readable[p] < Len(source)
        /\ pc[p] = "scan" /\ files[p] # {} => scan[p] > 0
        /\ pc[p] \in {"batch", "commit"} => cursor[p] > 0
        /\ pc[p] \in {"down", "opening", "idle"} => files[p] = {}

IsRecorded(v) == \E i \in 1 .. Len(dq) : v \in dq[i].rows

\* A reject commit with txn e covers the rejects from the stored offset to e:
\* this is what makes skipping on equality of txns sound.
DqCovers ==
    \A k \in 1 .. Len(dq) : \A v \in ResumeCursor(Stored) .. dq[k].txn :
        v < Len(source) /\ Emits(Commit(v)) /\ Commit(v).bad => v \in dq[k].rows

\* A daemon whose commit would land has its rejects recorded.
RejectsFirst ==
    \A p \in Proc : pc[p] = "commit" /\ Fresh(p) =>
        \A v \in files[p] : Commit(v).bad => IsRecorded(v)

IInv ==
    /\ TypeOK /\ BatchEnds
    /\ HandlesInLog /\ TxnsInLog /\ BatchComplete
    /\ DqCovers /\ RejectsFirst
    /\ GapFreePrefix /\ NoDoubleApply /\ RejectsNeverLost

-----------------------------------------------------------------------------
\* What the pipeline promises, with everything but the durable tables hidden.
\* The target's rows per source version are counted, so a version applied twice
\* or skipped is not a step of ExactlyOnce.
Copies ==
    [i \in 1 .. Len(source) |->
        Cardinality({k \in 1 .. Len(target) : i - 1 \in target[k].rows})]

EO == INSTANCE ExactlyOnce WITH
    published <- source,
    position  <- ResumeCursor(Stored),
    copies    <- Copies,
    recorded  <- UNION {dq[k].rows : k \in 1 .. Len(dq)},
    TakesRow  <- {c \in Commits : Emits(c) /\ c.good},
    HasReject <- {c \in Commits : Emits(c) /\ c.bad}

\* Every behaviour of the daemons, crashes and conflicts included, is one of the
\* abstract pipeline.
Implements == EO!Spec

=============================================================================
