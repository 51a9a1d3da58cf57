----------------------------- MODULE Compaction -----------------------------
(***************************************************************************)
(* Compacting a table that other engines write: src/src/compact.rs.        *)
(*                                                                         *)
(* delta-rs's own conflict check lets a compaction commit over a           *)
(* compaction of the same files (tests/compaction_races.rs), so a guarded  *)
(* log store reads every commit since the plan right before the put, and   *)
(* the put is put-if-absent.  Check and put are two steps here, and any    *)
(* writer may commit between them.                                         *)
(***************************************************************************)
EXTENDS Integers, Sequences, FiniteSets

CONSTANTS
    Compactors, \* processes compacting through the guard
    MaxCommits  \* bound: commits of the table

(* Assumed of the constants; the suites that instantiate the module assume it. *)
ConstantsAssumption == MaxCommits \in Nat \ {0}

VARIABLES
    log,     \* the table's commits: the files each adds and removes
    cleaned, \* commits up to this one are no longer in the log
    rows,    \* the rows the table ought to hold
    c        \* the compactors

vars == <<log, cleaned, rows, c>>

File(id, content) == [id |-> id, content |-> content]

\* The table's files after its first v commits.
FilesAt(v) ==
    {f \in UNION {log[i].adds : i \in 1 .. v} :
        ~\E i \in 1 .. v : f \in log[i].adds /\ \E j \in i + 1 .. v : f \in log[j].removes}

Files == FilesAt(Len(log))

Room == Len(log) < MaxCommits

Idle == [pc |-> "idle", files |-> {}, checked |-> 0, version |-> 0]

Init ==
    /\ log = << >> /\ cleaned = 0 /\ rows = {}
    /\ c = [p \in Compactors |-> Idle]

-----------------------------------------------------------------------------
(* The other writers.  They see each other's commits: each is one step.    *)

\* An append of one row, named after the commit.
AppendRow ==
    /\ Room
    /\ log' = Append(log, [adds |-> {File(Len(log) + 1, {Len(log) + 1})}, removes |-> {}])
    /\ rows' = rows \cup {Len(log) + 1}
    /\ UNCHANGED <<cleaned, c>>

\* Another engine deletes the rows of a file.
Delete ==
    \E f \in Files :
        /\ Room
        /\ log' = Append(log, [adds |-> {}, removes |-> {f}])
        /\ rows' = rows \ f.content
        /\ UNCHANGED <<cleaned, c>>

Rewritten(files) == {File(Len(log) + 1, UNION {f.content : f \in files})}

\* Another engine compacts.
ForeignCompaction ==
    \E files \in SUBSET Files :
        /\ Room /\ Cardinality(files) > 1
        /\ log' = Append(log, [adds |-> Rewritten(files), removes |-> files])
        /\ UNCHANGED <<cleaned, rows, c>>

\* Another engine expires log entries.
CleanLog ==
    /\ cleaned < Len(log)
    /\ cleaned' = Len(log)
    /\ UNCHANGED <<log, rows, c>>

-----------------------------------------------------------------------------
(* A guarded compaction.                                                   *)

\* guarded: the plan is drawn on the snapshot the check starts from.
PlanCompaction(p) ==
    \E files \in SUBSET Files :
        /\ c[p].pc = "idle" /\ Cardinality(files) > 1
        /\ c' = [c EXCEPT ![p] = [pc |-> "check", files |-> files, checked |-> Len(log),
                                  version |-> Len(log) + 1]]
        /\ UNCHANGED <<log, cleaned, rows>>

Since(p) == c[p].checked + 1 .. c[p].version - 1

\* A commit that cannot be read counts as one that removed the same file.
Clashes(p) == \E v \in Since(p) : v <= cleaned \/ log[v].removes \cap c[p].files # {}

\* write_commit_entry: every commit since the last check removed other files.
CheckPasses(p) ==
    /\ c[p].pc = "check" /\ ~Clashes(p)
    /\ c' = [c EXCEPT ![p].pc = "put", ![p].checked = c[p].version - 1]
    /\ UNCHANGED <<log, cleaned, rows>>

\* ConcurrentDeleteDelete: the compaction does not land.
CheckRefuses(p) ==
    /\ c[p].pc = "check" /\ Clashes(p)
    /\ c' = [c EXCEPT ![p] = Idle]
    /\ UNCHANGED <<log, cleaned, rows>>

Put(p) ==
    /\ c[p].pc = "put" /\ Room /\ c[p].version = Len(log) + 1
    /\ log' = Append(log, [adds |-> Rewritten(c[p].files), removes |-> c[p].files])
    /\ c' = [c EXCEPT ![p] = Idle]
    /\ UNCHANGED <<cleaned, rows>>

\* Mutant: delta-rs's retry puts the next version without another check.
PutRetriesUnchecked(p) ==
    /\ c[p].pc = "put" /\ c[p].version # Len(log) + 1
    /\ c' = [c EXCEPT ![p].version = Len(log) + 1]
    /\ UNCHANGED <<log, cleaned, rows>>

\* The version is taken: delta-rs finds no conflict of its own, and tries a later one.
PutRetries(p) ==
    /\ c[p].pc = "put" /\ c[p].version # Len(log) + 1
    /\ c' = [c EXCEPT ![p].pc = "check", ![p].version = Len(log) + 1]
    /\ UNCHANGED <<log, cleaned, rows>>

\* The process dies, or the put fails.
Die(p) ==
    /\ c[p].pc # "idle"
    /\ c' = [c EXCEPT ![p] = Idle]
    /\ UNCHANGED <<log, cleaned, rows>>

Next ==
    \/ AppendRow \/ Delete \/ ForeignCompaction \/ CleanLog
    \/ \E p \in Compactors :
           PlanCompaction(p) \/ CheckPasses(p) \/ CheckRefuses(p) \/ Put(p) \/ PutRetries(p) \/ Die(p)

Spec == Init /\ [][Next]_vars

-----------------------------------------------------------------------------
(* Properties.                                                             *)

\* Two compactions never leave a row in two files, and none brings a deleted row back:
\* the live files hold exactly the rows they ought to, each once
\* (GuardedLogStore::write_commit_entry).
RowsKept ==
    /\ UNION {f.content : f \in Files} = rows
    /\ \A f, g \in Files : f # g => f.content \cap g.content = {}

=============================================================================
