------------------------------- MODULE KafkaDq -------------------------------
(***************************************************************************)
(* The data-quality table of Kafka pipelines (write_kafka of               *)
(* src/src/dq.rs), written by the members of a consumer group beside       *)
(* engines of other people.                                                *)
(*                                                                         *)
(* A batch's rejects are recorded first, by a plain append under a write   *)
(* id of their own, then the target is committed; a failure repeats the    *)
(* batch from the start.  A commit may land and its acknowledgement be     *)
(* lost: delta-rs then commits the same file again, or gives up on a       *)
(* conflict with a commit that came between, or reports another error, and *)
(* the writer looks for its own commit before it writes again.             *)
(*                                                                         *)
(* A commit whose acknowledgement is lost has landed or has not by the     *)
(* time its failure is reported.                                           *)
(***************************************************************************)
EXTENDS Naturals, Sequences, FiniteSets

CONSTANTS
  Members,       \* the members of the group
  Batches,       \* bound: how many batches with rejects each of them has
  Retries,       \* KAFKA_CONFLICT_RETRIES
  MaxForeign,    \* bound: commits of other engines
  MaxFaults      \* bound: lost answers, store errors, crashes

(* Assumed of the constants; the suites that instantiate the module assume it. *)
ConstantsAssumption ==
  Batches \in Nat \ {0} /\ Retries \in Nat /\ MaxForeign \in Nat /\ MaxFaults \in Nat

VARIABLES
  log,       \* the table's commits: [kind, id, add, remove]; a file is <<member, batch, call, try>>
  floor,     \* the first commit still in the log
  writable,  \* whether delta-rs can write the table's protocol
  foreign,   \* how many foreign commits and changes there were
  faults,    \* how many faults there were
  pc,        \* per member: "ready", "write", "lost", "conflict", "ambiguous", "search", "recorded"
  why,       \* per member, what the search follows: "conflict" or "ambiguous"
  batch,     \* per member, the batch it is at
  call,      \* per member, how many write_kafka calls it made; with the member, the write id
  retries,   \* per member, the attempts made after the first
  handle,    \* per member, the version its table handle is at
  read,      \* per member, read_version of the attempt under way
  excused    \* history: the <<member, batch>> whose duplicate is announced

vars == <<log, floor, writable, foreign, faults, pc, why, batch, call, retries, handle, read, excused>>
table == <<log, floor, writable, foreign>>

Init ==
  /\ log = <<>> /\ floor = 1 /\ writable = TRUE /\ foreign = 0 /\ faults = 0
  /\ pc = [m \in Members |-> "ready"]
  /\ why = [m \in Members |-> "conflict"]
  /\ batch = [m \in Members |-> 1]
  /\ call = [m \in Members |-> 0]
  /\ retries = [m \in Members |-> 0]
  /\ handle = [m \in Members |-> 0]
  /\ read = [m \in Members |-> 0]
  /\ excused = {}

WriteId(m) == <<m, call[m]>>
File(m) == <<m, batch[m], call[m], retries[m]>>
(* The files of the newest snapshot. *)
Active(l) == {f \in UNION {l[v].add : v \in DOMAIN l} :
                LET last == CHOOSE v \in DOMAIN l :
                              /\ f \in l[v].add \cup l[v].remove
                              /\ \A w \in DOMAIN l : w > v => f \notin l[w].add \cup l[w].remove
                IN  f \in l[last].add}
Landed(m) == \E v \in DOMAIN log : log[v].id = WriteId(m)
(* delta-rs gives an append up over a commit that changed the metadata or removed
   rows; it rebases it over anything else. *)
Conflicting(m) == \E v \in DOMAIN log : v > handle[m] /\ log[v].kind = "change"

----------------------------------------------------------------------------
(* Other engines *)

Change ==
  /\ foreign < MaxForeign
  /\ foreign' = foreign + 1
  /\ log' = Append(log, [kind |-> "change", id |-> <<>>, add |-> {}, remove |-> {}])
  /\ UNCHANGED <<floor, writable, faults, pc, why, batch, call, retries, handle, read, excused>>

(* A compaction rewrites a file; its rows are in another from then on. *)
Compact(f) ==
  /\ foreign < MaxForeign /\ Len(f) = 4
  /\ foreign' = foreign + 1
  /\ log' = Append(log, [kind |-> "compact", id |-> <<>>, add |-> {Append(f, "again")}, remove |-> {f}])
  /\ UNCHANGED <<floor, writable, faults, pc, why, batch, call, retries, handle, read, excused>>

(* The table is made one delta-rs cannot write, or one it can. *)
Protocol ==
  /\ foreign < MaxForeign
  /\ foreign' = foreign + 1
  /\ writable' = ~writable
  /\ UNCHANGED <<log, floor, faults, pc, why, batch, call, retries, handle, read, excused>>

Cleanup ==
  /\ foreign < MaxForeign /\ floor <= Len(log)
  /\ foreign' = foreign + 1
  /\ floor' = Len(log) + 1
  /\ UNCHANGED <<log, writable, faults, pc, why, batch, call, retries, handle, read, excused>>

----------------------------------------------------------------------------
(* One write_kafka call *)

At(m, where) == pc' = [pc EXCEPT ![m] = where]
Fault == faults < MaxFaults /\ faults' = faults + 1
(* The call returns an error, and the batch is repeated.  Where the rejects had
   landed, the repetition records them again, and says so. *)
Return(m) ==
  /\ At(m, "ready")
  /\ excused' = IF Landed(m) THEN excused \cup {<<m, batch[m]>>} ELSE excused

Begin(m) ==
  /\ pc[m] = "ready" /\ batch[m] <= Batches
  /\ call' = [call EXCEPT ![m] = @ + 1]
  /\ retries' = [retries EXCEPT ![m] = 0]
  /\ At(m, "write")
  /\ UNCHANGED <<table, faults, why, batch, handle, read, excused>>

(* A protocol delta-rs cannot write is refused before anything is written; an id
   nothing was written under counts for no call. *)
Refuse(m) ==
  /\ pc[m] = "write" /\ ~writable
  /\ handle' = [handle EXCEPT ![m] = Len(log)]
  /\ call' = IF retries[m] = 0 THEN [call EXCEPT ![m] = @ - 1] ELSE call
  /\ At(m, "ready")
  /\ UNCHANGED <<table, faults, why, batch, retries, read, excused>>

AppendRejects(m) == log' = Append(log, [kind |-> "append", id |-> WriteId(m), add |-> {File(m)}, remove |-> {}])

(* try_write_kafka: the commit lands and is acknowledged. *)
Write(m) ==
  /\ pc[m] = "write" /\ writable /\ ~Conflicting(m)
  /\ AppendRejects(m)
  /\ handle' = [handle EXCEPT ![m] = Len(log) + 1]
  /\ read' = [read EXCEPT ![m] = handle[m]]
  /\ At(m, "recorded")
  /\ UNCHANGED <<floor, writable, foreign, faults, why, batch, call, retries, excused>>

(* It lands, and the answer is lost on the way. *)
LoseAnswer(m) ==
  /\ pc[m] = "write" /\ writable /\ ~Conflicting(m) /\ Fault
  /\ AppendRejects(m)
  /\ read' = [read EXCEPT ![m] = handle[m]]
  /\ At(m, "lost")
  /\ UNCHANGED <<floor, writable, foreign, why, batch, call, retries, handle, excused>>

(* It lands and the checkpoint after it fails, or it does not land at all. *)
FailWrite(m) ==
  /\ pc[m] = "write" /\ writable /\ Fault
  /\ \/ UNCHANGED log
     \/ ~Conflicting(m) /\ AppendRejects(m)
  /\ read' = [read EXCEPT ![m] = handle[m]]
  /\ At(m, "ambiguous")
  /\ UNCHANGED <<floor, writable, foreign, why, batch, call, retries, handle, excused>>

GiveUp(m) ==
  /\ pc[m] \in {"write", "lost"} /\ writable /\ Conflicting(m)
  /\ read' = [read EXCEPT ![m] = handle[m]]
  /\ At(m, "conflict")
  /\ UNCHANGED <<table, faults, why, batch, call, retries, handle, excused>>

(* delta-rs meets its own commit, finds no conflict and commits the same file at
   the next version.  Should a compaction have removed it, it is there twice. *)
Recommit(m) ==
  /\ pc[m] = "lost" /\ ~Conflicting(m)
  /\ AppendRejects(m)
  /\ handle' = [handle EXCEPT ![m] = Len(log) + 1]
  /\ excused' = IF File(m) \in Active(log) THEN excused ELSE excused \cup {<<m, batch[m]>>}
  /\ At(m, "recorded")
  /\ UNCHANGED <<floor, writable, foreign, faults, why, batch, call, retries, read>>

(* The retries of the lost PUT end in a store error. *)
StoreError(m) ==
  /\ pc[m] = "lost" /\ Fault
  /\ At(m, "ambiguous")
  /\ UNCHANGED <<table, why, batch, call, retries, handle, read, excused>>

\* Mutant: an ambiguous failure is returned as it is.
ReopenConflictOnly(m) ==
  /\ pc[m] \in {"conflict", "ambiguous"}
  /\ why' = [why EXCEPT ![m] = pc[m]]
  /\ handle' = [handle EXCEPT ![m] = Len(log)]
  /\ At(m, IF pc[m] = "conflict" THEN "search" ELSE "ready")
  /\ UNCHANGED <<table, faults, batch, call, retries, read, excused>>

(* Either way the table is reopened and the own commit looked for. *)
Reopen(m) ==
  /\ pc[m] \in {"conflict", "ambiguous"}
  /\ why' = [why EXCEPT ![m] = pc[m]]
  /\ handle' = [handle EXCEPT ![m] = Len(log)]
  /\ At(m, "search")
  /\ UNCHANGED <<table, faults, batch, call, retries, read, excused>>

(* The table does not reopen, or its log cannot be read. *)
CannotLook(m) ==
  /\ pc[m] \in {"conflict", "ambiguous", "search"} /\ Fault
  /\ Return(m)
  /\ UNCHANGED <<table, why, batch, call, retries, handle, read>>

(* landed: newest first, down to the version the attempt read; a commit no longer
   in the log ends it. *)
Found(m) ==
  \E v \in read[m] + 1 .. handle[m] :
    log[v].id = WriteId(m) /\ \A w \in v .. handle[m] : w >= floor

Search(m) ==
  /\ pc[m] = "search" /\ Found(m)
  /\ At(m, "recorded")
  /\ UNCHANGED <<table, faults, why, batch, call, retries, handle, read, excused>>

(* Not found after a conflict: another attempt, until there were Retries. *)
Retry(m) ==
  /\ pc[m] = "search" /\ ~Found(m) /\ why[m] = "conflict" /\ retries[m] < Retries
  /\ retries' = [retries EXCEPT ![m] = @ + 1]
  /\ excused' = IF Landed(m) THEN excused \cup {<<m, batch[m]>>} ELSE excused
  /\ At(m, "write")
  /\ UNCHANGED <<table, faults, why, batch, call, handle, read>>

\* Mutant: a failure that outlasts the retries is let go.
ReturnErrorDrops(m) ==
  /\ pc[m] = "search" /\ ~Found(m)
  /\ why[m] = "ambiguous" \/ retries[m] = Retries
  /\ At(m, "recorded")
  /\ UNCHANGED <<table, faults, why, batch, call, retries, handle, read, excused>>

\* Mutant: it looks for its commit until it finds it.
ReturnErrorNever(m) ==
  /\ pc[m] = "search" /\ ~Found(m)
  /\ why[m] = "ambiguous" \/ retries[m] = Retries
  /\ At(m, "ambiguous")
  /\ UNCHANGED <<table, faults, why, batch, call, retries, handle, read, excused>>

ReturnError(m) ==
  /\ pc[m] = "search" /\ ~Found(m)
  /\ why[m] = "ambiguous" \/ retries[m] = Retries
  /\ IF floor > read[m] + 1 THEN Return(m) ELSE At(m, "ready") /\ UNCHANGED excused
  /\ UNCHANGED <<table, faults, why, batch, call, retries, handle, read>>

----------------------------------------------------------------------------
(* The batch around it *)

CommitTarget(m) ==
  /\ pc[m] = "recorded"
  /\ batch' = [batch EXCEPT ![m] = @ + 1]
  /\ At(m, "ready")
  /\ UNCHANGED <<table, faults, why, call, retries, handle, read, excused>>

(* The target commit fails, or the process dies anywhere. *)
Restart(m) ==
  /\ pc[m] # "ready" /\ Fault
  /\ Return(m)
  /\ handle' = [handle EXCEPT ![m] = Len(log)]
  /\ UNCHANGED <<table, why, batch, call, retries, read>>

Do(m) ==
  \/ Begin(m) \/ Refuse(m) \/ Write(m) \/ GiveUp(m) \/ Recommit(m) \/ Reopen(m)
  \/ Search(m) \/ Retry(m) \/ ReturnError(m) \/ CommitTarget(m)

Break(m) ==
  LoseAnswer(m) \/ FailWrite(m) \/ StoreError(m) \/ CannotLook(m) \/ Restart(m)

Next ==
  \/ \E m \in Members : Do(m) \/ Break(m)
  \/ Change \/ Protocol \/ Cleanup
  \/ \E f \in Active(log) : Compact(f)

Spec == Init /\ [][Next]_vars

(* A member keeps running, a fault aside. *)
FairSpec == Spec /\ \A m \in Members : WF_vars(Do(m))

----------------------------------------------------------------------------
(* Properties *)

Rows(m, b) == {f \in Active(log) : f[1] = m /\ f[2] = b}

(* Type invariant. *)
TypeOK ==
  /\ pc \in [Members -> {"ready", "write", "lost", "conflict", "ambiguous", "search", "recorded"}]
  /\ retries \in [Members -> 0 .. Retries]
  /\ \A m \in Members : read[m] <= Len(log) /\ handle[m] <= Len(log)

(* A reject is never lost: once the target has passed a batch, or is about to,
   the batch's rejects are in the table, whatever landed unacknowledged, was
   compacted or conflicted. (dq.rs:36) *)
NeverLost ==
  \A m \in Members : \A b \in 1 .. Batches :
    (b < batch[m] \/ (b = batch[m] /\ pc[m] = "recorded")) => Rows(m, b) # {}

(* A snapshot reader sees a reject once, except after a replay that follows a
   crash or a failed target commit, a search that could not be made, and the
   race of a compaction with delta-rs's own retry. (dq.rs:434) *)
OnceUnlessAnnounced ==
  \A m \in Members : \A b \in 1 .. Batches :
    <<m, b>> \notin excused => Cardinality(Rows(m, b)) <= 1

Writable == writable
Through == \A m \in Members : batch[m] > Batches

(* The table being writable from some point on, every batch is through in the end,
   however often its write conflicted. (dq.rs:420) *)
Recorded == <>[]Writable => <>[]Through

=============================================================================
