---------------------------- MODULE OffsetLookup ----------------------------
(***************************************************************************)
(* Reading the newest txn of each appId out of a Delta log (fence.rs,      *)
(* read_txns): the head's commit, the newest complete checkpoint, the      *)
(* commits between, the checkpoint's own answer, and below it the commits  *)
(* that still say which message an offset was (its mark). Meanwhile other  *)
(* engines write checkpoints and clean the log up. A commit is, per appId, *)
(* the version its txn holds (0: none) and whether it recorded a mark; a   *)
(* mark is named by the commit that recorded it.                           *)
(***************************************************************************)
EXTENDS Integers, Sequences, FiniteSets, FiniteSetsExt

CONSTANTS
  Ids,             \* the appIds looked up
  Partitions,      \* those of them that name a partition, and may have a mark
  Last,            \* bound: the newest version of the log
  Values,          \* the versions a txn may hold
  Logs,            \* the logs there may be
  InFlight,        \* IN_FLIGHT
  BelowReads,      \* BELOW_CHECKPOINT_READS
  ListingWindow,   \* LISTING_WINDOW
  MaxWrites,       \* bound: checkpoints written and hints moved
  MaxFaults        \* bound: store faults
(* Assumed of the constants; the suites that instantiate the module assume it. *)
ConstantsAssumption ==
  /\ Partitions \subseteq Ids /\ Last \in Nat /\ Values \subseteq Nat \ {0}
  /\ InFlight \in Nat \ {0} /\ BelowReads \in Nat /\ ListingWindow \in Nat \ {0}
  /\ MaxWrites \in Nat /\ MaxFaults \in Nat
  /\ \A l \in Logs, v \in 0 .. Last, i \in Ids :
       /\ l[v][i].version \in {0} \cup Values /\ l[v][i].marked \in BOOLEAN
       /\ l[v][i].marked => l[v][i].version # 0 /\ i \in Partitions

VARIABLES
  log,       \* what each commit holds
  there,     \* the commits whose files are there
  cps,       \* the checkpoint files of each version
  hint,      \* _last_checkpoint, NoVersion without one
  writes, faults, cleaned,
  pc,        \* where the read is
  head,      \* the handle's version
  bottom,    \* the checkpoint the walk stops at, NoVersion for none
  sent, next,\* commits being read, and the version to consume next
  found,     \* the answers so far
  memo,      \* what reads below a checkpoint found before
  below,     \* commits read below the checkpoint in this call
  answered   \* the appIds whose marks are looked for below it

vars == <<log, there, cps, hint, writes, faults, cleaned, pc, head, bottom, sent, next, found, memo,
          below, answered>>

Versions == 0 .. Last
NoVersion == -1
Files == {"single", "one", "two"}
Unknown == [version |-> -1, mark |-> -1]
NoTxn == [version |-> 0, mark |-> -1]

TypeOK ==
  /\ there \subseteq Versions /\ cps \in [Versions -> SUBSET Files] /\ hint \in NoVersion .. Last
  /\ pc \in {"idle", "head", "list", "walk", "checkpoint", "below", "done", "failed"}
  /\ head \in Versions /\ bottom \in NoVersion .. Last /\ next \in NoVersion .. Last
  /\ Cardinality(DOMAIN sent) <= InFlight
  /\ found \in [Ids -> [version : {-1, 0} \cup Values, mark : NoVersion .. Last]]
  /\ below \in 0 .. BelowReads /\ answered \subseteq Partitions

-----------------------------------------------------------------------------
(* External: what the log says at version v, and what a checkpoint holds. A txn
   is reconciled: the newest commit with it counts. *)
Writers(i, v) == {w \in 0 .. v : log[w][i].version # 0}
Truth(i, v) == IF Writers(i, v) = {} THEN 0 ELSE log[Max(Writers(i, v))][i].version

(* A multi-part checkpoint holds some of the appIds in each part. *)
InFile(i, f) == f = "single" \/ f = (IF i \in Partitions THEN "one" ELSE "two")

Init ==
  /\ log \in Logs
  /\ there = Versions /\ cps = [v \in Versions |-> {}] /\ hint = NoVersion
  /\ writes = 0 /\ faults = 0 /\ cleaned = FALSE
  /\ pc = "idle" /\ head \in Versions /\ bottom = NoVersion /\ sent = <<>> /\ next = NoVersion
  /\ found = [i \in Ids |-> Unknown]
  /\ memo = [checkpoint |-> NoVersion, found |-> [i \in Ids |-> Unknown]] /\ below = 0
  /\ answered = {}

reader == <<pc, head, bottom, sent, next, found, memo, below, answered>>

(* Another engine writes a checkpoint, or one part of one; the hint may follow,
   or not. *)
WriteCheckpoint(v, f) ==
  /\ writes < MaxWrites /\ f \notin cps[v]
  /\ writes' = writes + 1 /\ cps' = [cps EXCEPT ![v] = @ \cup {f}]
  /\ UNCHANGED <<log, there, hint, faults, cleaned, reader>>

MoveHint(v) ==
  /\ writes < MaxWrites /\ hint # v /\ cps[v] # {}
  /\ hint' = v /\ writes' = writes + 1
  /\ UNCHANGED <<log, there, cps, faults, cleaned, reader>>

WholeCheckpoint(v) == "single" \in cps[v] \/ {"one", "two"} \subseteq cps[v]

(* Log cleanup: everything below a complete checkpoint may go, file by file,
   oldest first or not. *)
CleanCommit(v) ==
  /\ v \in there /\ \E c \in v .. Last : WholeCheckpoint(c)
  /\ there' = there \ {v} /\ cleaned' = TRUE
  /\ UNCHANGED <<log, cps, hint, writes, faults, reader>>

CleanCheckpoint(v) ==
  /\ cps[v] # {} /\ \E c \in v + 1 .. Last : WholeCheckpoint(c)
  /\ cps' = [cps EXCEPT ![v] = {}] /\ cleaned' = TRUE
  /\ UNCHANGED <<log, there, hint, writes, faults, reader>>

-----------------------------------------------------------------------------
(* The reader *)

world == <<log, there, cps, hint, writes, cleaned>>

(* record_commit and mark_for: the wanted txns of commit v, unless a newer commit
   gave them. *)
Recorded(v, old) ==
  [i \in Ids |->
     IF old[i] = Unknown /\ log[v][i].version # 0
     THEN [version |-> log[v][i].version, mark |-> IF log[v][i].marked THEN v ELSE NoVersion]
     ELSE old[i]]

AllFound(f) == \A i \in Ids : f[i] # Unknown

(* A read begins: at the handle's version, which a refresh may have moved. *)
Start(h) ==
  /\ pc \in {"idle", "done", "failed"} /\ h >= head
  /\ (pc = "idle" \/ writes < MaxWrites)
  /\ pc' = "head" /\ head' = h /\ found' = [i \in Ids |-> Unknown]
  /\ bottom' = NoVersion /\ sent' = <<>> /\ next' = NoVersion /\ below' = 0
  /\ answered' = {}
  /\ UNCHANGED <<world, faults, memo>>

(* The head's commit, which is usually all that is needed. *)
ReadHead ==
  /\ pc = "head"
  /\ found' = IF head \in there THEN Recorded(head, found) ELSE found
  /\ pc' = IF AllFound(found') THEN "done" ELSE "list"
  /\ next' = IF head \in there THEN head - 1 ELSE head
  /\ UNCHANGED <<world, faults, head, bottom, sent, memo, below, answered>>

(* complete *)
Complete(v) == "single" \in cps[v] \/ {"one", "two"} \subseteq cps[v]

(* checkpoint_between *)
Between(from, to) == {v \in from .. to : Complete(v)}

(* newest_checkpoint: the hint says only where the listing starts. *)
NewestCheckpoint ==
  LET window == IF head < ListingWindow THEN 0 ELSE head - (ListingWindow - 1)
      from == IF hint # NoVersion /\ hint <= head THEN hint ELSE window
      near == Between(from, head)
  IN IF near # {} THEN Max(near)
     ELSE IF Between(0, head) # {} THEN Max(Between(0, head)) ELSE NoVersion

(* The head's own commit may be missing only where a checkpoint stands for it. *)
HeadStands(c) == c = head

List ==
  /\ pc = "list"
  /\ LET c == NewestCheckpoint IN
     /\ bottom' = c
     /\ pc' = IF next = head /\ ~HeadStands(c) THEN "failed" ELSE "walk"
     /\ next' = head - 1
  /\ UNCHANGED <<world, faults, head, sent, found, memo, below, answered>>

(* Commits are asked for a few ahead of the one consumed, and consumed newest
   first; what a GET found is what was there when it was answered. *)
Floor == IF pc = "walk" THEN Max({0, bottom}) ELSE Max({0, bottom - BelowReads})
Ahead == next - Len(sent)

Send ==
  /\ pc \in {"walk", "below"} /\ Len(sent) < InFlight /\ Ahead >= Floor
  /\ sent' = Append(sent, IF Ahead \in there THEN "read" ELSE "gone")
  /\ below' = IF pc = "below" THEN below + 1 ELSE below
  /\ UNCHANGED <<world, faults, pc, head, bottom, next, found, memo, answered>>

\* Mutant: a commit that is gone is passed over.
WalkOnOver ==
  /\ pc = "walk" /\ sent # <<>>
  /\ found' = IF Head(sent) = "read" THEN Recorded(next, found) ELSE found
  /\ pc' = IF AllFound(found') THEN "done" ELSE pc
  /\ sent' = Tail(sent) /\ next' = next - 1
  /\ UNCHANGED <<world, faults, head, bottom, memo, below, answered>>

\* Mutant: without a checkpoint the walk is told it stops short of version 0.
WalkEndsShort ==
  /\ pc = "walk" /\ sent = <<>> /\ next < Floor
  /\ pc' = IF bottom = NoVersion THEN "failed" ELSE "checkpoint"
  /\ UNCHANGED <<world, faults, head, bottom, sent, next, found, memo, below, answered>>

(* walk: one commit consumed. One that is gone is an error, but for the commit
   the checkpoint stands for. *)
WalkOn ==
  /\ pc = "walk" /\ sent # <<>>
  /\ \/ /\ Head(sent) = "read"
        /\ found' = Recorded(next, found)
        /\ pc' = IF AllFound(found') THEN "done" ELSE pc
     \/ /\ Head(sent) = "gone" /\ next = bottom
        /\ UNCHANGED <<found, pc>>
     \/ /\ Head(sent) = "gone" /\ next # bottom
        /\ pc' = "failed" /\ found' = found
  /\ sent' = Tail(sent) /\ next' = next - 1
  /\ UNCHANGED <<world, faults, head, bottom, memo, below, answered>>

(* The walk is over: what is still missing is the checkpoint's to say, or, at
   version 0, absent. *)
WalkEnds ==
  /\ pc = "walk" /\ sent = <<>> /\ next < Floor
  /\ IF bottom = NoVersion
     THEN pc' = "done" /\ found' = [i \in Ids |-> IF found[i] = Unknown THEN NoTxn ELSE found[i]]
     ELSE pc' = "checkpoint" /\ found' = found
  /\ UNCHANGED <<world, faults, head, bottom, sent, next, memo, below, answered>>

Rest == {i \in Ids : found[i] = Unknown}

(* checkpoint_txns: the answer of the checkpoint's files. *)
CheckpointSays(i) ==
  IF \E f \in cps[bottom] : InFile(i, f) THEN Truth(i, bottom) ELSE 0

(* The memo is of one checkpoint. *)
Renewed ==
  IF memo.checkpoint = bottom THEN memo
  ELSE [checkpoint |-> bottom, found |-> [i \in Ids |-> Unknown]]

(* The appIds the checkpoint or the kernel answered that may carry a mark. *)
Answered(told) == {i \in Rest \cap Partitions : told[i].version # 0}

(* What they answered, and which of the offsets are worth a walk below it: not those
   whose mark is remembered from an earlier one. *)
Answer(say) ==
  LET told == [i \in Ids |->
                 IF i \in Rest THEN [version |-> say[i], mark |-> NoVersion] ELSE found[i]]
      kept == {i \in Answered(told) : Renewed.found[i].version = told[i].version}
  IN /\ memo' = IF Answered(told) = {} THEN memo ELSE Renewed
     /\ found' = [i \in Ids |-> IF i \in kept THEN Renewed.found[i] ELSE told[i]]
     /\ answered' = Answered(told) \ kept
     /\ pc' = IF answered' = {} THEN "done" ELSE "below"
     /\ next' = bottom - 1 /\ sent' = <<>>

ReadCheckpoint ==
  /\ pc = "checkpoint" /\ Complete(bottom)
  /\ Answer([i \in Ids |-> CheckpointSays(i)])
  /\ UNCHANGED <<world, faults, head, bottom, below>>

(* kernel_lookups: the checkpoint cannot be read here, or is gone; the kernel
   answers for the handle's version (external), or fails. *)
AskKernel ==
  /\ pc = "checkpoint" /\ (~Complete(bottom) \/ faults < MaxFaults)
  /\ faults' = IF ~Complete(bottom) THEN faults ELSE faults + 1
  /\ \/ Answer([i \in Ids |-> Truth(i, head)]) /\ bottom' = bottom
     \/ /\ pc' = "failed" /\ UNCHANGED <<bottom, sent, next, found, memo, answered>>
  /\ UNCHANGED <<world, head, below>>

-----------------------------------------------------------------------------
(* below_checkpoint *)

\* Mutant: the newest mark below is taken whatever its offset.
MetAny(i) == [version |-> found[i].version, mark |-> IF log[next][i].marked THEN next ELSE NoVersion]

(* What commit `next', the newest with a txn of i, says of the answer. *)
Met(i) ==
  IF log[next][i].marked /\ log[next][i].version = found[i].version
  THEN [version |-> found[i].version, mark |-> next]
  ELSE [version |-> found[i].version, mark |-> NoVersion]

\* Mutant: a gap below the checkpoint is passed over.
BelowOverGaps ==
  /\ pc = "below" /\ sent # <<>>
  /\ LET met == {i \in answered : Head(sent) = "read" /\ log[next][i].version # 0} IN
     /\ found' = [i \in Ids |-> IF i \in met THEN Met(i) ELSE found[i]]
     /\ memo' = [memo EXCEPT !.found = [i \in Ids |-> IF i \in met THEN Met(i) ELSE @[i]]]
     /\ answered' = answered \ met
     /\ pc' = IF answered' = {} THEN "done" ELSE "below"
  /\ sent' = Tail(sent) /\ next' = next - 1
  /\ UNCHANGED <<world, faults, head, bottom, below>>

BelowOn ==
  /\ pc = "below" /\ sent # <<>> /\ Head(sent) = "read"
  /\ LET met == {i \in answered : log[next][i].version # 0} IN
     /\ found' = [i \in Ids |-> IF i \in met THEN Met(i) ELSE found[i]]
     /\ memo' = [memo EXCEPT !.found = [i \in Ids |-> IF i \in met THEN Met(i) ELSE @[i]]]
     /\ answered' = answered \ met
     /\ pc' = IF answered' = {} THEN "done" ELSE "below"
  /\ sent' = Tail(sent) /\ next' = next - 1
  /\ UNCHANGED <<world, faults, head, bottom, below>>

GiveUp ==
  /\ memo' = [memo EXCEPT !.found =
                [i \in Ids |-> IF i \in answered THEN [version |-> found[i].version, mark |-> NoVersion]
                               ELSE @[i]]]
  /\ pc' = "done" /\ sent' = <<>>

(* The walk below ends at a gap, at a commit that cannot be used, or at its
   floor: those offsets stay without a mark, and the memo says so. *)
BelowEnds ==
  /\ pc = "below"
  /\ \/ sent # <<>> /\ Head(sent) = "gone" /\ faults' = faults
     \/ sent # <<>> /\ Head(sent) = "read" /\ faults < MaxFaults /\ faults' = faults + 1
     \/ sent = <<>> /\ next < Floor /\ faults' = faults
  /\ GiveUp
  /\ UNCHANGED <<world, head, bottom, next, found, below, answered>>

(* A store fault that may pass fails the read. *)
Outage ==
  /\ pc \in {"head", "list", "walk", "below"} /\ faults < MaxFaults
  /\ faults' = faults + 1 /\ pc' = "failed"
  /\ UNCHANGED <<world, head, bottom, sent, next, found, memo, below, answered>>

Next ==
  \/ \E v \in Versions : \/ \E f \in Files : WriteCheckpoint(v, f)
                         \/ MoveHint(v) \/ CleanCommit(v) \/ CleanCheckpoint(v) \/ Start(v)
  \/ ReadHead \/ List \/ Send \/ WalkOn \/ WalkEnds \/ ReadCheckpoint \/ AskKernel
  \/ BelowOn \/ BelowEnds \/ Outage

Spec == Init /\ [][Next]_vars

-----------------------------------------------------------------------------
(* A read that succeeds gives the newest txn of every appId at the handle's
   version, whatever checkpoints came and whatever log cleanup took meanwhile: an
   answer older than the truth would move an offset backwards. *)
Newest == pc = "done" => \A i \in Ids : found[i].version = Truth(i, head)

(* A mark is the one recorded beside the offset it is returned with. *)
MarkIsTheOffsets ==
  pc = "done" =>
    \A i \in Ids : found[i].mark # NoVersion =>
      /\ found[i].mark <= head /\ log[found[i].mark][i].marked
      /\ log[found[i].mark][i].version = found[i].version

(* A mark comes from the newest commit the reader knows to hold the txn: nothing
   between it and the handle's version wrote another offset. *)
MarkIsNewest ==
  pc = "done" =>
    \A i \in Ids : found[i].mark # NoVersion =>
      \A w \in found[i].mark .. head : log[w][i].version \in {0, found[i].version}

(* While nothing was cleaned up and the store answers, a read succeeds. *)
NoNeedlessFailure == pc = "failed" => cleaned \/ faults > 0

(* What a read is for, and what its callers rest on. *)
NewestFound == Newest /\ MarkIsTheOffsets /\ MarkIsNewest /\ NoNeedlessFailure

=============================================================================
