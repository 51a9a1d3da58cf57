------------------------------ MODULE TableOpen ------------------------------
(***************************************************************************)
(* Opening a Delta table beside engines whose checkpoints this build may   *)
(* not be able to parse (src/src/storage.rs): the ordinary open, the       *)
(* replay of the commit log with the checkpoints there hidden, an older    *)
(* version for a lookup, and commits through the handle, which write       *)
(* checkpoints of their own.                                               *)
(*                                                                         *)
(* Commit v adds row v, so that a snapshot is the set of commits in it.    *)
(* The kernel's loading of a snapshot, and the other engines, are          *)
(* external.                                                               *)
(***************************************************************************)
EXTENDS Integers, FiniteSets, FiniteSetsExt

CONSTANTS
  MaxVersion,     \* bound: the newest version
  Interval,       \* delta.checkpointInterval
  MaxForeign,     \* bound: checkpoints of other engines
  CleanupRaces,   \* whether log cleanup may fall between the look at commit 0 and the loads
                  \* that rest on it
  CleanupPartial  \* whether it may leave some of the commits below a checkpoint

(* Assumed of the constants; the suites that instantiate the module assume it. *)
ConstantsAssumption ==
  /\ MaxVersion \in Nat /\ Interval \in Nat \ {0} /\ MaxForeign \in Nat
  /\ {CleanupRaces, CleanupPartial} \subseteq BOOLEAN

VARIABLES
  head,      \* the newest version
  there,     \* the commits still in the log
  cps,       \* the checkpoints: what each holds and whether this build can parse it
  foreign,   \* how many checkpoints other engines wrote
  pc,        \* "closed", "plain", "zero", "replay", "open", "travelled"
  want,      \* the version asked for, Now for the newest
  handle,    \* [version, holds, filtered, ours]
  hook       \* whether every commit's post-commit work succeeded

vars == <<head, there, cps, foreign, pc, want, handle, hook>>
table == <<head, there, cps, foreign>>

Now == -1
Versions == 0 .. MaxVersion
NoHandle == [version |-> 0, holds |-> {}, filtered |-> FALSE, ours |-> {}]
Checkpoint(holds, readable) == [holds |-> holds, readable |-> readable]

Init ==
  /\ head = 0 /\ there = {0} /\ cps = [c \in {} |-> Checkpoint({}, TRUE)] /\ foreign = 0
  /\ pc = "closed" /\ want = Now /\ handle = NoHandle /\ hook = TRUE

----------------------------------------------------------------------------
(* External: a snapshot at version v from the checkpoints a store shows.  The
   newest checkpoint stands for the commits up to it; the commits listed have
   to be contiguous, but need not start at version 0. *)

Base(seen, v) == LET below == {c \in seen : c <= v} IN IF below = {} THEN -1 ELSE Max(below)
Listed(seen, v) == {w \in there : Base(seen, v) < w /\ w <= v}
Holds(seen, v) ==
  Listed(seen, v) \cup (IF Base(seen, v) = -1 THEN {} ELSE cps[Base(seen, v)].holds)
Unreadable(seen, v) == Base(seen, v) # -1 /\ ~cps[Base(seen, v)].readable
Contiguous(seen, v) ==
  IF Base(seen, v) # -1 THEN Listed(seen, v) = Base(seen, v) + 1 .. v
  ELSE Listed(seen, v) # {} /\ Listed(seen, v) = Min(Listed(seen, v)) .. v

\* Mutant: every checkpoint is hidden, written through the store or not.
HiddenAlways(h, c) == h.filtered

(* The checkpoints that were there when the log was replayed are hidden; the
   ones written through the store since are not. *)
Hidden(h, c) == h.filtered /\ c \notin h.ours
Seen == {c \in DOMAIN cps : ~Hidden(handle, c)}

----------------------------------------------------------------------------
(* Other engines *)

ForeignCommit ==
  /\ head < MaxVersion
  /\ head' = head + 1
  /\ there' = there \cup {head + 1}
  /\ UNCHANGED <<cps, foreign, pc, want, handle, hook>>

ForeignCheckpoint(readable) ==
  /\ foreign < MaxForeign /\ Contiguous(DOMAIN cps, head)
  /\ foreign' = foreign + 1
  /\ cps' = [c \in DOMAIN cps \cup {head} |->
               IF c = head THEN Checkpoint(Holds(DOMAIN cps, head), readable) ELSE cps[c]]
  /\ UNCHANGED <<head, there, pc, want, handle, hook>>

(* Commit 0 has been seen, and a load that rests on it is still to come. *)
Trusting == pc = "replay" \/ (pc = "open" /\ want # Now /\ handle.filtered)

(* Log cleanup removes, oldest first, what lies below the newest checkpoint. *)
Cleanup(k) ==
  /\ CleanupRaces \/ ~Trusting
  /\ CleanupPartial \/ k = Base(DOMAIN cps, head)
  /\ there' = {v \in there : v >= k} /\ there' # there
  /\ cps' = [c \in {d \in DOMAIN cps : d >= k} |-> cps[c]]
  /\ UNCHANGED <<head, foreign, pc, want, handle, hook>>

----------------------------------------------------------------------------
(* Opening *)

Opened(v, holds, filtered, ours) ==
  handle' = [version |-> v, holds |-> holds, filtered |-> filtered, ours |-> ours]
Fail == pc' = "closed" /\ handle' = NoHandle

(* Storage::open, open_at_version and open_at_datetime begin alike. *)
Open(v) ==
  /\ pc = "closed"
  /\ want' = v /\ pc' = "plain"
  /\ UNCHANGED <<table, handle, hook>>

\* Mutant: an unreadable checkpoint is a failure like any other.
PlainGivesUp ==
  /\ pc = "plain"
  /\ IF ~Unreadable(DOMAIN cps, head) /\ Contiguous(DOMAIN cps, head)
     THEN pc' = "open" /\ Opened(head, Holds(DOMAIN cps, head), FALSE, {})
     ELSE Fail
  /\ UNCHANGED <<table, want, hook>>

(* The ordinary open of the newest version. *)
Plain ==
  /\ pc = "plain"
  /\ IF Unreadable(DOMAIN cps, head) THEN pc' = "zero" /\ UNCHANGED handle
     ELSE IF Contiguous(DOMAIN cps, head)
     THEN pc' = "open" /\ Opened(head, Holds(DOMAIN cps, head), FALSE, {})
     ELSE Fail
  /\ UNCHANGED <<table, want, hook>>

\* Mutant: the log is replayed from wherever it starts.
CheckZeroNot ==
  /\ pc = "zero" /\ pc' = "replay"
  /\ UNCHANGED <<table, want, handle, hook>>

(* open_replaying_the_log: commit 0 is looked for first. *)
CheckZero ==
  /\ pc = "zero"
  /\ IF 0 \in there THEN pc' = "replay" /\ UNCHANGED handle ELSE Fail
  /\ UNCHANGED <<table, want, hook>>

(* Then the log is loaded as though it had no checkpoint. *)
Replay ==
  /\ pc = "replay"
  /\ \/ /\ Contiguous({}, head)
        /\ pc' = "open" /\ Opened(head, Holds({}, head), TRUE, {})
     \/ (~Contiguous({}, head) \/ 0 \notin there) /\ Fail
  /\ UNCHANGED <<table, want, hook>>

(* A lookup's older version: a checkpoint below it may be unreadable though the
   newest is not. *)
Travel ==
  /\ pc = "open" /\ want # Now
  /\ IF Unreadable(Seen, want) THEN pc' = "zero" /\ UNCHANGED handle
     ELSE IF Contiguous(Seen, want)
     THEN pc' = "travelled" /\ Opened(want, Holds(Seen, want), handle.filtered, handle.ours)
     ELSE Fail
  /\ UNCHANGED <<table, want, hook>>

(* It is read, and let go. *)
Close ==
  /\ pc = "travelled" /\ Fail
  /\ UNCHANGED <<table, want, hook>>

----------------------------------------------------------------------------
(* Committing through the handle.  delta-rs brings the snapshot up to the newest
   version first, from the checkpoints it sees above its own. *)

Newer == {c \in Seen : c > handle.version}

Rebased == {head + 1} \cup (IF Newer = {} THEN handle.holds \cup (handle.version + 1 .. head)
                            ELSE Holds(Newer, head))

(* A commit that is due a checkpoint writes one, through the same store, and reads
   it back. *)
CommitChecked(recorded) ==
  LET v == head + 1
      due == v % Interval = 0
  IN  /\ pc = "open" /\ want = Now /\ v <= MaxVersion
      /\ ~Unreadable(Newer, head)
      /\ (Base(Newer, head) + 1 .. head) \ (0 .. handle.version) \subseteq there
      /\ head' = v /\ there' = there \cup {v}
      /\ cps' = [c \in DOMAIN cps \cup (IF due THEN {v} ELSE {}) |->
                   IF c = v THEN Checkpoint(recorded, TRUE) ELSE cps[c]]
      /\ Opened(v, Rebased, handle.filtered, handle.ours \cup (IF due THEN {v} ELSE {}))
      /\ hook' = (hook /\ (due => ~Hidden(handle', v)))
      /\ UNCHANGED <<foreign, pc, want>>

\* Mutant: the checkpoint is of the snapshot before it was brought up to date.
CommitLagging == CommitChecked(handle.holds \cup {head + 1})

Commit == CommitChecked(Rebased)

(* It cannot: nothing is committed, and the table is opened again. *)
Reopen ==
  /\ pc = "open" /\ want = Now
  /\ \/ Unreadable(Newer, head)
     \/ ~((Base(Newer, head) + 1 .. head) \ (0 .. handle.version) \subseteq there)
  /\ Fail
  /\ UNCHANGED <<table, want, hook>>

Do == Open(Now) \/ Plain \/ CheckZero \/ Replay \/ Travel \/ Close \/ Reopen
Others ==
  \/ ForeignCommit
  \/ \E k \in 0 .. Base(DOMAIN cps, head) : Cleanup(k)
  \/ \E readable \in BOOLEAN : ForeignCheckpoint(readable)

Next == Do \/ Commit \/ Others \/ \E v \in 0 .. head : Open(v)

Spec == Init /\ [][Next]_vars

(* The process keeps trying to open the table, and a read of it ends. *)
FairSpec == Spec /\ WF_vars(Do)

----------------------------------------------------------------------------
(* Properties *)

(* Type invariant. *)
TypeOK ==
  /\ head \in Versions /\ there \subseteq 0 .. head /\ DOMAIN cps \subseteq 0 .. head
  /\ pc \in {"closed", "plain", "zero", "replay", "open", "travelled"}
  /\ handle.version \in 0 .. head /\ handle.ours \subseteq DOMAIN cps \cup 0 .. head
  /\ pc = "travelled" => handle.version = want

(* A handle shows every row up to its version: no open ever builds a table out of
   the commits that happen to survive. (storage.rs, open_replaying_the_log) *)
SnapshotWhole == pc \in {"open", "travelled"} => handle.holds = 0 .. handle.version

(* Nor does a checkpoint ever record such a table as fact, for every engine. *)
CheckpointsWhole == \A c \in DOMAIN cps : cps[c].holds = 0 .. c

(* Hiding checkpoints never breaks a commit: the checkpoint it writes can be read
   back through the same handle. (storage.rs, WithoutCheckpoints) *)
CommitCompletes == hook

Whole == 0 \in there
Served == pc = "travelled" \/ (pc = "open" /\ want = Now)

(* While the log reaches back to version 0, whatever checkpoints are there, the table
   is open again and again, at the version that was asked for. *)
OpensWhileWhole == <>[]Whole => []<>Served

=============================================================================
