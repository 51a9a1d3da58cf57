----------------------------- MODULE TargetGuard -----------------------------
(***************************************************************************)
(* What a Kafka writer asks of its target around every commit (src/src/    *)
(* kafka/step.rs try_commit, refresh_target, recheck_blocked; fence.rs     *)
(* commit_exists, protocol_changed_since, stored_table_id,                 *)
(* protects_checkpoints), while other engines drop and recreate the table  *)
(* in place, upgrade its protocol, protect its checkpoints and clean its   *)
(* log.  Offsets and rows are KafkaPipeline's; here a commit is a version. *)
(***************************************************************************)
EXTENDS Integers, FiniteSets, FiniteSetsExt

CONSTANTS
  MaxVersion,        \* bound on the versions of a table
  MaxTables,         \* bound on the tables that are at the location in turn
  MaxAge,            \* handle_max_age, in ticks
  Interval,          \* delta.checkpointInterval
  Overtakes,         \* a recreated table may have as many versions as the handle
  Reopens,           \* an incremental refresh may fail, and the table be opened again
  PartitionBlocked,  \* a partition waits for an operator, and is rechecked
  Rebases            \* delta-rs rebases over a writer-only upgrade (0.32), or refuses (1.1)

(* Assumed of the constants; the suites that instantiate the module assume it. *)
ConstantsAssumption ==
  /\ {MaxVersion, MaxTables, MaxAge, Interval} \subseteq Nat \ {0}
  /\ {Overtakes, Reopens, PartitionBlocked, Rebases} \subseteq BOOLEAN

None == -1
Opened == 1    \* the table the pipeline opened

VARIABLES
  id, present, checkpoints,  \* the table at the location: its id, commits, checkpoints
  upgraded, protected,       \* the versions that made it unwritable, protected; None
  handle,   \* the writer's: [id, ver, up, prot]
  age,      \* ticks since the handle moved by a commit or a reset
  since,    \* ticks since the table was recreated
  phase,    \* "idle", "refresh", "proto", "commit", "post" or "reset"
  held,     \* why the pipeline holds: "none", "replaced" or "unwritable"
  clean,    \* the commit under way cleans up the log
  seen,     \* its read of the commits after the handle met an upgraded table
  landed    \* the writer's commits: [table, at, over, seen, since]

table == <<id, present, checkpoints, upgraded, protected>>
writer == <<handle, phase, held, clean, seen, landed>>
vars == <<table, writer, age, since>>

Head == Max(present)
Above(v) == {w \in present : w > v}

----------------------------------------------------------------------------
(* The questions *)

\* Mutant: the log is not asked for the handle's own commit.
CommitExistsAssumed == TRUE

(* commit_exists. *)
CommitExists == handle.ver \in present

\* Mutant: only an upgrade the handle already has counts.
ProtocolChangedNot == FALSE

(* protocol_changed_since: the commits after the handle, up to the first that is not
   there. *)
ProtocolChanged ==
  \E c \in {upgraded, protected} :
    c > handle.ver /\ \A v \in (handle.ver + 1) .. c : v \in present

(* protects_checkpoints, cleans_up: not on a table that protects its checkpoints, and
   only with a commit that also checkpoints. *)
ProtectsCheckpoints == handle.prot
\* Mutant: the caller's wish is enough.
CleansUpAnyway == (handle.ver + 2) % Interval = 0
CleansUp == (handle.ver + 2) % Interval = 0 /\ ~ProtectsCheckpoints

\* Mutant: without commit 0 nothing is known of the table.
StoredTableIdZero == IF 0 \in present THEN id ELSE 0
\* Mutant: the handle is asked, not the log.
StoredTableIdHandle == handle.id

(* stored_table_id: commit 0, else the newest checkpoint, else the handle's own. *)
StoredTableId == IF 0 \in present \/ checkpoints # {} THEN id ELSE handle.id

----------------------------------------------------------------------------
(* refresh_target *)

(* update_incremental reads the commits after the handle's version and no metaData. *)
Incremental ==
  [handle EXCEPT !.ver = Max(present \cup {@}), !.up = @ \/ upgraded > handle.ver,
                 !.prot = @ \/ protected > handle.ver]
Reopened == [id |-> id, ver |-> Head, up |-> upgraded # None, prot |-> protected # None]

(* What a refresh finds, and the handle it leaves: r is whether it opened again. *)
Handle(r) == IF r THEN Reopened ELSE Incremental
Found(r) == IF r THEN id ELSE StoredTableId
RefreshError(r) ==
  IF Found(r) # Opened THEN "replaced" ELSE IF Handle(r).up THEN "unwritable" ELSE "none"

(* A commit file that log cleanup removed fails the incremental refresh. *)
Ways == {r \in BOOLEAN : IF r THEN Reopens \/ ~(Above(handle.ver) = (handle.ver + 1) .. Head)
                         ELSE Above(handle.ver) = (handle.ver + 1) .. Head}

----------------------------------------------------------------------------

Init ==
  /\ id = Opened /\ present = {0, 1} /\ checkpoints = {}
  /\ upgraded = None /\ protected = None
  /\ handle = [id |-> Opened, ver |-> 1, up |-> FALSE, prot |-> FALSE]
  /\ age = 0 /\ since = 0 /\ phase = "idle" /\ held = "none"
  /\ clean = FALSE /\ seen = FALSE /\ landed = {}

(* try_commit, step 1: a handle too old, or whose commit is gone, is refreshed. *)
TryCommit ==
  /\ phase = "idle" /\ held = "none"
  /\ phase' = IF age >= MaxAge \/ ~CommitExists THEN "refresh" ELSE "proto"
  /\ UNCHANGED <<table, handle, age, since, held, clean, seen, landed>>

(* The refresh within an attempt, or a reset_in_place after a conflict. *)
RefreshTarget(r) ==
  /\ phase \in {"refresh", "reset"} /\ r \in Ways
  /\ handle' = Handle(r) /\ held' = RefreshError(r)
  /\ age' = IF held' = "none" THEN 0 ELSE age
  /\ phase' = IF held' = "none" /\ phase = "refresh" THEN "proto" ELSE "idle"
  /\ UNCHANGED <<table, since, clean, seen, landed>>

CheckProtocol ==
  /\ phase = "proto"
  /\ phase' = IF ProtocolChanged THEN "reset" ELSE "commit"
  /\ clean' = CleansUp /\ seen' = (upgraded # None)
  /\ UNCHANGED <<table, handle, age, since, held, landed>>

(* delta-rs: the commits after the handle are read and refused or rebased over. *)
Winners == (handle.ver + 1) .. Max(present \cup {handle.ver})
Conflicts ==
  ~(Winners \subseteq present) \/ protected \in Winners \/ (upgraded \in Winners /\ ~Rebases)

CommitConflicts ==
  /\ phase = "commit" /\ Conflicts
  /\ phase' = "reset"
  /\ UNCHANGED <<table, handle, age, since, held, clean, seen, landed>>

CommitLands ==
  /\ phase = "commit" /\ ~Conflicts
  /\ LET at == Max(present \cup {handle.ver}) + 1 IN
       /\ at <= MaxVersion
       /\ present' = present \cup {at}
       /\ handle' = [Incremental EXCEPT !.ver = at]
       /\ landed' = landed \cup {[table |-> id, at |-> at, over |-> upgraded # None,
                                  seen |-> seen, since |-> since]}
  /\ age' = 0 /\ phase' = "post"
  /\ UNCHANGED <<id, checkpoints, upgraded, protected, since, held, clean, seen>>

AfterCommit == IF handle.up THEN "unwritable" ELSE "none"

(* delta-rs's post-commit checkpoint and cleanup, then the backstop. *)
PostCommit ==
  /\ phase = "post"
  /\ LET made == IF (handle.ver + 1) % Interval = 0 THEN checkpoints \cup {handle.ver} ELSE checkpoints
         kept == IF made = {} THEN 0 ELSE Max(made) IN
       /\ checkpoints' = IF clean THEN {c \in made : c >= kept} ELSE made
       /\ present' = IF clean THEN {v \in present : v >= kept} ELSE present
  /\ held' = AfterCommit /\ phase' = "idle"
  /\ UNCHANGED <<id, upgraded, protected, handle, age, since, clean, seen, landed>>

(* recheck_for_batch: what holds is looked at again. *)
RecheckHeld(r) ==
  /\ phase = "idle" /\ held # "none" /\ r \in Ways
  /\ handle' = Handle(r) /\ held' = RefreshError(r)
  /\ age' = IF held' = "none" THEN 0 ELSE age
  /\ UNCHANGED <<table, since, phase, clean, seen, landed>>

(* recheck_blocked: a refresh that fails leaves the handle it read, and the pipeline
   goes on with its other partitions. *)
RecheckBlocked(r) ==
  /\ PartitionBlocked /\ phase = "idle" /\ held = "none" /\ r \in Ways
  /\ handle' = Handle(r)
  /\ age' = IF RefreshError(r) = "none" THEN 0 ELSE age
  /\ UNCHANGED <<table, since, phase, held, clean, seen, landed>>

----------------------------------------------------------------------------
(* Other engines *)

Grows ==
  /\ Head < MaxVersion /\ (id # Opened /\ ~Overtakes => Head + 1 < handle.ver)
  /\ present' = present \cup {Head + 1}

ForeignCommit ==
  /\ Grows
  /\ \/ UNCHANGED <<upgraded, protected>>
     \/ upgraded = None /\ upgraded' = Head + 1 /\ UNCHANGED protected
     \/ protected = None /\ protected' = Head + 1 /\ UNCHANGED upgraded
  /\ UNCHANGED <<id, checkpoints, writer, age, since>>

(* A log is cleaned below a checkpoint, and never at a handle younger than MaxAge. *)
ForeignCleanup ==
  /\ \E c \in present :
       /\ id = Opened /\ age < MaxAge => c <= handle.ver
       /\ protected = None
       /\ checkpoints' = {c} /\ present' = {v \in present : v >= c}
  /\ UNCHANGED <<id, upgraded, protected, writer, age, since>>

(* Dropped and recreated between two attempts. *)
Recreate ==
  /\ phase = "idle" /\ id < MaxTables
  /\ \E k \in 0 .. MaxVersion :
       /\ Overtakes \/ k < handle.ver
       /\ present' = 0 .. k
  /\ id' = id + 1 /\ checkpoints' = {} /\ upgraded' = None /\ protected' = None /\ since' = 0
  /\ UNCHANGED <<writer, age>>

Tick ==
  /\ age < MaxAge \/ since <= MaxAge
  /\ age' = IF age < MaxAge THEN age + 1 ELSE age
  /\ since' = IF id # Opened /\ since <= MaxAge THEN since + 1 ELSE since
  /\ UNCHANGED <<table, writer>>

Write ==
  \/ TryCommit \/ CheckProtocol \/ CommitConflicts \/ CommitLands \/ PostCommit
  \/ \E r \in BOOLEAN : RefreshTarget(r) \/ RecheckHeld(r)

Next ==
  \/ Write \/ \E r \in BOOLEAN : RecheckBlocked(r)
  \/ ForeignCommit \/ ForeignCleanup \/ Recreate \/ Tick

Spec == Init /\ [][Next]_vars
FairSpec == Spec /\ WF_vars(Write)

----------------------------------------------------------------------------
(* Properties *)

(* Type invariant. *)
TypeOK ==
  /\ id \in 1 .. MaxTables /\ present \subseteq 0 .. MaxVersion /\ present # {}
  /\ checkpoints \subseteq 0 .. MaxVersion /\ upgraded \in None .. MaxVersion /\ protected \in None .. MaxVersion
  /\ handle \in [id : 1 .. MaxTables, ver : 0 .. MaxVersion, up : BOOLEAN, prot : BOOLEAN]
  /\ age \in 0 .. MaxAge /\ since \in 0 .. MaxAge + 1
  /\ phase \in {"idle", "refresh", "proto", "commit", "post", "reset"}
  /\ held \in {"none", "replaced", "unwritable"} /\ {clean, seen} \subseteq BOOLEAN

(* A commit lands in the table that was opened, never in one recreated in its place.
   (tests/kafka_targets.rs:143) *)
InOwnTable == \A c \in landed : c.table = Opened

(* No commit lands over an upgrade its own read of the log could have met: only one that
   lands between that read and the commit lets a commit through, and none after it.
   (step.rs:863, 889) *)
UpgradeHeeded == \A c \in landed : c.seen => ~c.over

(* No cleanup of ours touches a log whose protection landed before the commit.
   (fence.rs:1739) *)
ProtectedKept ==
  phase = "post" /\ phase' = "idle" /\ (present' # present \/ ~(checkpoints \subseteq checkpoints'))
    => protected = None \/ protected > handle.ver

(* The writer takes its table for replaced only where it was, however much of the log
   other engines cleaned up. (fence.rs:1569) *)
NoFalseAlarm == held = "replaced" => id # Opened

(* Whatever other engines do to the target between and during attempts, a commit lands
   in its own table and under the protocol its read could meet, and the pipeline is
   held only for cause. *)
TargetGuarded == InOwnTable /\ UpgradeHeeded /\ NoFalseAlarm

(* From some point on: a recreated table has stopped the pipeline, with no operator's
   help. *)
Noticed == id # Opened => held = "replaced"

=============================================================================
