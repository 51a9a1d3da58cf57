---------------------------- MODULE KafkaPipeline ----------------------------
(***************************************************************************)
(* The members of one Kafka pipeline: src/src/kafka/step.rs, partitions.rs,*)
(* rebalance.rs and start.rs, with the fence (fence.rs) that decides which *)
(* offsets a commit carries, and the operator's set-offsets.               *)
(*                                                                         *)
(* The target's log is the only durable state.  A commit holds rows and a  *)
(* txn per partition it asserts; delta-rs refuses it when a commit that    *)
(* landed after its handle wrote a txn of one of the same partitions, or   *)
(* the takeover marker with it.  The consumer group hands partitions out,  *)
(* and can give them to another member while the first still acts on them. *)
(*                                                                         *)
(* A commit's put whose answer never comes (a timeout, a crash) may still  *)
(* land later, at the version it was meant for: `late'.                    *)
(*                                                                         *)
(* Left out: topics that shrink or are recreated (Regressed by truncation, *)
(* Replaced), expiry of txns under ddi, rejects and decoding.              *)
(***************************************************************************)
EXTENDS Integers, Sequences, FiniteSets

CONSTANTS
    Member,       \* processes of the group
    Partition,    \* partitions of the topic
    Holes,        \* <<p, o>>: offsets without a message (compaction, markers)
    Explicit,     \* starting_offsets entries; None where there is none
    Rest,         \* "earliest" or "latest", for the other partitions
    Inherited,    \* the target's commits before ddi first opened it
    AllowReplay,  \* whether the operator passes --allow-replay
    FailsAt,      \* which reads of a refresh may fail: handle, id, offsets, watermarks
    InitHigh,     \* bound: the high watermarks at the start
    MaxHigh,      \* bound: high watermarks
    MaxLow,       \* bound: low watermarks
    MaxFaults     \* bound: faults, rebalances and operator commands

None == -1

\* A commit of the target, for this app_id: who wrote it, its txns, the offsets
\* whose rows it holds, and whether it writes the takeover marker.
Commit ==
    [by     : {"kdi", "batch", "baseline", "override"},
     txn    : [Partition -> Nat \cup {None}],
     rows   : [Partition -> SUBSET Nat],
     marker : BOOLEAN]

ASSUME ConstantsAssumption ==
    /\ Holes \subseteq Partition \X Nat
    /\ Explicit \in [Partition -> Nat \cup {None}]
    /\ Rest \in {"earliest", "latest"}
    /\ Inherited \in Seq(Commit)
    /\ \A i \in 1 .. Len(Inherited) : Inherited[i].by = "kdi" /\ ~Inherited[i].marker
    /\ AllowReplay \in BOOLEAN
    /\ FailsAt \subseteq {"handle", "id", "offsets", "watermarks"}
    /\ InitHigh \in [Partition -> Nat]
    /\ MaxHigh \in Nat /\ MaxLow \in Nat /\ MaxFaults \in Nat

VARIABLES
    low,     \* low watermark of each partition
    high,    \* high watermark: the offset the next message gets
    target,  \* the target's log
    late,    \* a put that may still land, and the version it is for
    mem,     \* each member's state, a Mem record
    faults   \* faults so far

vars == <<low, high, target, late, mem, faults>>

-----------------------------------------------------------------------------
(* The log, as the code in src/ uses delta-rs.                             *)

Nowhere == [p \in Partition |-> None]
Nothing == [p \in Partition |-> {}]

\* read_txns: the newest txn of partition p in the first n commits.
Newest(n, p, i) ==
    target[i].txn[p] # None /\ \A j \in i + 1 .. n : target[j].txn[p] = None

Txn(n, p) ==
    IF \E i \in 1 .. n : Newest(n, p, i)
    THEN target[CHOOSE i \in 1 .. n : Newest(n, p, i)].txn[p]
    ELSE None

Stored(p) == Txn(Len(target), p)

HasMarker(n) == \E i \in 1 .. n : target[i].marker

\* ConcurrentTransaction: commit c, planned on a handle at length n.
Conflicts(n, c) ==
    \E i \in n + 1 .. Len(target) :
        \/ target[i].marker /\ c.marker
        \/ \E p \in Partition : target[i].txn[p] # None /\ c.txn[p] # None

NoLate == [at |-> 0, commit |-> [by |-> "batch", txn |-> Nowhere, rows |-> Nothing, marker |-> FALSE]]

\* The offset of the first message of p at or after o, or None.
MessageAt(p, o) == o >= low[p] /\ o < high[p] /\ <<p, o>> \notin Holes

NextMessage(p, o) ==
    IF \E x \in o .. high[p] - 1 : MessageAt(p, x)
    THEN CHOOSE x \in o .. high[p] - 1 :
            MessageAt(p, x) /\ \A y \in o .. x - 1 : ~MessageAt(p, y)
    ELSE None

-----------------------------------------------------------------------------
(* A member.                                                               *)

\* A closed batch: the last offset it read of each partition, the offsets the
\* decoder made rows of, and the fence's offsets it was read from.
NoBatch == [last |-> Nowhere, rows |-> Nothing, bases |-> Nowhere]

NotStalled == [partition |-> None, offset |-> None]

Down ==
    [st      |-> "down",   \* down, baseline, poll, try, held or flush
     why     |-> "retry",  \* why a batch is held: retry or operator
     parts   |-> [p \in Partition |-> "none"],  \* State: none, ready or blocked
     next    |-> [p \in Partition |-> 0],       \* next_expected
     reread  |-> [p \in Partition |-> FALSE],   \* the stored offset is still to be re-read
     unbased |-> Nowhere,  \* unbased_start
     pos     |-> [p \in Partition |-> 0],       \* librdkafka's position
     paused  |-> {},
     seen    |-> 0,        \* length of the log in the target handle
     aged    |-> FALSE,    \* this attempt at a commit has looked at the handle's age
     base    |-> Nowhere,  \* Fence::base
     carried |-> {},       \* Fence::carried
     marked  |-> None,     \* length of the log Fence::marker was read from
     buf     |-> Nothing,  \* offsets taken into the buffer
     stalled |-> NotStalled, \* a taken message the decoder handed back
     batch   |-> NoBatch,  \* the batch being tried or held; a baseline's offsets
     blocked |-> FALSE,    \* KafkaSource::blocked
     recheck |-> FALSE,    \* next_recheck is set
     evicted |-> FALSE]    \* the group gave its partitions away; it does not know

Owned(r) == {p \in Partition : r.parts[p] # "none"}

Ready(r) == {p \in Partition : r.parts[p] = "ready"}

Ranges(b) == {p \in Partition : b.last[p] # None}

HasBuffer(r) == \E p \in Partition : r.buf[p] # {}

\* Partitions the group may hand out.
Free == {p \in Partition : \A m \in Member : p \in Owned(mem[m]) => mem[m].evicted}

Put(m, r) == mem' = [mem EXCEPT ![m] = r]

Init ==
    /\ low = [p \in Partition |-> 0]
    /\ high = InitHigh
    /\ target = Inherited
    /\ late = NoLate
    /\ mem = [m \in Member |-> Down]
    /\ faults = 0

-----------------------------------------------------------------------------
(* The topic, and puts that land late.                                     *)

Produce(p) ==
    /\ high[p] < MaxHigh
    /\ high' = [high EXCEPT ![p] = @ + 1]
    /\ UNCHANGED <<low, target, late, mem>>

\* Retention trims the topic.
Trim(p) ==
    /\ low[p] < high[p] /\ low[p] < MaxLow
    /\ low' = [low EXCEPT ![p] = @ + 1]
    /\ UNCHANGED <<high, target, late, mem>>

\* The put is put-if-absent: it lands only if its version is still free.
LateLands ==
    /\ late # NoLate /\ late.at = Len(target) + 1
    /\ target' = Append(target, late.commit)
    /\ late' = NoLate
    /\ UNCHANGED <<low, high, mem>>

LateFails ==
    /\ late # NoLate
    /\ late' = NoLate
    /\ UNCHANGED <<low, high, target, mem>>

-----------------------------------------------------------------------------
(* Open.                                                                   *)

\* Mutant: the marker is not looked at.
EraByOffsets(n) == IF \E p \in Partition : Txn(n, p) # None THEN "Kdi" ELSE "Fresh"

\* fence::era of the log's first n commits.
Era(n) ==
    IF HasMarker(n) THEN "Ddi"
    ELSE IF \E p \in Partition : Txn(n, p) # None THEN "Kdi" ELSE "Fresh"

HoldsRows == \E i \in 1 .. Len(target) : \E p \in Partition : target[i].rows[p] # {}

\* plan_open's refusals: the typo guard, then takeover_check.
OpenRefusal ==
    \/ Era(Len(target)) = "Fresh" /\ HoldsRows /\ Explicit = Nowhere
    \/ /\ Era(Len(target)) = "Kdi" \/ (Era(Len(target)) = "Fresh" /\ HoldsRows)
       /\ \E p \in Partition : Stored(p) = None /\ high[p] > 0 /\ Explicit[p] = None

\* fresh_starts.
FreshStart(p) ==
    IF Explicit[p] # None THEN Explicit[p]
    ELSE IF Rest = "earliest" THEN low[p] ELSE high[p]

\* Mutant: the baseline is off by one.
BaselineOffByOne ==
    IF Era(Len(target)) = "Fresh" THEN [p \in Partition |-> FreshStart(p) - 2] ELSE Nowhere

\* Mutant: the takeover takes the last offset written for the next one to read.
BaselineNextForLast ==
    [p \in Partition |-> IF Era(Len(target)) = "Kdi" /\ Stored(p) > 0 THEN Stored(p) - 1 ELSE None]

\* The offsets the open commits before it joins: fresh_baseline and
\* takeover_baseline.  Nowhere when it commits nothing.
Baseline ==
    CASE Era(Len(target)) = "Fresh" -> [p \in Partition |-> FreshStart(p) - 1]
      [] Era(Len(target)) = "Kdi"   ->
            [p \in Partition |-> IF Stored(p) # None THEN Stored(p)
                                 ELSE IF Explicit[p] > 0 THEN Explicit[p] - 1 ELSE None]
      [] OTHER -> Nowhere

\* open_kafka reads the offsets and the watermarks, and joins the group at once
\* if there is no baseline to commit.
OpenRead(m) ==
    /\ mem[m].st = "down"
    /\ ~OpenRefusal
    /\ Put(m, [Down EXCEPT !.seen = Len(target),
                           !.st = IF Baseline = Nowhere THEN "poll" ELSE "baseline",
                           !.batch = [NoBatch EXCEPT !.last = Baseline]])
    /\ UNCHANGED <<low, high, target, late>>

OpenRefused(m) ==
    /\ mem[m].st = "down" /\ OpenRefusal
    /\ UNCHANGED vars

BaselineCommit(r) ==
    [by |-> "baseline", txn |-> r.batch.last, rows |-> Nothing, marker |-> TRUE]

CommitBaseline(m) ==
    /\ mem[m].st = "baseline"
    /\ ~Conflicts(mem[m].seen, BaselineCommit(mem[m]))
    /\ target' = Append(target, BaselineCommit(mem[m]))
    /\ Put(m, [Down EXCEPT !.st = "poll", !.seen = Len(target) + 1])
    /\ UNCHANGED <<low, high, late>>

\* Another member's commit landed first: the open reads again, or fails and is
\* tried again by the supervisor.
BaselineConflict(m) ==
    /\ mem[m].st = "baseline"
    /\ Conflicts(mem[m].seen, BaselineCommit(mem[m]))
    /\ Put(m, Down)
    /\ UNCHANGED <<low, high, target, late>>

-----------------------------------------------------------------------------
(* Reading the target again.                                               *)

\* refresh_target, then Fence::reset over the owned partitions.
RefreshAndReset(r) ==
    [r EXCEPT !.seen = Len(target),
              !.base = [p \in Partition |-> IF p \in Owned(r) THEN Stored(p) ELSE None],
              !.carried = Owned(r), !.marked = Len(target)]

\* What refresh_and_reset returns: owned partitions whose offset is not what it was.
Changed(r) == {p \in Owned(r) : Stored(p) # r.base[p]}

\* It fails before the handle moved; after, in reading the table's id, and the fence
\* does not know; or in reading the offsets, and nothing is carried any more.
FailedResets(r) ==
    {[r EXCEPT !.seen = IF at = "handle" THEN @ ELSE Len(target),
               !.carried = IF at = "offsets" THEN {} ELSE @,
               !.marked = IF at = "offsets" THEN None ELSE @] : at \in FailsAt \ {"watermarks"}}

\* Mutant: the stored offset is read as a new one.
StartAtStored(p, stored) ==
    [state |-> "ready", offset |-> IF stored = None THEN 0 ELSE stored, reread |-> FALSE]

\* start::resolve and fence::start_without_offset, as a state and an offset; the
\* flag says the stored offset is re-read first.
Start(p, stored) ==
    LET at(o, again) == [state |-> "ready", offset |-> o, reread |-> again]
        blocked      == [state |-> "blocked", offset |-> 0, reread |-> FALSE]
        wanted       == IF Explicit[p] = None THEN 0 ELSE Explicit[p]
    IN  IF stored # None
        THEN CASE stored + 1 < low[p]  -> blocked
               [] stored + 1 = low[p]  -> at(stored + 1, FALSE)
               [] stored + 1 > low[p] /\ stored >= high[p] -> blocked
               [] OTHER                -> at(stored, TRUE)
        ELSE IF wanted < low[p] \/ wanted > high[p] THEN blocked ELSE at(wanted, FALSE)

\* Partitions ps take the starts resolved for them; unbased_start is noted.
Resolved(r, ps) ==
    LET s(p) == Start(p, r.base[p])
    IN  [r EXCEPT
            !.parts   = [p \in Partition |-> IF p \in ps THEN s(p).state ELSE @[p]],
            !.next    = [p \in Partition |-> IF p \in ps THEN s(p).offset ELSE @[p]],
            !.reread  = [p \in Partition |-> IF p \in ps THEN s(p).reread ELSE @[p]],
            !.unbased = [p \in Partition |->
                            IF p \in ps /\ r.base[p] = None /\ s(p).state = "ready"
                            THEN s(p).offset ELSE @[p]]]

\* Where a partition is read from after a reset, None if nothing says.
At(r, p) == IF r.base[p] # None THEN r.base[p] + 1 ELSE r.unbased[p]

\* Mutant: only the partitions that moved are read again.
RepositionMovedOnly(r, changed, survives) ==
    [r EXCEPT !.buf = IF \E p \in changed : @[p] # {} THEN Nothing ELSE @,
              !.stalled = NotStalled,
              !.next = [p \in Partition |->
                          IF p \in changed \cap Ready(r) THEN At(r, p) ELSE @[p]],
              !.reread = [p \in Partition |-> p \notin changed /\ @[p]],
              !.paused = @ \cup (changed \cap Ready(r))]

\* reposition_changed: partitions that moved, and those only a dropped buffer or
\* batch accounted for, are read again from their offset in the target.
Reposition(r, changed, survives) ==
    LET drop   == \E p \in changed : r.buf[p] # {}
        buf    == IF drop THEN Nothing ELSE r.buf
        again  == changed \cup {p \in Partition : r.buf[p] # {} /\ buf[p] = {}}
                    \cup {p \in Ready(r) : /\ p \notin Ranges(survives) /\ buf[p] = {}
                                           /\ At(r, p) # None /\ At(r, p) # r.next[p]}
        ready  == again \cap Ready(r)
    IN  [r EXCEPT
            !.buf     = buf,
            !.stalled = IF drop THEN NotStalled ELSE @,
            !.next    = [p \in Partition |->
                            IF p \notin ready THEN @[p]
                            ELSE IF At(r, p) = None THEN 0 ELSE At(r, p)],
            !.reread  = [p \in Partition |-> p \notin ready /\ @[p]],
            !.paused  = @ \cup ready,
            !.recheck = @ \/ again \ Ready(r) # {}]

-----------------------------------------------------------------------------
(* Partitions come and go.                                                 *)

\* assign_partitions: the target is read, and the partitions are assigned at
\* their starts, the blocked ones paused.
Assign(m, ps) ==
    LET r == [mem[m] EXCEPT !.parts = [p \in Partition |-> IF p \in ps THEN "ready" ELSE "none"]]
        s == Resolved(RefreshAndReset(r), ps)
    IN  /\ mem[m].st = "poll" /\ Owned(mem[m]) = {}
        /\ ps # {} /\ ps \subseteq Free
        /\ Put(m, [s EXCEPT !.pos = s.next, !.paused = Owned(s) \ Ready(s),
                            !.recheck = Owned(s) # Ready(s)])
        /\ UNCHANGED <<low, high, target, late>>

\* It cannot be read: they are assigned paused, Unresolved, until a recheck.
AssignUnresolved(m, ps) ==
    /\ mem[m].st = "poll" /\ Owned(mem[m]) = {}
    /\ ps # {} /\ ps \subseteq Free
    /\ LET r    == [mem[m] EXCEPT
                      !.parts = [p \in Partition |-> IF p \in ps THEN "blocked" ELSE "none"],
                      !.paused = ps, !.blocked = TRUE, !.recheck = TRUE]
           read == IF "watermarks" \in FailsAt THEN {RefreshAndReset(r)} ELSE {}
       IN  \E x \in FailedResets(r) \cup read : Put(m, x)
    /\ UNCHANGED <<low, high, target, late>>

\* unassign: everything buffered or held is dropped, every offset forgotten.
Unassigned(r) == [Down EXCEPT !.st = "poll", !.seen = r.seen, !.marked = r.marked]

\* close_batch.  The rows are the decoder's: a stalled message is not among them.
Closed(r) ==
    [last  |-> [p \in Partition |->
                  IF r.buf[p] = {} THEN None
                  ELSE CHOOSE o \in r.buf[p] : \A x \in r.buf[p] : x =< o],
     rows  |-> [p \in Partition |->
                  IF r.stalled.partition = p THEN r.buf[p] \ {r.stalled.offset} ELSE r.buf[p]],
     bases |-> [p \in Partition |-> IF r.buf[p] = {} THEN None ELSE r.base[p]]]

\* A blocked pipeline, and a message waiting for the registry, have nothing a
\* revoke can commit.
Flushable(r) == (r.st = "held" \/ HasBuffer(r)) /\ ~r.blocked /\ r.stalled = NotStalled

\* flush_then_unassign: the held batch or the buffer is tried once first.
Revoke(m) ==
    LET r == mem[m]
    IN  /\ r.st \in {"poll", "held"} /\ Owned(r) # {} /\ ~r.evicted
        /\ Put(m, IF ~Flushable(r) THEN Unassigned(r)
                  ELSE [r EXCEPT !.st = "flush", !.buf = Nothing,
                                 !.batch = IF r.st = "held" THEN @ ELSE Closed(r)])
        /\ UNCHANGED <<low, high, target, late>>

\* The group gives a member's partitions away: its session expired.
Evict(m) ==
    /\ Owned(mem[m]) # {} /\ ~mem[m].evicted
    /\ Put(m, [mem[m] EXCEPT !.evicted = TRUE])
    /\ UNCHANGED <<low, high, target, late>>

\* drop_and_unassign, once the member hears of it.
Lost(m) ==
    /\ mem[m].st \in {"poll", "held"} /\ mem[m].evicted
    /\ Put(m, Unassigned(mem[m]))
    /\ UNCHANGED <<low, high, target, late>>

\* A kill, or an error that ends the consumer.
Crash(m) ==
    /\ mem[m].st # "down"
    /\ Put(m, Down)
    /\ UNCHANGED <<low, high, target, late>>

-----------------------------------------------------------------------------
(* Polling.                                                                *)

Polls(m) == mem[m].st \in {"poll", "held"}

\* librdkafka hands over the message at its position.  Of a paused partition it
\* is one that was on its way already.
Delivers(m, p) ==
    /\ Polls(m) /\ p \in Owned(mem[m])
    /\ mem[m].pos[p] >= low[p] /\ NextMessage(p, mem[m].pos[p]) # None

\* take drops it: paused, below the offset expected, or the stored offset re-read.
DropMessage(m, p) ==
    LET r == mem[m]
        o == NextMessage(p, r.pos[p])
        again == p \notin r.paused /\ r.reread[p] /\ o = r.next[p]
    IN  /\ Delivers(m, p)
        /\ p \in r.paused \/ o < r.next[p] \/ again
        /\ Put(m, [r EXCEPT !.pos[p] = o + 1,
                            !.reread[p] = @ /\ ~again,
                            !.next[p] = IF again THEN o + 1 ELSE @])
        /\ UNCHANGED <<low, high, target, late>>

\* Admit::Take.  A gap before it is a hole of the topic.
Takes(m, p) ==
    LET r == mem[m]
        o == NextMessage(p, r.pos[p])
    IN  /\ Delivers(m, p) /\ p \notin r.paused
        /\ IF r.reread[p] THEN o > r.next[p] ELSE o >= r.next[p]

Taken(r, p) ==
    LET o == NextMessage(p, r.pos[p])
    IN  [r EXCEPT !.pos[p] = o + 1, !.reread[p] = FALSE, !.next[p] = o + 1,
                  !.buf[p] = @ \cup {o}]

Take(m, p) ==
    /\ Takes(m, p)
    /\ Put(m, Taken(mem[m], p))
    /\ UNCHANGED <<low, high, target, late>>

\* The decoder hands it back: its writer schema cannot be had.  Every partition
\* is paused.
Stall(m, p) ==
    /\ Takes(m, p)
    /\ Put(m, [Taken(mem[m], p) EXCEPT
                  !.stalled = [partition |-> p, offset |-> NextMessage(p, mem[m].pos[p])],
                  !.paused = Owned(mem[m])])
    /\ UNCHANGED <<low, high, target, late>>

\* feed_stalled.
FeedStalled(m) ==
    /\ mem[m].st = "poll" /\ mem[m].stalled # NotStalled
    /\ Put(m, [mem[m] EXCEPT !.stalled = NotStalled])
    /\ UNCHANGED <<low, high, target, late>>

\* Mutant: the partitions are resumed where librdkafka is.
ReleaseNoSeek(m) ==
    /\ mem[m].st = "poll" /\ mem[m].stalled = NotStalled /\ ~mem[m].blocked
    /\ mem[m].paused \cap Ready(mem[m]) # {}
    /\ Put(m, [mem[m] EXCEPT !.paused = @ \ Ready(mem[m])])
    /\ UNCHANGED <<low, high, target, late>>

\* release: paused Ready partitions are sought to the offset expected, resumed.
Release(m) ==
    LET r  == mem[m]
        ps == r.paused \cap Ready(r)
    IN  /\ r.st = "poll" /\ r.stalled = NotStalled /\ ~r.blocked
        /\ ps # {}
        /\ Put(m, [r EXCEPT !.paused = @ \ ps,
                            !.pos = [p \in Partition |-> IF p \in ps THEN r.next[p] ELSE @[p]]])
        /\ UNCHANGED <<low, high, target, late>>

\* out_of_range: librdkafka's position was trimmed.  Partitions that expect a
\* trimmed offset block; with none, every Ready one is sought again.
OutOfRange(m) ==
    LET r   == mem[m]
        bad == {p \in Ready(r) : r.next[p] < low[p]}
    IN  /\ Polls(m)
        /\ \E p \in Ready(r) \ r.paused : r.pos[p] < low[p]
        /\ Put(m, [r EXCEPT !.parts = [p \in Partition |-> IF p \in bad THEN "blocked" ELSE @[p]],
                            !.recheck = @ \/ bad # {},
                            !.paused = @ \cup (IF bad # {} THEN bad ELSE Ready(r))])
        /\ UNCHANGED <<low, high, target, late>>

\* recheck_blocked: offsets and watermarks are read again; what resolves is ready,
\* still paused, until it is released.
RecheckBlocked(m) ==
    LET r == [mem[m] EXCEPT !.recheck = FALSE]
        s == Reposition(RefreshAndReset(r), Changed(r), NoBatch)
        t == Resolved(s, Owned(s) \ Ready(s))
    IN  /\ r.st = "poll" /\ mem[m].recheck
        /\ Put(m, [t EXCEPT !.blocked = FALSE, !.recheck = @ \/ Owned(t) # Ready(t)])
        /\ UNCHANGED <<low, high, target, late>>

\* A limit closes the batch.
CloseBatch(m) ==
    LET r == mem[m]
    IN  /\ r.st = "poll" /\ HasBuffer(r) /\ r.stalled = NotStalled
        /\ Put(m, [r EXCEPT !.st = "try", !.batch = Closed(r), !.buf = Nothing])
        /\ UNCHANGED <<low, high, target, late>>

-----------------------------------------------------------------------------
(* Committing.                                                             *)

\* moved_partition: a partition of the batch is not at the offset the batch was
\* read from, or not this member's.
Moved(r) ==
    \E p \in Ranges(r.batch) : r.parts[p] = "none" \/ r.base[p] # r.batch.bases[p]

\* Fence::verify, on the handle the commit is planned from.
Fenced(r) == \E p \in Ranges(r.batch) \ r.carried : r.base[p] # Txn(r.seen, p)

\* What it learns.
Verified(r) ==
    [r EXCEPT !.carried = @ \cup Ranges(r.batch), !.marked = IF @ = None THEN r.seen ELSE @]

\* Fence::assert_map: the batch's partitions, and every other carried one again at
\* its offset.
AssertMap(r) ==
    [p \in Partition |->
        IF p \in Ranges(r.batch) THEN r.batch.last[p]
        ELSE IF p \in r.carried THEN r.base[p] ELSE None]

KafkaCommit(r) ==
    [by |-> "batch", txn |-> AssertMap(r), rows |-> r.batch.rows, marker |-> ~HasMarker(Verified(r).marked)]

\* Error class Replan: another writer was first.
Replan(r) == Moved(r) \/ Fenced(r) \/ Conflicts(r.seen, KafkaCommit(r))

\* Mutant: the fence does not learn that its commit wrote the marker.
CommittedNoMarker(r) ==
    LET c == KafkaCommit(r)
    IN  [r EXCEPT !.seen = Len(target) + 1, !.marked = Verified(r).marked,
                  !.base = [p \in Partition |-> IF c.txn[p] # None THEN c.txn[p] ELSE @[p]],
                  !.carried = {p \in Partition : c.txn[p] # None},
                  !.batch = NoBatch, !.blocked = FALSE, !.st = "poll", !.aged = FALSE]

\* Pipeline::committed with Fence::committed.
Committed(r) ==
    LET c == KafkaCommit(r)
    IN  [r EXCEPT !.seen = Len(target) + 1,
                  !.marked = IF c.marker THEN Len(target) + 1 ELSE Verified(r).marked,
                  !.base = [p \in Partition |-> IF c.txn[p] # None THEN c.txn[p] ELSE @[p]],
                  !.carried = {p \in Partition : c.txn[p] # None},
                  !.batch = NoBatch, !.blocked = FALSE, !.st = "poll", !.aged = FALSE]

\* try_commit, 1: a handle older than handle_max_age is refreshed first.
RefreshAged(m) ==
    LET r == mem[m]
    IN  /\ r.st \in {"try", "flush"} /\ ~r.aged
        /\ Put(m, [Reposition(RefreshAndReset(r), Changed(r), r.batch) EXCEPT !.aged = TRUE])
        /\ UNCHANGED <<low, high, target, late>>

\* try_commit, 2 to 5: rows and offsets land.  A flush then gives up the partitions.
CommitBatch(m) ==
    LET r == mem[m]
    IN  /\ r.st \in {"try", "flush"} /\ ~Replan(r)
        /\ target' = Append(target, KafkaCommit(r))
        /\ Put(m, IF r.st = "flush" THEN Unassigned(Committed(r)) ELSE Committed(r))
        /\ UNCHANGED <<low, high, late>>

\* Mutant: the hold does not end with the batch.
ResetKeepsBlocked(m) ==
    LET r == mem[m]
        s == [RefreshAndReset(r) EXCEPT !.aged = FALSE]
    IN  /\ r.st \in {"try", "flush"} /\ Replan(r)
        /\ Put(m, IF r.st = "flush" THEN Unassigned(r)
                  ELSE IF Moved(s)
                  THEN Reposition([s EXCEPT !.batch = NoBatch, !.st = "poll"], Changed(r), NoBatch)
                  ELSE Reposition(s, Changed(r), r.batch))
        /\ UNCHANGED <<low, high, target, late>>

\* reset_in_place: the batch is tried again if nothing it read has moved, else it
\* is dropped and read again.  A flush just drops it.
ResetInPlace(m) ==
    LET r == mem[m]
        s == [RefreshAndReset(r) EXCEPT !.aged = FALSE]
        dropped == [s EXCEPT !.batch = NoBatch, !.blocked = FALSE, !.st = "poll"]
    IN  /\ r.st \in {"try", "flush"} /\ Replan(r)
        /\ Put(m, IF r.st = "flush" THEN Unassigned(r)
                  ELSE IF Moved(s) THEN Reposition(dropped, Changed(r), NoBatch)
                  ELSE Reposition(s, Changed(r), r.batch))
        /\ UNCHANGED <<low, high, target, late>>

\* hold_for_class; a flush that fails drops the batch instead.
Hold(r, why) ==
    IF r.st = "flush" THEN Unassigned(r)
    ELSE [r EXCEPT !.st = "held", !.why = why, !.aged = FALSE, !.paused = @ \cup Owned(r),
                   !.blocked = @ \/ why = "operator"]

\* The put is sent and its answer does not come: held, or timed out in a flush,
\* while it may still land.
CommitLost(m) ==
    LET r == mem[m]
    IN  /\ r.st \in {"try", "flush"} /\ ~Replan(r) /\ late = NoLate
        /\ late' = [at |-> Len(target) + 1, commit |-> KafkaCommit(r)]
        /\ Put(m, Hold(Verified(r), "retry"))
        /\ UNCHANGED <<low, high, target>>

\* A failure that waits for an operator: no data-quality table for a message that
\* cannot be decoded, a schema conflict.
CommitBlocked(m) ==
    /\ mem[m].st \in {"try", "flush"} /\ ~Moved(mem[m])
    /\ \/ Put(m, Hold(mem[m], "operator"))
       \/ ~Fenced(mem[m]) /\ Put(m, Hold(Verified(mem[m]), "operator"))
    /\ UNCHANGED <<low, high, target, late>>

\* Mutant: a recheck that failed is not due again.
ReadFailsForGood(m) ==
    /\ mem[m].st = "poll" /\ mem[m].recheck
    /\ Put(m, [mem[m] EXCEPT !.recheck = FALSE])
    /\ UNCHANGED <<low, high, target, late>>

\* The target cannot be read: in a commit, in a reset, or in a recheck.
ReadFails(m) ==
    /\ \/ mem[m].st = "try"
       \/ mem[m].st = "held" /\ mem[m].why = "operator"
       \/ mem[m].st = "poll" /\ mem[m].recheck
    /\ \E r \in FailedResets(mem[m]) :
          Put(m, IF r.st = "try" THEN Hold(r, "retry") ELSE r)
    /\ UNCHANGED <<low, high, target, late>>

\* recheck_blocked reads the target, but not the watermarks: it is due again.
WatermarksFail(m) ==
    LET r == mem[m]
    IN  /\ "watermarks" \in FailsAt
        /\ r.st = "poll" /\ r.recheck /\ Owned(r) # Ready(r)
        /\ Put(m, Reposition(RefreshAndReset(r), Changed(r), NoBatch))
        /\ UNCHANGED <<low, high, target, late>>

\* A held batch is due.  One held for an operator looks at the target first
\* (recheck_for_batch).
Retry(m) ==
    /\ mem[m].st = "held" /\ mem[m].why = "retry"
    /\ Put(m, [mem[m] EXCEPT !.st = "try"])
    /\ UNCHANGED <<low, high, target, late>>

RecheckForBatch(m) ==
    LET r == mem[m]
        s == RefreshAndReset(r)
    IN  /\ r.st = "held" /\ r.why = "operator"
        /\ Put(m, IF Moved(s)
                  THEN Reposition([s EXCEPT !.batch = NoBatch, !.blocked = FALSE, !.st = "poll"],
                                  Changed(r), NoBatch)
                  ELSE Reposition([s EXCEPT !.st = "try"], Changed(r), r.batch))
        /\ UNCHANGED <<low, high, target, late>>

\* Nothing to do before the next tick.
Waiting(m) ==
    /\ mem[m].st = "poll"
    /\ \A p \in Owned(mem[m]) : ~Delivers(m, p)
    /\ UNCHANGED vars

-----------------------------------------------------------------------------
(* The operator: `ddi kafka set-offsets', with decide's guards.  It reads  *)
(* again on a conflict, so one step.                                       *)

SetOffsets(p, next) ==
    LET current == Stored(p) + 1
    IN  /\ Era(Len(target)) # "Fresh"
        /\ next \in 1 .. high[p]
        /\ next < current => AllowReplay /\ next >= low[p]
        /\ target' = Append(target,
              [by |-> "override", txn |-> [Nowhere EXCEPT ![p] = next - 1],
               rows |-> Nothing, marker |-> FALSE])
        /\ UNCHANGED <<low, high, late, mem>>

-----------------------------------------------------------------------------
Step(m) ==
    \/ OpenRead(m) \/ OpenRefused(m) \/ CommitBaseline(m) \/ BaselineConflict(m)
    \/ \E ps \in SUBSET Partition : Assign(m, ps)
    \/ Lost(m)
    \/ \E p \in Partition : DropMessage(m, p) \/ Take(m, p)
    \/ FeedStalled(m) \/ Release(m) \/ OutOfRange(m) \/ RecheckBlocked(m) \/ CloseBatch(m)
    \/ RefreshAged(m) \/ CommitBatch(m) \/ ResetInPlace(m)
    \/ Retry(m) \/ RecheckForBatch(m) \/ Waiting(m)

Fault(m) ==
    \/ \E ps \in SUBSET Partition : AssignUnresolved(m, ps)
    \/ Revoke(m) \/ Evict(m) \/ Crash(m)
    \/ \E p \in Partition : Stall(m, p)
    \/ CommitLost(m) \/ CommitBlocked(m) \/ ReadFails(m)
    \/ WatermarksFail(m)

Operator == \E p \in Partition : \E next \in 1 .. MaxHigh : SetOffsets(p, next)

Topic == \E p \in Partition : Produce(p) \/ Trim(p)

Next ==
    \/ (Topic \/ LateLands \/ LateFails) /\ UNCHANGED faults
    \/ \E m \in Member : Step(m) /\ UNCHANGED faults
    \/ /\ faults < MaxFaults /\ faults' = faults + 1
       /\ Operator \/ \E m \in Member : Fault(m)

Spec == Init /\ [][Next]_vars

\* Every member's task keeps running and its group hands partitions out; nothing
\* obliges the topic, the operator or a fault to act.
Faultless(m) == Step(m) /\ UNCHANGED faults
FairSpec == Spec /\ \A m \in Member : WF_vars(Faultless(m))

-----------------------------------------------------------------------------
(* Properties.                                                             *)

\* The offset a commit at position i has to go on from.
From(i, p) ==
    IF Txn(i - 1, p) # None THEN Txn(i - 1, p) + 1
    ELSE IF Explicit[p] # None THEN Explicit[p] ELSE 0

Messages(p, from, to) == {o \in from .. to : <<p, o>> \notin Holes}

\* docs/kafka-design.md, I2: a batch is committed only over the offsets it was
\* read from.  Every commit of a member holds, of each partition whose txn it
\* writes, every message from the offset before it to the one it writes: nothing
\* skipped, nothing again, and a partition it only re-asserts does not move.
EveryCommitContinues ==
    \A i \in 1 .. Len(target) : target[i].by = "batch" =>
        \A p \in Partition :
            IF target[i].txn[p] = None THEN target[i].rows[p] = {}
            ELSE /\ target[i].txn[p] >= From(i, p) - 1
                 /\ target[i].rows[p] = Messages(p, From(i, p), target[i].txn[p])

\* Without an operator's replay, no message is in the target twice, what
\* kafka-delta-ingest wrote before the takeover included.
RowsOnce ==
    \A i, j \in 1 .. Len(target) : \A p \in Partition :
        i # j => target[i].rows[p] \cap target[j].rows[p] = {}

\* The takeover marker is "written once, by the first Kafka commit of app_id
\* whose read snapshot lacks it, and by no commit after" (fence.rs).
OneMarker ==
    \A i, j \in 1 .. Len(target) : target[i].marker /\ target[j].marker => i = j

\* Only an operator's set-offsets moves a partition's stored offset back: no
\* member with a stale fence, no late put and no baseline does.
OffsetsForward ==
    [][\A p \in Partition :
          Stored(p)' >= Stored(p) \/ target'[Len(target')].by = "override"]_vars

\* A pipeline or a partition that waits has something due that ends the wait:
\* "left set, `blocked' keeps every partition paused with no batch to retry and no
\* recheck due" (reset_in_place).
NeverStuck ==
    \A m \in Member :
        /\ mem[m].blocked => mem[m].st # "poll" \/ mem[m].recheck
        /\ \A p \in Owned(mem[m]) :
              mem[m].parts[p] = "blocked" => mem[m].recheck

\* What p still owes the target, and what excuses it: messages trimmed before
\* they were read, a start past the end of the topic, a refused open.
Owed(p) == Messages(p, From(Len(target) + 1, p), high[p] - 1)

Excused(p) ==
    \/ From(Len(target) + 1, p) < low[p]
    \/ From(Len(target) + 1, p) > high[p]
    \/ OpenRefusal

\* From some point on: every message is in the target, however partitions moved and puts
\* were lost on the way.
Delivered == \A p \in Partition : Owed(p) = {} \/ Excused(p)

MemType ==
    [st      : {"down", "baseline", "poll", "try", "held", "flush"},
     why     : {"retry", "operator"},
     parts   : [Partition -> {"none", "ready", "blocked"}],
     next    : [Partition -> Nat],
     reread  : [Partition -> BOOLEAN],
     unbased : [Partition -> Nat \cup {None}],
     pos     : [Partition -> Nat],
     paused  : SUBSET Partition,
     seen    : Nat,
     aged    : BOOLEAN,
     base    : [Partition -> Nat \cup {None}],
     carried : SUBSET Partition,
     marked  : Nat \cup {None},
     buf     : [Partition -> SUBSET Nat],
     stalled : [partition : Partition \cup {None}, offset : Nat \cup {None}],
     batch   : [last : [Partition -> Nat \cup {None}], rows : [Partition -> SUBSET Nat],
                bases : [Partition -> Nat \cup {None}]],
     blocked : BOOLEAN, recheck : BOOLEAN, evicted : BOOLEAN]

TypeOK ==
    /\ low \in [Partition -> Nat] /\ high \in [Partition -> Nat]
    /\ \A p \in Partition : low[p] =< high[p]
    /\ target \in Seq(Commit)
    /\ late \in [at : Nat, commit : Commit]
    /\ mem \in [Member -> MemType]
    /\ faults \in 0 .. MaxFaults

=============================================================================
