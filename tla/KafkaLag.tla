------------------------------ MODULE KafkaLag ------------------------------
(***************************************************************************)
(* How a Kafka member knows that it has read everything: caught_up and lag *)
(* from librdkafka's statistics (src/src/kafka/context.rs stats_raw,       *)
(* kafka/step.rs observe_stats, partition_lag), and once-mode's end        *)
(* (once_done, kafka/partitions.rs done, polled_again).  Topics hold       *)
(* messages and transaction markers, which librdkafka never hands on.      *)
(* Times are ages in ticks, capped where no comparison tells more.         *)
(***************************************************************************)
EXTENDS Integers, Sequences, FiniteSets, FiniteSetsExt

CONSTANTS
  Partition,
  MaxOffset,   \* bound on a partition's records
  Interval,    \* statistics.interval.ms
  Idle,        \* ONCE_IDLE
  MaxHolds,    \* bound on the batches or messages that are held
  Once,        \* `ddi once`
  SlowCalls,   \* a recheck's reads, or a seek, may take a tick
  Stuck        \* partitions blocked at first, and settled by a recheck

(* Assumed of the constants; the suites that instantiate the module assume it. *)
ConstantsAssumption ==
  /\ IsFiniteSet(Partition) /\ Stuck \subseteq Partition /\ {Once, SlowCalls} \subseteq BOOLEAN
  /\ {MaxOffset, MaxHolds} \subseteq Nat /\ {Interval, Idle} \subseteq Nat \ {0}

VARIABLES
  log, stable,         \* each partition's records, and its last stable offset
  fetch, queue, app,   \* librdkafka: next to fetch, fetched, next to hand on
  next,                \* next_expected
  quiet,               \* ticks since last_message
  polled,              \* ticks polled since a message, a resume or a commit
  paused, blocked,     \* partitions
  docs,                \* reports made and not yet handed on, at most one
  age,                 \* ticks since the report handed on last
  caughtUp,
  full, held, holds,   \* the buffer holds a message; a batch or a message is held
  end,                 \* once_end
  tops,                \* the `now` of this pass of the loop: quiet as it was
  phase                \* "top", "due", "sought", "recv", "feed", "commit", "done" or "failed"

topic == <<log, stable>>
client == <<fetch, queue, app>>
loop == <<next, quiet, polled, paused, blocked, full, held, holds, tops, phase>>
vars == <<topic, client, loop, docs, age, caughtUp, end>>

Cap == Max({Interval, Idle})
Record(p, o) == log[p][o + 1]
Unread(p, to) == {o \in next[p] .. to - 1 : Record(p, o) = "message"}
Zero == [p \in Partition |-> 0]

----------------------------------------------------------------------------
(* Statistics *)

(* stats_raw. *)
StatsRaw ==
  [p \in Partition |-> [ls |-> stable[p], fetch |-> fetch[p], app |-> app[p], queued |-> Len(queue[p])]]

\* Mutant: what waits in librdkafka's queue is taken as read.
SteppedOverQueued(p, w) == p \notin paused /\ quiet[p] >= Interval /\ w.fetch >= w.ls
(* partition_lag: a partition fetched as it is, whose fetcher and position are past the
   last stable offset, has only stepped over what is between. *)
SteppedOver(p, w) ==
  p \notin paused /\ quiet[p] >= Interval /\ w.queued = 0 /\ w.fetch >= w.ls /\ w.app >= w.ls

Lag(p, w) == IF SteppedOver(p, w) \/ w.ls <= next[p] THEN 0 ELSE w.ls - next[p]

(* observe_stats: news, or what was known while it is fresh. *)
Observed ==
  IF docs # <<>> THEN \A p \in Partition : p \notin blocked /\ Lag(p, docs[1][p]) = 0
  ELSE caughtUp /\ age <= 2 * Interval

----------------------------------------------------------------------------
(* Once-mode *)

(* done; a blocked partition is done when it has been so for as long. *)
Done(p) == (p \notin blocked /\ next[p] >= end[p]) \/ tops[p] >= Idle

(* polled_again, and a message that came. *)
Again(ps) ==
  /\ quiet' = [p \in Partition |-> IF p \in ps THEN 0 ELSE quiet[p]]
  /\ polled' = [p \in Partition |-> IF p \in ps THEN 0 ELSE polled[p]]

\* Mutant: a commit leaves the partitions as idle as they were.
AfterCommitIdle == UNCHANGED <<quiet, polled>>
AfterCommit == Again(Partition \ blocked)

----------------------------------------------------------------------------

Init ==
  /\ log \in [Partition -> {<<>>, <<"message">>}]
  /\ stable = [p \in Partition |-> Len(log[p])]
  /\ fetch = Zero /\ app = Zero /\ queue = [p \in Partition |-> <<>>] /\ next = Zero
  /\ quiet = Zero /\ polled = Zero /\ paused = {} /\ blocked = Stuck
  /\ docs = <<>> /\ age = 2 * Interval + 1 /\ caughtUp = FALSE
  /\ full = FALSE /\ held = FALSE /\ holds = 0
  /\ end = stable /\ tops = Zero /\ phase = "top"

(* The pass's `now`, a held batch that is due, a recheck, then the rest of the pass. *)
Top ==
  /\ phase = "top"
  /\ tops' = (IF Once THEN quiet ELSE tops) /\ phase' = "due"
  /\ UNCHANGED <<topic, client, next, quiet, polled, paused, blocked, full, held, holds, docs, age, caughtUp, end>>

RetryHeld ==
  /\ phase = "due" /\ held
  /\ held' = FALSE /\ phase' = "commit"
  /\ UNCHANGED <<topic, client, next, quiet, polled, paused, blocked, full, holds, tops, docs, age, caughtUp, end>>

(* Settled by an operator at the end of the topic, the partition is ready there, and
   paused until it is sought. *)
RecheckBlocked(p) ==
  /\ phase = "due" /\ ~held /\ p \in blocked
  /\ blocked' = blocked \ {p} /\ paused' = paused \cup {p}
  /\ next' = [next EXCEPT ![p] = end[p]] /\ quiet' = [quiet EXCEPT ![p] = 0]
  /\ polled' = [polled EXCEPT ![p] = 0] /\ tops' = [tops EXCEPT ![p] = 0]
  /\ UNCHANGED <<topic, client, full, held, holds, phase, docs, age, caughtUp, end>>

Finished == Once /\ ~full /\ ~held /\ \A p \in Partition : Done(p)

(* release, then once_done. *)
Release ==
  /\ phase = "due" /\ ~held /\ paused # {}
  /\ fetch' = [p \in Partition |-> IF p \in paused THEN next[p] ELSE fetch[p]]
  /\ queue' = [p \in Partition |-> IF p \in paused THEN <<>> ELSE queue[p]]
  /\ Again(paused) /\ paused' = {} /\ phase' = "sought"
  /\ tops' = [p \in Partition |-> IF p \in paused THEN 0 ELSE tops[p]]
  /\ UNCHANGED <<topic, app, next, blocked, full, held, holds, docs, age, caughtUp, end>>

OnceDone ==
  /\ phase = "sought" \/ (phase = "due" /\ (held \/ paused = {}))
  /\ phase' = IF ~Finished THEN "recv" ELSE IF blocked = {} THEN "done" ELSE "failed"
  /\ UNCHANGED <<topic, client, next, quiet, polled, paused, blocked, full, held, holds, tops, docs, age, caughtUp, end>>

(* recv hands on the report and a message, or neither: the report is observed first. *)
Polled == caughtUp' = Observed /\ docs' = <<>> /\ age' = IF docs # <<>> THEN 0 ELSE age

PollNothing ==
  /\ phase = "recv" /\ Polled /\ phase' = "top"
  /\ UNCHANGED <<topic, client, next, quiet, polled, paused, blocked, full, held, holds, tops, end>>

Hand(p) ==
  /\ phase = "recv" /\ queue[p] # <<>>
  /\ app' = [app EXCEPT ![p] = Head(queue[p]) + 1]
  /\ queue' = [queue EXCEPT ![p] = Tail(@)]
  /\ UNCHANGED <<topic, fetch>>

StepOver(p) ==
  /\ Hand(p) /\ Record(p, Head(queue[p])) = "marker"
  /\ UNCHANGED <<loop, docs, age, caughtUp, end>>

(* admit. *)
Expect(o) == o + 1

(* take: a message of a paused partition is dropped. *)
Take(p) ==
  /\ Hand(p) /\ Record(p, Head(queue[p])) = "message" /\ p \notin paused
  /\ Polled /\ Again({p}) /\ phase' = "feed"
  /\ next' = [next EXCEPT ![p] = Expect(Head(queue[p]))] /\ full' = TRUE
  /\ UNCHANGED <<paused, blocked, held, holds, tops, end>>

DropPaused(p) ==
  /\ Hand(p) /\ Record(p, Head(queue[p])) = "message" /\ p \in paused
  /\ Polled /\ phase' = "top"
  /\ UNCHANGED <<next, quiet, polled, paused, blocked, full, held, holds, tops, end>>

(* The decoder has the message, and the batch closes or goes on filling. *)
Fed ==
  /\ phase = "feed" /\ phase' \in {"top", "commit"}
  /\ UNCHANGED <<topic, client, next, quiet, polled, paused, blocked, full, held, holds, tops, docs, age, caughtUp, end>>

CloseBatch ==
  /\ phase = "recv" /\ full /\ ~held
  /\ Polled /\ phase' = "commit"
  /\ UNCHANGED <<topic, client, next, quiet, polled, paused, blocked, full, held, holds, tops, end>>

(* committed. *)
Committed ==
  /\ phase = "commit" /\ AfterCommit /\ full' = FALSE /\ phase' = "top"
  /\ UNCHANGED <<topic, client, next, paused, blocked, held, holds, tops, docs, age, caughtUp, end>>

(* hold, stall: everything pauses. *)
Hold ==
  /\ phase = "commit" /\ holds < MaxHolds
  /\ held' = TRUE /\ holds' = holds + 1 /\ paused' = Partition \ blocked /\ phase' = "top"
  /\ UNCHANGED <<topic, client, next, quiet, polled, blocked, full, tops, docs, age, caughtUp, end>>

(* reposition_changed, out_of_range: a partition is paused, to be sought again. *)
Reposition(p) ==
  /\ phase = "due" /\ ~held /\ p \notin paused \cup blocked /\ holds < MaxHolds
  /\ paused' = paused \cup {p} /\ holds' = holds + 1 /\ phase' = "recv"
  /\ UNCHANGED <<topic, client, next, quiet, polled, blocked, full, held, tops, docs, age, caughtUp, end>>

----------------------------------------------------------------------------
(* The topic, librdkafka and time *)

Append1(p, r) == log' = [log EXCEPT ![p] = Append(@, r)]
Room(p) == Len(log[p]) < MaxOffset /\ phase \notin {"done", "failed"}

(* A message, of a transaction or not, is stable unless one is open. *)
Produce(p) ==
  /\ Room(p) /\ Append1(p, "message")
  /\ \/ stable[p] = Len(log[p]) /\ stable' = [stable EXCEPT ![p] = @ + 1]
     \/ Len(log[p]) + 1 < MaxOffset /\ UNCHANGED stable
  /\ UNCHANGED <<client, loop, docs, age, caughtUp, end>>

EndTransaction(p) ==
  /\ Room(p) /\ stable[p] < Len(log[p]) /\ Append1(p, "marker")
  /\ stable' = [stable EXCEPT ![p] = Len(log[p]) + 1]
  /\ UNCHANGED <<client, loop, docs, age, caughtUp, end>>

Fetch(p) ==
  /\ p \notin paused \cup blocked /\ fetch[p] < stable[p] /\ phase \notin {"done", "failed"}
  /\ queue' = [queue EXCEPT ![p] = Append(@, fetch[p])]
  /\ fetch' = [fetch EXCEPT ![p] = @ + 1]
  /\ UNCHANGED <<topic, app, loop, docs, age, caughtUp, end>>

(* A report may be made late, but two are a tick apart. *)
Report ==
  /\ ~Once /\ docs = <<>> /\ age > 0 /\ docs' = <<StatsRaw>>
  /\ UNCHANGED <<topic, client, loop, age, caughtUp, end>>

(* Time passes where the loop awaits: a poll, the decoder, a commit, a recheck's reads,
   a seek.  A poll hands on a report that is there at once. *)
Awaits == phase \in {"recv", "feed", "commit"} \/ (phase = "due" /\ SlowCalls /\ ~held /\ (blocked # {} \/ paused # {}))

Tick ==
  /\ Awaits /\ (phase = "recv" => docs = <<>>)
  /\ quiet' = [p \in Partition |-> Min({quiet[p] + 1, Cap})]
  /\ polled' = [p \in Partition |-> IF Once /\ phase = "recv" THEN Min({polled[p] + 1, Cap}) ELSE polled[p]]
  /\ age' = Min({age + 1, 2 * Interval + 1})
  /\ UNCHANGED <<topic, client, next, paused, blocked, full, held, holds, tops, phase, docs, caughtUp, end>>

Loop ==
  \/ Top \/ RetryHeld \/ Release \/ OnceDone \/ PollNothing \/ Fed \/ CloseBatch \/ Committed
  \/ \E p \in Partition : RecheckBlocked(p) \/ StepOver(p) \/ Take(p) \/ DropPaused(p)

Next ==
  \/ Loop \/ Hold \/ Report \/ Tick
  \/ \E p \in Partition : Reposition(p) \/ Produce(p) \/ EndTransaction(p) \/ Fetch(p)

Spec == Init /\ [][Next]_vars

----------------------------------------------------------------------------
(* Properties *)

(* Type invariant. *)
TypeOK ==
  /\ \A p \in Partition :
       /\ stable[p] <= Len(log[p]) /\ next[p] <= Len(log[p])
       /\ fetch[p] <= stable[p] /\ app[p] <= stable[p]
       /\ quiet[p] \in 0 .. Cap /\ polled[p] \in 0 .. quiet[p]
  /\ paused \subseteq Partition /\ blocked \subseteq Stuck /\ age \in 0 .. 2 * Interval + 1
  /\ Len(docs) <= 1 /\ holds \in 0 .. MaxHolds /\ {caughtUp, full, held} \subseteq BOOLEAN
  /\ phase \in {"top", "due", "sought", "recv", "feed", "commit", "done", "failed"}

(* A member says it is caught up only when it has taken every message its report knew
   to be stable, whatever was stepped over, paused or sought meanwhile.
   (step.rs:1526) *)
CaughtUpIsTrue ==
  docs # <<>> /\ docs' = <<>> /\ caughtUp' =>
    \A p \in Partition : Unread(p, docs[1][p].ls) = {}

(* Once-mode ends successfully only when every partition was read to its end, or was
   polled for ONCE_IDLE without a message. (docs/kafka-design.md:1979) *)
OnceIsComplete ==
  phase = "done" => ~full /\ ~held /\ \A p \in Partition : Unread(p, end[p]) = {} \/ polled[p] >= Idle

=============================================================================
