----------------------------- MODULE KafkaEvents -----------------------------
(***************************************************************************)
(* Deferred rebalances (src/src/kafka/context.rs, handle_events, flush and *)
(* kafka_shutdown in kafka/step.rs, flush_then_unassign and                *)
(* drop_and_unassign in kafka/rebalance.rs, close_consumer in              *)
(* kafka/mod.rs).  librdkafka's callback runs inside recv and only queues  *)
(* an event; the group waits until the loop has answered it with assign or *)
(* unassign.  A consumer being closed answers in the callback itself.      *)
(* The group is external: it revokes eagerly, waits for every member to    *)
(* rejoin, assigns, and gives up on members whose session ended.           *)
(***************************************************************************)
EXTENDS Integers, Sequences, FiniteSets

CONSTANTS
  Consumer,        \* one for each time a member opens
  Partition,
  MaxRebalances,   \* bound on the rebalances
  MaxFaults,       \* bound on errors and lost sessions
  MaxKills         \* bound on processes that end without a close

(* Assumed of the constants; the suites that instantiate the module assume it. *)
ConstantsAssumption ==
  /\ IsFiniteSet(Consumer) /\ IsFiniteSet(Partition)
  /\ {MaxRebalances, MaxFaults, MaxKills} \subseteq Nat

VARIABLES
  group,       \* "stable" or "prepare"
  rounds, faults, kills,
  life,        \* "new", "open", "closing" or "gone"
  joined,      \* the group's members
  rejoined,    \* those whose JoinGroup the rebalance has
  share,       \* what the group gave each member
  due,         \* librdkafka's callback still to run: "none", "assign", "revoke", "error"
  waits,       \* the callback that ran and was not answered
  lost,        \* consumer.assignment_lost()
  fetching,    \* librdkafka's assignment
  assigned,    \* whether it has one, an empty one included
  events,      \* DdiContext::events
  drained,     \* what handle_events still has to handle
  owned,       \* parts
  full,        \* the buffer holds rows
  phase        \* the loop: "top", "recv", "handle", "read", "flush", "last", "end"

broker == <<group, rounds, joined, rejoined, share>>
bounds == <<faults, kills>>
client == <<due, waits, lost, fetching, assigned>>
source == <<events, drained, owned, full, phase>>
vars == <<broker, bounds, life, client, source>>

Init ==
  /\ group = "stable" /\ rounds = 0 /\ faults = 0 /\ kills = 0
  /\ life = [c \in Consumer |-> "new"] /\ joined = {} /\ rejoined = {}
  /\ share = [c \in Consumer |-> {}]
  /\ due = [c \in Consumer |-> "none"] /\ waits = [c \in Consumer |-> "none"]
  /\ lost = {} /\ fetching = [c \in Consumer |-> {}] /\ assigned = {}
  /\ events = [c \in Consumer |-> <<>>] /\ drained = [c \in Consumer |-> <<>>]
  /\ owned = [c \in Consumer |-> {}] /\ full = {} /\ phase = [c \in Consumer |-> "end"]

At(c, ph) == life[c] = "open" /\ phase[c] = ph
Go(c, ph) == phase' = [phase EXCEPT ![c] = ph]

----------------------------------------------------------------------------
(* The group *)

(* A rebalance asks every member that has an assignment to give it up; one without
   rejoins by itself. *)
Prepare(members) ==
  /\ group' = "prepare" /\ rounds' = rounds + 1 /\ joined' = members
  /\ UNCHANGED share
  /\ rejoined' = {c \in members : c \notin assigned /\ waits[c] = "none" /\ due[c] = "none"}
  /\ due' = [c \in Consumer |->
       IF c \in members /\ c \in assigned /\ waits[c] = "none" /\ due[c] = "none" THEN "revoke"
       ELSE due[c]]

Open(c) ==
  /\ life[c] = "new" /\ rounds < MaxRebalances
  /\ life' = [life EXCEPT ![c] = "open"] /\ Go(c, "top")
  /\ Prepare(joined \cup {c})
  /\ UNCHANGED <<bounds, waits, lost, fetching, assigned, events, drained, owned, full>>

Rebalance ==
  /\ group = "stable" /\ joined # {} /\ rounds < MaxRebalances
  /\ Prepare(joined)
  /\ UNCHANGED <<bounds, life, waits, lost, fetching, assigned, source>>

(* Every member rejoined: the group shares the partitions out. *)
Share ==
  /\ group = "prepare" /\ joined # {} /\ joined \subseteq rejoined
  /\ \E s \in [Partition -> joined] :
       share' = [c \in Consumer |-> IF c \in joined THEN {p \in Partition : s[p] = c} ELSE share[c]]
  /\ due' = [c \in Consumer |-> IF c \in joined THEN "assign" ELSE due[c]]
  /\ group' = "stable" /\ rejoined' = {}
  /\ UNCHANGED <<rounds, joined, bounds, life, waits, lost, fetching, assigned, source>>

(* What answering a rebalance lets a consumer do: rejoin, or hear that it is out. *)
Rejoins(c) ==
  rejoined' = IF group = "prepare" /\ c \in joined THEN rejoined \cup {c} ELSE rejoined

(* The session of a member that still runs ends: max.poll.interval.ms. *)
Evict(c) ==
  /\ c \in joined /\ life[c] = "open" /\ faults < MaxFaults
  /\ c \in assigned \/ "assign" \in {due[c], waits[c]}
  /\ faults' = faults + 1 /\ lost' = lost \cup {c}
  /\ joined' = joined \ {c} /\ rejoined' = rejoined \ {c}
  /\ due' = [due EXCEPT ![c] = IF waits[c] = "none" /\ @ = "none" THEN "revoke" ELSE @]
  /\ group' = IF joined = {c} THEN "stable" ELSE "prepare"
  /\ UNCHANGED <<rounds, share, kills, life, waits, fetching, assigned, source>>

(* An evicted member that has given its partitions up joins again. *)
Return(c) ==
  /\ life[c] = "open" /\ c \notin joined /\ c \notin lost /\ due[c] = "none" /\ waits[c] = "none"
  /\ rounds < MaxRebalances
  /\ Prepare(joined \cup {c})
  /\ UNCHANGED <<bounds, life, waits, lost, fetching, assigned, source>>

(* With no member to wait for, or after members left, those that remain are asked. *)
Continue ==
  /\ group = "prepare"
  /\ \E c \in joined \ rejoined :
       /\ due[c] = "none" /\ waits[c] = "none"
       /\ \/ c \in assigned /\ due' = [due EXCEPT ![c] = "revoke"] /\ UNCHANGED rejoined
          \/ c \notin assigned /\ rejoined' = rejoined \cup {c} /\ UNCHANGED due
  /\ UNCHANGED <<group, rounds, joined, share, bounds, life, waits, lost, fetching, assigned, source>>

(* A member leaves, or the group gives up on one that does not heartbeat. *)
Leaves(c) ==
  /\ joined' = joined \ {c} /\ rejoined' = rejoined \ {c}
  /\ group' = IF joined \subseteq {c} THEN "stable" ELSE IF c \in joined THEN "prepare" ELSE group
  /\ UNCHANGED <<rounds, share>>

SessionEnds(c) ==
  /\ c \in joined /\ life[c] = "gone"
  /\ Leaves(c)
  /\ UNCHANGED <<bounds, life, client, source>>

----------------------------------------------------------------------------
(* The callbacks *)

Push(c, e) == events' = [events EXCEPT ![c] = Append(@, e)]

\* Mutant: the callback gives the partitions up itself.
RebalanceAtOnce(c) ==
  /\ Push(c, IF due[c] = "revoke" THEN IF c \in lost THEN "lost" ELSE "revoke" ELSE due[c])
  /\ fetching' = [fetching EXCEPT ![c] = {}] /\ Rejoins(c)
  /\ assigned' = assigned \ {c} /\ lost' = lost \ {c} /\ UNCHANGED waits

(* rebalance, of a consumer that is not closing. *)
RebalanceEvent(c) ==
  /\ Push(c, IF due[c] = "revoke" THEN IF c \in lost THEN "lost" ELSE "revoke" ELSE due[c])
  /\ waits' = [waits EXCEPT ![c] = due[c]]
  /\ UNCHANGED <<fetching, assigned, lost, rejoined>>

Callback(c) ==
  /\ At(c, "recv") /\ due[c] # "none"
  /\ RebalanceEvent(c)
  /\ due' = [due EXCEPT ![c] = "none"]
  /\ UNCHANGED <<group, rounds, joined, share, bounds, life, drained, owned, full, phase>>

(* A rebalance that ends in an error: no assignment, or none any more. *)
GroupError(c) ==
  /\ At(c, "recv") /\ c \in joined /\ due[c] = "revoke" /\ faults < MaxFaults
  /\ faults' = faults + 1 /\ due' = [due EXCEPT ![c] = "error"]
  /\ UNCHANGED <<broker, kills, life, waits, lost, fetching, assigned, source>>

(* error: librdkafka's fatal error. *)
FatalError(c) ==
  /\ At(c, "recv") /\ faults < MaxFaults
  /\ faults' = faults + 1 /\ Push(c, "fatal")
  /\ UNCHANGED <<broker, kills, life, client, drained, owned, full, phase>>

----------------------------------------------------------------------------
(* The loop *)

Polls(c) ==
  /\ At(c, "top") /\ Go(c, "recv")
  /\ UNCHANGED <<broker, bounds, life, client, events, drained, owned, full>>

(* recv returns a message or nothing, and the events are drained before it is taken. *)
RecvReturns(c) ==
  /\ At(c, "recv")
  /\ drained' = [drained EXCEPT ![c] = events[c]] /\ events' = [events EXCEPT ![c] = <<>>]
  /\ Go(c, "handle")
  /\ UNCHANGED <<broker, bounds, life, client, owned, full>>

Event(c, e) == At(c, "handle") /\ drained[c] # <<>> /\ Head(drained[c]) = e
Handled(c) == drained' = [drained EXCEPT ![c] = Tail(@)]

(* assign_partitions: the target and the watermarks are read, then assign. *)
AssignReads(c) ==
  /\ Event(c, "assign") /\ Go(c, "read") /\ owned' = [owned EXCEPT ![c] = {}]
  /\ UNCHANGED <<broker, bounds, life, client, events, drained, full>>

\* Mutant: nothing tells librdkafka.
AnswerNot(c) == UNCHANGED waits

(* The call of assign. *)
Answer(c) == waits' = [waits EXCEPT ![c] = "none"]

AssignPartitions(c) ==
  /\ At(c, "read") /\ Go(c, "handle") /\ Handled(c)
  /\ owned' = [owned EXCEPT ![c] = share[c]] /\ fetching' = [fetching EXCEPT ![c] = share[c]]
  /\ assigned' = assigned \cup {c} /\ Answer(c)
  /\ due' = [due EXCEPT ![c] = IF c \in lost THEN "revoke" ELSE @]
  /\ UNCHANGED <<broker, bounds, life, lost, events, full>>

\* Mutant: the buffer is kept.
ForgetNot(c) == owned' = [owned EXCEPT ![c] = {}] /\ UNCHANGED full
Forget(c) == owned' = [owned EXCEPT ![c] = {}] /\ full' = full \ {c}

(* unassign: everything of the partitions is dropped before librdkafka gives them up. *)
Unassign(c) ==
  /\ Forget(c)
  /\ fetching' = [fetching EXCEPT ![c] = {}] /\ assigned' = assigned \ {c}
  /\ waits' = [waits EXCEPT ![c] = "none"] /\ lost' = lost \ {c} /\ Rejoins(c)
  /\ UNCHANGED due

\* Mutant: a member that owns nothing has nothing to give up.
UnassignEmptyNot(c) ==
  /\ UNCHANGED <<owned, full, fetching, assigned, waits, lost, rejoined, due>>

(* flush_then_unassign, of a member that owns nothing. *)
UnassignEmpty(c) == Unassign(c)

RevokeEmpty(c) ==
  /\ Event(c, "revoke") /\ owned[c] = {}
  /\ UnassignEmpty(c) /\ Handled(c)
  /\ UNCHANGED <<group, rounds, joined, share, bounds, life, events, phase>>

RevokeFlush(c) ==
  /\ Event(c, "revoke") /\ owned[c] # {} /\ Go(c, "flush")
  /\ UNCHANGED <<broker, bounds, life, client, events, drained, owned, full>>

(* flush ends: committed, dropped, timed out or with nothing to do. *)
Flushed(c) ==
  /\ At(c, "flush") /\ Unassign(c) /\ Handled(c) /\ Go(c, "handle")
  /\ UNCHANGED <<group, rounds, joined, share, bounds, life, events>>

(* drop_and_unassign. *)
DropAndUnassign(c) ==
  /\ Event(c, "lost") \/ Event(c, "error")
  /\ Unassign(c) /\ Handled(c)
  /\ UNCHANGED <<group, rounds, joined, share, bounds, life, events, phase>>

(* The message that recv returned is taken, or nothing came. *)
Take(c) ==
  /\ At(c, "handle") /\ drained[c] = <<>> /\ Go(c, "top")
  /\ full' \in {full} \cup (IF owned[c] # {} THEN {full \cup {c}} ELSE {})
  /\ UNCHANGED <<broker, bounds, life, client, events, drained, owned>>

CommitBatch(c) ==
  /\ At(c, "top") /\ c \in full /\ full' = full \ {c}
  /\ UNCHANGED <<broker, bounds, life, client, events, drained, owned, phase>>

----------------------------------------------------------------------------
(* Closing *)

\* Mutant: the consumer is closed with its callback still queueing events.
CloseConsumerOpen(c) == life' = life

(* close_consumer: from now on the callback answers. *)
CloseConsumer(c) == life' = [life EXCEPT ![c] = "closing"]

(* kafka_shutdown: between two steps, after a flush. *)
Shutdown(c) ==
  /\ At(c, "top") /\ Go(c, "last")
  /\ UNCHANGED <<broker, bounds, life, client, events, drained, owned, full>>

Gone(c) == owned' = [owned EXCEPT ![c] = {}] /\ full' = full \ {c} /\ Go(c, "end")

ShutdownFlushed(c) ==
  /\ At(c, "last") /\ CloseConsumer(c) /\ Gone(c)
  /\ UNCHANGED <<broker, bounds, client, events, drained>>

(* A fatal event, or an error of the assign or the flush, ends the step; the supervisor
   drops the source, which closes the consumer as it is. *)
Fails(c) ==
  /\ Event(c, "fatal") \/ ((At(c, "read") \/ At(c, "flush")) /\ faults < MaxFaults)
  /\ faults' = IF At(c, "handle") THEN faults ELSE faults + 1
  /\ CloseConsumer(c) /\ Gone(c)
  /\ UNCHANGED <<broker, kills, client, events, drained>>

(* librdkafka's close revokes what is assigned, and waits for the answer. *)
CloseRevokes(c) ==
  /\ life[c] = "closing" /\ c \in assigned /\ due[c] = "none" /\ waits[c] = "none"
  /\ due' = [due EXCEPT ![c] = "revoke"]
  /\ UNCHANGED <<broker, bounds, life, waits, lost, fetching, assigned, source>>

\* Mutant: the callback queues the event although nothing reads it.
RebalanceClosingDeferred(c) ==
  /\ waits' = [waits EXCEPT ![c] = due[c]] /\ UNCHANGED <<fetching, assigned, lost>>

(* rebalance, of a consumer that is closing. *)
RebalanceClosing(c) ==
  /\ IF due[c] = "assign"
     THEN fetching' = [fetching EXCEPT ![c] = share[c]] /\ assigned' = assigned \cup {c} /\ UNCHANGED lost
     ELSE fetching' = [fetching EXCEPT ![c] = {}] /\ assigned' = assigned \ {c} /\ lost' = lost \ {c}
  /\ UNCHANGED waits

CallbackClosing(c) ==
  /\ life[c] = "closing" /\ due[c] # "none"
  /\ RebalanceClosing(c) /\ due' = [due EXCEPT ![c] = "none"]
  /\ UNCHANGED <<broker, bounds, life, source>>

CloseDone(c) ==
  /\ life[c] = "closing" /\ c \notin assigned /\ due[c] = "none" /\ waits[c] = "none"
  /\ life' = [life EXCEPT ![c] = "gone"] /\ Leaves(c)
  /\ UNCHANGED <<bounds, client, source>>

(* A process that ends, or stops waiting for the close; or a closing consumer whose last
   callback nobody answered and which the group gives up on. *)
Kill(c) ==
  /\ life[c] \in {"open", "closing"} /\ kills < MaxKills
  /\ kills' = kills + 1 /\ life' = [life EXCEPT ![c] = "gone"] /\ Gone(c)
  /\ fetching' = [fetching EXCEPT ![c] = {}] /\ assigned' = assigned \ {c} /\ lost' = lost \ {c}
  /\ due' = [due EXCEPT ![c] = "none"] /\ waits' = [waits EXCEPT ![c] = "none"]
  /\ events' = [events EXCEPT ![c] = <<>>] /\ drained' = [drained EXCEPT ![c] = <<>>]
  /\ UNCHANGED <<broker, faults>>

Loop(c) ==
  \/ Polls(c) \/ RecvReturns(c) \/ AssignReads(c) \/ AssignPartitions(c) \/ RevokeEmpty(c)
  \/ RevokeFlush(c) \/ Flushed(c) \/ DropAndUnassign(c) \/ Take(c) \/ ShutdownFlushed(c)

Next ==
  \/ Rebalance \/ Share \/ Continue
  \/ \E c \in Consumer :
       \/ Open(c) \/ Evict(c) \/ Return(c) \/ SessionEnds(c) \/ Callback(c) \/ GroupError(c)
       \/ FatalError(c) \/ Loop(c) \/ CommitBatch(c) \/ Shutdown(c) \/ Fails(c)
       \/ CloseRevokes(c) \/ CallbackClosing(c) \/ CloseDone(c) \/ Kill(c)

Spec == Init /\ [][Next]_vars

(* The loop runs, recv serves librdkafka's callbacks, and the group goes on; nothing is
   assumed of errors, shutdowns, evictions or kills. *)
FairSpec ==
  /\ Spec /\ WF_vars(Share) /\ WF_vars(Continue)
  /\ \A c \in Consumer : WF_vars(Loop(c)) /\ SF_vars(Callback(c)) /\ WF_vars(SessionEnds(c))
                         /\ WF_vars(CloseRevokes(c) \/ CallbackClosing(c) \/ CloseDone(c))

----------------------------------------------------------------------------
(* Properties *)

(* Type invariant. *)
TypeOK ==
  /\ group \in {"stable", "prepare"} /\ rounds \in 0 .. MaxRebalances
  /\ faults \in 0 .. MaxFaults /\ kills \in 0 .. MaxKills
  /\ rejoined \subseteq joined /\ {joined, lost, assigned, full} \subseteq SUBSET Consumer
  /\ life \in [Consumer -> {"new", "open", "closing", "gone"}]
  /\ {due, waits} \subseteq [Consumer -> {"none", "assign", "revoke", "error"}]
  /\ \A c \in Consumer : due[c] = "none" \/ waits[c] = "none"
  /\ {share, fetching, owned} \subseteq [Consumer -> SUBSET Partition]
  /\ {events, drained} \subseteq [Consumer -> Seq({"assign", "revoke", "lost", "error", "fatal"})]
  /\ phase \in [Consumer -> {"top", "recv", "handle", "read", "flush", "last", "end"}]

(* No two members hold one partition, in the loop of one and in librdkafka of the other,
   unless a session was lost: a partition is given up only after what was buffered of it
   was committed or dropped. (docs/kafka-design.md §3.4) *)
Exclusive ==
  \A c, d \in Consumer : c # d /\ c \notin lost /\ d \notin lost => owned[c] \cap fetching[d] = {}

(* What is buffered is of partitions the member holds: no row outlives its partition's
   revoke, to be committed under an offset another member moves. (rebalance.rs unassign) *)
BufferIsOwned == \A c \in full : owned[c] # {} /\ life[c] = "open"

(* Nothing the callback defers is forgotten: whenever the loop polls again, every event
   was answered, so the group never waits for a member that waits for the group.
   (context.rs rebalance) *)
Answered ==
  \A c \in Consumer : At(c, "top") \/ At(c, "last") => waits[c] = "none" /\ events[c] = <<>>

Stable == group = "stable"

(* Every rebalance completes without the group giving up on a member that runs, however
   revokes, flushes and shutdowns interleave. *)
Rebalances == []<>Stable

(* From some point on: a consumer that was closed has left its group. *)
Left == \A c \in Consumer : life[c] # "closing" /\ (life[c] = "gone" => c \notin joined)

=============================================================================
