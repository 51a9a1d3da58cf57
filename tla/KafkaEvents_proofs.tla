------------------------- MODULE KafkaEvents_proofs -------------------------
(***************************************************************************)
(* Proofs about KafkaEvents, for any number of consumers and partitions,   *)
(* any number of rebalances, errors, lost sessions and kills: that no      *)
(* partition is held by two members, that no row outlives the revoke of    *)
(* its partition, and that every event librdkafka waits for is answered    *)
(* before the loop polls again.                                            *)
(*                                                                         *)
(* Below it are the proofs of what else a member asks before it reads:     *)
(* SchemaRegistry and KafkaPlan.                                           *)
(***************************************************************************)
EXTENDS KafkaEvents, FiniteSets, TLAPS

-----------------------------------------------------------------------------
(* The inductive invariant.                                                *)

\* A consumer whose process has not ended.
Runs(c) == life[c] \in {"open", "closing"}

\* librdkafka has asked for an assign that was not answered.
Assigning(c) == due[c] = "assign" \/ waits[c] = "assign"

\* A consumer that has partitions, or is about to take them, in the group's view of who
\* has what.
Holds(c) == Runs(c) /\ c \notin lost /\ (c \in assigned \/ Assigning(c))

\* What a consumer takes is what the group gave it, and it takes it with nothing left of
\* an assignment before.
TakesItsShare(c) ==
    /\ owned[c] \subseteq fetching[c] /\ fetching[c] \subseteq share[c]
    /\ c \notin assigned => fetching[c] = {}
    /\ Assigning(c) => c \notin assigned
    /\ life[c] # "open" => owned[c] = {}
    /\ c \in full => owned[c] # {}

\* A member that rejoined has given up what it had, and one the group no longer waits for
\* has either done so too or knows that its session is lost.
GivesUp(c) ==
    /\ c \in rejoined => c \notin assigned /\ due[c] = "none" /\ waits[c] = "none"
    /\ c \in lost => c \notin joined
    /\ Holds(c) => c \in joined

\* A consumer that was not opened has nothing, one that is gone has no partitions.
AtTheEnds(c) ==
    /\ life[c] = "new" => /\ c \notin joined \cup lost \cup assigned
                          /\ due[c] = "none" /\ waits[c] = "none" /\ events[c] = <<>>
    /\ life[c] = "gone" => c \notin assigned

\* Of the events q at most one is of a rebalance, and there is one if and only if
\* librdkafka waits: w is what for.
Carries(q, w) ==
    /\ w # "none" => \E i \in DOMAIN q : q[i] # "fatal"
    /\ \A i \in DOMAIN q : q[i] # "fatal" =>
         /\ w # "none"
         /\ q[i] = "assign" <=> w = "assign"
         /\ \A j \in DOMAIN q : q[j] # "fatal" => j = i

\* Where the event that librdkafka waits for is, at each place of the loop.
LoopOK(c) ==
    /\ phase[c] \in {"top", "last"} => waits[c] = "none"
    /\ phase[c] = "recv" => Carries(events[c], waits[c])
    /\ phase[c] # "recv" => events[c] = <<>>
    /\ phase[c] \in {"handle", "read", "flush"} => Carries(drained[c], waits[c])
    /\ phase[c] = "read" => drained[c] # <<>> /\ Head(drained[c]) = "assign"
    /\ phase[c] = "flush" => drained[c] # <<>> /\ Head(drained[c]) = "revoke"
    /\ phase[c] # "end"

\* What holds of each consumer by itself.
MemberOK(c) ==
    /\ TakesItsShare(c) /\ GivesUp(c) /\ AtTheEnds(c)
    /\ life[c] = "open" => LoopOK(c)

\* The group gave no partition to two of those that hold theirs.
SharesDisjoint ==
    \A c, d \in Consumer : c # d /\ Holds(c) /\ Holds(d) => share[c] \cap share[d] = {}

\* The inductive invariant.
IInv ==
    /\ TypeOK
    /\ \A c \in Consumer : MemberOK(c)
    /\ SharesDisjoint

-----------------------------------------------------------------------------
(* The events.                                                             *)

Kinds == {"assign", "revoke", "lost", "error", "fatal"}

\* With nothing in the queue librdkafka waits for nothing.
LEMMA CarriesEmpty ==
    ASSUME NEW w
    PROVE  Carries(<<>>, w) <=> w = "none"
<1>1. DOMAIN <<>> = {}
  OBVIOUS
<1> QED
  BY <1>1 DEF Carries

\* A callback's event is the only one of a rebalance.
LEMMA CarriesPushed ==
    ASSUME NEW q \in Seq(Kinds), Carries(q, "none"), NEW e \in Kinds \ {"fatal"},
           NEW w, w # "none", e = "assign" <=> w = "assign"
    PROVE  Carries(Append(q, e), w)
<1>1. /\ Append(q, e) \in Seq(Kinds) /\ Len(Append(q, e)) = Len(q) + 1 /\ Len(q) \in Nat
      /\ Append(q, e)[Len(q) + 1] = e /\ \A i \in 1 .. Len(q) : Append(q, e)[i] = q[i]
  OBVIOUS
<1>2. DOMAIN q = 1 .. Len(q) /\ DOMAIN Append(q, e) = 1 .. Len(q) + 1
  BY <1>1
<1>3. \A i \in 1 .. Len(q) : Append(q, e)[i] = "fatal"
  BY <1>1, <1>2 DEF Carries
<1>4. \A i \in DOMAIN Append(q, e) : i = Len(q) + 1 \/ i \in 1 .. Len(q)
  BY <1>1, <1>2
<1>5. Len(q) + 1 \in DOMAIN Append(q, e)
  BY <1>1, <1>2
<1> QED
  BY <1>1, <1>3, <1>4, <1>5 DEF Carries

\* A fatal error's event changes nothing of that.
LEMMA CarriesFatal ==
    ASSUME NEW q \in Seq(Kinds), NEW w, Carries(q, w)
    PROVE  Carries(Append(q, "fatal"), w)
<1>1. /\ Len(Append(q, "fatal")) = Len(q) + 1 /\ Len(q) \in Nat
      /\ Append(q, "fatal")[Len(q) + 1] = "fatal"
      /\ \A i \in 1 .. Len(q) : Append(q, "fatal")[i] = q[i]
  OBVIOUS
<1>2. DOMAIN q = 1 .. Len(q) /\ DOMAIN Append(q, "fatal") = 1 .. Len(q) + 1
  BY <1>1
<1>3. \A i \in DOMAIN Append(q, "fatal") : Append(q, "fatal")[i] # "fatal" => i \in DOMAIN q
  BY <1>1, <1>2
<1>4. \A i \in DOMAIN q : i \in DOMAIN Append(q, "fatal") /\ Append(q, "fatal")[i] = q[i]
  BY <1>1, <1>2
<1> QED
  BY <1>3, <1>4 DEF Carries

\* After the event of a rebalance there is no other.
LEMMA CarriesHandled ==
    ASSUME NEW q \in Seq(Kinds), NEW w, Carries(q, w), q # <<>>, Head(q) # "fatal"
    PROVE  /\ w # "none" /\ (Head(q) = "assign" <=> w = "assign")
           /\ Tail(q) \in Seq(Kinds) /\ Carries(Tail(q), "none")
<1>1. /\ Len(q) \in Nat /\ Len(q) >= 1 /\ DOMAIN q = 1 .. Len(q) /\ Head(q) = q[1]
      /\ Tail(q) \in Seq(Kinds) /\ Len(Tail(q)) = Len(q) - 1
      /\ \A i \in 1 .. Len(q) - 1 : Tail(q)[i] = q[i + 1]
  OBVIOUS
<1>2. 1 \in DOMAIN q /\ q[1] # "fatal"
  BY <1>1
<1>3. w # "none" /\ (q[1] = "assign" <=> w = "assign")
  BY <1>2 DEF Carries
<1>4. \A j \in DOMAIN q : q[j] # "fatal" => j = 1
  BY <1>2 DEF Carries
<1>5. \A i \in DOMAIN Tail(q) : i + 1 \in DOMAIN q /\ i + 1 # 1 /\ Tail(q)[i] = q[i + 1]
  BY <1>1
<1>6. \A i \in DOMAIN Tail(q) : Tail(q)[i] = "fatal"
  BY <1>4, <1>5
<1> QED
  BY <1>1, <1>3, <1>6 DEF Carries

-----------------------------------------------------------------------------
(* What a step leaves alone.                                               *)

\* The parts of the type invariant.
LEMMA Types ==
    TypeOK <=>
      /\ group \in {"stable", "prepare"} /\ rounds \in 0 .. MaxRebalances
      /\ faults \in 0 .. MaxFaults /\ kills \in 0 .. MaxKills
      /\ rejoined \subseteq joined /\ joined \subseteq Consumer /\ lost \subseteq Consumer
      /\ assigned \subseteq Consumer /\ full \subseteq Consumer
      /\ life \in [Consumer -> {"new", "open", "closing", "gone"}]
      /\ due \in [Consumer -> {"none", "assign", "revoke", "error"}]
      /\ waits \in [Consumer -> {"none", "assign", "revoke", "error"}]
      /\ \A c \in Consumer : due[c] = "none" \/ waits[c] = "none"
      /\ share \in [Consumer -> SUBSET Partition]
      /\ fetching \in [Consumer -> SUBSET Partition]
      /\ owned \in [Consumer -> SUBSET Partition]
      /\ events \in [Consumer -> Seq(Kinds)] /\ drained \in [Consumer -> Seq(Kinds)]
      /\ phase \in [Consumer -> {"top", "recv", "handle", "read", "flush", "last", "end"}]
BY Zenon DEF TypeOK, Kinds

\* A step of the group or of another consumer, as the consumer d sees it: it may be asked
\* to give up what it has, and be counted as rejoined if it has nothing.
Apart(d) ==
    /\ life'[d] = life[d] /\ waits'[d] = waits[d] /\ share'[d] = share[d]
    /\ fetching'[d] = fetching[d] /\ owned'[d] = owned[d]
    /\ events'[d] = events[d] /\ drained'[d] = drained[d] /\ phase'[d] = phase[d]
    /\ d \in joined' <=> d \in joined
    /\ d \in lost' <=> d \in lost
    /\ d \in assigned' <=> d \in assigned
    /\ d \in full' <=> d \in full
    /\ \/ due'[d] = due[d]
       \/ due[d] = "none" /\ waits[d] = "none" /\ d \in assigned /\ due'[d] = "revoke"
    /\ d \in rejoined' =>
         d \in rejoined \/ (d \notin assigned /\ due[d] = "none" /\ waits[d] = "none")

\* Such a step keeps what holds of the consumer.
LEMMA ApartKeeps ==
    ASSUME NEW d \in Consumer, MemberOK(d), Apart(d)
    PROVE  MemberOK(d)' /\ (Holds(d)' => Holds(d)) /\ share'[d] = share[d]
<1>1. Assigning(d)' => Assigning(d)
  BY DEF Apart, Assigning
<1>2. Runs(d)' <=> Runs(d)
  BY DEF Apart, Runs
<1>3. Holds(d)' => Holds(d)
  BY <1>1, <1>2 DEF Apart, Holds
<1>4. TakesItsShare(d)'
  BY <1>1 DEF Apart, MemberOK, TakesItsShare
<1>5. GivesUp(d)'
  BY <1>3 DEF Apart, MemberOK, GivesUp
<1>6. AtTheEnds(d)'
  BY DEF Apart, MemberOK, AtTheEnds
<1>7. life'[d] = "open" => LoopOK(d)'
  BY DEF Apart, MemberOK, LoopOK
<1> QED
  BY <1>3, <1>4, <1>5, <1>6, <1>7 DEF MemberOK, Apart

\* A step of the consumer c, which takes no share of its own.
LEMMA OneKeeps ==
    ASSUME IInv, TypeOK', NEW c \in Consumer, MemberOK(c)',
           Holds(c)' => Holds(c) /\ share'[c] = share[c],
           \A d \in Consumer \ {c} : Apart(d)
    PROVE  IInv'
<1>1. \A d \in Consumer : MemberOK(d)'
  BY ApartKeeps DEF IInv
<1>2. \A d \in Consumer : Holds(d)' => Holds(d) /\ share'[d] = share[d]
  BY ApartKeeps DEF IInv
<1>3. SharesDisjoint'
  BY <1>2 DEF SharesDisjoint, IInv
<1> QED
  BY <1>1, <1>3 DEF IInv

\* A step of the group.
LEMMA NoneKeeps ==
    ASSUME IInv, TypeOK', \A d \in Consumer : Apart(d)
    PROVE  IInv'
<1>1. \A d \in Consumer : MemberOK(d)'
  BY ApartKeeps DEF IInv
<1>2. \A d \in Consumer : Holds(d)' => Holds(d) /\ share'[d] = share[d]
  BY ApartKeeps DEF IInv
<1>3. SharesDisjoint'
  BY <1>2 DEF SharesDisjoint, IInv
<1> QED
  BY <1>1, <1>3 DEF IInv

-----------------------------------------------------------------------------
(* The group.                                                              *)

\* Who is asked for what it has in a rebalance of these members.
LEMMA PrepareAsks ==
    ASSUME TypeOK, NEW members \in SUBSET Consumer, Prepare(members), rounds < MaxRebalances,
           {MaxRebalances, MaxFaults, MaxKills} \subseteq Nat
    PROVE  /\ group' = "prepare" /\ rounds' \in 0 .. MaxRebalances
           /\ rejoined' \subseteq joined' /\ joined' = members /\ share' = share
           /\ due' \in [Consumer -> {"none", "assign", "revoke", "error"}]
           /\ \A d \in Consumer :
                /\ \/ due'[d] = due[d]
                   \/ due[d] = "none" /\ waits[d] = "none" /\ d \in assigned /\ due'[d] = "revoke"
                /\ d \in rejoined' => d \notin assigned /\ due[d] = "none" /\ waits[d] = "none"
                /\ due'[d] = "none" \/ waits[d] = "none"
<1>1. rounds' \in 0 .. MaxRebalances
  BY DEF Prepare, Types, TypeOK
<1>2. due \in [Consumer -> {"none", "assign", "revoke", "error"}]
  BY Types
<1>3. \A d \in Consumer : due[d] = "none" \/ waits[d] = "none"
  BY Types
<1> QED
  BY <1>1, <1>2, <1>3 DEF Prepare

\* A rebalance of the members there are.
LEMMA RebalanceKeeps ==
    ASSUME ConstantsAssumption, IInv, Rebalance
    PROVE  IInv'
<1>1. TypeOK /\ joined \in SUBSET Consumer
  BY Types DEF IInv
<1>2. Prepare(joined) /\ rounds < MaxRebalances
  BY DEF Rebalance
<1>3. UNCHANGED <<bounds, life, waits, lost, fetching, assigned, source>>
  BY DEF Rebalance
<1>4. /\ group' = "prepare" /\ rounds' \in 0 .. MaxRebalances
      /\ rejoined' \subseteq joined' /\ joined' = joined /\ share' = share
      /\ due' \in [Consumer -> {"none", "assign", "revoke", "error"}]
      /\ \A d \in Consumer :
           /\ \/ due'[d] = due[d]
              \/ due[d] = "none" /\ waits[d] = "none" /\ d \in assigned /\ due'[d] = "revoke"
           /\ d \in rejoined' => d \notin assigned /\ due[d] = "none" /\ waits[d] = "none"
           /\ due'[d] = "none" \/ waits[d] = "none"
  BY <1>1, <1>2, PrepareAsks DEF ConstantsAssumption
<1>5. TypeOK'
  BY SMTT(20), <1>1, <1>3, <1>4, Types DEF bounds, source, TypeOK
<1>6. \A d \in Consumer : Apart(d)
  BY <1>3, <1>4 DEF Apart, source
<1> QED
  BY <1>5, <1>6, NoneKeeps

\* A consumer opens, or one that lost its session joins again.
LEMMA JoinKeeps ==
    ASSUME ConstantsAssumption, IInv, NEW c \in Consumer, Open(c) \/ Return(c)
    PROVE  IInv'
<1>1. TypeOK /\ joined \cup {c} \in SUBSET Consumer /\ MemberOK(c)
  BY Types DEF IInv
<1>2. Prepare(joined \cup {c}) /\ rounds < MaxRebalances
  BY DEF Open, Return
<1>3. UNCHANGED <<bounds, waits, lost, fetching, assigned, events, drained, owned, full>>
  BY DEF Open, Return, source
<1>4. \/ life[c] = "new" /\ life' = [life EXCEPT ![c] = "open"] /\ phase' = [phase EXCEPT ![c] = "top"]
      \/ /\ life[c] = "open" /\ due[c] = "none" /\ waits[c] = "none" /\ c \notin lost /\ c \notin joined
         /\ life' = life /\ phase' = phase
  BY DEF Open, Return, Go, source
<1>5. /\ group' = "prepare" /\ rounds' \in 0 .. MaxRebalances
      /\ rejoined' \subseteq joined' /\ joined' = joined \cup {c} /\ share' = share
      /\ due' \in [Consumer -> {"none", "assign", "revoke", "error"}]
      /\ \A d \in Consumer :
           /\ \/ due'[d] = due[d]
              \/ due[d] = "none" /\ waits[d] = "none" /\ d \in assigned /\ due'[d] = "revoke"
           /\ d \in rejoined' => d \notin assigned /\ due[d] = "none" /\ waits[d] = "none"
           /\ due'[d] = "none" \/ waits[d] = "none"
  BY <1>1, <1>2, PrepareAsks DEF ConstantsAssumption
<1>6. TypeOK'
  <2>1. life' \in [Consumer -> {"new", "open", "closing", "gone"}]
        /\ phase' \in [Consumer -> {"top", "recv", "handle", "read", "flush", "last", "end"}]
    BY ZenonT(30), <1>1, <1>4, Types
  <2> QED
    BY <1>1, <1>3, <1>5, <2>1, Types DEF bounds, TypeOK
<1>7. \A d \in Consumer \ {c} : Apart(d)
  <2>1. \A d \in Consumer \ {c} : life'[d] = life[d] /\ phase'[d] = phase[d]
    BY <1>1, <1>4, Types
  <2> QED
    BY <1>3, <1>5, <2>1 DEF Apart
<1>8. /\ c \notin lost /\ c \notin assigned /\ due[c] = "none" /\ waits[c] = "none" /\ c \in joined'
      /\ due'[c] = "none"
  <2>1. c \notin joined /\ c \notin lost /\ due[c] = "none" /\ waits[c] = "none"
    BY <1>1, <1>4 DEF MemberOK, AtTheEnds
  <2>2. c \notin assigned
    BY <1>1, <1>4, <2>1 DEF MemberOK, AtTheEnds, GivesUp, Holds, Runs
  <2> QED
    BY <1>5, <2>1, <2>2
<1>9. ~Holds(c)'
  BY <1>3, <1>8 DEF Holds, Assigning
<1>10. life'[c] = "open" /\ LoopOK(c)'
  <2>1. CASE life[c] = "new"
    <3>1. phase'[c] = "top" /\ life'[c] = "open" /\ events'[c] = <<>> /\ waits'[c] = "none"
      BY <1>1, <1>3, <1>4, <2>1, Types DEF MemberOK, AtTheEnds
    <3> QED
      BY <3>1 DEF LoopOK
  <2>2. CASE life[c] # "new"
    BY <1>1, <1>3, <1>4, <2>2 DEF MemberOK, LoopOK
  <2> QED
    BY <2>1, <2>2
<1>11. TakesItsShare(c)'
  BY <1>1, <1>3, <1>5, <1>8, <1>10 DEF MemberOK, TakesItsShare, Assigning
<1>12. MemberOK(c)'
  BY <1>3, <1>8, <1>9, <1>10, <1>11 DEF MemberOK, GivesUp, AtTheEnds
<1> QED
  BY <1>6, <1>7, <1>9, <1>12, OneKeeps

\* The group shares the partitions out: those it has nothing from hold nothing.
LEMMA ShareKeeps ==
    ASSUME IInv, Share
    PROVE  IInv'
<1>1. TypeOK /\ \A c \in Consumer : MemberOK(c)
  BY DEF IInv
<1>2. joined \subseteq rejoined /\ UNCHANGED <<rounds, joined, bounds, life, waits, lost, fetching, assigned, source>>
      /\ group' = "stable" /\ rejoined' = {}
      /\ due' = [c \in Consumer |-> IF c \in joined THEN "assign" ELSE due[c]]
  BY DEF Share
<1>3. PICK s \in [Partition -> joined] :
        share' = [c \in Consumer |-> IF c \in joined THEN {p \in Partition : s[p] = c} ELSE share[c]]
  BY DEF Share
<1>4. \A c \in joined : c \notin assigned /\ due[c] = "none" /\ waits[c] = "none" /\ c \notin lost
  BY <1>1, <1>2, Types DEF MemberOK, GivesUp
<1>5. TypeOK'
  <2>1. due' \in [Consumer -> {"none", "assign", "revoke", "error"}]
    BY <1>1, <1>2, Types
  <2>2. share' \in [Consumer -> SUBSET Partition]
    BY <1>1, <1>3, Types
  <2>3. \A c \in Consumer : due'[c] = "none" \/ waits'[c] = "none"
    BY <1>1, <1>2, <1>4, Types
  <2> QED
    BY <1>1, <1>2, <2>1, <2>2, <2>3, Types DEF bounds, source, TypeOK
<1>6. ASSUME NEW c \in Consumer
      PROVE  MemberOK(c)' /\ (Holds(c)' => c \in joined)
  <2>1. MemberOK(c) /\ Runs(c)' = Runs(c)
    BY <1>1, <1>2 DEF Runs
  <2>2. c \notin joined => ~Holds(c) /\ due'[c] = due[c] /\ share'[c] = share[c]
    BY <1>2, <1>3, <2>1 DEF MemberOK, GivesUp
  <2>3. c \in joined => fetching[c] = {} /\ owned[c] = {}
    BY <1>4, <2>1 DEF MemberOK, TakesItsShare
  <2>4. TakesItsShare(c)'
    BY <1>2, <1>4, <2>1, <2>2, <2>3 DEF MemberOK, TakesItsShare, Assigning, source
  <2>5. Holds(c)' => c \in joined
    BY <1>2, <2>1, <2>2 DEF Holds, Assigning
  <2>6. GivesUp(c)'
    BY <1>2, <2>1, <2>5 DEF MemberOK, GivesUp
  <2>7. AtTheEnds(c)'
    BY <1>2, <2>1, <2>2 DEF MemberOK, AtTheEnds, source
  <2>8. life'[c] = "open" => LoopOK(c)'
    BY <1>2, <2>1 DEF MemberOK, LoopOK, source
  <2> QED
    BY <2>4, <2>5, <2>6, <2>7, <2>8 DEF MemberOK
<1>7. SharesDisjoint'
  <2>1. \A c, d \in joined : c # d => share'[c] \cap share'[d] = {}
    BY <1>1, <1>3, Types
  <2> QED
    BY <1>6, <2>1 DEF SharesDisjoint
<1> QED
  BY <1>5, <1>6, <1>7 DEF IInv

\* The group goes on asking.
LEMMA ContinueKeeps ==
    ASSUME IInv, Continue
    PROVE  IInv'
<1>1. TypeOK
  BY DEF IInv
<1>2. PICK c \in joined \ rejoined :
        /\ due[c] = "none" /\ waits[c] = "none"
        /\ \/ c \in assigned /\ due' = [due EXCEPT ![c] = "revoke"] /\ rejoined' = rejoined
           \/ c \notin assigned /\ rejoined' = rejoined \cup {c} /\ due' = due
  BY DEF Continue
<1>3. UNCHANGED <<group, rounds, joined, share, bounds, life, waits, lost, fetching, assigned, source>>
  BY DEF Continue
<1>4. TypeOK'
  <2>1. /\ due' \in [Consumer -> {"none", "assign", "revoke", "error"}]
        /\ \A d \in Consumer : due'[d] = "none" \/ waits'[d] = "none"
    BY ZenonT(30), <1>1, <1>2, <1>3, Types
  <2>2. rejoined' \subseteq joined'
    BY <1>1, <1>2, <1>3, Types
  <2> QED
    BY <1>1, <1>3, <2>1, <2>2, Types DEF bounds, source, TypeOK
<1>5. \A d \in Consumer : Apart(d)
  BY <1>1, <1>2, <1>3, Types DEF Apart, source
<1> QED
  BY <1>4, <1>5, NoneKeeps

\* A session that ends.
LEMMA EvictKeeps ==
    ASSUME ConstantsAssumption, IInv, NEW c \in Consumer, Evict(c)
    PROVE  IInv'
<1>1. TypeOK /\ MemberOK(c) /\ MaxFaults \in Nat
  BY DEF IInv, ConstantsAssumption
<1>2. /\ life[c] = "open" /\ faults < MaxFaults /\ faults' = faults + 1
      /\ lost' = lost \cup {c} /\ joined' = joined \ {c} /\ rejoined' = rejoined \ {c}
      /\ due' = [due EXCEPT ![c] = IF waits[c] = "none" /\ @ = "none" THEN "revoke" ELSE @]
      /\ group' \in {"stable", "prepare"}
      /\ c \in assigned \/ "assign" \in {due[c], waits[c]}
  BY DEF Evict
<1>3. UNCHANGED <<rounds, share, kills, life, waits, fetching, assigned, source>>
  BY DEF Evict
<1>4. TypeOK'
  <2>1. faults' \in 0 .. MaxFaults
    BY <1>1, <1>2, Types
  <2> QED
    BY <1>1, <1>2, <1>3, <2>1, Types DEF source, TypeOK
<1>5. \A d \in Consumer \ {c} : Apart(d)
  BY <1>1, <1>2, <1>3, Types DEF Apart, source
<1>6. due'[c] = due[c] \/ (due[c] = "none" /\ due'[c] = "revoke")
  BY <1>1, <1>2, Types
<1>7. ~Holds(c)'
  BY <1>2 DEF Holds
<1>8. TakesItsShare(c)'
  BY <1>1, <1>3, <1>6 DEF MemberOK, TakesItsShare, Assigning, source
<1>9. LoopOK(c)'
  BY <1>1, <1>2, <1>3 DEF MemberOK, LoopOK, source
<1>10. MemberOK(c)'
  BY <1>2, <1>3, <1>7, <1>8, <1>9 DEF MemberOK, GivesUp, AtTheEnds
<1> QED
  BY <1>4, <1>5, <1>7, <1>10, OneKeeps

\* The group gives up on a member that is gone.
LEMMA SessionEndsKeeps ==
    ASSUME IInv, NEW c \in Consumer, SessionEnds(c)
    PROVE  IInv'
<1>1. TypeOK /\ MemberOK(c)
  BY DEF IInv
<1>2. /\ life[c] = "gone" /\ joined' = joined \ {c} /\ rejoined' = rejoined \ {c}
      /\ group' \in {"stable", "prepare"}
      /\ UNCHANGED <<rounds, share, bounds, life, client, source>>
  BY <1>1, Types DEF SessionEnds, Leaves
<1>3. TypeOK'
  BY ZenonT(30), <1>1, <1>2, Types DEF bounds, client, source, TypeOK
<1>4. \A d \in Consumer \ {c} : Apart(d)
  BY <1>1, <1>2 DEF Apart, client, source
<1>5. ~Holds(c)'
  BY <1>2 DEF Holds, Runs
<1>6. MemberOK(c)'
  BY <1>1, <1>2, <1>5
     DEF MemberOK, TakesItsShare, Assigning, GivesUp, AtTheEnds, client, source
<1> QED
  BY <1>3, <1>4, <1>5, <1>6, OneKeeps

-----------------------------------------------------------------------------
(* The callbacks.                                                          *)

\* A rebalance fails before the member has given up what it had.
LEMMA GroupErrorKeeps ==
    ASSUME ConstantsAssumption, IInv, NEW c \in Consumer, GroupError(c)
    PROVE  IInv'
<1>1. TypeOK /\ MemberOK(c) /\ MaxFaults \in Nat
  BY DEF IInv, ConstantsAssumption
<1>2. /\ life[c] = "open" /\ due[c] = "revoke" /\ faults < MaxFaults /\ faults' = faults + 1
      /\ due' = [due EXCEPT ![c] = "error"]
      /\ UNCHANGED <<broker, kills, life, waits, lost, fetching, assigned, source>>
  BY DEF GroupError, At
<1>3. TypeOK'
  <2>1. faults' \in 0 .. MaxFaults
    BY <1>1, <1>2, Types
  <2> QED
    BY <1>1, <1>2, <2>1, Types DEF broker, source, TypeOK
<1>4. \A d \in Consumer \ {c} : Apart(d)
  BY <1>1, <1>2, Types DEF Apart, broker, source
<1>5. due'[c] = "error"
  BY <1>1, <1>2, Types
<1>6. Holds(c)' => Holds(c)
  BY <1>2, <1>5 DEF Holds, Runs, Assigning
<1>7. MemberOK(c)'
  <2>1. TakesItsShare(c)'
    BY <1>1, <1>2, <1>5 DEF MemberOK, TakesItsShare, Assigning, broker, source
  <2>2. GivesUp(c)'
    BY <1>1, <1>2, <1>6 DEF MemberOK, GivesUp, broker
  <2>3. AtTheEnds(c)' /\ LoopOK(c)'
    BY <1>1, <1>2 DEF MemberOK, AtTheEnds, LoopOK, source
  <2> QED
    BY <2>1, <2>2, <2>3 DEF MemberOK
<1> QED
  BY <1>2, <1>3, <1>4, <1>6, <1>7, OneKeeps DEF broker

\* The callback queues its event and returns; librdkafka waits for the answer.
LEMMA CallbackKeeps ==
    ASSUME IInv, NEW c \in Consumer, Callback(c)
    PROVE  IInv'
<1>1. TypeOK /\ MemberOK(c)
  BY DEF IInv
<1> DEFINE e == IF due[c] = "revoke" THEN IF c \in lost THEN "lost" ELSE "revoke" ELSE due[c]
<1>2. /\ life[c] = "open" /\ phase[c] = "recv" /\ due[c] # "none"
      /\ events' = [events EXCEPT ![c] = Append(@, e)]
      /\ waits' = [waits EXCEPT ![c] = due[c]]
      /\ due' = [due EXCEPT ![c] = "none"]
  BY DEF Callback, RebalanceEvent, Push, At
<1>3. UNCHANGED <<group, rounds, joined, share, bounds, life, drained, owned, full, phase,
                  fetching, assigned, lost, rejoined>>
  BY DEF Callback, RebalanceEvent
<1>4. due[c] \in {"assign", "revoke", "error"} /\ waits[c] = "none" /\ events[c] \in Seq(Kinds)
  BY <1>1, <1>2, Types
<1>5. e \in Kinds \ {"fatal"} /\ (e = "assign" <=> due[c] = "assign")
  BY <1>4 DEF Kinds
<1>6. due'[c] = "none" /\ waits'[c] = due[c] /\ events'[c] = Append(events[c], e)
  BY <1>1, <1>2, Types
<1>7. TypeOK'
  <2>1. Append(events[c], e) \in Seq(Kinds)
    BY <1>4, <1>5
  <2>2. events' \in [Consumer -> Seq(Kinds)]
    BY <1>1, <1>2, <2>1, Types
  <2>3. /\ waits' \in [Consumer -> {"none", "assign", "revoke", "error"}]
        /\ due' \in [Consumer -> {"none", "assign", "revoke", "error"}]
        /\ \A d \in Consumer : due'[d] = "none" \/ waits'[d] = "none"
    BY <1>1, <1>2, <1>4, Types
  <2> QED
    BY <1>1, <1>3, <2>2, <2>3, Types DEF bounds, TypeOK, Kinds
<1>8. \A d \in Consumer \ {c} : Apart(d)
  BY <1>1, <1>2, <1>3, Types DEF Apart
<1>9. Holds(c)' => Holds(c)
  BY <1>3, <1>6 DEF Holds, Runs, Assigning
<1>10. LoopOK(c)'
  <2>1. Carries(events[c], "none")
    BY <1>1, <1>2, <1>4 DEF MemberOK, LoopOK
  <2>2. Carries(events'[c], waits'[c])
    BY <1>2, <1>4, <1>5, <1>6, <2>1, CarriesPushed
  <2>3. phase'[c] = "recv"
    BY <1>2, <1>3
  <2> QED
    BY <2>2, <2>3 DEF LoopOK
<1>11. MemberOK(c)'
  <2>1. TakesItsShare(c)'
    BY <1>1, <1>3, <1>6 DEF MemberOK, TakesItsShare, Assigning
  <2>2. GivesUp(c)'
    BY <1>1, <1>2, <1>3, <1>9 DEF MemberOK, GivesUp
  <2>3. AtTheEnds(c)'
    BY <1>2, <1>3 DEF AtTheEnds
  <2> QED
    BY <1>10, <2>1, <2>2, <2>3 DEF MemberOK
<1> QED
  BY <1>3, <1>7, <1>8, <1>9, <1>11, OneKeeps

\* librdkafka's fatal error is queued behind what there is.
LEMMA FatalErrorKeeps ==
    ASSUME ConstantsAssumption, IInv, NEW c \in Consumer, FatalError(c)
    PROVE  IInv'
<1>1. TypeOK /\ MemberOK(c) /\ MaxFaults \in Nat
  BY DEF IInv, ConstantsAssumption
<1>2. /\ life[c] = "open" /\ phase[c] = "recv" /\ faults < MaxFaults /\ faults' = faults + 1
      /\ events' = [events EXCEPT ![c] = Append(@, "fatal")]
      /\ UNCHANGED <<broker, kills, life, client, drained, owned, full, phase>>
  BY DEF FatalError, Push, At
<1>3. events[c] \in Seq(Kinds) /\ events'[c] = Append(events[c], "fatal")
  BY <1>1, <1>2, Types
<1>4. TypeOK'
  <2>1. Append(events[c], "fatal") \in Seq(Kinds)
    BY <1>3 DEF Kinds
  <2>2. events' \in [Consumer -> Seq(Kinds)] /\ faults' \in 0 .. MaxFaults
    BY <1>1, <1>2, <2>1, Types
  <2>3. UNCHANGED <<group, rounds, joined, rejoined, share, kills, life, due, waits, lost, fetching, assigned,
                    drained, owned, full, phase>>
    BY <1>2 DEF broker, client
  <2> QED
    BY <1>1, <2>2, <2>3 DEF TypeOK, Kinds
<1>5. \A d \in Consumer \ {c} : Apart(d)
  BY <1>1, <1>2, Types DEF Apart, broker, client
<1>6. Holds(c)' => Holds(c)
  BY <1>2 DEF Holds, Runs, Assigning, client
<1>7. LoopOK(c)'
  <2>1. Carries(events'[c], waits'[c])
    BY <1>1, <1>2, <1>3, CarriesFatal DEF MemberOK, LoopOK, client
  <2>2. phase'[c] = "recv"
    BY <1>2
  <2> QED
    BY <2>1, <2>2 DEF LoopOK
<1>8. MemberOK(c)'
  <2>1. TakesItsShare(c)' /\ GivesUp(c)'
    BY <1>1, <1>2, <1>6 DEF MemberOK, TakesItsShare, GivesUp, Assigning, client, broker
  <2>2. AtTheEnds(c)'
    BY <1>2 DEF AtTheEnds
  <2> QED
    BY <1>7, <2>1, <2>2 DEF MemberOK
<1> QED
  BY <1>2, <1>4, <1>5, <1>6, <1>8, OneKeeps DEF broker

-----------------------------------------------------------------------------
(* The loop.                                                               *)

\* A step of a consumer that changes where its loop is, what it still has to handle and
\* what it buffered, and takes nothing.
LEMMA LoopMoves ==
    ASSUME IInv, NEW c \in Consumer, life[c] = "open",
           UNCHANGED <<broker, bounds, life, client, owned>>,
           NEW ph \in {"top", "recv", "handle", "read", "flush", "last"},
           phase' = [phase EXCEPT ![c] = ph],
           NEW ev \in Seq(Kinds), events' = [events EXCEPT ![c] = ev],
           NEW dr \in Seq(Kinds), drained' = [drained EXCEPT ![c] = dr],
           full' = full \/ (full' = full \cup {c} /\ owned[c] # {}) \/ full' = full \ {c},
           LoopOK(c)'
    PROVE  IInv'
<1>1. TypeOK /\ MemberOK(c)
  BY DEF IInv
<1>2. TypeOK'
  <2>1. events' \in [Consumer -> Seq(Kinds)] /\ drained' \in [Consumer -> Seq(Kinds)]
    BY <1>1, Types
  <2>2. phase' \in [Consumer -> {"top", "recv", "handle", "read", "flush", "last", "end"}]
    BY <1>1, Types
  <2>3. full' \subseteq Consumer
    BY <1>1, Types
  <2> QED
    BY <1>1, <2>1, <2>2, <2>3, Types DEF broker, bounds, client, TypeOK, Kinds
<1>3. \A d \in Consumer \ {c} : Apart(d)
  BY <1>1, Types DEF Apart, broker, client
<1>4. Holds(c)' => Holds(c)
  BY DEF Holds, Runs, Assigning, client
<1>5. MemberOK(c)'
  <2>1. TakesItsShare(c)' /\ GivesUp(c)'
    BY <1>1, <1>4 DEF MemberOK, TakesItsShare, GivesUp, Assigning, client, broker
  <2>2. AtTheEnds(c)'
    BY DEF AtTheEnds
  <2> QED
    BY <2>1, <2>2 DEF MemberOK
<1> QED
  BY <1>2, <1>3, <1>4, <1>5, OneKeeps DEF broker

\* The loop polls and asks recv for a message.
LEMMA PollsKeeps ==
    ASSUME IInv, NEW c \in Consumer, Polls(c)
    PROVE  IInv'
<1>1. TypeOK /\ MemberOK(c) /\ events[c] \in Seq(Kinds) /\ drained[c] \in Seq(Kinds)
  BY Types DEF IInv
<1>2. /\ life[c] = "open" /\ phase[c] = "top" /\ phase' = [phase EXCEPT ![c] = "recv"]
      /\ UNCHANGED <<broker, bounds, life, client, events, drained, owned, full>>
  BY DEF Polls, At, Go
<1>3. events' = [events EXCEPT ![c] = events[c]] /\ drained' = [drained EXCEPT ![c] = drained[c]]
  BY <1>1, <1>2, Types
<1>4. LoopOK(c)'
  <2>1. waits'[c] = "none" /\ events'[c] = <<>>
    BY <1>1, <1>2 DEF MemberOK, LoopOK, client
  <2>2. phase'[c] = "recv"
    BY <1>1, <1>2, Types
  <2> QED
    BY <2>1, <2>2, CarriesEmpty DEF LoopOK
<1> QED
  BY <1>1, <1>2, <1>3, <1>4, LoopMoves

\* recv returns, and the events are drained.
LEMMA RecvReturnsKeeps ==
    ASSUME IInv, NEW c \in Consumer, RecvReturns(c)
    PROVE  IInv'
<1>1. TypeOK /\ MemberOK(c) /\ events[c] \in Seq(Kinds) /\ <<>> \in Seq(Kinds)
  BY Types DEF IInv
<1>2. /\ life[c] = "open" /\ phase[c] = "recv" /\ phase' = [phase EXCEPT ![c] = "handle"]
      /\ drained' = [drained EXCEPT ![c] = events[c]] /\ events' = [events EXCEPT ![c] = <<>>]
      /\ UNCHANGED <<broker, bounds, life, client, owned, full>>
  BY DEF RecvReturns, At, Go
<1>3. LoopOK(c)'
  <2>1. waits'[c] = waits[c] /\ events'[c] = <<>> /\ drained'[c] = events[c] /\ phase'[c] = "handle"
    BY <1>1, <1>2, Types DEF client
  <2>2. Carries(events[c], waits[c])
    BY <1>1, <1>2 DEF MemberOK, LoopOK
  <2> QED
    BY <2>1, <2>2 DEF LoopOK
<1> QED
  BY <1>1, <1>2, <1>3, LoopMoves

\* A revoke of a member that has partitions is preceded by a flush.
LEMMA RevokeFlushKeeps ==
    ASSUME IInv, NEW c \in Consumer, RevokeFlush(c)
    PROVE  IInv'
<1>1. TypeOK /\ MemberOK(c) /\ events[c] \in Seq(Kinds) /\ drained[c] \in Seq(Kinds)
  BY Types DEF IInv
<1>2. /\ life[c] = "open" /\ phase[c] = "handle" /\ phase' = [phase EXCEPT ![c] = "flush"]
      /\ drained[c] # <<>> /\ Head(drained[c]) = "revoke"
      /\ UNCHANGED <<broker, bounds, life, client, events, drained, full, owned>>
  BY DEF RevokeFlush, Event, At, Go
<1>3. events' = [events EXCEPT ![c] = events[c]] /\ drained' = [drained EXCEPT ![c] = drained[c]]
  BY <1>1, <1>2, Types
<1>4. LoopOK(c)'
  <2>1. /\ waits'[c] = waits[c] /\ events'[c] = events[c] /\ drained'[c] = drained[c]
        /\ phase'[c] = "flush"
    BY <1>1, <1>2, Types DEF client
  <2> QED
    BY <1>1, <1>2, <2>1 DEF MemberOK, LoopOK
<1> QED
  BY <1>1, <1>2, <1>3, <1>4, LoopMoves

\* A message is taken or none came, a batch is committed, or a shutdown begins.
LEMMA TakeKeeps ==
    ASSUME IInv, NEW c \in Consumer, Take(c) \/ CommitBatch(c) \/ Shutdown(c)
    PROVE  IInv'
<1>1. TypeOK /\ MemberOK(c) /\ events[c] \in Seq(Kinds) /\ drained[c] \in Seq(Kinds)
  BY Types DEF IInv
<1>2. /\ life[c] = "open" /\ UNCHANGED <<broker, bounds, life, client, events, drained, owned>>
      /\ full' = full \/ (full' = full \cup {c} /\ owned[c] # {}) \/ full' = full \ {c}
  BY DEF Take, CommitBatch, Shutdown, At
<1>3. \E ph \in {"top", "last"} : phase' = [phase EXCEPT ![c] = ph]
  <2>1. CASE Take(c) \/ Shutdown(c)
    BY <2>1 DEF Take, Shutdown, Go
  <2>2. CASE CommitBatch(c)
    <3>1. phase' = phase /\ phase[c] = "top"
      BY <2>2 DEF CommitBatch, At
    <3>2. phase' = [phase EXCEPT ![c] = phase[c]]
      BY <1>1, <3>1, Types
    <3> QED
      BY <3>1, <3>2
  <2> QED
    BY <2>1, <2>2
<1>4. PICK ph \in {"top", "last"} : phase' = [phase EXCEPT ![c] = ph]
  BY <1>3
<1>5. events' = [events EXCEPT ![c] = events[c]] /\ drained' = [drained EXCEPT ![c] = drained[c]]
  BY <1>1, <1>2, Types
<1>6. LoopOK(c)'
  <2>1. waits'[c] = waits[c] /\ events'[c] = events[c] /\ phase'[c] = ph
    BY <1>1, <1>2, <1>4, Types DEF client
  <2>2. events[c] = <<>> /\ waits[c] = "none"
    <3>1. CASE Take(c)
      BY <1>1, <3>1, CarriesEmpty DEF MemberOK, LoopOK, Take, At
    <3>2. CASE CommitBatch(c) \/ Shutdown(c)
      BY <1>1, <3>2 DEF MemberOK, LoopOK, CommitBatch, Shutdown, At
    <3> QED
      BY <3>1, <3>2
  <2> QED
    BY <2>1, <2>2 DEF LoopOK
<1> QED
  BY <1>1, <1>2, <1>4, <1>5, <1>6, LoopMoves

\* An assign is answered in two steps; before the first nothing is owned.
LEMMA AssignReadsKeeps ==
    ASSUME IInv, NEW c \in Consumer, AssignReads(c)
    PROVE  IInv'
<1>1. TypeOK /\ MemberOK(c) /\ events[c] \in Seq(Kinds) /\ drained[c] \in Seq(Kinds)
  BY Types DEF IInv
<1>2. /\ life[c] = "open" /\ phase[c] = "handle" /\ phase' = [phase EXCEPT ![c] = "read"]
      /\ drained[c] # <<>> /\ Head(drained[c]) = "assign" /\ owned' = [owned EXCEPT ![c] = {}]
      /\ UNCHANGED <<broker, bounds, life, client, events, drained, full>>
  BY DEF AssignReads, Event, At, Go
<1>3. waits[c] = "assign"
  BY <1>1, <1>2, CarriesHandled DEF MemberOK, LoopOK
<1>4. owned[c] = {}
  BY <1>1, <1>3 DEF MemberOK, TakesItsShare, Assigning
<1>5. owned' = owned
  BY <1>1, <1>2, <1>4, Types
<1>6. events' = [events EXCEPT ![c] = events[c]] /\ drained' = [drained EXCEPT ![c] = drained[c]]
  BY <1>1, <1>2, Types
<1>7. LoopOK(c)'
  <2>1. /\ waits'[c] = waits[c] /\ events'[c] = events[c] /\ drained'[c] = drained[c]
        /\ phase'[c] = "read"
    BY <1>1, <1>2, Types DEF client
  <2> QED
    BY <1>1, <1>2, <2>1 DEF MemberOK, LoopOK
<1> QED
  BY <1>1, <1>2, <1>5, <1>6, <1>7, LoopMoves

\* The assign itself: the member takes its share, and librdkafka has its answer.
LEMMA AssignPartitionsKeeps ==
    ASSUME IInv, NEW c \in Consumer, AssignPartitions(c)
    PROVE  IInv'
<1>1. TypeOK /\ MemberOK(c) /\ drained[c] \in Seq(Kinds) /\ share[c] \in SUBSET Partition
  BY Types DEF IInv
<1>2. /\ life[c] = "open" /\ phase[c] = "read" /\ phase' = [phase EXCEPT ![c] = "handle"]
      /\ drained' = [drained EXCEPT ![c] = Tail(drained[c])]
      /\ owned' = [owned EXCEPT ![c] = share[c]] /\ fetching' = [fetching EXCEPT ![c] = share[c]]
      /\ assigned' = assigned \cup {c} /\ waits' = [waits EXCEPT ![c] = "none"]
      /\ due' = [due EXCEPT ![c] = IF c \in lost THEN "revoke" ELSE @]
      /\ UNCHANGED <<broker, bounds, life, lost, events, full>>
  BY DEF AssignPartitions, Handled, Answer, At, Go
<1>3. /\ waits[c] = "assign" /\ Tail(drained[c]) \in Seq(Kinds) /\ Carries(Tail(drained[c]), "none")
  BY <1>1, <1>2, CarriesHandled DEF MemberOK, LoopOK
<1>4. due[c] = "none" /\ c \notin assigned /\ c \notin full
  BY <1>1, <1>3, Types DEF MemberOK, TakesItsShare, Assigning
<1>5. /\ waits'[c] = "none" /\ owned'[c] = share[c] /\ fetching'[c] = share[c]
      /\ drained'[c] = Tail(drained[c]) /\ phase'[c] = "handle" /\ due'[c] \in {"none", "revoke"}
  BY <1>1, <1>2, <1>4, Types
<1>6. TypeOK'
  <2>1. /\ drained' \in [Consumer -> Seq(Kinds)]
        /\ phase' \in [Consumer -> {"top", "recv", "handle", "read", "flush", "last", "end"}]
    BY <1>1, <1>2, <1>3, Types
  <2>2. owned' \in [Consumer -> SUBSET Partition] /\ fetching' \in [Consumer -> SUBSET Partition]
    BY <1>1, <1>2, Types
  <2>3. /\ waits' \in [Consumer -> {"none", "assign", "revoke", "error"}]
        /\ due' \in [Consumer -> {"none", "assign", "revoke", "error"}]
        /\ \A d \in Consumer : due'[d] = "none" \/ waits'[d] = "none"
    BY <1>1, <1>2, <1>4, Types
  <2> QED
    BY <1>1, <1>2, <2>1, <2>2, <2>3, Types DEF broker, bounds, TypeOK, Kinds
<1>7. \A d \in Consumer \ {c} : Apart(d)
  BY <1>1, <1>2, Types DEF Apart, broker
<1>8. Holds(c)' => Holds(c)
  BY <1>2, <1>3 DEF Holds, Runs, Assigning
<1>9. LoopOK(c)'
  <2>1. events'[c] = <<>>
    BY <1>1, <1>2 DEF MemberOK, LoopOK
  <2> QED
    BY <1>3, <1>5, <2>1 DEF LoopOK
<1>10. MemberOK(c)'
  <2>1. TakesItsShare(c)'
    BY <1>2, <1>4, <1>5 DEF TakesItsShare, Assigning, broker
  <2>2. GivesUp(c)'
    BY <1>1, <1>2, <1>3, <1>8 DEF MemberOK, GivesUp, broker
  <2>3. AtTheEnds(c)'
    BY <1>2 DEF AtTheEnds
  <2> QED
    BY <1>9, <2>1, <2>2, <2>3 DEF MemberOK
<1> QED
  BY <1>2, <1>6, <1>7, <1>8, <1>10, OneKeeps DEF broker

\* The answer to a revoke, or to the loss of a session: the member has nothing any more,
\* and rejoins.
LEMMA UnassignKeeps ==
    ASSUME IInv, NEW c \in Consumer, life[c] = "open", phase[c] \in {"handle", "flush"},
           drained[c] # <<>>, Head(drained[c]) # "fatal",
           Unassign(c), Handled(c), phase' = phase \/ phase' = [phase EXCEPT ![c] = "handle"],
           phase'[c] = "handle",
           UNCHANGED <<group, rounds, joined, share, bounds, life, events>>
    PROVE  IInv'
<1>1. TypeOK /\ MemberOK(c) /\ drained[c] \in Seq(Kinds)
  BY Types DEF IInv
<1>2. /\ drained' = [drained EXCEPT ![c] = Tail(drained[c])]
      /\ owned' = [owned EXCEPT ![c] = {}] /\ full' = full \ {c}
      /\ fetching' = [fetching EXCEPT ![c] = {}] /\ assigned' = assigned \ {c}
      /\ waits' = [waits EXCEPT ![c] = "none"] /\ lost' = lost \ {c}
      /\ rejoined' = rejoined \/ (c \in joined /\ rejoined' = rejoined \cup {c})
      /\ due' = due
  BY DEF Unassign, Handled, Forget, Rejoins
<1>3. /\ waits[c] # "none" /\ Tail(drained[c]) \in Seq(Kinds) /\ Carries(Tail(drained[c]), "none")
      /\ events[c] = <<>>
  BY <1>1, CarriesHandled DEF MemberOK, LoopOK
<1>4. due[c] = "none"
  BY <1>1, <1>3, Types
<1>5. /\ waits'[c] = "none" /\ owned'[c] = {} /\ fetching'[c] = {} /\ due'[c] = "none"
      /\ drained'[c] = Tail(drained[c])
  BY <1>1, <1>2, <1>4, Types
<1>6. TypeOK'
  <2>1. /\ drained' \in [Consumer -> Seq(Kinds)]
        /\ phase' \in [Consumer -> {"top", "recv", "handle", "read", "flush", "last", "end"}]
    BY <1>1, <1>2, <1>3, Types
  <2>2. owned' \in [Consumer -> SUBSET Partition] /\ fetching' \in [Consumer -> SUBSET Partition]
    BY <1>1, <1>2, Types
  <2>3. /\ waits' \in [Consumer -> {"none", "assign", "revoke", "error"}]
        /\ \A d \in Consumer : due'[d] = "none" \/ waits'[d] = "none"
    BY <1>1, <1>2, <1>4, Types
  <2>4. rejoined' \subseteq joined' /\ lost' \subseteq Consumer /\ assigned' \subseteq Consumer
        /\ full' \subseteq Consumer
    BY <1>1, <1>2, Types
  <2> QED
    BY <1>1, <1>2, <2>1, <2>2, <2>3, <2>4, Types DEF bounds, TypeOK, Kinds
<1>7. \A d \in Consumer \ {c} : Apart(d)
  BY <1>1, <1>2, Types DEF Apart
<1>8. ~Holds(c)'
  BY <1>2, <1>5 DEF Holds, Assigning
<1>9. MemberOK(c)'
  <2>1. LoopOK(c)'
    BY <1>3, <1>5 DEF LoopOK
  <2>2. TakesItsShare(c)'
    BY <1>2, <1>5 DEF TakesItsShare, Assigning
  <2>3. GivesUp(c)'
    BY <1>2, <1>5, <1>8 DEF GivesUp
  <2>4. AtTheEnds(c)'
    BY <1>2 DEF AtTheEnds
  <2> QED
    BY <2>1, <2>2, <2>3, <2>4 DEF MemberOK
<1> QED
  BY <1>6, <1>7, <1>8, <1>9, OneKeeps

\* The three ways there.
LEMMA RevokesKeep ==
    ASSUME IInv, NEW c \in Consumer, RevokeEmpty(c) \/ Flushed(c) \/ DropAndUnassign(c)
    PROVE  IInv'
<1>1. TypeOK /\ MemberOK(c)
  BY DEF IInv
<1>2. CASE RevokeEmpty(c)
  BY <1>2, UnassignKeeps DEF RevokeEmpty, UnassignEmpty, Event, At
<1>3. CASE Flushed(c)
  <2>1. drained[c] # <<>> /\ Head(drained[c]) = "revoke" /\ life[c] = "open" /\ phase[c] = "flush"
    BY <1>1, <1>3 DEF Flushed, At, MemberOK, LoopOK
  <2>2. phase' = [phase EXCEPT ![c] = "handle"] /\ phase'[c] = "handle"
    BY <1>1, <1>3, Types DEF Flushed, Go
  <2> QED
    BY <1>3, <2>1, <2>2, UnassignKeeps DEF Flushed
<1>4. CASE DropAndUnassign(c)
  BY <1>4, UnassignKeeps DEF DropAndUnassign, Event, At
<1> QED
  BY <1>2, <1>3, <1>4

-----------------------------------------------------------------------------
(* Closing.                                                                *)

\* A consumer stops its loop, and drops what it had buffered.
LEMMA StopKeeps ==
    ASSUME ConstantsAssumption, IInv, NEW c \in Consumer, ShutdownFlushed(c) \/ Fails(c)
    PROVE  IInv'
<1>1. TypeOK /\ MemberOK(c) /\ MaxFaults \in Nat
  BY DEF IInv, ConstantsAssumption
<1>2. /\ life[c] = "open" /\ life' = [life EXCEPT ![c] = "closing"]
      /\ owned' = [owned EXCEPT ![c] = {}] /\ full' = full \ {c}
      /\ phase' = [phase EXCEPT ![c] = "end"]
      /\ UNCHANGED <<broker, kills, client, events, drained>>
      /\ faults' = faults \/ (faults < MaxFaults /\ faults' = faults + 1)
  BY DEF ShutdownFlushed, Fails, CloseConsumer, Gone, Go, At, Event, bounds
<1>3. TypeOK'
  <2>1. /\ life' \in [Consumer -> {"new", "open", "closing", "gone"}]
        /\ phase' \in [Consumer -> {"top", "recv", "handle", "read", "flush", "last", "end"}]
        /\ owned' \in [Consumer -> SUBSET Partition]
    BY <1>1, <1>2, Types
  <2>2. faults' \in 0 .. MaxFaults
    BY <1>1, <1>2, Types
  <2>3. full' \subseteq Consumer
    BY <1>1, <1>2, Types
  <2> QED
    BY <1>1, <1>2, <2>1, <2>2, <2>3 DEF broker, client, TypeOK
<1>4. \A d \in Consumer \ {c} : Apart(d)
  BY <1>1, <1>2, Types DEF Apart, broker, client
<1>5. life'[c] = "closing" /\ owned'[c] = {}
  BY <1>1, <1>2, Types
<1>6. Holds(c)' => Holds(c)
  BY <1>2 DEF Holds, Runs, Assigning, client
<1>7. MemberOK(c)'
  <2>1. TakesItsShare(c)'
    BY <1>1, <1>2, <1>5 DEF MemberOK, TakesItsShare, Assigning, broker, client
  <2>2. GivesUp(c)'
    BY <1>1, <1>2, <1>6 DEF MemberOK, GivesUp, broker, client
  <2> QED
    BY <1>5, <2>1, <2>2 DEF MemberOK, AtTheEnds
<1> QED
  BY <1>2, <1>3, <1>4, <1>6, <1>7, OneKeeps DEF broker

\* librdkafka's close revokes what is assigned.
LEMMA CloseRevokesKeeps ==
    ASSUME IInv, NEW c \in Consumer, CloseRevokes(c)
    PROVE  IInv'
<1>1. TypeOK
  BY DEF IInv
<1>2. /\ c \in assigned /\ due[c] = "none" /\ waits[c] = "none"
      /\ due' = [due EXCEPT ![c] = "revoke"]
      /\ UNCHANGED <<broker, bounds, life, waits, lost, fetching, assigned, source>>
  BY DEF CloseRevokes
<1>3. TypeOK'
  <2>1. /\ due' \in [Consumer -> {"none", "assign", "revoke", "error"}]
        /\ \A d \in Consumer : due'[d] = "none" \/ waits'[d] = "none"
    BY <1>1, <1>2, Types
  <2> QED
    BY <1>1, <1>2, <2>1, Types DEF broker, bounds, source, TypeOK
<1>4. \A d \in Consumer : Apart(d)
  BY <1>1, <1>2, Types DEF Apart, broker, source
<1> QED
  BY <1>3, <1>4, NoneKeeps

\* The callback of a consumer that is closing answers by itself.
LEMMA CallbackClosingKeeps ==
    ASSUME IInv, NEW c \in Consumer, CallbackClosing(c)
    PROVE  IInv'
<1>1. TypeOK /\ MemberOK(c) /\ share[c] \in SUBSET Partition
  BY Types DEF IInv
<1>2. /\ life[c] = "closing" /\ due[c] # "none" /\ due' = [due EXCEPT ![c] = "none"]
      /\ UNCHANGED <<broker, bounds, life, source, waits>>
      /\ \/ /\ due[c] = "assign" /\ lost' = lost
            /\ fetching' = [fetching EXCEPT ![c] = share[c]] /\ assigned' = assigned \cup {c}
         \/ /\ due[c] # "assign" /\ lost' = lost \ {c}
            /\ fetching' = [fetching EXCEPT ![c] = {}] /\ assigned' = assigned \ {c}
  BY DEF CallbackClosing, RebalanceClosing
<1>3. waits[c] = "none" /\ owned[c] = {} /\ c \notin full
  BY <1>1, <1>2, Types DEF MemberOK, TakesItsShare
<1>4. due'[c] = "none" /\ waits'[c] = "none"
  BY <1>1, <1>2, <1>3, Types
<1>5. TypeOK'
  <2>1. /\ due' \in [Consumer -> {"none", "assign", "revoke", "error"}]
        /\ \A d \in Consumer : due'[d] = "none" \/ waits'[d] = "none"
    BY <1>1, <1>2, Types
  <2>2. fetching' \in [Consumer -> SUBSET Partition]
    BY ZenonT(30), <1>1, <1>2, Types
  <2>3. lost' \subseteq Consumer /\ assigned' \subseteq Consumer
    BY <1>1, <1>2, Types
  <2> QED
    BY <1>1, <1>2, <2>1, <2>2, <2>3, Types DEF broker, bounds, source, TypeOK
<1>6. \A d \in Consumer \ {c} : Apart(d)
  BY <1>1, <1>2, Types DEF Apart, broker, source
<1>7. Holds(c)' => Holds(c)
  BY <1>2, <1>4 DEF Holds, Runs, Assigning
<1>8. MemberOK(c)'
  <2>1. TakesItsShare(c)'
    <3>1. fetching'[c] \subseteq share'[c] /\ (c \notin assigned' => fetching'[c] = {})
      BY <1>1, <1>2, Types DEF broker
    <3> QED
      BY <1>2, <1>3, <1>4, <3>1 DEF TakesItsShare, Assigning, source
  <2>2. GivesUp(c)'
    BY <1>1, <1>2, <1>7 DEF MemberOK, GivesUp, broker
  <2> QED
    BY <1>2, <2>1, <2>2 DEF MemberOK, AtTheEnds
<1> QED
  BY <1>2, <1>5, <1>6, <1>7, <1>8, OneKeeps DEF broker

\* A consumer is gone: closed with nothing left, or killed.
LEMMA GoneKeeps ==
    ASSUME ConstantsAssumption, IInv, NEW c \in Consumer, CloseDone(c) \/ Kill(c)
    PROVE  IInv'
<1>1. TypeOK /\ MemberOK(c) /\ MaxKills \in Nat
  BY DEF IInv, ConstantsAssumption
<1>2. CASE CloseDone(c)
  <2>1. /\ life[c] = "closing" /\ c \notin assigned /\ life' = [life EXCEPT ![c] = "gone"]
        /\ joined' = joined \ {c} /\ rejoined' = rejoined \ {c} /\ group' \in {"stable", "prepare"}
        /\ UNCHANGED <<rounds, share, bounds, client, source>>
    BY <1>1, <1>2, Types DEF CloseDone, Leaves
  <2>2. life'[c] = "gone" /\ life' \in [Consumer -> {"new", "open", "closing", "gone"}]
    BY <1>1, <2>1, Types
  <2>3. TypeOK'
    <3>1. rejoined' \subseteq joined' /\ joined' \subseteq Consumer
      BY <1>1, <2>1, Types
    <3> QED
      BY <1>1, <2>1, <2>2, <3>1 DEF bounds, client, source, TypeOK
  <2>4. \A d \in Consumer \ {c} : Apart(d)
    BY <1>1, <2>1, Types DEF Apart, client, source
  <2>5. ~Holds(c)'
    BY <2>2 DEF Holds, Runs
  <2>6. MemberOK(c)'
    BY <1>1, <2>1, <2>2, <2>5
       DEF MemberOK, TakesItsShare, Assigning, GivesUp, AtTheEnds, client, source
  <2> QED
    BY <2>3, <2>4, <2>5, <2>6, OneKeeps
<1>3. CASE Kill(c)
  <2>1. /\ kills < MaxKills /\ kills' = kills + 1 /\ life' = [life EXCEPT ![c] = "gone"]
        /\ owned' = [owned EXCEPT ![c] = {}] /\ full' = full \ {c}
        /\ phase' = [phase EXCEPT ![c] = "end"]
        /\ fetching' = [fetching EXCEPT ![c] = {}] /\ assigned' = assigned \ {c} /\ lost' = lost \ {c}
        /\ due' = [due EXCEPT ![c] = "none"] /\ waits' = [waits EXCEPT ![c] = "none"]
        /\ events' = [events EXCEPT ![c] = <<>>] /\ drained' = [drained EXCEPT ![c] = <<>>]
        /\ UNCHANGED <<broker, faults>>
    BY <1>3 DEF Kill, Gone, Go
  <2>2. /\ life'[c] = "gone" /\ owned'[c] = {} /\ fetching'[c] = {} /\ due'[c] = "none"
        /\ waits'[c] = "none"
    BY <1>1, <2>1, Types
  <2>3. TypeOK'
    <3>1. /\ due' \in [Consumer -> {"none", "assign", "revoke", "error"}]
          /\ waits' \in [Consumer -> {"none", "assign", "revoke", "error"}]
          /\ \A d \in Consumer : due'[d] = "none" \/ waits'[d] = "none"
      BY <1>1, <2>1, Types
    <3>2. /\ fetching' \in [Consumer -> SUBSET Partition] /\ owned' \in [Consumer -> SUBSET Partition]
          /\ life' \in [Consumer -> {"new", "open", "closing", "gone"}]
          /\ phase' \in [Consumer -> {"top", "recv", "handle", "read", "flush", "last", "end"}]
      BY <1>1, <2>1, Types
    <3>3. events' \in [Consumer -> Seq(Kinds)] /\ drained' \in [Consumer -> Seq(Kinds)]
      BY <1>1, <2>1, Types
    <3>4. kills' \in 0 .. MaxKills /\ {lost', assigned', full'} \subseteq SUBSET Consumer
      BY <1>1, <2>1, Types
    <3> QED
      BY <1>1, <2>1, <3>1, <3>2, <3>3, <3>4, Types DEF broker, TypeOK, Kinds
  <2>4. \A d \in Consumer \ {c} : Apart(d)
    BY <1>1, <2>1, Types DEF Apart, broker
  <2>5. ~Holds(c)'
    BY <2>2 DEF Holds, Runs
  <2>6. MemberOK(c)'
    BY <1>1, <2>1, <2>2, <2>5
       DEF MemberOK, TakesItsShare, Assigning, GivesUp, AtTheEnds, broker
  <2> QED
    BY <2>3, <2>4, <2>5, <2>6, OneKeeps
<1> QED
  BY <1>2, <1>3

-----------------------------------------------------------------------------
(* The theorems.                                                           *)

\* The invariant holds at first.
LEMMA Initially ==
    ASSUME ConstantsAssumption, Init
    PROVE  IInv
<1>1. TypeOK
  BY DEF ConstantsAssumption, Init, TypeOK
<1>2. ASSUME NEW c \in Consumer
      PROVE  MemberOK(c) /\ ~Holds(c)
  BY DEF Init, MemberOK, TakesItsShare, Assigning, GivesUp, AtTheEnds, Holds, Runs
<1> QED
  BY <1>1, <1>2 DEF IInv, SharesDisjoint

\* Every step keeps it.
LEMMA NextKeeps ==
    ASSUME ConstantsAssumption, IInv, [Next]_vars
    PROVE  IInv'
<1>1. CASE Rebalance \/ Share \/ Continue
  BY <1>1, RebalanceKeeps, ShareKeeps, ContinueKeeps
<1>2. ASSUME NEW c \in Consumer, Open(c) \/ Return(c) \/ Evict(c) \/ SessionEnds(c)
      PROVE  IInv'
  BY <1>2, JoinKeeps, EvictKeeps, SessionEndsKeeps
<1>3. ASSUME NEW c \in Consumer, Callback(c) \/ GroupError(c) \/ FatalError(c)
      PROVE  IInv'
  BY <1>3, CallbackKeeps, GroupErrorKeeps, FatalErrorKeeps
<1>4. ASSUME NEW c \in Consumer, Loop(c) \/ CommitBatch(c) \/ Shutdown(c)
      PROVE  IInv'
  <2>1. CASE Polls(c) \/ RecvReturns(c) \/ AssignReads(c) \/ AssignPartitions(c)
    BY <2>1, PollsKeeps, RecvReturnsKeeps, AssignReadsKeeps, AssignPartitionsKeeps
  <2>2. CASE RevokeEmpty(c) \/ RevokeFlush(c) \/ Flushed(c) \/ DropAndUnassign(c)
    BY <2>2, RevokesKeep, RevokeFlushKeeps
  <2>3. CASE Take(c) \/ CommitBatch(c) \/ Shutdown(c) \/ ShutdownFlushed(c)
    BY <2>3, TakeKeeps, StopKeeps
  <2> QED
    BY <1>4, <2>1, <2>2, <2>3 DEF Loop
<1>5. ASSUME NEW c \in Consumer, Fails(c) \/ CloseRevokes(c) \/ CallbackClosing(c)
      PROVE  IInv'
  BY <1>5, StopKeeps, CloseRevokesKeeps, CallbackClosingKeeps
<1>6. ASSUME NEW c \in Consumer, CloseDone(c) \/ Kill(c)
      PROVE  IInv'
  BY <1>6, GoneKeeps
<1>7. CASE UNCHANGED vars
  <2>1. TypeOK'
    BY <1>7 DEF IInv, TypeOK, vars, broker, bounds, client, source
  <2>2. \A d \in Consumer : Apart(d)
    BY <1>7 DEF Apart, vars, broker, bounds, client, source
  <2> QED
    BY <2>1, <2>2, NoneKeeps
<1> QED
  BY <1>1, <1>2, <1>3, <1>4, <1>5, <1>6, <1>7 DEF Next

\* The invariant holds throughout.
THEOREM Invariance ==
    ASSUME ConstantsAssumption
    PROVE  Spec => []IInv
<1>1. Init => IInv
  BY Initially
<1>2. IInv /\ [Next]_vars => IInv'
  BY NextKeeps
<1> QED
  BY <1>1, <1>2, PTL DEF Spec

\* Each variable has its type throughout.
THEOREM TypesHold ==
    ASSUME ConstantsAssumption
    PROVE  Spec => []TypeOK
<1>1. IInv => TypeOK
  BY DEF IInv
<1> QED
  BY <1>1, Invariance, PTL

\* No two members hold one partition, a lost session aside: what the loop of one owns
\* and what librdkafka fetches for the other are of shares that the group made disjoint
\* (flush_then_unassign, drop_and_unassign and close_consumer).
THEOREM PartitionsAreExclusive ==
    ASSUME ConstantsAssumption
    PROVE  Spec => []Exclusive
<1>1. IInv => Exclusive
  <2> SUFFICES ASSUME IInv, NEW c \in Consumer, NEW d \in Consumer, c # d, c \notin lost, d \notin lost
               PROVE  owned[c] \cap fetching[d] = {}
    BY DEF Exclusive
  <2>1. TypeOK /\ MemberOK(c) /\ MemberOK(d)
    BY DEF IInv
  <2>2. CASE Holds(c) /\ Holds(d)
    <3>1. share[c] \cap share[d] = {}
      BY <2>2 DEF IInv, SharesDisjoint
    <3>2. owned[c] \subseteq share[c] /\ fetching[d] \subseteq share[d]
      BY <2>1 DEF MemberOK, TakesItsShare
    <3> QED
      BY <3>1, <3>2
  <2>3. \A e \in {c, d} : ~Holds(e) => owned[e] = {} /\ fetching[e] = {}
    <3> SUFFICES ASSUME NEW e \in {c, d}, ~Holds(e) PROVE owned[e] = {} /\ fetching[e] = {}
      OBVIOUS
    <3>1. MemberOK(e) /\ life[e] \in {"new", "open", "closing", "gone"} /\ e \notin lost
      BY <2>1, Types
    <3>2. e \notin assigned
      BY <3>1 DEF Holds, Runs, MemberOK, AtTheEnds
    <3> QED
      BY <3>1, <3>2 DEF MemberOK, TakesItsShare
  <2> QED
    BY <2>2, <2>3
<1> QED
  BY <1>1, Invariance, PTL

\* No row outlives the revoke of its partition: what is buffered is of partitions the
\* member owns (unassign of rebalance.rs).
THEOREM BufferIsOfOwned ==
    ASSUME ConstantsAssumption
    PROVE  Spec => []BufferIsOwned
<1>1. IInv => BufferIsOwned
  <2> SUFFICES ASSUME IInv, NEW c \in full
               PROVE  owned[c] # {} /\ life[c] = "open"
    BY DEF BufferIsOwned
  <2>1. c \in Consumer
    BY Types DEF IInv
  <2> QED
    BY <2>1 DEF IInv, MemberOK, TakesItsShare
<1> QED
  BY <1>1, Invariance, PTL

\* The group never waits for a member that waits for the group: every event the callback
\* deferred was answered by the time the loop polls again (rebalance of context.rs,
\* handle_events of step.rs).
THEOREM EventsAreAnswered ==
    ASSUME ConstantsAssumption
    PROVE  Spec => []Answered
<1>1. IInv => Answered
  BY DEF IInv, Answered, MemberOK, LoopOK, At
<1> QED
  BY <1>1, Invariance, PTL

-----------------------------------------------------------------------------
\* SchemaRegistry, for any number of decoders, ids, retries, faults and cancelled
\* lookups: a schema is fetched once, a cell holds what the registry holds, and a
\* message is not blamed for an outage.
CONSTANTS Callers, Ids, NoCaller, NotFoundTTL, Retries, MaxRegistryFaults, MaxCancels, Ticking
VARIABLES known, service, registryFaults, cancels, cell, permit, notFound, pc, asking, tries,
  answer, found, waitedOn

Registry == INSTANCE SchemaRegistry WITH
  None <- NoCaller, faults <- registryFaults, MaxFaults <- MaxRegistryFaults

-----------------------------------------------------------------------------
(* SchemaRegistry.                                                         *)

\* The registry does not have this id, or had it not when the process began.
Unheld(i) == known[i] \in {"unknown", "late"}

\* Who fills a cell: the holder of its permit, and only while it is empty.
PermitsOK ==
    /\ \A i \in Ids : permit[i] # NoCaller =>
         cell[i] = Registry!Empty /\ pc[permit[i]] \in {"inside", "get"} /\ asking[permit[i]] = i
    /\ \A d \in Callers : pc[d] \in {"inside", "get"} => permit[asking[d]] = d

\* What a cell holds, the registry holds; what it has handed over is in the cell.
CellsOK ==
    \A i \in Ids :
       /\ cell[i] # Registry!Empty => cell[i] = known[i]
       /\ found[i] = 0 \/ (found[i] = 1 /\ cell[i] # Registry!Empty)

\* What is remembered of an id that was not found, and what its askers heard.
MissesOK ==
    /\ \A i \in Ids : notFound[i] # Registry!NoEntry => Unheld(i)
    /\ \A d \in Callers : pc[d] = "missed" => Unheld(asking[d])
    /\ Registry!NotBlamed

\* The inductive invariant of SchemaRegistry.
RegistryInv == Registry!TypeOK /\ PermitsOK /\ CellsOK /\ MissesOK

\* The registry's invariant holds after Begin.
LEMMA BeginKeeps ==
    ASSUME Registry!ConstantsAssumption, RegistryInv, NEW d \in Callers, NEW i \in Ids, Registry!Begin(d, i)
    PROVE  RegistryInv'
<1>0. Registry!TypeOK /\ PermitsOK /\ CellsOK /\ MissesOK
  BY DEF RegistryInv
<1>1. Registry!TypeOK'
  <2>1. notFound' \in [Ids -> Registry!NoEntry .. NotFoundTTL]
    <3>1. Registry!NoEntry \in Registry!NoEntry .. NotFoundTTL
      BY DEF Registry!NoEntry, Registry!ConstantsAssumption
    <3> QED
      BY <1>0, <3>1 DEF Registry!TypeOK, Registry!Begin, Registry!Swept
  <2>2. answer' \in [Callers -> [id : Ids, outcome : Registry!Outcomes, knew : BOOLEAN]]
    <3>1. CASE Registry!Remembered(i)
      <4>1. answer' = [answer EXCEPT ![d] =
                         [id |-> i, outcome |-> "notFound", knew |-> known[i] # "unknown"]]
        BY <3>1 DEF Registry!Begin, Registry!Given
      <4> QED
        BY <1>0, <4>1 DEF Registry!TypeOK, Registry!Outcomes
    <3>2. CASE ~Registry!Remembered(i)
      BY <1>0, <3>2 DEF Registry!TypeOK, Registry!Begin
    <3> QED
      BY <3>1, <3>2
  <2>3. asking' \in [Callers -> Ids] /\ waitedOn' \subseteq Callers
        /\ pc' \in [Callers -> {"idle", "cell", "inside", "get", "missed"}]
    BY <1>0 DEF Registry!TypeOK, Registry!Begin
  <2> QED
    BY <1>0, <2>1, <2>2, <2>3 DEF Registry!TypeOK, Registry!Begin, Registry!world
<1>2. PermitsOK'
  BY <1>0 DEF PermitsOK, Registry!TypeOK, Registry!ConstantsAssumption, Registry!Empty, Registry!Begin, Registry!Swept, Registry!Remembered, Registry!Given, Registry!world
<1>3. CellsOK'
  BY <1>0 DEF CellsOK, PermitsOK, Registry!TypeOK, Registry!Empty, Registry!Schemas, Registry!ConstantsAssumption, Registry!Begin, Registry!Swept, Registry!Remembered, Registry!Given, Registry!world
<1>4. MissesOK'
  BY <1>0 DEF MissesOK, CellsOK, Unheld, Registry!NotBlamed, Registry!NoEntry, Registry!TypeOK, Registry!Outcomes, Registry!Errors,
              Registry!Schemas, Registry!Empty, Registry!Services, Registry!Begin, Registry!Swept, Registry!Remembered, Registry!Given, Registry!world
<1> QED
  BY <1>1, <1>2, <1>3, <1>4 DEF RegistryInv

\* The registry's invariant holds after TakeCell.
LEMMA TakeCellKeeps ==
    ASSUME Registry!ConstantsAssumption, RegistryInv, NEW d \in Callers, Registry!TakeCell(d)
    PROVE  RegistryInv'
<1>0. Registry!TypeOK /\ PermitsOK /\ CellsOK /\ MissesOK
  BY DEF RegistryInv
<1>1. Registry!TypeOK'
  BY <1>0 DEF Registry!TypeOK, Registry!ConstantsAssumption, Registry!Outcomes, Registry!Errors, Registry!NoEntry,
              Registry!Schemas, Registry!Empty, Registry!Services, Registry!TakeCell, Registry!Give, Registry!Given, Registry!Classified, Registry!world
<1>2. PermitsOK'
  BY <1>0 DEF PermitsOK, Registry!TypeOK, Registry!ConstantsAssumption, Registry!Empty, Registry!TakeCell, Registry!Give, Registry!Given, Registry!Classified, Registry!world
<1>3. CellsOK'
  BY <1>0 DEF CellsOK, PermitsOK, Registry!TypeOK, Registry!Empty, Registry!Schemas, Registry!ConstantsAssumption, Registry!TakeCell, Registry!Give, Registry!Given, Registry!Classified, Registry!world
<1>4. MissesOK'
  BY <1>0 DEF MissesOK, CellsOK, Unheld, Registry!NotBlamed, Registry!NoEntry, Registry!TypeOK, Registry!Outcomes, Registry!Errors,
              Registry!Schemas, Registry!Empty, Registry!Services, Registry!TakeCell, Registry!Give, Registry!Given, Registry!Classified, Registry!world
<1> QED
  BY <1>1, <1>2, <1>3, <1>4 DEF RegistryInv

\* The registry's invariant holds after TakePermit.
LEMMA TakePermitKeeps ==
    ASSUME Registry!ConstantsAssumption, RegistryInv, NEW d \in Callers, Registry!TakePermit(d)
    PROVE  RegistryInv'
<1>0. Registry!TypeOK /\ PermitsOK /\ CellsOK /\ MissesOK
  BY DEF RegistryInv
<1>1. Registry!TypeOK'
  BY <1>0 DEF Registry!TypeOK, Registry!ConstantsAssumption, Registry!Outcomes, Registry!Errors, Registry!NoEntry,
              Registry!Schemas, Registry!Empty, Registry!Services, Registry!TakePermit, Registry!world
<1>2. PermitsOK'
  BY <1>0 DEF PermitsOK, Registry!TypeOK, Registry!ConstantsAssumption, Registry!Empty, Registry!TakePermit, Registry!world
<1>3. CellsOK'
  BY <1>0 DEF CellsOK, PermitsOK, Registry!TypeOK, Registry!Empty, Registry!Schemas, Registry!ConstantsAssumption, Registry!TakePermit, Registry!world
<1>4. MissesOK'
  BY <1>0 DEF MissesOK, CellsOK, Unheld, Registry!NotBlamed, Registry!NoEntry, Registry!TypeOK, Registry!Outcomes, Registry!Errors,
              Registry!Schemas, Registry!Empty, Registry!Services, Registry!TakePermit, Registry!world
<1> QED
  BY <1>1, <1>2, <1>3, <1>4 DEF RegistryInv

\* The registry's invariant holds after Recheck.
LEMMA RecheckKeeps ==
    ASSUME Registry!ConstantsAssumption, RegistryInv, NEW d \in Callers, Registry!Recheck(d)
    PROVE  RegistryInv'
<1>0. Registry!TypeOK /\ PermitsOK /\ CellsOK /\ MissesOK
  BY DEF RegistryInv
<1>1. Registry!TypeOK'
  <2>1. /\ UNCHANGED <<known, service, registryFaults, cancels, cell, asking, answer, found, waitedOn>>
        /\ notFound' = Registry!Swept(asking[d])
        /\ pc' = [pc EXCEPT ![d] = "missed"] \/ pc' = [pc EXCEPT ![d] = "get"]
        /\ tries' = tries \/ tries' = [tries EXCEPT ![d] = 0]
        /\ permit' = permit \/ permit' = [permit EXCEPT ![asking[d]] = NoCaller]
    BY DEF Registry!Recheck, Registry!Release, Registry!world
  <2>2. notFound' \in [Ids -> Registry!NoEntry .. NotFoundTTL]
    BY <1>0, <2>1 DEF Registry!TypeOK, Registry!Swept, Registry!NoEntry, Registry!ConstantsAssumption
  <2>3. /\ pc' \in [Callers -> {"idle", "cell", "inside", "get", "missed"}]
        /\ tries' \in [Callers -> 0 .. Retries] /\ permit' \in [Ids -> Callers \cup {NoCaller}]
    <3>1. /\ pc \in [Callers -> {"idle", "cell", "inside", "get", "missed"}]
          /\ tries \in [Callers -> 0 .. Retries] /\ permit \in [Ids -> Callers \cup {NoCaller}]
      BY <1>0 DEF Registry!TypeOK
    <3>2. 0 \in 0 .. Retries
      BY DEF Registry!ConstantsAssumption
    <3> QED
      BY <2>1, <3>1, <3>2
  <2> QED
    BY <1>0, <2>1, <2>2, <2>3 DEF Registry!TypeOK
<1>2. PermitsOK'
  BY <1>0 DEF PermitsOK, Registry!TypeOK, Registry!ConstantsAssumption, Registry!Empty, Registry!Recheck, Registry!Swept, Registry!Remembered, Registry!Release, Registry!world
<1>3. CellsOK'
  BY <1>0 DEF CellsOK, PermitsOK, Registry!TypeOK, Registry!Empty, Registry!Schemas, Registry!ConstantsAssumption, Registry!Recheck, Registry!Swept, Registry!Remembered, Registry!Release, Registry!world
<1>4. MissesOK'
  BY <1>0 DEF MissesOK, CellsOK, Unheld, Registry!NotBlamed, Registry!NoEntry, Registry!TypeOK, Registry!Outcomes, Registry!Errors,
              Registry!Schemas, Registry!Empty, Registry!Services, Registry!Recheck, Registry!Swept, Registry!Remembered, Registry!Release, Registry!world
<1> QED
  BY <1>1, <1>2, <1>3, <1>4 DEF RegistryInv

\* The registry's invariant holds after GetFinds.
LEMMA GetFindsKeeps ==
    ASSUME Registry!ConstantsAssumption, RegistryInv, NEW d \in Callers, Registry!GetFinds(d)
    PROVE  RegistryInv'
<1>0. Registry!TypeOK /\ PermitsOK /\ CellsOK /\ MissesOK
  BY DEF RegistryInv
<1>1. Registry!TypeOK'
  BY <1>0 DEF Registry!TypeOK, Registry!ConstantsAssumption, Registry!Outcomes, Registry!Errors, Registry!NoEntry,
              Registry!Schemas, Registry!Empty, Registry!Services, Registry!GetFinds, Registry!Got, Registry!Attempt, Registry!Release, Registry!Give, Registry!Given, Registry!Classified, Registry!world
<1>2. PermitsOK'
  BY <1>0 DEF PermitsOK, Registry!TypeOK, Registry!ConstantsAssumption, Registry!Empty, Registry!GetFinds, Registry!Got, Registry!Attempt, Registry!Release, Registry!Give, Registry!Given, Registry!Classified, Registry!world
<1>3. CellsOK'
  BY <1>0 DEF CellsOK, PermitsOK, Registry!TypeOK, Registry!Empty, Registry!Schemas, Registry!ConstantsAssumption, Registry!GetFinds, Registry!Got, Registry!Attempt, Registry!Release, Registry!Give, Registry!Given, Registry!Classified, Registry!world
<1>4. MissesOK'
  BY <1>0 DEF MissesOK, CellsOK, Unheld, Registry!NotBlamed, Registry!NoEntry, Registry!TypeOK, Registry!Outcomes, Registry!Errors,
              Registry!Schemas, Registry!Empty, Registry!Services, Registry!GetFinds, Registry!Got, Registry!Attempt, Registry!Release, Registry!Give, Registry!Given, Registry!Classified, Registry!world
<1> QED
  BY <1>1, <1>2, <1>3, <1>4 DEF RegistryInv

\* The registry's invariant holds after GetMisses.
LEMMA GetMissesKeeps ==
    ASSUME Registry!ConstantsAssumption, RegistryInv, NEW d \in Callers, Registry!GetMisses(d)
    PROVE  RegistryInv'
<1>0. Registry!TypeOK /\ PermitsOK /\ CellsOK /\ MissesOK
  BY DEF RegistryInv
<1>1. Registry!TypeOK'
  BY <1>0 DEF Registry!TypeOK, Registry!ConstantsAssumption, Registry!Outcomes, Registry!Errors, Registry!NoEntry,
              Registry!Schemas, Registry!Empty, Registry!Services, Registry!GetMisses, Registry!Got, Registry!Attempt, Registry!Release, Registry!Waiting, Registry!world
<1>2. PermitsOK'
  BY <1>0 DEF PermitsOK, Registry!TypeOK, Registry!ConstantsAssumption, Registry!Empty, Registry!GetMisses, Registry!Got, Registry!Attempt, Registry!Release, Registry!Waiting, Registry!world
<1>3. CellsOK'
  BY <1>0 DEF CellsOK, PermitsOK, Registry!TypeOK, Registry!Empty, Registry!Schemas, Registry!ConstantsAssumption, Registry!GetMisses, Registry!Got, Registry!Attempt, Registry!Release, Registry!Waiting, Registry!world
<1>4. MissesOK'
  BY <1>0 DEF MissesOK, CellsOK, Unheld, Registry!NotBlamed, Registry!NoEntry, Registry!TypeOK, Registry!Outcomes, Registry!Errors,
              Registry!Schemas, Registry!Empty, Registry!Services, Registry!GetMisses, Registry!Got, Registry!Attempt, Registry!Release, Registry!Waiting, Registry!world
<1> QED
  BY <1>1, <1>2, <1>3, <1>4 DEF RegistryInv

\* The registry's invariant holds after GetRetries.
LEMMA GetRetriesKeeps ==
    ASSUME Registry!ConstantsAssumption, RegistryInv, NEW d \in Callers, Registry!GetRetries(d)
    PROVE  RegistryInv'
<1>0. Registry!TypeOK /\ PermitsOK /\ CellsOK /\ MissesOK
  BY DEF RegistryInv
<1>1. Registry!TypeOK'
  BY <1>0 DEF Registry!TypeOK, Registry!ConstantsAssumption, Registry!Outcomes, Registry!Errors, Registry!NoEntry,
              Registry!Schemas, Registry!Empty, Registry!Services, Registry!GetRetries, Registry!Got, Registry!world
<1>2. PermitsOK'
  BY <1>0 DEF PermitsOK, Registry!TypeOK, Registry!ConstantsAssumption, Registry!Empty, Registry!GetRetries, Registry!Got, Registry!world
<1>3. CellsOK'
  BY <1>0 DEF CellsOK, PermitsOK, Registry!TypeOK, Registry!Empty, Registry!Schemas, Registry!ConstantsAssumption, Registry!GetRetries, Registry!Got, Registry!world
<1>4. MissesOK'
  BY <1>0 DEF MissesOK, CellsOK, Unheld, Registry!NotBlamed, Registry!NoEntry, Registry!TypeOK, Registry!Outcomes, Registry!Errors,
              Registry!Schemas, Registry!Empty, Registry!Services, Registry!GetRetries, Registry!Got, Registry!world
<1> QED
  BY <1>1, <1>2, <1>3, <1>4 DEF RegistryInv

\* The registry's invariant holds after GetFails.
LEMMA GetFailsKeeps ==
    ASSUME Registry!ConstantsAssumption, RegistryInv, NEW d \in Callers, Registry!GetFails(d)
    PROVE  RegistryInv'
<1>0. Registry!TypeOK /\ PermitsOK /\ CellsOK /\ MissesOK
  BY DEF RegistryInv
<1>1. Registry!TypeOK'
  <2>1. PICK o \in Registry!Errors : answer' = [answer EXCEPT ![d] =
           [id |-> asking[d], outcome |-> o, knew |-> known[asking[d]] # "unknown"]]
    BY <1>0 DEF Registry!GetFails, Registry!Give, Registry!Given, Registry!Errors
  <2>2. answer' \in [Callers -> [id : Ids, outcome : Registry!Outcomes, knew : BOOLEAN]]
    BY <1>0, <2>1 DEF Registry!TypeOK, Registry!Outcomes
  <2>3. pc' \in [Callers -> {"idle", "cell", "inside", "get", "missed"}]
        /\ permit' \in [Ids -> Callers \cup {NoCaller}]
    BY <1>0 DEF Registry!TypeOK, Registry!GetFails, Registry!Release
  <2> QED
    BY <1>0, <2>2, <2>3 DEF Registry!TypeOK, Registry!GetFails, Registry!world
<1>2. PermitsOK'
  BY <1>0 DEF PermitsOK, Registry!TypeOK, Registry!ConstantsAssumption, Registry!Empty, Registry!GetFails, Registry!Got, Registry!Attempt, Registry!Release, Registry!Give, Registry!Given, Registry!world
<1>3. CellsOK'
  BY <1>0 DEF CellsOK, PermitsOK, Registry!TypeOK, Registry!Empty, Registry!Schemas, Registry!ConstantsAssumption, Registry!GetFails, Registry!Got, Registry!Attempt, Registry!Release, Registry!Give, Registry!Given, Registry!world
<1>4. MissesOK'
  <2>1. PICK o \in Registry!Errors : answer' = [answer EXCEPT ![d] =
           [id |-> asking[d], outcome |-> o, knew |-> known[asking[d]] # "unknown"]]
    BY <1>0 DEF Registry!GetFails, Registry!Give, Registry!Given, Registry!Errors
  <2>2. o # "undecodable" /\ o # "notFound"
    BY <2>1 DEF Registry!Errors
  <2>3. Registry!NotBlamed'
    BY <1>0, <2>1, <2>2 DEF MissesOK, Registry!NotBlamed, Registry!TypeOK, Registry!GetFails, Registry!world
  <2> QED
    BY <1>0, <2>3 DEF MissesOK, Unheld, Registry!TypeOK, Registry!GetFails, Registry!world
<1> QED
  BY <1>1, <1>2, <1>3, <1>4 DEF RegistryInv

\* The registry's invariant holds after Miss.
LEMMA MissKeeps ==
    ASSUME Registry!ConstantsAssumption, RegistryInv, NEW d \in Callers, Registry!Miss(d)
    PROVE  RegistryInv'
<1>0. Registry!TypeOK /\ PermitsOK /\ CellsOK /\ MissesOK
  BY DEF RegistryInv
<1>1. Registry!TypeOK'
  BY <1>0 DEF Registry!TypeOK, Registry!ConstantsAssumption, Registry!Outcomes, Registry!Errors, Registry!NoEntry,
              Registry!Schemas, Registry!Empty, Registry!Services, Registry!Miss, Registry!Remembered, Registry!Give, Registry!Given, Registry!world
<1>2. PermitsOK'
  BY <1>0 DEF PermitsOK, Registry!TypeOK, Registry!ConstantsAssumption, Registry!Empty, Registry!Miss, Registry!Remembered, Registry!Give, Registry!Given, Registry!world
<1>3. CellsOK'
  BY <1>0 DEF CellsOK, PermitsOK, Registry!TypeOK, Registry!Empty, Registry!Schemas, Registry!ConstantsAssumption, Registry!Miss, Registry!Remembered, Registry!Give, Registry!Given, Registry!world
<1>4. MissesOK'
  BY <1>0 DEF MissesOK, CellsOK, Unheld, Registry!NotBlamed, Registry!NoEntry, Registry!TypeOK, Registry!Outcomes, Registry!Errors,
              Registry!Schemas, Registry!Empty, Registry!Services, Registry!Miss, Registry!Remembered, Registry!Give, Registry!Given, Registry!world
<1> QED
  BY <1>1, <1>2, <1>3, <1>4 DEF RegistryInv

\* The registry's invariant holds after Drop.
LEMMA DropKeeps ==
    ASSUME Registry!ConstantsAssumption, RegistryInv, NEW d \in Callers, Registry!Drop(d)
    PROVE  RegistryInv'
<1>0. Registry!TypeOK /\ PermitsOK /\ CellsOK /\ MissesOK
  BY DEF RegistryInv
<1>1. Registry!TypeOK'
  BY <1>0 DEF Registry!TypeOK, Registry!ConstantsAssumption, Registry!Outcomes, Registry!Errors, Registry!NoEntry,
              Registry!Schemas, Registry!Empty, Registry!Services, Registry!Drop, Registry!world
<1>2. PermitsOK'
  BY <1>0 DEF PermitsOK, Registry!TypeOK, Registry!ConstantsAssumption, Registry!Empty, Registry!Drop, Registry!world
<1>3. CellsOK'
  BY <1>0 DEF CellsOK, PermitsOK, Registry!TypeOK, Registry!Empty, Registry!Schemas, Registry!ConstantsAssumption, Registry!Drop, Registry!world
<1>4. MissesOK'
  BY <1>0 DEF MissesOK, CellsOK, Unheld, Registry!NotBlamed, Registry!NoEntry, Registry!TypeOK, Registry!Outcomes, Registry!Errors,
              Registry!Schemas, Registry!Empty, Registry!Services, Registry!Drop, Registry!world
<1> QED
  BY <1>1, <1>2, <1>3, <1>4 DEF RegistryInv

\* The registry's invariant holds after Latest.
LEMMA LatestKeeps ==
    ASSUME Registry!ConstantsAssumption, RegistryInv, NEW i \in Ids, Registry!Latest(i)
    PROVE  RegistryInv'
<1>0. Registry!TypeOK /\ PermitsOK /\ CellsOK /\ MissesOK
  BY DEF RegistryInv
<1>1. Registry!TypeOK'
  BY <1>0 DEF Registry!TypeOK, Registry!ConstantsAssumption, Registry!Outcomes, Registry!Errors, Registry!NoEntry,
              Registry!Schemas, Registry!Empty, Registry!Services, Registry!Latest, Registry!world
<1>2. PermitsOK'
  BY <1>0 DEF PermitsOK, Registry!TypeOK, Registry!ConstantsAssumption, Registry!Empty, Registry!Latest, Registry!world
<1>3. CellsOK'
  BY <1>0 DEF CellsOK, PermitsOK, Registry!TypeOK, Registry!Empty, Registry!Schemas, Registry!ConstantsAssumption, Registry!Latest, Registry!world
<1>4. MissesOK'
  BY <1>0 DEF MissesOK, CellsOK, Unheld, Registry!NotBlamed, Registry!NoEntry, Registry!TypeOK, Registry!Outcomes, Registry!Errors,
              Registry!Schemas, Registry!Empty, Registry!Services, Registry!Latest, Registry!world
<1> QED
  BY <1>1, <1>2, <1>3, <1>4 DEF RegistryInv

\* The registry's invariant holds after Register.
LEMMA RegisterKeeps ==
    ASSUME Registry!ConstantsAssumption, RegistryInv, NEW i \in Ids, Registry!Register(i)
    PROVE  RegistryInv'
<1>0. Registry!TypeOK /\ PermitsOK /\ CellsOK /\ MissesOK
  BY DEF RegistryInv
<1>1. Registry!TypeOK'
  BY <1>0 DEF Registry!TypeOK, Registry!ConstantsAssumption, Registry!Outcomes, Registry!Errors, Registry!NoEntry,
              Registry!Schemas, Registry!Empty, Registry!Services, Registry!Register, Registry!world
<1>2. PermitsOK'
  BY <1>0 DEF PermitsOK, Registry!TypeOK, Registry!ConstantsAssumption, Registry!Empty, Registry!Register, Registry!world
<1>3. CellsOK'
  BY <1>0 DEF CellsOK, PermitsOK, Registry!TypeOK, Registry!Empty, Registry!Schemas, Registry!ConstantsAssumption, Registry!Register, Registry!world
<1>4. MissesOK'
  BY <1>0 DEF MissesOK, CellsOK, Unheld, Registry!NotBlamed, Registry!NoEntry, Registry!TypeOK, Registry!Outcomes, Registry!Errors,
              Registry!Schemas, Registry!Empty, Registry!Services, Registry!Register, Registry!world
<1> QED
  BY <1>1, <1>2, <1>3, <1>4 DEF RegistryInv

\* The registry's invariant holds after Disturb.
LEMMA DisturbKeeps ==
    ASSUME Registry!ConstantsAssumption, RegistryInv, NEW s \in Registry!Services, Registry!Disturb(s)
    PROVE  RegistryInv'
<1>0. Registry!TypeOK /\ PermitsOK /\ CellsOK /\ MissesOK
  BY DEF RegistryInv
<1>1. Registry!TypeOK'
  BY <1>0 DEF Registry!TypeOK, Registry!ConstantsAssumption, Registry!Outcomes, Registry!Errors, Registry!NoEntry,
              Registry!Schemas, Registry!Empty, Registry!Services, Registry!Disturb, Registry!world
<1>2. PermitsOK'
  BY <1>0 DEF PermitsOK, Registry!TypeOK, Registry!ConstantsAssumption, Registry!Empty, Registry!Disturb, Registry!world
<1>3. CellsOK'
  BY <1>0 DEF CellsOK, PermitsOK, Registry!TypeOK, Registry!Empty, Registry!Schemas, Registry!ConstantsAssumption, Registry!Disturb, Registry!world
<1>4. MissesOK'
  BY <1>0 DEF MissesOK, CellsOK, Unheld, Registry!NotBlamed, Registry!NoEntry, Registry!TypeOK, Registry!Outcomes, Registry!Errors,
              Registry!Schemas, Registry!Empty, Registry!Services, Registry!Disturb, Registry!world
<1> QED
  BY <1>1, <1>2, <1>3, <1>4 DEF RegistryInv

\* The registry's invariant holds after Mend.
LEMMA MendKeeps ==
    ASSUME Registry!ConstantsAssumption, RegistryInv, Registry!Mend
    PROVE  RegistryInv'
<1>0. Registry!TypeOK /\ PermitsOK /\ CellsOK /\ MissesOK
  BY DEF RegistryInv
<1>1. Registry!TypeOK'
  BY <1>0 DEF Registry!TypeOK, Registry!ConstantsAssumption, Registry!Outcomes, Registry!Errors, Registry!NoEntry,
              Registry!Schemas, Registry!Empty, Registry!Services, Registry!Mend, Registry!world
<1>2. PermitsOK'
  BY <1>0 DEF PermitsOK, Registry!TypeOK, Registry!ConstantsAssumption, Registry!Empty, Registry!Mend, Registry!world
<1>3. CellsOK'
  BY <1>0 DEF CellsOK, PermitsOK, Registry!TypeOK, Registry!Empty, Registry!Schemas, Registry!ConstantsAssumption, Registry!Mend, Registry!world
<1>4. MissesOK'
  BY <1>0 DEF MissesOK, CellsOK, Unheld, Registry!NotBlamed, Registry!NoEntry, Registry!TypeOK, Registry!Outcomes, Registry!Errors,
              Registry!Schemas, Registry!Empty, Registry!Services, Registry!Mend, Registry!world
<1> QED
  BY <1>1, <1>2, <1>3, <1>4 DEF RegistryInv

\* The registry's invariant holds after Tick.
LEMMA TickKeeps ==
    ASSUME Registry!ConstantsAssumption, RegistryInv, Registry!Tick
    PROVE  RegistryInv'
<1>0. Registry!TypeOK /\ PermitsOK /\ CellsOK /\ MissesOK
  BY DEF RegistryInv
<1>1. Registry!TypeOK'
  BY <1>0 DEF Registry!TypeOK, Registry!ConstantsAssumption, Registry!Outcomes, Registry!Errors, Registry!NoEntry,
              Registry!Schemas, Registry!Empty, Registry!Services, Registry!Tick, Registry!world
<1>2. PermitsOK'
  BY <1>0 DEF PermitsOK, Registry!TypeOK, Registry!ConstantsAssumption, Registry!Empty, Registry!Tick, Registry!world
<1>3. CellsOK'
  BY <1>0 DEF CellsOK, PermitsOK, Registry!TypeOK, Registry!Empty, Registry!Schemas, Registry!ConstantsAssumption, Registry!Tick, Registry!world
<1>4. MissesOK'
  BY <1>0 DEF MissesOK, CellsOK, Unheld, Registry!NotBlamed, Registry!NoEntry, Registry!TypeOK, Registry!Outcomes, Registry!Errors,
              Registry!Schemas, Registry!Empty, Registry!Services, Registry!Tick, Registry!world
<1> QED
  BY <1>1, <1>2, <1>3, <1>4 DEF RegistryInv

\* It holds initially,
LEMMA RegistryInit == Registry!ConstantsAssumption /\ Registry!Init => RegistryInv
<1> SUFFICES ASSUME Registry!ConstantsAssumption, Registry!Init PROVE RegistryInv
  OBVIOUS
<1>1. (CHOOSE i \in Ids : TRUE) \in Ids
  BY DEF Registry!ConstantsAssumption
<1>2. Registry!TypeOK
  BY <1>1 DEF Registry!TypeOK, Registry!Init, Registry!ConstantsAssumption, Registry!Outcomes, Registry!NoEntry,
              Registry!Schemas, Registry!Services
<1>3. PermitsOK /\ CellsOK /\ MissesOK
  BY DEF PermitsOK, CellsOK, MissesOK, Registry!NotBlamed, Registry!Init, Registry!ConstantsAssumption
<1> QED
  BY <1>2, <1>3 DEF RegistryInv

\* and every step preserves it.
LEMMA RegistryStep ==
    Registry!ConstantsAssumption /\ RegistryInv /\ [Registry!Next]_(Registry!vars) => RegistryInv'
<1> SUFFICES ASSUME Registry!ConstantsAssumption, RegistryInv, [Registry!Next]_(Registry!vars)
             PROVE  RegistryInv'
  OBVIOUS
<1>1. CASE UNCHANGED Registry!vars
  BY <1>1 DEF Registry!vars, RegistryInv, Registry!TypeOK, PermitsOK, CellsOK, MissesOK, Unheld,
              Registry!NotBlamed
<1>2. ASSUME NEW d \in Callers, Registry!Lookup(d) PROVE RegistryInv'
  BY <1>2, BeginKeeps, TakeCellKeeps, TakePermitKeeps, RecheckKeeps, GetFindsKeeps, GetMissesKeeps,
     GetRetriesKeeps, GetFailsKeeps, MissKeeps DEF Registry!Lookup
<1> QED
  BY <1>1, <1>2, DropKeeps, DisturbKeeps, MendKeeps, TickKeeps, RegisterKeeps, LatestKeeps
     DEF Registry!Next

\* The inductive invariant of SchemaRegistry holds always: every variable has its type,
\* and a permit is held by the one caller that fills the cell.
THEOREM RegistryInvariance ==
    ASSUME Registry!ConstantsAssumption
    PROVE  Registry!Spec => []RegistryInv
<1>1. Registry!Init => RegistryInv
  BY RegistryInit
<1>2. RegistryInv /\ [Registry!Next]_(Registry!vars) => RegistryInv'
  BY RegistryStep
<1> QED
  BY <1>1, <1>2, PTL DEF Registry!Spec

\* The type invariant of the registry's lookups.
THEOREM RegistryTypesHold ==
    ASSUME Registry!ConstantsAssumption
    PROVE  Registry!Spec => []Registry!TypeOK
<1>1. RegistryInv => Registry!TypeOK
  BY DEF RegistryInv
<1> QED
  BY <1>1, RegistryInvariance, PTL

\* The registry hands a schema over once, whoever asks, whatever failed or was dropped
\* before: "only one request is ever made per id" (kafka/registry.rs).
THEOREM SchemaFetchedOnce ==
    ASSUME Registry!ConstantsAssumption
    PROVE  Registry!Spec => []Registry!FetchedOnce
<1>1. RegistryInv => Registry!FetchedOnce
  BY DEF RegistryInv, CellsOK, Registry!FetchedOnce
<1> QED
  BY <1>1, RegistryInvariance, PTL

\* No message is blamed for the registry's trouble: an outage, a refusal or somebody
\* else's 404 is never heard as an id that is unknown or not Avro (registry.rs, try_get).
THEOREM OutageBlamesNone ==
    ASSUME Registry!ConstantsAssumption
    PROVE  Registry!Spec => []Registry!NotBlamed
<1>1. RegistryInv => Registry!NotBlamed
  BY DEF RegistryInv, MissesOK
<1> QED
  BY <1>1, RegistryInvariance, PTL

\* A cell holds what the registry holds under its id, and nobody fills a full one,
\* although schemas learnt from their subject are offered meanwhile (registry.rs, offer).
THEOREM CellHoldsSchema ==
    ASSUME Registry!ConstantsAssumption
    PROVE  Registry!Spec => []Registry!CellIsTrue
<1>1. RegistryInv => Registry!CellIsTrue
  BY DEF RegistryInv, CellsOK, PermitsOK, Registry!CellIsTrue
<1> QED
  BY <1>1, RegistryInvariance, PTL

-----------------------------------------------------------------------------
\* KafkaPlan, for any partitions, tables and policies: a clean plan opens, a blocked one
\* does not, the start is kept until the first commit, and nothing starts afresh over a
\* target that holds rows.
CONSTANTS Planned, MaxOffset, Tables, Policies, Neighbours, EntriesHeld, Compats
VARIABLES table, low, high, policy, compat, stored, marker, planPhase, report, start, first,
  settled

Preflight == INSTANCE KafkaPlan WITH Partition <- Planned, phase <- planPhase

-----------------------------------------------------------------------------
(* The plan of a start, beside the open it foretells *)

PlanTyped ==
  /\ Preflight!TypeOK
  /\ table \in Tables /\ policy \in Preflight!Policy
  /\ high \in [Planned -> 0 .. MaxOffset] /\ low \in [Planned -> 0 .. MaxOffset]
  /\ \A p \in Planned : low[p] <= high[p]
  /\ first \in [Planned -> Preflight!Blocked .. MaxOffset]

(* The entries stay offsets that the topic holds. *)
EntriesAreThere ==
  EntriesHeld => \A p \in Preflight!Acknowledged :
    low[p] <= policy.entries[p] /\ policy.entries[p] <= high[p]

(* What the plan printed is still so when the open begins, and what it printed has the
   outcome that follows from it. *)
ReportForetells ==
  /\ planPhase = "open" => report = Preflight!Blocking
  /\ planPhase = "refused" => report # {}
  /\ planPhase = "assign" /\ report = {} /\ EntriesHeld =>
       \A p \in Planned : Preflight!Resolve(p) # Preflight!Blocked
  /\ planPhase = "assign" /\ report # {} =>
       \E p \in Planned : Preflight!Resolve(p) = Preflight!Blocked
  /\ planPhase = "run" /\ report = {} /\ EntriesHeld =>
       \A p \in Planned : start[p] # Preflight!Blocked
  /\ planPhase = "run" /\ report # {} =>
       \E p \in Planned : start[p] = Preflight!Blocked

PlanInv == PlanTyped /\ EntriesAreThere /\ ReportForetells

\* The start of a partition is blocked, or an offset the topic holds or will hold next.
LEMMA ResolvedTyped ==
  ASSUME Preflight!ConstantsAssumption, PlanTyped, NEW p \in Planned
  PROVE  /\ Preflight!Resolve(p) \in Preflight!Blocked .. MaxOffset
         /\ Preflight!Resolve(p) <= high[p]
         /\ stored[p] # Preflight!None /\ Preflight!Resolve(p) # Preflight!Blocked =>
              Preflight!Resolve(p) = stored[p] + 1
         /\ Preflight!Resolve(p) = Preflight!Blocked \/ Preflight!Resolve(p) >= 0
<1>1. /\ MaxOffset \in Nat /\ low[p] \in 0 .. MaxOffset /\ high[p] \in 0 .. MaxOffset
      /\ low[p] <= high[p] /\ stored[p] \in -1 .. MaxOffset
      /\ policy.entries[p] \in -1 .. MaxOffset + 1
  BY DEF Preflight!ConstantsAssumption, PlanTyped, Preflight!TypeOK, Preflight!Policy, Preflight!None
<1>2. CASE stored[p] = Preflight!None
  BY <1>1, <1>2 DEF Preflight!Resolve, Preflight!StartWithoutOffset, Preflight!Blocked, Preflight!None,
                    Preflight!Acknowledged
<1>3. CASE stored[p] # Preflight!None
  BY <1>1, <1>3 DEF Preflight!Resolve, Preflight!Blocked, Preflight!None
<1> QED BY <1>2, <1>3

\* The types of what an open commits.
LEMMA BaselinesTyped ==
  ASSUME Preflight!ConstantsAssumption, PlanTyped
  PROVE  /\ Preflight!FreshBaseline \in [Planned -> Preflight!None .. MaxOffset]
         /\ Preflight!TakeoverBaseline \in [Planned -> Preflight!None .. MaxOffset]
         /\ \A p \in Planned : Preflight!FreshStart(p) \in 0 .. MaxOffset + 1
<1> SUFFICES ASSUME NEW p \in Planned
             PROVE  /\ Preflight!FreshStart(p) \in 0 .. MaxOffset + 1
                    /\ Preflight!FreshBaseline[p] \in Preflight!None .. MaxOffset
                    /\ Preflight!TakeoverBaseline[p] \in Preflight!None .. MaxOffset
  BY DEF Preflight!FreshBaseline, Preflight!TakeoverBaseline
<1>1. /\ MaxOffset \in Nat /\ low[p] \in 0 .. MaxOffset /\ high[p] \in 0 .. MaxOffset
      /\ stored[p] \in -1 .. MaxOffset /\ policy.entries[p] \in -1 .. MaxOffset + 1
  BY DEF Preflight!ConstantsAssumption, PlanTyped, Preflight!TypeOK, Preflight!Policy, Preflight!None
<1>2. Preflight!FreshStart(p) \in 0 .. MaxOffset + 1
  BY <1>1 DEF Preflight!FreshStart, Preflight!Acknowledged, Preflight!None
<1> QED
  BY <1>1, <1>2 DEF Preflight!FreshBaseline, Preflight!TakeoverBaseline, Preflight!None

\* A process starts with a plan still to be made.
LEMMA PlanStarts == ASSUME Preflight!ConstantsAssumption, Preflight!Init PROVE PlanInv
<1>1. PlanTyped
  <2>1. start \in [Planned -> Preflight!Blocked .. MaxOffset] /\ \A p \in Planned : start[p] <= high[p]
    BY DEF Preflight!ConstantsAssumption, Preflight!Init, Preflight!Unset, Preflight!Blocked
  <2>2. first \in [Planned -> Preflight!Blocked .. MaxOffset]
    BY DEF Preflight!ConstantsAssumption, Preflight!Init, Preflight!Unset, Preflight!Blocked
  <2> QED
    BY <2>1, <2>2 DEF Preflight!ConstantsAssumption, Preflight!Init, PlanTyped, Preflight!TypeOK
<1>2. EntriesAreThere
  BY DEF Preflight!Init, EntriesAreThere, Preflight!Acknowledged
<1> QED
  BY <1>1, <1>2 DEF Preflight!Init, PlanInv, ReportForetells

\* A plan that blocks on no partition, of an open that is not refused, is of partitions
\* that all have a start, before and after the open.
LEMMA CleanStarts ==
  ASSUME Preflight!ConstantsAssumption, PlanTyped, EntriesAreThere, EntriesHeld,
         ~Preflight!OpenRefuses, Preflight!Open,
         NEW p \in Planned, ~Preflight!PartitionBlocks(p)
  PROVE  Preflight!Resolve(p)' # Preflight!Blocked
<1>1. /\ MaxOffset \in Nat /\ low[p] \in 0 .. MaxOffset /\ high[p] \in 0 .. MaxOffset
      /\ low[p] <= high[p] /\ stored[p] \in -1 .. MaxOffset
      /\ policy.entries[p] \in -1 .. MaxOffset + 1
      /\ p \in Preflight!Acknowledged => low[p] <= policy.entries[p] /\ policy.entries[p] <= high[p]
  BY DEF Preflight!ConstantsAssumption, PlanTyped, Preflight!TypeOK, Preflight!Policy, Preflight!None,
         EntriesAreThere
<1>2. UNCHANGED <<policy, low, high>>
  BY DEF Preflight!Open, Preflight!facts, Preflight!topic
<1>3. p \in Preflight!Acknowledged <=> policy.entries[p] # -1
  BY DEF Preflight!Acknowledged, Preflight!None
<1>4. stored[p] # -1 => ~(stored[p] + 1 < low[p]) /\ ~(stored[p] >= high[p])
  BY <1>1 DEF Preflight!PartitionBlocks, Preflight!Verdict, Preflight!None
<1>5. stored[p] = -1 /\ Preflight!Era = "Ddi" => low[p] = 0 \/ p \in Preflight!Acknowledged
  BY DEF Preflight!PartitionBlocks, Preflight!Verdict, Preflight!None
<1>6. stored[p] = -1 /\ Preflight!Era = "Kdi" => p \in Preflight!Acknowledged \/ high[p] = 0
  BY <1>1 DEF Preflight!OpenRefuses, Preflight!TakeoverRefuses, Preflight!None
<1>7. Preflight!Era = "Fresh" => stored[p] = -1
  BY DEF Preflight!Era, Preflight!None
<1> DEFINE s == stored'[p]
<1>8. Preflight!Resolve(p)' =
        IF s = -1
        THEN IF policy.entries[p] # -1
             THEN IF policy.entries[p] < low[p] \/ policy.entries[p] > high[p] THEN -3 ELSE policy.entries[p]
             ELSE IF low[p] = 0 THEN 0 ELSE -3
        ELSE CASE s + 1 < low[p] -> -3
               [] s + 1 = low[p] -> low[p]
               [] s >= high[p] -> -3
               [] OTHER -> s + 1
  BY <1>2 DEF Preflight!Resolve, Preflight!StartWithoutOffset, Preflight!Blocked, Preflight!None,
              Preflight!Acknowledged
<1>9. CASE Preflight!Era = "Ddi"
  <2>1. s = stored[p] BY <1>9 DEF Preflight!Open
  <2> QED BY <1>1, <1>3, <1>4, <1>5, <1>8, <1>9, <2>1 DEF Preflight!Blocked
<1>10. CASE Preflight!Era = "Kdi"
  <2>1. s = IF stored[p] = -1 /\ policy.entries[p] > 0 THEN policy.entries[p] - 1 ELSE stored[p]
    BY <1>10 DEF Preflight!Open, Preflight!TakeoverBaseline, Preflight!None
  <2>2. CASE stored[p] # -1 BY <1>1, <1>4, <1>8, <2>1, <2>2 DEF Preflight!Blocked
  <2>3. CASE stored[p] = -1 /\ policy.entries[p] > 0
    <3>1. s = policy.entries[p] - 1 /\ low[p] <= policy.entries[p] /\ policy.entries[p] <= high[p]
      BY <1>1, <1>3, <2>1, <2>3
    <3> QED BY <1>1, <1>8, <2>3, <3>1 DEF Preflight!Blocked
  <2>4. CASE stored[p] = -1 /\ policy.entries[p] = 0 BY <1>1, <1>3, <1>8, <2>1, <2>4 DEF Preflight!Blocked
  <2>5. CASE stored[p] = -1 /\ policy.entries[p] = -1
    BY <1>1, <1>3, <1>6, <1>8, <1>10, <2>1, <2>5 DEF Preflight!Blocked
  <2> QED BY <1>1, <2>2, <2>3, <2>4, <2>5
<1>11. CASE Preflight!Era = "Fresh"
  <2>1. s = IF Preflight!FreshStart(p) > 0 THEN Preflight!FreshStart(p) - 1 ELSE -1
    BY <1>11 DEF Preflight!Open, Preflight!FreshBaseline, Preflight!None
  <2>2. Preflight!FreshStart(p) =
          IF policy.entries[p] # -1 THEN policy.entries[p]
          ELSE IF policy.rest = "latest" THEN high[p] ELSE low[p]
    BY <1>3 DEF Preflight!FreshStart
  <2>3. \/ Preflight!FreshStart(p) = 0 /\ low[p] = 0
        \/ low[p] <= Preflight!FreshStart(p) /\ Preflight!FreshStart(p) <= high[p] /\ Preflight!FreshStart(p) > 0
    BY <1>1, <1>3, <2>2
  <2>4. Preflight!FreshStart(p) \in Int BY <1>1, <1>3, <2>2
  <2>5. CASE Preflight!FreshStart(p) = 0 /\ low[p] = 0
    BY <1>1, <1>8, <2>1, <2>2, <2>5 DEF Preflight!Blocked
  <2>6. CASE low[p] <= Preflight!FreshStart(p) /\ Preflight!FreshStart(p) <= high[p] /\ Preflight!FreshStart(p) > 0
    BY <1>1, <1>8, <2>1, <2>4, <2>6 DEF Preflight!Blocked
  <2> QED BY <2>3, <2>5, <2>6
<1> QED BY <1>9, <1>10, <1>11 DEF Preflight!Era

\* A partition the plan blocks on has no start after the open.
LEMMA BlockedStarts ==
  ASSUME Preflight!ConstantsAssumption, PlanTyped, Preflight!Open,
         NEW p \in Planned, Preflight!PartitionBlocks(p)
  PROVE  Preflight!Resolve(p)' = Preflight!Blocked
<1>1. /\ MaxOffset \in Nat /\ low[p] \in 0 .. MaxOffset /\ high[p] \in 0 .. MaxOffset
      /\ low[p] <= high[p] /\ stored[p] \in -1 .. MaxOffset
  BY DEF Preflight!ConstantsAssumption, PlanTyped, Preflight!TypeOK, Preflight!None
<1>2. UNCHANGED <<policy, low, high>>
  BY DEF Preflight!Open, Preflight!facts, Preflight!topic
<1>3. \/ stored[p] # -1 /\ (stored[p] + 1 < low[p] \/ stored[p] >= high[p])
      \/ stored[p] = -1 /\ low[p] # 0 /\ p \notin Preflight!Acknowledged /\ Preflight!Era = "Ddi"
  BY <1>1 DEF Preflight!PartitionBlocks, Preflight!Verdict, Preflight!None
<1>4. stored'[p] = stored[p]
  BY <1>3 DEF Preflight!Open, Preflight!Era, Preflight!TakeoverBaseline, Preflight!None
<1>5. p \in Preflight!Acknowledged' <=> p \in Preflight!Acknowledged
  BY <1>2 DEF Preflight!Acknowledged
<1> QED
  BY <1>1, <1>2, <1>3, <1>4, <1>5 DEF Preflight!Resolve, Preflight!StartWithoutOffset, Preflight!Blocked,
     Preflight!None

\* The open keeps what the plan foretells.
LEMMA OpenKeepsPlan ==
  ASSUME Preflight!ConstantsAssumption, PlanInv, Preflight!Open
  PROVE  PlanInv'
<1> USE DEF PlanInv
<1>1. UNCHANGED <<table, policy, compat, low, high, report, start, first>>
  BY DEF Preflight!Open, Preflight!facts, Preflight!topic
<1>2. PlanTyped'
  <2>1. stored' \in [Planned -> Preflight!None .. MaxOffset]
    BY BaselinesTyped DEF Preflight!Open, PlanTyped, Preflight!TypeOK
  <2>2. marker' \in BOOLEAN /\ settled' \in BOOLEAN /\ planPhase' = "assign"
    BY DEF Preflight!Open, PlanTyped, Preflight!TypeOK
  <2> QED BY <1>1, <2>1, <2>2 DEF PlanTyped, Preflight!TypeOK
<1>3. EntriesAreThere' BY <1>1 DEF EntriesAreThere, Preflight!Acknowledged
<1>4. /\ ~Preflight!OpenRefuses /\ ~Preflight!Retention /\ ~Preflight!Unwritable
      /\ report = Preflight!Blocking
  BY DEF Preflight!Open, ReportForetells
<1>5. report = {} => \A p \in Planned : ~Preflight!PartitionBlocks(p)
  <2> SUFFICES ASSUME NEW p \in Planned, Preflight!PartitionBlocks(p) PROVE "partition" \in report
    OBVIOUS
  <2> QED BY <1>4 DEF Preflight!Blocking
<1>6. report # {} => \E p \in Planned : Preflight!PartitionBlocks(p)
  BY <1>4 DEF Preflight!Blocking
<1>7. report = {} /\ EntriesHeld => \A p \in Planned : Preflight!Resolve(p)' # Preflight!Blocked
  BY <1>4, <1>5, CleanStarts
<1>8. report # {} => \E p \in Planned : Preflight!Resolve(p)' = Preflight!Blocked
  BY <1>6, BlockedStarts
<1>9. ReportForetells'
  <2>1. planPhase' = "assign" BY DEF Preflight!Open
  <2> QED BY <1>1, <1>7, <1>8, <2>1 DEF ReportForetells
<1> QED BY <1>2, <1>3, <1>9

\* The other steps keep it.
LEMMA PlanSteps ==
  ASSUME Preflight!ConstantsAssumption, PlanInv, [Preflight!Next]_(Preflight!vars)
  PROVE  PlanInv'
<1> USE DEF PlanInv
<1>1. CASE Preflight!Plan
  <2>1. UNCHANGED <<table, policy, compat, low, high, stored, marker, start, first, settled>> /\ planPhase' = "open"
    BY <1>1 DEF Preflight!Plan, Preflight!facts, Preflight!topic
  <2>2. report' = Preflight!Blocking' BY <1>1, <2>1 DEF Preflight!Plan, Preflight!Blocking,
     Preflight!OpenRefuses, Preflight!Retention, Preflight!Unwritable, Preflight!PartitionBlocks,
     Preflight!Verdict, Preflight!Era, Preflight!TypoGuard, Preflight!RecentAppIds,
     Preflight!TakeoverRefuses, Preflight!HoldsRows, Preflight!Incomplete, Preflight!Acknowledged
  <2>3. report' \subseteq {"refused", "retention", "protocol", "partition"}
    BY <1>1 DEF Preflight!Plan, Preflight!Blocking
  <2> QED
    BY <2>1, <2>2, <2>3 DEF PlanTyped, Preflight!TypeOK, EntriesAreThere, Preflight!Acknowledged,
       ReportForetells
<1>2. CASE Preflight!OpenFails
  <2>1. UNCHANGED <<table, policy, compat, low, high, stored, marker, report, start, first, settled>>
        /\ planPhase' = "refused"
    BY <1>2 DEF Preflight!OpenFails, Preflight!facts, Preflight!topic
  <2>2. report # {}
    <3>1. report = Preflight!Blocking BY <1>2 DEF Preflight!OpenFails, ReportForetells
    <3>2. CASE Preflight!Retention BY <3>1, <3>2 DEF Preflight!Blocking
    <3>3. CASE Preflight!Unwritable BY <3>1, <3>3 DEF Preflight!Blocking
    <3>4. CASE Preflight!OpenRefuses BY <3>1, <3>4 DEF Preflight!Blocking
    <3> QED BY <1>2, <3>2, <3>3, <3>4 DEF Preflight!OpenFails
  <2> QED
    BY <2>1, <2>2 DEF PlanTyped, Preflight!TypeOK, EntriesAreThere, Preflight!Acknowledged, ReportForetells
<1>3. CASE Preflight!Open
  BY <1>3, OpenKeepsPlan
<1>4. CASE Preflight!Assign
  <2>1. UNCHANGED <<table, policy, compat, low, high, stored, marker, report, settled>>
        /\ planPhase = "assign" /\ planPhase' = "run"
    BY <1>4 DEF Preflight!Assign, Preflight!facts, Preflight!topic
  <2>2. \A p \in Planned : start'[p] = Preflight!Resolve(p) BY <1>4 DEF Preflight!Assign
  <2>3. start' \in [Planned -> Preflight!Blocked .. MaxOffset]
        /\ first' \in [Planned -> Preflight!Blocked .. MaxOffset]
        /\ \A p \in Planned : start'[p] <= high'[p]
    BY <1>4, <2>1, <2>2, ResolvedTyped DEF Preflight!Assign, PlanTyped
  <2>4. PlanTyped' /\ EntriesAreThere'
    BY <2>1, <2>3 DEF PlanTyped, Preflight!TypeOK, EntriesAreThere, Preflight!Acknowledged
  <2>5. ReportForetells' BY <2>1, <2>2 DEF ReportForetells
  <2> QED BY <2>4, <2>5
<1>5. CASE Preflight!Restart
  <2>1. UNCHANGED <<table, compat, low, high, stored, marker, first, settled>> /\ planPhase' = "plan" /\ report' = {}
    BY <1>5 DEF Preflight!Restart, Preflight!topic
  <2>2. policy' \in Preflight!Policy /\ Preflight!Acknowledged' \subseteq Preflight!Acknowledged
        /\ \A p \in Preflight!Acknowledged' : policy'.entries[p] = policy.entries[p]
    <3>1. CASE policy' = policy
      BY <3>1 DEF PlanTyped, Preflight!Acknowledged
    <3>2. CASE policy' = Preflight!Unlisted
      <4>1. Preflight!Unlisted \in Preflight!Policy
        <5>1. -1 \in -1 .. MaxOffset + 1 BY DEF Preflight!ConstantsAssumption
        <5>2. [p \in Planned |-> -1] \in [Planned -> -1 .. MaxOffset + 1] BY <5>1
        <5> QED BY <5>2 DEF PlanTyped, Preflight!Unlisted, Preflight!Policy, Preflight!None
      <4>2. Preflight!Acknowledged' = {}
        BY <3>2 DEF PlanTyped, Preflight!Unlisted, Preflight!Policy, Preflight!Acknowledged
      <4> QED BY <3>2, <4>1, <4>2
    <3> QED BY <1>5, <3>1, <3>2 DEF Preflight!Restart
  <2>3. start' \in [Planned -> Preflight!Blocked .. MaxOffset] /\ \A p \in Planned : start'[p] <= high'[p]
    BY <1>5, <2>1 DEF Preflight!Restart, Preflight!Unset, Preflight!Blocked, PlanTyped, Preflight!ConstantsAssumption
  <2> QED
    BY <2>1, <2>2, <2>3 DEF PlanTyped, Preflight!TypeOK, EntriesAreThere, ReportForetells
<1>6. ASSUME NEW p \in Planned, Preflight!Produce(p) PROVE PlanInv'
  <2>1. UNCHANGED <<table, policy, compat, low, stored, marker, planPhase, report, start, first, settled>>
        /\ planPhase = "run" /\ high' = [high EXCEPT ![p] = @ + 1] /\ high[p] < MaxOffset
    BY <1>6 DEF Preflight!Produce, Preflight!facts
  <2>2. high' \in [Planned -> 0 .. MaxOffset] /\ \A q \in Planned : high[q] <= high'[q] /\ high[q] \in Nat
    BY <2>1 DEF PlanTyped, Preflight!ConstantsAssumption
  <2>3. \A q \in Planned : low[q] \in Nat /\ start[q] \in Int /\ policy.entries[q] \in Int
    BY DEF PlanTyped, Preflight!TypeOK, Preflight!Policy, Preflight!ConstantsAssumption, Preflight!None,
           Preflight!Blocked
  <2>4. PlanTyped' BY <2>1, <2>2, <2>3 DEF PlanTyped, Preflight!TypeOK
  <2>5. EntriesAreThere'
    BY <2>1, <2>2, <2>3 DEF EntriesAreThere, Preflight!Acknowledged
  <2>6. ReportForetells' BY <2>1 DEF ReportForetells
  <2> QED BY <2>4, <2>5, <2>6
<1>7. CASE UNCHANGED Preflight!vars
  <2>1. UNCHANGED <<table, policy, compat, low, high, stored, marker, planPhase, report, start, first, settled>>
    BY <1>7 DEF Preflight!vars, Preflight!facts, Preflight!topic
  <2>2. UNCHANGED Preflight!Blocking
    BY <2>1 DEF Preflight!Blocking, Preflight!OpenRefuses, Preflight!Retention, Preflight!Unwritable,
     Preflight!PartitionBlocks, Preflight!Verdict, Preflight!Era, Preflight!TypoGuard,
     Preflight!RecentAppIds, Preflight!TakeoverRefuses, Preflight!HoldsRows, Preflight!Incomplete,
     Preflight!Acknowledged
  <2>3. \A p \in Planned : Preflight!Resolve(p)' = Preflight!Resolve(p)
    BY <2>1 DEF Preflight!Resolve, Preflight!StartWithoutOffset, Preflight!Acknowledged
  <2> QED
    BY <2>1, <2>2, <2>3 DEF PlanTyped, Preflight!TypeOK, EntriesAreThere, Preflight!Acknowledged,
       ReportForetells
<1> QED
  BY <1>1, <1>2, <1>3, <1>4, <1>5, <1>6, <1>7 DEF Preflight!Next

(* "latest" is asked anew by each open that finds no offset. *)
NoneLatest == \A q \in Policies : q.rest # "latest"

(* What the first open settled is what the next one finds: the marker with the offsets,
   or nothing at all where every partition starts at zero; and what an operator may take
   away is needed no longer. *)
StartIsSettled ==
  /\ policy.rest # "latest"
  /\ settled => marker /\ \A p \in Planned : stored[p] = Preflight!None => policy.entries[p] <= 0
  /\ ~marker /\ (planPhase \in {"assign", "run"} \/ \E p \in Planned : first[p] >= 0) =>
       \A p \in Planned : stored[p] = Preflight!None /\ Preflight!FreshStart(p) = 0
  /\ \A p \in Planned : first[p] >= 0 => Preflight!Resolve(p) = first[p]
  /\ planPhase = "run" => \A p \in Planned : first[p] >= 0 => start[p] = first[p]

\* A fresh start of a policy that is not "latest" takes no part of the topic's end.
LEMMA FreshStartIs ==
  ASSUME PlanTyped, policy.rest # "latest", NEW p \in Planned
  PROVE  Preflight!FreshStart(p) = IF policy.entries[p] # -1 THEN policy.entries[p] ELSE low[p]
BY DEF Preflight!FreshStart, Preflight!Acknowledged, Preflight!None

\* The open that is not the first one changes nothing a start depends on; and what it
\* marks has an offset wherever an entry said so.
LEMMA OpenKeepsStart ==
  ASSUME Preflight!ConstantsAssumption, PlanInv, StartIsSettled, Preflight!Open
  PROVE  StartIsSettled'
<1> USE DEF PlanInv
<1>1. UNCHANGED <<policy, low, high, start, first>> /\ planPhase = "open" /\ planPhase' = "assign"
  BY DEF Preflight!Open, Preflight!facts, Preflight!topic
<1>2. marker \in BOOLEAN /\ marker' \in BOOLEAN /\ settled \in BOOLEAN
  BY DEF Preflight!Open, PlanTyped, Preflight!TypeOK
<1>3. \A p \in Planned : /\ stored[p] \in -1 .. MaxOffset /\ policy.entries[p] \in -1 .. MaxOffset + 1
                           /\ low[p] \in Nat /\ Preflight!FreshStart(p) \in Nat
  <2>1. MaxOffset \in Nat BY DEF Preflight!ConstantsAssumption
  <2> QED
    BY <2>1, BaselinesTyped DEF PlanTyped, Preflight!TypeOK, Preflight!Policy, Preflight!None
<1>4. \A p \in Planned : Preflight!FreshStart(p)' = Preflight!FreshStart(p)
  BY <1>1 DEF Preflight!FreshStart, Preflight!Acknowledged
<1>5. \A p \in Planned : first[p] >= 0 => stored'[p] = stored[p]
  <2> SUFFICES ASSUME NEW p \in Planned, first[p] >= 0 PROVE stored'[p] = stored[p]
    OBVIOUS
  <2>1. CASE marker
    BY <2>1 DEF Preflight!Open, Preflight!Era
  <2>2. CASE ~marker
    <3>1. \A q \in Planned : stored[q] = Preflight!None /\ Preflight!FreshStart(q) = 0
      BY <2>2 DEF StartIsSettled
    <3>2. Preflight!Era = "Fresh" BY <2>2, <3>1 DEF Preflight!Era
    <3> QED BY <3>1, <3>2 DEF Preflight!Open, Preflight!FreshBaseline
  <2> QED BY <2>1, <2>2
<1>6. \A p \in Planned : first[p] >= 0 => Preflight!Resolve(p)' = Preflight!Resolve(p)
  BY <1>1, <1>5 DEF Preflight!Resolve, Preflight!StartWithoutOffset, Preflight!Acknowledged
<1>7. ~marker' => \A p \in Planned : stored'[p] = Preflight!None /\ Preflight!FreshStart(p)' = 0
  <2> SUFFICES ASSUME ~marker', NEW p \in Planned
               PROVE  stored'[p] = Preflight!None /\ Preflight!FreshStart(p) = 0
    BY <1>4
  <2>1. Preflight!Era = "Fresh" /\ ~(Preflight!FreshStart(p) > 0) BY DEF Preflight!Open
  <2> QED BY <1>3, <2>1 DEF Preflight!Open, Preflight!FreshBaseline
<1>8. settled' => marker'
  <2>1. settled => marker BY DEF StartIsSettled
  <2> QED BY <2>1 DEF Preflight!Open, Preflight!Era
<1>9. settled' => marker' /\ \A p \in Planned : stored'[p] = Preflight!None => policy.entries[p] <= 0
  <2> SUFFICES ASSUME settled', NEW p \in Planned
               PROVE  stored'[p] = Preflight!None => policy.entries[p] <= 0
    BY <1>8
  <2>1. CASE settled
    <3>1. marker BY <2>1 DEF StartIsSettled
    <3>2. Preflight!Era = "Ddi" BY <3>1 DEF Preflight!Era
    <3> QED BY <2>1, <3>1, <3>2 DEF Preflight!Open, StartIsSettled
  <2>2. CASE ~settled
    <3>1. marker' /\ ~marker BY <2>2 DEF Preflight!Open
    <3>2. CASE Preflight!Era = "Fresh"
      <4>1. stored'[p] = IF Preflight!FreshStart(p) > 0 THEN Preflight!FreshStart(p) - 1 ELSE Preflight!None
        BY <3>2 DEF Preflight!Open, Preflight!FreshBaseline
      <4>2. Preflight!FreshStart(p) = IF policy.entries[p] # -1 THEN policy.entries[p] ELSE low[p]
        BY FreshStartIs DEF StartIsSettled
      <4> QED BY <1>3, <3>1, <4>1, <4>2 DEF Preflight!None
    <3>3. CASE Preflight!Era = "Kdi"
      <4>1. stored'[p] = IF stored[p] = Preflight!None /\ policy.entries[p] > 0
                         THEN policy.entries[p] - 1 ELSE stored[p]
        BY <3>3 DEF Preflight!Open, Preflight!TakeoverBaseline
      <4> QED BY <1>3, <3>1, <4>1 DEF Preflight!None
    <3> QED BY <3>1, <3>2, <3>3 DEF Preflight!Era
  <2> QED BY <2>1, <2>2
<1> QED BY <1>1, <1>2, <1>6, <1>7, <1>9 DEF StartIsSettled

\* The other steps keep what was settled.
LEMMA StartSteps ==
  ASSUME Preflight!ConstantsAssumption, PlanInv, StartIsSettled, [Preflight!Next]_(Preflight!vars)
  PROVE  StartIsSettled'
<1> USE DEF PlanInv
<1>1. MaxOffset \in Nat /\
      \A p \in Planned : /\ stored[p] \in -1 .. MaxOffset /\ policy.entries[p] \in -1 .. MaxOffset + 1
                           /\ low[p] \in Nat /\ high[p] \in Nat /\ low[p] <= high[p]
                           /\ first[p] \in -3 .. MaxOffset
  BY DEF PlanTyped, Preflight!TypeOK, Preflight!Policy, Preflight!None, Preflight!Blocked,
         Preflight!ConstantsAssumption
<1>2. CASE Preflight!Plan \/ Preflight!OpenFails \/ UNCHANGED Preflight!vars
  <2>1. UNCHANGED <<policy, low, high, stored, marker, start, first, settled>>
        /\ (planPhase' = planPhase \/ planPhase' \in {"open", "refused"})
    BY <1>2 DEF Preflight!Plan, Preflight!OpenFails, Preflight!vars, Preflight!facts, Preflight!topic
  <2>2. \A p \in Planned : /\ Preflight!Resolve(p)' = Preflight!Resolve(p)
                             /\ Preflight!FreshStart(p)' = Preflight!FreshStart(p)
    BY <2>1 DEF Preflight!Resolve, Preflight!StartWithoutOffset, Preflight!FreshStart, Preflight!Acknowledged
  <2> QED BY <2>1, <2>2 DEF StartIsSettled
<1>3. CASE Preflight!Open
  BY <1>3, OpenKeepsStart
<1>4. CASE Preflight!Assign
  <2>1. UNCHANGED <<policy, low, high, stored, marker, settled>> /\ planPhase = "assign" /\ planPhase' = "run"
    BY <1>4 DEF Preflight!Assign, Preflight!facts, Preflight!topic
  <2>2. \A p \in Planned : /\ Preflight!Resolve(p)' = Preflight!Resolve(p)
                             /\ Preflight!FreshStart(p)' = Preflight!FreshStart(p)
    BY <2>1 DEF Preflight!Resolve, Preflight!StartWithoutOffset, Preflight!FreshStart, Preflight!Acknowledged
  <2>3. \A p \in Planned : /\ start'[p] = Preflight!Resolve(p)
                             /\ first'[p] = IF first[p] < 0 THEN Preflight!Resolve(p) ELSE first[p]
    BY <1>4 DEF Preflight!Assign
  <2>4. \A p \in Planned : first'[p] = Preflight!Resolve(p)
    BY <1>1, <2>3 DEF StartIsSettled
  <2> QED BY <2>1, <2>2, <2>3, <2>4 DEF StartIsSettled
<1>5. CASE Preflight!Restart
  <2>1. UNCHANGED <<low, high, stored, marker, first, settled>> /\ planPhase = "run" /\ planPhase' = "plan"
    BY <1>5 DEF Preflight!Restart, Preflight!topic
  <2>2. CASE policy' = policy
    <3>1. \A p \in Planned : /\ Preflight!Resolve(p)' = Preflight!Resolve(p)
                               /\ Preflight!FreshStart(p)' = Preflight!FreshStart(p)
      BY <2>1, <2>2 DEF Preflight!Resolve, Preflight!StartWithoutOffset, Preflight!FreshStart,
         Preflight!Acknowledged
    <3> QED BY <2>1, <2>2, <3>1 DEF StartIsSettled
  <2>3. CASE settled /\ policy' = Preflight!Unlisted
    <3>1. policy'.rest = "earliest" /\ \A p \in Planned : policy'.entries[p] = -1
      BY <2>3 DEF PlanTyped, Preflight!Policy, Preflight!Unlisted, Preflight!None
    <3>2. marker /\ \A p \in Planned : stored[p] = -1 => policy.entries[p] <= 0
      BY <2>3 DEF StartIsSettled, Preflight!None
    <3>3. ASSUME NEW p \in Planned, first[p] >= 0 PROVE Preflight!Resolve(p)' = first[p]
      <4>1. Preflight!Resolve(p) = first[p] BY <3>3 DEF StartIsSettled
      <4>2. CASE stored[p] # -1
        BY <2>1, <4>1, <4>2 DEF Preflight!Resolve, Preflight!None
      <4>3. CASE stored[p] = -1
        <5>1. Preflight!Resolve(p) = Preflight!StartWithoutOffset(p)
              /\ Preflight!Resolve(p)' = Preflight!StartWithoutOffset(p)'
          BY <2>1, <4>3 DEF Preflight!Resolve, Preflight!None
        <5>2. Preflight!StartWithoutOffset(p)' = IF low[p] = 0 THEN 0 ELSE -3
          BY <2>1, <3>1 DEF Preflight!StartWithoutOffset, Preflight!Acknowledged, Preflight!None,
             Preflight!Blocked
        <5>3. Preflight!StartWithoutOffset(p) =
                IF policy.entries[p] # -1
                THEN IF policy.entries[p] < low[p] \/ policy.entries[p] > high[p] THEN -3
                     ELSE policy.entries[p]
                ELSE IF low[p] = 0 THEN 0 ELSE -3
          BY DEF Preflight!StartWithoutOffset, Preflight!Acknowledged, Preflight!None, Preflight!Blocked
        <5> QED BY <1>1, <3>2, <3>3, <4>1, <4>3, <5>1, <5>2, <5>3
      <4> QED BY <4>2, <4>3
    <3>4. \A p \in Planned : stored'[p] = Preflight!None => policy'.entries[p] <= 0
      BY <3>1
    <3> QED BY <2>1, <3>1, <3>2, <3>3, <3>4 DEF StartIsSettled
  <2> QED BY <1>5, <2>2, <2>3 DEF Preflight!Restart
<1>6. ASSUME NEW p \in Planned, Preflight!Produce(p) PROVE StartIsSettled'
  <2>1. UNCHANGED <<policy, low, stored, marker, planPhase, start, first, settled>>
        /\ high' = [high EXCEPT ![p] = @ + 1]
    BY <1>6 DEF Preflight!Produce, Preflight!facts
  <2>2. \A q \in Planned : high'[q] \in Nat /\ high[q] <= high'[q]
    BY <1>1, <2>1 DEF PlanTyped
  <2>3. \A q \in Planned : Preflight!FreshStart(q)' = Preflight!FreshStart(q)
    BY <2>1 DEF Preflight!FreshStart, Preflight!Acknowledged, StartIsSettled
  <2>4. ASSUME NEW q \in Planned, first[q] >= 0 PROVE Preflight!Resolve(q)' = first[q]
    <3>1. Preflight!Resolve(q) = first[q] BY <2>4 DEF StartIsSettled
    <3>2. CASE stored[q] = -1
      <4>1. Preflight!Resolve(q) = Preflight!StartWithoutOffset(q)
            /\ Preflight!Resolve(q)' = Preflight!StartWithoutOffset(q)'
        BY <2>1, <3>2 DEF Preflight!Resolve, Preflight!None
      <4>2. q \in Preflight!Acknowledged' <=> q \in Preflight!Acknowledged
        BY <2>1 DEF Preflight!Acknowledged
      <4> QED
        BY <1>1, <2>1, <2>2, <2>4, <3>1, <4>1, <4>2 DEF Preflight!StartWithoutOffset, Preflight!Blocked
    <3>3. CASE stored[q] # -1
      <4> DEFINE R(h) == CASE stored[q] + 1 < low[q] -> -3
                           [] stored[q] + 1 = low[q] -> low[q]
                           [] stored[q] >= h -> -3
                           [] OTHER -> stored[q] + 1
      <4>1. Preflight!Resolve(q) = R(high[q]) /\ Preflight!Resolve(q)' = R(high'[q])
        BY <2>1, <3>3 DEF Preflight!Resolve, Preflight!None, Preflight!Blocked
      <4>2. R(high[q]) >= 0 => R(high'[q]) = R(high[q])
        BY <1>1, <2>2
      <4> QED BY <2>4, <3>1, <4>1, <4>2
    <3> QED BY <3>2, <3>3
  <2> QED BY <2>1, <2>3, <2>4 DEF StartIsSettled
<1> QED
  BY <1>2, <1>3, <1>4, <1>5, <1>6 DEF Preflight!Next

\* In every state the plan and the open agree.
THEOREM PlanInvariance ==
  ASSUME Preflight!ConstantsAssumption
  PROVE  Preflight!Spec => []PlanInv
<1>1. Preflight!Init => PlanInv BY PlanStarts
<1>2. PlanInv /\ [Preflight!Next]_(Preflight!vars) => PlanInv' BY PlanSteps
<1> QED BY <1>1, <1>2, PTL DEF Preflight!Spec

\* The type invariant of the plan and the open.
THEOREM PlanTypes ==
  ASSUME Preflight!ConstantsAssumption
  PROVE  Preflight!Spec => []Preflight!TypeOK
<1>1. PlanInv => Preflight!TypeOK BY DEF PlanInv, PlanTyped
<1> QED BY <1>1, PlanInvariance, PTL

\* A clean plan opens and gives every partition a start (plan.rs:76), where the entries of
\* starting_offsets are offsets of the topic.
THEOREM CleanPlansOpen ==
  ASSUME Preflight!ConstantsAssumption, EntriesHeld
  PROVE  Preflight!Spec => []Preflight!CleanPlanOpens
<1>1. PlanInv => Preflight!CleanPlanOpens
  BY DEF PlanInv, ReportForetells, Preflight!CleanPlanOpens
<1> QED BY <1>1, PlanInvariance, PTL

\* What the plan blocks on stops the open or a partition.
THEOREM BlockedPlansStop ==
  ASSUME Preflight!ConstantsAssumption
  PROVE  Preflight!Spec => []Preflight!BlockedPlanStops
<1>1. PlanInv => Preflight!BlockedPlanStops
  BY DEF PlanInv, ReportForetells, Preflight!BlockedPlanStops
<1> QED BY <1>1, PlanInvariance, PTL

\* A process that ends before its first commit starts again where it had started, whatever
\* of starting_offsets was taken away meanwhile, unless the policy is "latest" (start.rs:134).
THEOREM StartsAreKept ==
  ASSUME Preflight!ConstantsAssumption, NoneLatest
  PROVE  Preflight!Spec => []Preflight!StartKept
<1>1. Preflight!Init => PlanInv /\ StartIsSettled
  <2> SUFFICES ASSUME Preflight!Init PROVE StartIsSettled
    BY PlanStarts
  <2>1. /\ policy \in Policies /\ planPhase = "plan" /\ settled = FALSE
        /\ \A p \in Planned : first[p] = -2
    BY DEF Preflight!Init, Preflight!Unset
  <2> QED BY <2>1 DEF StartIsSettled, NoneLatest
<1>2. PlanInv /\ StartIsSettled /\ [Preflight!Next]_(Preflight!vars) => (PlanInv /\ StartIsSettled)'
  BY PlanSteps, StartSteps
<1>3. StartIsSettled => Preflight!StartKept BY DEF StartIsSettled, Preflight!StartKept
<1> QED BY <1>1, <1>2, <1>3, PTL DEF Preflight!Spec

\* An app_id that is fresh over rows of its topic, whoever wrote them, opens only with an
\* entry for every partition that has messages (start.rs:210, fence.rs:207).
THEOREM FreshOverRowsIsRefused ==
  ASSUME Preflight!ConstantsAssumption
  PROVE  Preflight!Spec => [][Preflight!FreshOverRowsRefused]_(Preflight!vars)
<1>1. ASSUME PlanInv, [Preflight!Next]_(Preflight!vars) PROVE Preflight!FreshOverRowsRefused
  <2> SUFFICES ASSUME planPhase = "open", planPhase' = "assign", Preflight!Era = "Fresh",
                      NEW f \in table.files, Preflight!Topic \in f.topics,
                      NEW p \in Planned, high[p] > 0
               PROVE  p \in Preflight!Acknowledged
    BY DEF Preflight!FreshOverRowsRefused
  <2>1. Preflight!Open
    BY <1>1 DEF Preflight!Next, Preflight!Plan, Preflight!OpenFails, Preflight!Assign, Preflight!Restart,
       Preflight!Produce, Preflight!vars
  <2>2. ~Preflight!OpenRefuses BY <2>1 DEF Preflight!Open
  <2>3. f.stats = "exact" => f.min <= Preflight!Topic /\ Preflight!Topic <= f.max
    BY <1>1 DEF PlanInv, PlanTyped, Preflight!ConstantsAssumption
  <2>4. Preflight!HoldsRows BY <2>3 DEF Preflight!HoldsRows
  <2>5. stored[p] = Preflight!None BY DEF Preflight!Era
  <2> QED BY <2>2, <2>4, <2>5 DEF Preflight!OpenRefuses, Preflight!TakeoverRefuses
<1> QED BY <1>1, PlanInvariance, PTL DEF Preflight!Spec
=============================================================================
