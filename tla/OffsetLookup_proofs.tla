------------------------- MODULE OffsetLookup_proofs ------------------------
(***************************************************************************)
(* Proofs about OffsetLookup, for every log, every set of appIds, every    *)
(* window and every number of checkpoints and faults: type correctness,    *)
(* and from an inductive invariant that a read gives the newest txn of     *)
(* each appId with the mark that belongs to it, or fails for cause.        *)
(*                                                                         *)
(* Below it are the proofs of what else is checked in two settings side by *)
(* side, of which the module is instantiated with one each: Locate,        *)
(* PublishChain and KafkaLag.                                              *)
(***************************************************************************)
EXTENDS OffsetLookup, FiniteSetTheorems, SequenceTheorems, NaturalsInduction,
        WellFoundedInduction, TLAPS

-----------------------------------------------------------------------------
(* The inductive invariant.                                                *)

AnswerType == [version : {-1, 0} \cup Values, mark : NoVersion .. Last]

Answers == [Ids -> AnswerType]

Memo == [checkpoint : NoVersion .. Last, found : Answers]

\* Every variable the reader rests on has its type.
Typed ==
    /\ log \in Logs
    /\ there \subseteq Versions /\ cps \in [Versions -> SUBSET Files] /\ hint \in NoVersion .. Last
    /\ faults \in Nat /\ cleaned \in BOOLEAN
    /\ pc \in {"idle", "head", "list", "walk", "checkpoint", "below", "done", "failed"}
    /\ head \in Versions /\ bottom \in NoVersion .. Last /\ next \in NoVersion .. Last
    /\ sent \in Seq({"read", "gone"}) /\ Len(sent) <= InFlight
    /\ found \in Answers /\ memo \in Memo
    /\ below \in 0 .. BelowReads /\ answered \subseteq Partitions

\* No commit in S wrote a txn of i.
NoTxnOf(i, S) == \A w \in S : log[w][i].version = 0

\* Nobody without an answer in f has a txn in S.
Passed(f, S) == \A i \in Ids : f[i] = Unknown => NoTxnOf(i, S)

\* The mark of answer a was recorded beside its txn, and no other txn of i follows
\* up to version v.
MarkHolds(i, a, v) ==
    a.mark # NoVersion =>
        /\ a.mark <= v /\ log[a.mark][i].marked
        /\ log[a.mark][i].version = a.version
        /\ \A w \in a.mark .. v : log[w][i].version \in {0, a.version}

\* The answers given so far are the newest at version h.
AllGood(f, h) ==
    \A i \in Ids : f[i] # Unknown => f[i].version = Truth(i, h) /\ MarkHolds(i, f[i], h)

\* What is remembered of a checkpoint holds at it.
MemoGood(m) == \A i \in Ids : MarkHolds(i, m.found[i], m.checkpoint)

\* No request is under way for a commit below the floor.
Requested == pc \in {"walk", "below"} => Ahead >= Floor - 1

\* Before the listing: nothing above next holds a txn without an answer, and the
\* head's own commit is only missing where log cleanup took it.
HeadOK ==
    /\ pc = "head" => next = NoVersion /\ found = [i \in Ids |-> Unknown]
    /\ pc = "list" =>
         /\ next \in {head - 1, head}
         /\ next = head => cleaned
         /\ Passed(found, next + 1 .. head)
    /\ pc \in {"head", "list"} => sent = <<>>

\* On the walk: what was passed holds no txn without an answer, but for the commit the
\* checkpoint stands for.
WalkOK ==
    /\ pc \in {"walk", "checkpoint"} => bottom <= head
    /\ pc = "walk" => next < head /\ Passed(found, (next + 1 .. head) \ {bottom})
    /\ pc = "checkpoint" => bottom # NoVersion /\ Passed(found, bottom + 1 .. head)

\* Below the checkpoint: an offset a mark is looked for was not written between next
\* and the checkpoint, nor another one from there to the handle's version.
Sought(i, f, n, b, h) ==
    /\ f[i].version \notin {-1, 0} /\ f[i].mark = NoVersion
    /\ NoTxnOf(i, n + 1 .. b - 1)
    /\ \A w \in b .. h : log[w][i].version \in {0, f[i].version}

BelowOK ==
    pc = "below" =>
        /\ bottom \in 0 .. head /\ next < bottom /\ memo.checkpoint = bottom
        /\ below = bottom - 1 - Ahead
        /\ \A i \in answered : Sought(i, found, next, bottom, head)

\* The answers of a read under way and of one that is done are right.
AnswersOK ==
    /\ pc \in {"head", "list", "walk", "checkpoint", "below", "done"} => AllGood(found, head)
    /\ pc \in {"below", "done"} => AllFound(found)

\* While nothing was cleaned up, every commit asked for is there, and so is the
\* checkpoint.
Uncleaned ==
    ~cleaned =>
        /\ there = Versions
        /\ \A k \in 1 .. Len(sent) : sent[k] = "read"
        /\ pc \in {"walk", "checkpoint"} /\ bottom # NoVersion => Complete(bottom)

\* Commits are counted only below the checkpoint.
Counted == pc \in {"head", "list", "walk", "checkpoint"} => below = 0

\* The inductive invariant.
IInv ==
    /\ Typed /\ MemoGood(memo)
    /\ Requested /\ HeadOK /\ WalkOK /\ BelowOK /\ AnswersOK /\ Uncleaned /\ Counted
    /\ NoNeedlessFailure

-----------------------------------------------------------------------------
(* Greatest elements.                                                      *)

\* Every set of naturals has a least element.
LEMMA LeastNatural ==
    ASSUME NEW T \in SUBSET Nat, T # {}
    PROVE  \E x \in T : \A y \in T : x =< y
<1> PICK R : R = {ss \in Nat \X Nat : ss[1] < ss[2]}
  OBVIOUS
<1>1. IsWellFoundedOn(R, Nat)
  BY NatLessThanWellFounded DEF OpToRel
<1>2. PICK x \in T : \A y \in T : ~(<<y, x>> \in R)
  BY <1>1, WFMin
<1>3. ASSUME NEW y \in T PROVE x =< y
  <2> PICK z : z = <<y, x>>
    OBVIOUS
  <2>1. z \in Nat \X Nat /\ z[1] = y /\ z[2] = x /\ z \notin R
    BY <1>2
  <2>2. ~(y < x)
    BY <2>1
  <2> QED
    BY <2>2
<1> QED
  BY <1>3

\* A bounded set of naturals has a greatest element.
LEMMA MaxIn ==
    ASSUME NEW n \in Nat, NEW S \in SUBSET (0 .. n), S # {}
    PROVE  Max(S) \in S /\ \A y \in S : Max(S) >= y
<1> PICK T : T = {n - y : y \in S}
  OBVIOUS
<1>1. \A y \in S : n - y \in Nat
  OBVIOUS
<1>5. T \in SUBSET Nat /\ T # {}
  BY <1>1
<1>2. PICK x \in T : \A y \in T : x =< y
  BY <1>5, LeastNatural
<1>3. PICK m \in S : x = n - m
  BY <1>2
<1>4. ASSUME NEW y \in S PROVE m >= y
  <2>1. n - y \in T
    OBVIOUS
  <2>2. n - m =< n - y
    BY <1>2, <1>3, <2>1
  <2> QED
    BY <2>2
<1> QED
  BY <1>4 DEF Max

\* The greater of two.
LEMMA MaxOfTwo ==
    ASSUME NEW a \in Int, NEW b \in Int
    PROVE  Max({a, b}) = IF a >= b THEN a ELSE b
<1>1. PICK m : m = Max({a, b})
  OBVIOUS
<1>2. \E x \in {a, b} : \A y \in {a, b} : x >= y
  OBVIOUS
<1>3. m \in {a, b} /\ \A y \in {a, b} : m >= y
  BY <1>1, <1>2 DEF Max
<1> QED
  BY <1>1, <1>3

-----------------------------------------------------------------------------
(* The newest txn.                                                         *)

\* What a log holds.
LEMMA TxnTyped ==
    ASSUME ConstantsAssumption, log \in Logs, NEW v \in Versions, NEW i \in Ids
    PROVE  /\ log[v][i].version \in {0} \cup Values
           /\ log[v][i].version # -1
BY DEF ConstantsAssumption, Versions

\* A commit with a txn that no later one follows has the newest.
LEMMA TruthIs ==
    ASSUME NEW i, NEW v \in Nat, NEW w \in 0 .. v, log[w][i].version # 0, NoTxnOf(i, w + 1 .. v)
    PROVE  Truth(i, v) = log[w][i].version
<1>1. w \in Writers(i, v)
  BY DEF Writers
<1>2. \A u \in Writers(i, v) : u \in 0 .. v /\ w >= u
  BY DEF Writers, NoTxnOf
<1>3. PICK m : m = Max(Writers(i, v))
  OBVIOUS
<1>4. m \in Writers(i, v) /\ \A u \in Writers(i, v) : m >= u
  BY <1>1, <1>2, <1>3 DEF Max
<1>5. m = w
  BY <1>1, <1>2, <1>4
<1> QED
  BY <1>1, <1>3, <1>5 DEF Truth

\* Without a commit that has one, there is none.
LEMMA TruthNone ==
    ASSUME NEW i, NEW v \in Nat, NoTxnOf(i, 0 .. v)
    PROVE  Truth(i, v) = 0
BY DEF Truth, Writers, NoTxnOf

\* Commits without a txn leave the newest what it was.
LEMMA TruthSame ==
    ASSUME NEW i, NEW v \in Nat, NEW u \in 0 .. v, NoTxnOf(i, u + 1 .. v)
    PROVE  Truth(i, u) = Truth(i, v)
<1>1. Writers(i, u) = Writers(i, v)
  BY DEF Writers, NoTxnOf
<1> QED
  BY <1>1 DEF Truth

\* The newest txn is one of the log's.
LEMMA TruthTyped ==
    ASSUME ConstantsAssumption, log \in Logs, NEW v \in Versions, NEW i \in Ids
    PROVE  Truth(i, v) \in {0} \cup Values /\ Truth(i, v) # -1
<1>0. Last \in Nat /\ v \in Nat /\ v <= Last
  BY DEF ConstantsAssumption, Versions
<1>1. CASE Writers(i, v) = {}
  BY <1>1 DEF Truth
<1>2. CASE Writers(i, v) # {}
  <2>1. Writers(i, v) \in SUBSET (0 .. v)
    BY DEF Writers
  <2>2. PICK m : m = Max(Writers(i, v))
    OBVIOUS
  <2>3. m \in Writers(i, v)
    BY <1>0, <1>2, <2>1, <2>2, MaxIn
  <2>4. m \in Versions
    BY <1>0, <2>1, <2>3 DEF Versions
  <2>5. Truth(i, v) = log[m][i].version
    BY <1>2, <2>2 DEF Truth
  <2> QED
    BY <2>4, <2>5, TxnTyped
<1> QED
  BY <1>1, <1>2

\* No step writes the log: what is said of it stays.
LEMMA LogStays ==
    ASSUME log' = log, NEW f, NEW h, found' = f, head' = h
    PROVE  AllGood(found, head)' <=> AllGood(f, h)
BY DEF AllGood, MarkHolds, Truth, Writers

\* What makes a remembered answer good depends on the log alone.
LEMMA MemoStays ==
    ASSUME log' = log, NEW m, memo' = m
    PROVE  MemoGood(memo)' <=> MemoGood(m)
BY DEF MemoGood, MarkHolds

\* What a commit below the checkpoint is read for depends on the log alone.
LEMMA SoughtStays ==
    ASSUME log' = log, NEW i, NEW f, NEW n, NEW b, NEW h,
           found' = f, next' = n, bottom' = b, head' = h
    PROVE  Sought(i, found, next, bottom, head)' <=> Sought(i, f, n, b, h)
BY DEF Sought, NoTxnOf

-----------------------------------------------------------------------------
(* Parts of the reader.                                                    *)

\* The bounds the constants and the types give.
LEMMA Bounds ==
    ASSUME ConstantsAssumption, Typed
    PROVE  /\ Last \in Nat /\ head \in 0 .. Last /\ bottom \in -1 .. Last /\ next \in -1 .. Last
           /\ Len(sent) \in Nat /\ BelowReads \in Nat /\ InFlight \in Nat /\ ListingWindow \in Nat
           /\ ListingWindow > 0 /\ MaxFaults \in Nat /\ Partitions \subseteq Ids
           /\ Versions = 0 .. Last /\ NoVersion = -1
BY DEF ConstantsAssumption, Typed, Versions, NoVersion

\* Where a walk stops.
LEMMA FloorIs ==
    ASSUME bottom \in Int, BelowReads \in Int
    PROVE  Floor = IF pc = "walk" THEN (IF 0 >= bottom THEN 0 ELSE bottom)
                   ELSE (IF 0 >= bottom - BelowReads THEN 0 ELSE bottom - BelowReads)
<1> PICK b : b = bottom - BelowReads
  OBVIOUS
<1>1. b \in Int /\ Max({0, bottom}) = IF 0 >= bottom THEN 0 ELSE bottom
  BY MaxOfTwo
<1>2. Max({0, b}) = IF 0 >= b THEN 0 ELSE b
  BY <1>1, MaxOfTwo
<1> QED
  BY <1>1, <1>2 DEF Floor

\* The lowest version the walk reads, in the next state.
LEMMA FloorIsNext ==
    ASSUME bottom' \in Int, BelowReads \in Int
    PROVE  Floor' = IF pc' = "walk" THEN (IF 0 >= bottom' THEN 0 ELSE bottom')
                    ELSE (IF 0 >= bottom' - BelowReads THEN 0 ELSE bottom' - BelowReads)
<1> PICK b : b = bottom' - BelowReads
  OBVIOUS
<1> PICK a : a = bottom'
  OBVIOUS
<1>0. a \in Int /\ b \in Int /\ 0 \in Int
  OBVIOUS
<1>1. Max({0, a}) = IF 0 >= a THEN 0 ELSE a
  BY <1>0, MaxOfTwo
<1>2. Max({0, b}) = IF 0 >= b THEN 0 ELSE b
  BY <1>0, MaxOfTwo
<1> QED
  BY <1>1, <1>2 DEF Floor

\* A commit that is recorded, newest first, gives right answers, and whoever is still
\* without one has no txn in it.
LEMMA Records ==
    ASSUME ConstantsAssumption, log \in Logs, NEW h \in Versions, NEW v \in 0 .. h,
           NEW f \in Answers, AllGood(f, h), Passed(f, v + 1 .. h)
    PROVE  /\ Recorded(v, f) \in Answers
           /\ AllGood(Recorded(v, f), h)
           /\ Passed(Recorded(v, f), v .. h)
<1>0. Last \in Nat /\ h \in Nat /\ h <= Last /\ v \in Versions /\ v \in NoVersion .. Last /\ v # NoVersion
  BY DEF ConstantsAssumption, Versions, NoVersion
<1> PICK g : g = Recorded(v, f)
  OBVIOUS
<1>1. ASSUME NEW i \in Ids
      PROVE  g[i] = IF f[i] = Unknown /\ log[v][i].version # 0
                    THEN [version |-> log[v][i].version,
                          mark |-> IF log[v][i].marked THEN v ELSE NoVersion]
                    ELSE f[i]
  BY DEF Recorded
<1>2. ASSUME NEW i \in Ids
      PROVE  /\ g[i] \in AnswerType
             /\ g[i] # Unknown => g[i].version = Truth(i, h) /\ MarkHolds(i, g[i], h)
             /\ g[i] = Unknown => NoTxnOf(i, v .. h)
  <2>0. log[v][i].version \in {0} \cup Values /\ log[v][i].version # -1
    BY <1>0, TxnTyped
  <2>1. CASE f[i] = Unknown /\ log[v][i].version # 0
    <3>1. NoTxnOf(i, v + 1 .. h)
      BY <2>1 DEF Passed
    <3>0. g[i] = [version |-> log[v][i].version,
                  mark |-> IF log[v][i].marked THEN v ELSE NoVersion]
      BY <1>1, <2>1
    <3>2. g[i].version = log[v][i].version /\ g[i].mark = (IF log[v][i].marked THEN v ELSE NoVersion)
      BY <3>0
    <3>3. g[i].version = Truth(i, h)
      BY <1>0, <2>1, <3>1, <3>2, TruthIs
    <3>4. \A w \in v .. h : w = v \/ w \in v + 1 .. h
      BY <1>0
    <3>5. MarkHolds(i, g[i], h)
      BY <1>0, <3>1, <3>2, <3>4 DEF MarkHolds, NoTxnOf
    <3>6. g[i] \in AnswerType
      <4>1. g[i] = [version |-> log[v][i].version,
                    mark |-> IF log[v][i].marked THEN v ELSE NoVersion]
        BY <1>1, <2>1
      <4>2. (IF log[v][i].marked THEN v ELSE NoVersion) \in NoVersion .. Last
        BY <1>0 DEF NoVersion
      <4> QED
        BY <2>0, <4>1, <4>2 DEF AnswerType
    <3>7. g[i] # Unknown
      BY <2>0, <3>2 DEF Unknown
    <3> QED
      BY <3>3, <3>5, <3>6, <3>7
  <2>2. CASE ~(f[i] = Unknown /\ log[v][i].version # 0)
    <3>1. g[i] = f[i]
      BY <1>1, <2>2
    <3>2. \A w \in v .. h : w = v \/ w \in v + 1 .. h
      BY <1>0
    <3>3. f[i] = Unknown => NoTxnOf(i, v .. h)
      BY <2>2, <3>2 DEF Passed, NoTxnOf
    <3>4. f[i] \in AnswerType
      BY DEF Answers
    <3> QED
      BY <3>1, <3>3, <3>4 DEF AllGood
  <2> QED
    BY <2>1, <2>2
<1>3. g \in Answers
  <2>1. g = [i \in Ids |-> g[i]]
    BY DEF Recorded
  <2> QED
    BY <1>2, <2>1 DEF Answers
<1> QED
  BY <1>2, <1>3 DEF AllGood, Passed

\* The checkpoint a listing finds is complete, and not newer than the handle.
LEMMA CheckpointFound ==
    ASSUME ConstantsAssumption, Typed
    PROVE  /\ NewestCheckpoint \in NoVersion .. head
           /\ NewestCheckpoint # NoVersion => Complete(NewestCheckpoint)
<1>0. /\ Last \in Nat /\ head \in 0 .. Last /\ ListingWindow \in Nat /\ ListingWindow > 0
      /\ hint \in -1 .. Last /\ NoVersion = -1
  BY Bounds DEF Typed, NoVersion
<1>1. ASSUME NEW from \in Nat, Between(from, head) # {}
      PROVE  Max(Between(from, head)) \in 0 .. head /\ Complete(Max(Between(from, head)))
  <2> PICK S : S = Between(from, head)
    OBVIOUS
  <2>1. \A v \in S : v \in 0 .. head /\ Complete(v)
    BY <1>0 DEF Between
  <2>2. S \in SUBSET (0 .. head) /\ S # {} /\ head \in Nat
    BY <1>0, <1>1, <2>1
  <2>3. Max(S) \in S
    BY <2>2, MaxIn
  <2> QED
    BY <2>1, <2>3
<1> PICK window : window = IF head < ListingWindow THEN 0 ELSE head - (ListingWindow - 1)
  OBVIOUS
<1> PICK from : from = IF hint # NoVersion /\ hint <= head THEN hint ELSE window
  OBVIOUS
<1>2. window \in Nat
  BY <1>0
<1>3. from \in Nat /\ 0 \in Nat
  BY <1>0, <1>2
<1>4. NewestCheckpoint = IF Between(from, head) # {} THEN Max(Between(from, head))
                         ELSE IF Between(0, head) # {} THEN Max(Between(0, head)) ELSE NoVersion
  BY DEF NewestCheckpoint
<1>5. CASE Between(from, head) # {}
  BY <1>0, <1>1, <1>3, <1>4, <1>5
<1>6. CASE Between(from, head) = {} /\ Between(0, head) # {}
  BY <1>0, <1>1, <1>3, <1>4, <1>6
<1>7. CASE Between(from, head) = {} /\ Between(0, head) = {}
  BY <1>0, <1>4, <1>7
<1> QED
  BY <1>5, <1>6, <1>7

-----------------------------------------------------------------------------
(* Steps of other engines.                                                 *)

\* A step that leaves the log and the reader alone, and takes files only as log cleanup.
LEMMA WorldStep ==
    ASSUME ConstantsAssumption, IInv,
           log' = log, faults' = faults, reader' = reader,
           there' \subseteq Versions, cps' \in [Versions -> SUBSET Files],
           hint' \in NoVersion .. Last, cleaned' \in BOOLEAN, cleaned => cleaned',
           ~cleaned' => there' = there /\ \A v \in Versions : cps[v] \subseteq cps'[v]
    PROVE  IInv'
<1>0. Typed
  BY DEF IInv
<1>1. /\ pc' = pc /\ head' = head /\ bottom' = bottom /\ sent' = sent /\ next' = next
      /\ found' = found /\ memo' = memo /\ below' = below /\ answered' = answered
  BY DEF reader
<1>2. Typed'
  BY <1>0, <1>1 DEF Typed
<1>3. MemoGood(memo)'
  BY <1>1, MemoStays DEF IInv
<1>4. AnswersOK'
  BY <1>1, LogStays DEF IInv, AnswersOK, AllFound
<1>5. Requested'
  BY <1>1 DEF IInv, Requested, Ahead, Floor
<1>6. HeadOK'
  BY <1>1 DEF IInv, HeadOK, Passed, NoTxnOf
<1>7. WalkOK'
  BY <1>1 DEF IInv, WalkOK, Passed, NoTxnOf
<1>8. BelowOK'
  BY <1>1 DEF IInv, BelowOK, Sought, NoTxnOf, Ahead
<1>9. Uncleaned'
  <2>1. CASE ~cleaned'
    <3>1. Uncleaned /\ ~cleaned
      BY <2>1 DEF IInv
    <3>2. \A v \in Versions : Complete(v) => Complete(v)'
      BY <2>1 DEF Complete
    <3>3. bottom # NoVersion => bottom \in Versions
      BY <1>0 DEF Typed, Versions, NoVersion
    <3>4. bottom # NoVersion /\ Complete(bottom) => Complete(bottom)'
      BY <1>1, <2>1, <3>3 DEF Complete
    <3> QED
      BY <1>1, <2>1, <3>1, <3>4 DEF Uncleaned
  <2>2. CASE cleaned'
    BY <2>2 DEF Uncleaned
  <2> QED
    BY <2>1, <2>2
<1>10. Counted' /\ NoNeedlessFailure'
  BY <1>1 DEF IInv, Counted, NoNeedlessFailure
<1> QED
  BY <1>2, <1>3, <1>4, <1>5, <1>6, <1>7, <1>8, <1>9, <1>10 DEF IInv

\* Checkpoints and the hint appear.
LEMMA WriteCheckpointKeeps ==
    ASSUME ConstantsAssumption, IInv, NEW v \in Versions, NEW f \in Files, WriteCheckpoint(v, f)
    PROVE  IInv'
<1>1. /\ log' = log /\ there' = there /\ hint' = hint /\ faults' = faults /\ cleaned' = cleaned
      /\ reader' = reader /\ cps' = [cps EXCEPT ![v] = @ \cup {f}]
  BY DEF WriteCheckpoint
<1>2. Typed
  BY DEF IInv
<1>3. cps' \in [Versions -> SUBSET Files] /\ \A u \in Versions : cps[u] \subseteq cps'[u]
  BY <1>1, <1>2 DEF Typed
<1> QED
  BY <1>1, <1>2, <1>3, WorldStep DEF Typed

\* The invariant survives MoveHint.
LEMMA MoveHintKeeps ==
    ASSUME ConstantsAssumption, IInv, NEW v \in Versions, MoveHint(v)
    PROVE  IInv'
<1>1. /\ log' = log /\ there' = there /\ hint' = v /\ faults' = faults /\ cleaned' = cleaned
      /\ reader' = reader /\ cps' = cps
  BY DEF MoveHint
<1>2. Typed /\ v \in NoVersion .. Last
  BY DEF IInv, Versions, NoVersion, ConstantsAssumption
<1> QED
  BY <1>1, <1>2, WorldStep DEF Typed

\* Log cleanup takes a commit or a checkpoint.
LEMMA CleanupKeeps ==
    ASSUME ConstantsAssumption, IInv, NEW v \in Versions, CleanCommit(v) \/ CleanCheckpoint(v)
    PROVE  IInv'
<1>1. /\ log' = log /\ hint' = hint /\ faults' = faults /\ cleaned' = TRUE
      /\ reader' = reader
      /\ there' \in {there, there \ {v}} /\ cps' \in {cps, [cps EXCEPT ![v] = {}]}
  BY DEF CleanCommit, CleanCheckpoint
<1>2. Typed
  BY DEF IInv
<1>3. cps' \in [Versions -> SUBSET Files] /\ there' \subseteq Versions
  BY <1>1, <1>2 DEF Typed
<1> QED
  BY <1>1, <1>2, <1>3, WorldStep DEF Typed

-----------------------------------------------------------------------------
(* The reader down to the checkpoint.                                      *)

\* A read begins without answers.
LEMMA StartKeeps ==
    ASSUME ConstantsAssumption, IInv, NEW h \in Versions, Start(h)
    PROVE  IInv'
<1>0. Typed /\ Unknown \in AnswerType
  BY Bounds DEF IInv, Unknown, AnswerType, ConstantsAssumption, NoVersion
<1>1. /\ log' = log /\ there' = there /\ cps' = cps /\ hint' = hint /\ cleaned' = cleaned
      /\ faults' = faults /\ memo' = memo
      /\ pc' = "head" /\ head' = h /\ found' = [i \in Ids |-> Unknown]
      /\ bottom' = NoVersion /\ sent' = <<>> /\ next' = NoVersion /\ below' = 0
      /\ answered' = {}
  BY DEF Start, world
<1>2. Typed'
  <2>1. found' \in Answers
    BY <1>0, <1>1 DEF Answers
  <2>2. NoVersion \in NoVersion .. Last /\ 0 \in 0 .. BelowReads /\ 0 <= InFlight
    BY <1>0, Bounds
  <2>3. sent' \in Seq({"read", "gone"}) /\ Len(sent') = 0
    BY <1>1
  <2> QED
    BY <1>0, <1>1, <2>1, <2>2, <2>3 DEF Typed
<1>3. MemoGood(memo)'
  BY <1>1, MemoStays DEF IInv
<1>4. AnswersOK'
  BY <1>1 DEF AnswersOK, AllGood
<1>5. Requested' /\ HeadOK' /\ WalkOK' /\ BelowOK' /\ Counted' /\ NoNeedlessFailure'
  BY <1>1 DEF Requested, HeadOK, WalkOK, BelowOK, Counted, NoNeedlessFailure
<1>6. Uncleaned'
  BY <1>1 DEF IInv, Uncleaned
<1> QED
  BY <1>2, <1>3, <1>4, <1>5, <1>6 DEF IInv

\* The head's commit.
LEMMA ReadHeadKeeps == ASSUME ConstantsAssumption, IInv, ReadHead PROVE IInv'
<1> PICK f : f = IF head \in there THEN Recorded(head, found) ELSE found
  OBVIOUS
<1> PICK n : n = IF head \in there THEN head - 1 ELSE head
  OBVIOUS
<1>0. /\ Typed /\ pc = "head" /\ found = [i \in Ids |-> Unknown] /\ AllGood(found, head)
      /\ sent = <<>> /\ below = 0 /\ Uncleaned
  BY DEF IInv, ReadHead, HeadOK, AnswersOK, Counted
<1>1. /\ log' = log /\ there' = there /\ cps' = cps /\ hint' = hint /\ cleaned' = cleaned
      /\ faults' = faults /\ memo' = memo /\ head' = head /\ bottom' = bottom /\ sent' = <<>>
      /\ below' = below /\ answered' = answered
      /\ found' = f /\ next' = n
      /\ pc' = IF AllFound(f) THEN "done" ELSE "list"
  BY <1>0 DEF ReadHead, world
<1>2. head \in 0 .. Last /\ Last \in Nat /\ NoVersion = -1
  BY <1>0, Bounds
<1>3. f \in Answers /\ AllGood(f, head) /\ Passed(f, n + 1 .. head)
  <2>1. CASE head \in there
    <3>1. Passed(found, head + 1 .. head)
      BY <1>2 DEF Passed, NoTxnOf
    <3>2. head \in 0 .. head /\ head \in Versions /\ found \in Answers /\ log \in Logs
      BY <1>0, <1>2 DEF Typed
    <3>3. f \in Answers /\ AllGood(f, head) /\ Passed(f, head .. head)
      BY <1>0, <2>1, <3>1, <3>2, Records
    <3> QED
      BY <1>2, <2>1, <3>3
  <2>2. CASE head \notin there
    BY <1>0, <1>2, <2>2 DEF Typed, Passed, NoTxnOf
  <2> QED
    BY <2>1, <2>2
<1>4. n \in NoVersion .. Last /\ n \in {head - 1, head} /\ (n = head => cleaned)
  BY <1>0, <1>2 DEF Uncleaned, Typed
<1>5. Typed'
  BY <1>0, <1>1, <1>3, <1>4 DEF Typed
<1>6. MemoGood(memo)'
  BY <1>1, MemoStays DEF IInv
<1>7. AnswersOK'
  <2>1. AllGood(found, head)'
    BY <1>1, <1>3, LogStays
  <2> QED
    BY <1>1, <2>1 DEF AnswersOK, AllFound
<1>8. HeadOK'
  BY <1>1, <1>3, <1>4 DEF HeadOK, Passed, NoTxnOf
<1>9. Requested' /\ WalkOK' /\ BelowOK' /\ Counted' /\ NoNeedlessFailure'
  BY <1>0, <1>1 DEF Requested, WalkOK, BelowOK, Counted, NoNeedlessFailure
<1>10. Uncleaned'
  BY <1>0, <1>1 DEF Uncleaned
<1> QED
  BY <1>5, <1>6, <1>7, <1>8, <1>9, <1>10 DEF IInv

\* The listing.
LEMMA ListKeeps == ASSUME ConstantsAssumption, IInv, List PROVE IInv'
<1> PICK b : b = NewestCheckpoint
  OBVIOUS
<1> PICK n : n = head - 1
  OBVIOUS
<1>0. /\ Typed /\ pc = "list" /\ AllGood(found, head) /\ next \in {head - 1, head}
      /\ (next = head => cleaned) /\ Passed(found, next + 1 .. head)
      /\ sent = <<>> /\ below = 0 /\ Uncleaned
  BY DEF IInv, List, HeadOK, AnswersOK, Counted
<1>1. /\ log' = log /\ there' = there /\ cps' = cps /\ hint' = hint /\ cleaned' = cleaned
      /\ faults' = faults /\ memo' = memo /\ head' = head /\ bottom' = b /\ sent' = <<>>
      /\ below' = 0 /\ answered' = answered /\ found' = found /\ next' = n
      /\ pc' = IF next = head /\ b # head THEN "failed" ELSE "walk"
  BY <1>0 DEF List, world, HeadStands
<1>2. head \in 0 .. Last /\ Last \in Nat /\ NoVersion = -1
  BY <1>0, Bounds
<1>3. b \in NoVersion .. head /\ (b # NoVersion => Complete(b))
  BY <1>0, CheckpointFound
<1>4. b \in NoVersion .. Last /\ n \in NoVersion .. Last /\ n < head
  BY <1>2, <1>3
<1>5. Typed'
  BY <1>0, <1>1, <1>4 DEF Typed
<1>6. MemoGood(memo)'
  BY <1>1, MemoStays DEF IInv
<1>7. AnswersOK'
  BY <1>0, <1>1, LogStays DEF AnswersOK
<1>8. WalkOK'
  <2>1. CASE next = head /\ b # head
    BY <1>1, <2>1 DEF WalkOK
  <2>2. CASE ~(next = head /\ b # head)
    <3>1. \A w \in (n + 1 .. head) \ {b} : w \in next + 1 .. head
      BY <1>0, <1>2, <2>2
    <3>2. Passed(found, (n + 1 .. head) \ {b})
      BY <1>0, <3>1 DEF Passed, NoTxnOf
    <3> QED
      BY <1>1, <1>2, <1>3, <1>4, <2>2, <3>2 DEF WalkOK, Passed, NoTxnOf
  <2> QED
    BY <2>1, <2>2
<1>9. Requested'
  <2>1. Len(sent') = 0
    BY <1>1
  <2>2. pc' = "walk" => Floor' <= head /\ Floor' \in Int
    <3>1. b \in Int /\ BelowReads \in Int
      BY <1>0, <1>2, <1>3, Bounds
    <3> QED
      BY <1>1, <1>2, <1>3, <3>1, FloorIsNext
  <2>3. Ahead' = head - 1
    BY <1>1, <1>2, <2>1 DEF Ahead
  <2>4. pc' \in {"failed", "walk"}
    BY <1>1
  <2> QED
    BY <1>2, <2>2, <2>3, <2>4 DEF Requested
<1>10. HeadOK' /\ BelowOK' /\ Counted'
  BY <1>0, <1>1 DEF HeadOK, BelowOK, Counted
<1>11. NoNeedlessFailure'
  BY <1>0, <1>1 DEF NoNeedlessFailure
<1>12. Uncleaned'
  <2>1. b # NoVersion => Complete(bottom)'
    BY <1>1, <1>3 DEF Complete
  <2> QED
    BY <1>0, <1>1, <2>1 DEF Uncleaned
<1> QED
  BY <1>5, <1>6, <1>7, <1>8, <1>9, <1>10, <1>11, <1>12 DEF IInv

-----------------------------------------------------------------------------
(* The walk.                                                               *)

\* What a queue of requests is after one is sent, and after one is consumed.
LEMMA Queue ==
    ASSUME NEW q \in Seq({"read", "gone"}), NEW e \in {"read", "gone"}
    PROVE  /\ Append(q, e) \in Seq({"read", "gone"}) /\ Len(Append(q, e)) = Len(q) + 1
           /\ \A k \in 1 .. Len(q) : Append(q, e)[k] = q[k]
           /\ Append(q, e)[Len(q) + 1] = e
           /\ q # <<>> =>
                /\ Len(q) > 0 /\ Head(q) = q[1] /\ Head(q) \in {"read", "gone"}
                /\ Tail(q) \in Seq({"read", "gone"}) /\ Len(Tail(q)) = Len(q) - 1
                /\ \A k \in 1 .. Len(q) - 1 : Tail(q)[k] = q[k + 1]
OBVIOUS

\* Another commit is asked for.
LEMMA SendKeeps == ASSUME ConstantsAssumption, IInv, Send PROVE IInv'
<1> PICK e : e = IF Ahead \in there THEN "read" ELSE "gone"
  OBVIOUS
<1> PICK l : l = Len(sent)
  OBVIOUS
<1>0. /\ Typed /\ pc \in {"walk", "below"} /\ sent \in Seq({"read", "gone"}) /\ e \in {"read", "gone"}
      /\ Len(sent) < InFlight /\ Ahead >= Floor /\ Uncleaned
  BY DEF IInv, Send, Typed
<1>1. /\ log' = log /\ there' = there /\ cps' = cps /\ hint' = hint /\ cleaned' = cleaned
      /\ faults' = faults /\ memo' = memo /\ head' = head /\ bottom' = bottom
      /\ answered' = answered /\ found' = found /\ next' = next /\ pc' = pc
      /\ sent' = Append(sent, e)
      /\ below' = IF pc = "below" THEN below + 1 ELSE below
  BY DEF Send, world
<1>2. /\ head \in 0 .. Last /\ Last \in Nat /\ NoVersion = -1 /\ l \in Nat /\ InFlight \in Nat
      /\ bottom \in -1 .. Last /\ next \in -1 .. Last /\ BelowReads \in Nat /\ Versions = 0 .. Last
      /\ below \in 0 .. BelowReads
  BY <1>0, Bounds DEF Typed
<1>3. sent' \in Seq({"read", "gone"}) /\ Len(sent') = l + 1
  BY <1>0, <1>1, Queue
<1>4. Ahead = next - l /\ Ahead' = Ahead - 1
  BY <1>1, <1>2, <1>3 DEF Ahead
<1>5. Floor' = Floor /\ Floor \in Nat
  <2>1. bottom \in Int /\ BelowReads \in Int
    BY <1>2
  <2> QED
    BY <1>1, <1>2, <2>1, FloorIs DEF Floor
<1>6. below' \in 0 .. BelowReads
  <2>1. CASE pc = "below"
    <3>1. below = bottom - 1 - Ahead /\ bottom \in 0 .. head
      BY <2>1 DEF IInv, BelowOK
    <3>2. Floor >= bottom - BelowReads
      <4>1. bottom \in Int /\ BelowReads \in Int
        BY <1>2
      <4> QED
        BY <1>2, <2>1, <3>1, <4>1, FloorIs
    <3>3. Ahead >= bottom - BelowReads
      BY <1>0, <1>2, <1>4, <1>5, <3>2
    <3> QED
      BY <1>1, <1>2, <1>4, <2>1, <3>1, <3>3
  <2>2. CASE pc # "below"
    BY <1>1, <1>2, <2>2
  <2> QED
    BY <2>1, <2>2
<1>7. Typed'
  <2>1. Len(sent') <= InFlight
    BY <1>0, <1>2, <1>3
  <2> QED
    BY <1>0, <1>1, <1>3, <1>6, <2>1 DEF Typed
<1>8. MemoGood(memo)'
  BY <1>1, MemoStays DEF IInv
<1>9. AnswersOK'
  BY <1>1, LogStays DEF IInv, AnswersOK, AllFound
<1>10. Requested'
  BY <1>0, <1>2, <1>4, <1>5 DEF Requested
<1>11. HeadOK' /\ WalkOK' /\ NoNeedlessFailure'
  BY <1>0, <1>1 DEF IInv, HeadOK, WalkOK, NoNeedlessFailure, Passed, NoTxnOf
<1>12. BelowOK'
  <2>1. CASE pc = "below"
    <3>1. below' = bottom - 1 - Ahead'
      BY <1>1, <1>2, <1>4, <2>1 DEF IInv, BelowOK
    <3> QED
      BY <1>1, <2>1, <3>1 DEF IInv, BelowOK, Sought, NoTxnOf
  <2>2. CASE pc # "below"
    BY <1>1, <2>2 DEF BelowOK
  <2> QED
    BY <2>1, <2>2
<1>13. Uncleaned'
  <2>1. CASE ~cleaned
    <3>1. there = Versions /\ \A k \in 1 .. l : sent[k] = "read"
      BY <1>0, <2>1 DEF Uncleaned
    <3>2. Ahead \in Versions
      BY <1>0, <1>2, <1>4, <1>5
    <3>3. sent'[l + 1] = "read" /\ \A k \in 1 .. l : sent'[k] = sent[k]
      BY <1>0, <1>1, <3>1, <3>2, Queue
    <3>4. \A k \in 1 .. Len(sent') : sent'[k] = "read"
      BY <1>2, <1>3, <3>1, <3>3
    <3>5. Complete(bottom)' <=> Complete(bottom)
      BY <1>1 DEF Complete
    <3> QED
      BY <1>0, <1>1, <2>1, <3>1, <3>4, <3>5 DEF Uncleaned
  <2>2. CASE cleaned
    BY <1>1, <2>2 DEF Uncleaned
  <2> QED
    BY <2>1, <2>2
<1>14. Counted'
  BY <1>1 DEF IInv, Counted
<1> QED
  BY <1>7, <1>8, <1>9, <1>10, <1>11, <1>12, <1>13, <1>14 DEF IInv

\* One commit of the walk is consumed.
LEMMA WalkOnKeeps == ASSUME ConstantsAssumption, IInv, WalkOn PROVE IInv'
<1> PICK l : l = Len(sent)
  OBVIOUS
<1> PICK n : n = next
  OBVIOUS
<1> PICK f : f = found'
  OBVIOUS
<1>0. /\ Typed /\ pc = "walk" /\ sent \in Seq({"read", "gone"}) /\ sent # <<>>
      /\ Uncleaned /\ AllGood(found, head) /\ bottom <= head /\ n < head
      /\ Passed(found, (n + 1 .. head) \ {bottom}) /\ below = 0 /\ Ahead >= Floor - 1
  BY DEF IInv, WalkOn, Typed, AnswersOK, WalkOK, Counted, Requested
<1>1. /\ log' = log /\ there' = there /\ cps' = cps /\ hint' = hint /\ cleaned' = cleaned
      /\ faults' = faults /\ memo' = memo /\ head' = head /\ bottom' = bottom
      /\ answered' = answered /\ below' = below /\ next' = n - 1 /\ sent' = Tail(sent)
  BY DEF WalkOn, world
<1>2. /\ head \in 0 .. Last /\ Last \in Nat /\ NoVersion = -1 /\ l \in Nat /\ InFlight \in Nat
      /\ bottom \in -1 .. Last /\ n \in -1 .. Last /\ BelowReads \in Nat /\ Versions = 0 .. Last
  BY <1>0, Bounds
<1>3. /\ sent' \in Seq({"read", "gone"}) /\ Len(sent') = l - 1 /\ l > 0 /\ Head(sent) = sent[1]
      /\ \A k \in 1 .. l - 1 : sent'[k] = sent[k + 1]
  BY <1>0, <1>1, Queue
<1>4. Ahead = n - l /\ Ahead' = Ahead
  BY <1>1, <1>2, <1>3 DEF Ahead
<1>5. Floor = (IF 0 >= bottom THEN 0 ELSE bottom) /\ Floor \in Nat
  <2>1. bottom \in Int /\ BelowReads \in Int
    BY <1>2
  <2> QED
    BY <1>0, <1>2, <2>1, FloorIs
<1>6. n \in 0 .. head /\ n >= bottom /\ n \in Versions
  BY <1>0, <1>2, <1>3, <1>4, <1>5
<1>7. Passed(found, n + 1 .. head)
  BY <1>0, <1>2, <1>6 DEF Passed, NoTxnOf
<1>8. /\ f \in Answers /\ AllGood(f, head) /\ (pc' = "walk" => Passed(f, (n .. head) \ {bottom}))
      /\ pc' \in {"walk", "done", "failed"} /\ (pc' = "done" => AllFound(f))
      /\ (pc' = "failed" => Head(sent) = "gone")
  <2>1. CASE Head(sent) = "read"
    <3>1. f = Recorded(n, found) /\ pc' = IF AllFound(f) THEN "done" ELSE "walk"
      BY <1>0, <2>1 DEF WalkOn
    <3>2. head \in Versions /\ log \in Logs /\ found \in Answers
      BY <1>0 DEF Typed
    <3>3. f \in Answers /\ AllGood(f, head) /\ Passed(f, n .. head)
      BY <1>0, <1>6, <1>7, <3>1, <3>2, Records
    <3> QED
      BY <2>1, <3>1, <3>3 DEF Passed, NoTxnOf
  <2>2. CASE Head(sent) = "gone" /\ n = bottom
    <3>1. f = found /\ pc' = "walk"
      BY <1>0, <2>2 DEF WalkOn
    <3>2. \A w \in (n .. head) \ {bottom} : w \in n + 1 .. head
      BY <1>2, <2>2
    <3> QED
      BY <1>0, <1>7, <2>2, <3>1, <3>2 DEF Typed, Passed, NoTxnOf
  <2>3. CASE Head(sent) = "gone" /\ n # bottom
    <3>1. f = found /\ pc' = "failed"
      BY <1>0, <2>3 DEF WalkOn
    <3> QED
      BY <1>0, <2>3, <3>1 DEF Typed
  <2> QED
    BY <2>1, <2>2, <2>3 DEF WalkOn
<1>9. Typed'
  <2>1. n - 1 \in NoVersion .. Last /\ Len(sent') <= InFlight
    BY <1>0, <1>2, <1>3, <1>6 DEF Typed
  <2> QED
    BY <1>0, <1>1, <1>3, <1>8, <2>1 DEF Typed
<1>10. MemoGood(memo)'
  BY <1>1, MemoStays DEF IInv
<1>11. AnswersOK'
  <2>1. AllGood(found, head)'
    BY <1>1, <1>8, LogStays
  <2> QED
    BY <1>8, <2>1 DEF AnswersOK, AllFound
<1>12. Requested'
  <2>1. pc' = "walk" => Floor' = Floor
    BY <1>0, <1>1 DEF Floor
  <2> QED
    BY <1>0, <1>4, <1>8, <2>1 DEF Requested
<1>13. HeadOK' /\ BelowOK' /\ Counted'
  BY <1>0, <1>1, <1>8 DEF HeadOK, BelowOK, Counted
<1>14. WalkOK'
  <2>0. n - 1 + 1 = n /\ n - 1 < head
    BY <1>0, <1>2
  <2>1. pc' = "walk" => Passed(f, (n - 1 + 1 .. head) \ {bottom}) /\ n - 1 < head
    BY <1>8, <2>0
  <2> QED
    BY <1>0, <1>1, <1>8, <2>1 DEF WalkOK, Passed, NoTxnOf
<1>15. ~cleaned => there = Versions /\ \A k \in 1 .. l : sent[k] = "read"
  BY <1>0 DEF Uncleaned
<1>16. Uncleaned'
  <2>1. ~cleaned => \A k \in 1 .. Len(sent') : sent'[k] = "read"
    BY <1>2, <1>3, <1>15
  <2>2. Complete(bottom)' <=> Complete(bottom)
    BY <1>1 DEF Complete
  <2> QED
    BY <1>0, <1>1, <1>8, <2>1, <2>2 DEF Uncleaned
<1>17. NoNeedlessFailure'
  <2>1. pc' = "failed" => cleaned
    BY <1>2, <1>3, <1>8, <1>15
  <2> QED
    BY <1>1, <2>1 DEF NoNeedlessFailure
<1> QED
  BY <1>9, <1>10, <1>11, <1>12, <1>13, <1>14, <1>16, <1>17 DEF IInv

\* The walk is over: at version 0 what is missing is absent.
LEMMA WalkEndsKeeps == ASSUME ConstantsAssumption, IInv, WalkEnds PROVE IInv'
<1> PICK f : f = found'
  OBVIOUS
<1>0. /\ Typed /\ pc = "walk" /\ sent = <<>> /\ next < Floor
      /\ Uncleaned /\ AllGood(found, head) /\ bottom <= head
      /\ Passed(found, (next + 1 .. head) \ {bottom}) /\ below = 0 /\ Ahead >= Floor - 1
  BY DEF IInv, WalkEnds, AnswersOK, WalkOK, Counted, Requested
<1>1. /\ log' = log /\ there' = there /\ cps' = cps /\ hint' = hint /\ cleaned' = cleaned
      /\ faults' = faults /\ memo' = memo /\ head' = head /\ bottom' = bottom
      /\ answered' = answered /\ below' = below /\ next' = next /\ sent' = sent
  BY DEF WalkEnds, world
<1>2. /\ head \in 0 .. Last /\ Last \in Nat /\ NoVersion = -1 /\ BelowReads \in Nat
      /\ bottom \in -1 .. Last /\ next \in -1 .. Last /\ Versions = 0 .. Last
  BY <1>0, Bounds
<1>3. Floor = (IF 0 >= bottom THEN 0 ELSE bottom)
  <2>1. bottom \in Int /\ BelowReads \in Int
    BY <1>2
  <2> QED
    BY <1>0, <1>2, <2>1, FloorIs
<1>4. Passed(found, bottom + 1 .. head)
  <2>1. \A w \in bottom + 1 .. head : w \in (next + 1 .. head) \ {bottom}
    BY <1>0, <1>2, <1>3
  <2> QED
    BY <1>0, <2>1 DEF Passed, NoTxnOf
<1>5. CASE bottom = NoVersion
  <2>1. pc' = "done" /\ f = [i \in Ids |-> IF found[i] = Unknown THEN NoTxn ELSE found[i]]
    BY <1>5 DEF WalkEnds
  <2>2. NoTxn \in AnswerType /\ NoTxn # Unknown /\ NoTxn.version = 0 /\ NoTxn.mark = NoVersion
    BY <1>2 DEF NoTxn, AnswerType, Unknown, NoVersion
  <2>3. f \in Answers
    BY <1>0, <2>1, <2>2 DEF Typed, Answers
  <2>4. AllFound(f)
    BY <2>1, <2>2 DEF AllFound
  <2>5. ASSUME NEW i \in Ids PROVE f[i].version = Truth(i, head) /\ MarkHolds(i, f[i], head)
    <3>1. CASE found[i] = Unknown
      <4>1. NoTxnOf(i, bottom + 1 .. head)
        BY <1>4, <3>1 DEF Passed
      <4>2. NoTxnOf(i, 0 .. head) /\ head \in Nat
        BY <1>2, <1>5, <4>1
      <4>3. Truth(i, head) = 0
        BY <4>2, TruthNone
      <4> QED
        BY <2>1, <2>2, <3>1, <4>3 DEF MarkHolds
    <3>2. CASE found[i] # Unknown
      BY <1>0, <2>1, <3>2 DEF AllGood
    <3> QED
      BY <3>1, <3>2
  <2>6. Typed'
    BY <1>0, <1>1, <2>1, <2>3 DEF Typed
  <2>7. MemoGood(memo)'
    BY <1>1, MemoStays DEF IInv
  <2>8. AnswersOK'
    <3>1. AllGood(f, head)
      BY <2>5 DEF AllGood
    <3>2. AllGood(found, head)'
      BY <1>1, <3>1, LogStays
    <3> QED
      BY <2>4, <3>2 DEF AnswersOK, AllFound
  <2>9. Requested' /\ HeadOK' /\ WalkOK' /\ BelowOK' /\ Counted' /\ NoNeedlessFailure'
    BY <2>1 DEF Requested, HeadOK, WalkOK, BelowOK, Counted, NoNeedlessFailure
  <2>10. Uncleaned'
    BY <1>0, <1>1, <2>1 DEF Uncleaned
  <2> QED
    BY <2>6, <2>7, <2>8, <2>9, <2>10 DEF IInv
<1>6. CASE bottom # NoVersion
  <2>1. pc' = "checkpoint" /\ f = found
    BY <1>6 DEF WalkEnds
  <2>2. Typed'
    BY <1>0, <1>1, <2>1 DEF Typed
  <2>3. MemoGood(memo)'
    BY <1>1, MemoStays DEF IInv
  <2>4. AnswersOK'
    BY <1>0, <1>1, <2>1, LogStays DEF AnswersOK
  <2>5. Requested' /\ HeadOK' /\ BelowOK' /\ Counted' /\ NoNeedlessFailure'
    BY <1>0, <1>1, <2>1 DEF Requested, HeadOK, BelowOK, Counted, NoNeedlessFailure
  <2>6. WalkOK'
    BY <1>0, <1>1, <1>4, <1>6, <2>1 DEF WalkOK, Passed, NoTxnOf
  <2>7. Complete(bottom)' <=> Complete(bottom)
    BY <1>1 DEF Complete
  <2>8. Uncleaned'
    BY <1>0, <1>1, <2>1, <2>7 DEF Uncleaned
  <2> QED
    BY <2>2, <2>3, <2>4, <2>5, <2>6, <2>8 DEF IInv
<1> QED
  BY <1>5, <1>6

\* A store fault fails the read.
LEMMA OutageKeeps == ASSUME ConstantsAssumption, IInv, Outage PROVE IInv'
<1>0. Typed /\ Uncleaned
  BY DEF IInv
<1>1. /\ log' = log /\ there' = there /\ cps' = cps /\ hint' = hint /\ cleaned' = cleaned
      /\ faults' = faults + 1 /\ memo' = memo /\ head' = head /\ bottom' = bottom
      /\ answered' = answered /\ below' = below /\ next' = next /\ sent' = sent
      /\ found' = found /\ pc' = "failed"
  BY DEF Outage, world
<1>2. Typed' /\ faults' > 0
  BY <1>0, <1>1 DEF Typed
<1>3. MemoGood(memo)'
  BY <1>1, MemoStays DEF IInv
<1>4. AnswersOK' /\ Requested' /\ HeadOK' /\ WalkOK' /\ BelowOK' /\ Counted' /\ NoNeedlessFailure'
  BY <1>1, <1>2 DEF AnswersOK, Requested, HeadOK, WalkOK, BelowOK, Counted, NoNeedlessFailure
<1>5. Uncleaned'
  BY <1>0, <1>1 DEF Uncleaned
<1> QED
  BY <1>2, <1>3, <1>4, <1>5 DEF IInv

-----------------------------------------------------------------------------
(* The checkpoint and below it.                                            *)

\* An answer that is the newest txn at the checkpoint, with a mark of its own.
LEMMA AnswerKeeps ==
    ASSUME ConstantsAssumption, IInv, pc = "checkpoint",
           NEW say, \A i \in Rest : say[i] = Truth(i, bottom), Answer(say),
           log' = log, there' = there, cps' = cps, hint' = hint, cleaned' = cleaned,
           faults' \in Nat, head' = head, bottom' = bottom, below' = below
    PROVE  IInv'
<1> PICK told : told = [i \in Ids |->
                          IF i \in Rest THEN [version |-> say[i], mark |-> NoVersion] ELSE found[i]]
  OBVIOUS
<1> PICK m : m = Renewed
  OBVIOUS
<1> PICK A : A = Answered(told)
  OBVIOUS
<1> PICK kept : kept = {i \in A : m.found[i].version = told[i].version}
  OBVIOUS
<1> PICK f : f = [i \in Ids |-> IF i \in kept THEN m.found[i] ELSE told[i]]
  OBVIOUS
<1>0. /\ Typed /\ Uncleaned /\ AllGood(found, head) /\ bottom # NoVersion /\ bottom <= head
      /\ Passed(found, bottom + 1 .. head) /\ below = 0 /\ MemoGood(memo)
  BY DEF IInv, AnswersOK, WalkOK, Counted
<1>1. /\ memo' = (IF A = {} THEN memo ELSE m)
      /\ found' = f
      /\ answered' = A \ kept
      /\ pc' = IF A \ kept = {} THEN "done" ELSE "below"
      /\ next' = bottom - 1 /\ sent' = <<>>
  BY DEF Answer
<1>2. /\ head \in 0 .. Last /\ Last \in Nat /\ NoVersion = -1 /\ BelowReads \in Nat
      /\ bottom \in 0 .. head /\ bottom \in Versions /\ Versions = 0 .. Last /\ Partitions \subseteq Ids
      /\ head \in Nat /\ log \in Logs /\ bottom \in Nat
  BY <1>0, Bounds DEF Typed
<1>3. Rest = {i \in Ids : found[i] = Unknown} /\ A = {i \in Rest \cap Partitions : told[i].version # 0}
  BY DEF Rest, Answered
<1>4. m \in Memo /\ m.checkpoint = bottom /\ MemoGood(m)
  <2>1. Unknown \in AnswerType /\ Unknown.mark = NoVersion
    BY <1>2 DEF Unknown, AnswerType, NoVersion
  <2>2. CASE memo.checkpoint = bottom
    BY <1>0, <2>2 DEF Renewed, Typed
  <2>3. CASE memo.checkpoint # bottom
    <3>1. m = [checkpoint |-> bottom, found |-> [i \in Ids |-> Unknown]]
      BY <2>3 DEF Renewed
    <3>2. bottom \in NoVersion .. Last
      BY <1>2
    <3>3. m \in Memo
      BY <2>1, <3>1, <3>2 DEF Memo, Answers
    <3>4. MemoGood(m)
      BY <2>1, <3>1 DEF MemoGood, MarkHolds
    <3> QED
      BY <3>1, <3>3, <3>4
  <2> QED
    BY <2>2, <2>3
<1>5. ASSUME NEW i \in Rest
      PROVE  /\ i \in Ids /\ found[i] = Unknown
             /\ told[i] = [version |-> Truth(i, bottom), mark |-> NoVersion]
             /\ Truth(i, bottom) \in {0} \cup Values /\ Truth(i, bottom) # -1
             /\ Truth(i, bottom) = Truth(i, head)
             /\ NoTxnOf(i, bottom + 1 .. head)
  <2>1. NoTxnOf(i, bottom + 1 .. head)
    BY <1>0, <1>3 DEF Passed
  <2>2. Truth(i, bottom) = Truth(i, head)
    BY <1>2, <2>1, TruthSame
  <2>3. Truth(i, bottom) \in {0} \cup Values /\ Truth(i, bottom) # -1
    BY <1>2, <1>3, TruthTyped
  <2> QED
    BY <1>3, <2>1, <2>2, <2>3
<1>6. ASSUME NEW i \in Ids
      PROVE  /\ f[i] \in AnswerType /\ f[i] # Unknown
             /\ f[i].version = Truth(i, head) /\ MarkHolds(i, f[i], head)
  <2>1. CASE i \notin Rest
    <3>1. f[i] = found[i] /\ found[i] # Unknown
      BY <1>3, <2>1
    <3> QED
      BY <1>0, <3>1 DEF AllGood, Typed, Answers
  <2>2. CASE i \in Rest /\ i \notin kept
    <3>1. f[i] = [version |-> Truth(i, bottom), mark |-> NoVersion]
      BY <1>5, <2>2
    <3>2. f[i].version = Truth(i, bottom) /\ f[i].mark = NoVersion
      BY <3>1
    <3>3. NoVersion \in NoVersion .. Last
      BY <1>2
    <3>4. f[i] \in AnswerType
      BY <1>5, <2>2, <3>1, <3>3 DEF AnswerType
    <3>5. f[i] # Unknown
      BY <1>5, <2>2, <3>2 DEF Unknown
    <3> QED
      BY <1>5, <2>2, <3>2, <3>4, <3>5 DEF MarkHolds
  <2>3. CASE i \in Rest /\ i \in kept
    <3>1. f[i] = m.found[i] /\ f[i].version = Truth(i, bottom)
      BY <1>5, <2>3
    <3>2. f[i] \in AnswerType /\ MarkHolds(i, f[i], bottom)
      BY <1>3, <1>4, <2>3, <3>1 DEF Memo, Answers, MemoGood
    <3>3. f[i] # Unknown
      <4>1. f[i].version # -1
        BY <1>5, <2>3, <3>1
      <4> QED
        BY <4>1 DEF Unknown
    <3>4. MarkHolds(i, f[i], head)
      <4>1. CASE f[i].mark = NoVersion
        BY <4>1 DEF MarkHolds
      <4>2. CASE f[i].mark # NoVersion
        <5>1. f[i].mark \in 0 .. Last
          BY <1>2, <3>2, <4>2 DEF AnswerType
        <5>2. \A w \in f[i].mark .. head : w \in f[i].mark .. bottom \/ w \in bottom + 1 .. head
          BY <1>2, <5>1
        <5>3. f[i].mark <= bottom
          BY <3>2, <4>2 DEF MarkHolds
        <5>4. f[i].mark <= head
          BY <1>2, <5>1, <5>3
        <5> QED
          BY <1>5, <2>3, <3>2, <4>2, <5>2, <5>4 DEF MarkHolds, NoTxnOf
      <4> QED
        BY <4>1, <4>2
    <3> QED
      BY <1>5, <2>3, <3>1, <3>2, <3>3, <3>4
  <2> QED
    BY <2>1, <2>2, <2>3
<1>7. f \in Answers /\ AllFound(f) /\ AllGood(f, head)
  BY <1>6 DEF Answers, AllFound, AllGood
<1>8. memo' \in Memo /\ MemoGood(memo)'
  <2>1. memo' \in Memo
    BY <1>0, <1>1, <1>4 DEF Typed
  <2>2. MemoGood(IF A = {} THEN memo ELSE m)
    BY <1>0, <1>4
  <2> QED
    BY <1>1, <2>1, <2>2, MemoStays
<1>9. Typed'
  <2>1. sent' \in Seq({"read", "gone"}) /\ Len(sent') = 0 /\ bottom - 1 \in NoVersion .. Last
    BY <1>1, <1>2
  <2>2. answered' \subseteq Partitions
    BY <1>1, <1>3
  <2>3. 0 <= InFlight
    BY <1>0, Bounds
  <2>4. pc' \in {"done", "below"}
    BY <1>1
  <2> QED
    BY <1>0, <1>1, <1>7, <1>8, <2>1, <2>2, <2>3, <2>4 DEF Typed
<1>10. AnswersOK'
  <2>1. AllGood(found, head)'
    BY <1>1, <1>7, LogStays
  <2> QED
    BY <1>1, <1>7, <2>1 DEF AnswersOK, AllFound
<1>11. Len(sent') = 0 /\ Ahead' = bottom - 1
  BY <1>1, <1>2 DEF Ahead
<1>12. Requested'
  <2>1. bottom' \in Int /\ BelowReads \in Int
    BY <1>2
  <2>2. pc' = "below" => Floor' \in Nat /\ Floor' <= bottom
    BY <1>2, <2>1, FloorIsNext
  <2> QED
    BY <1>1, <1>2, <1>11, <2>2 DEF Requested
<1>13. BelowOK'
  <2>1. ASSUME NEW i \in A \ kept PROVE Sought(i, f, bottom - 1, bottom, head)
    <3>1. i \in Rest /\ f[i] = told[i] /\ told[i].version # 0
      BY <1>3, <2>1
    <3>2. f[i] = [version |-> Truth(i, bottom), mark |-> NoVersion]
      BY <1>5, <3>1
    <3>3. f[i].version = Truth(i, bottom) /\ f[i].mark = NoVersion /\ f[i].version \notin {-1, 0}
      BY <1>5, <3>1, <3>2
    <3>4. NoTxnOf(i, bottom - 1 + 1 .. bottom - 1)
      BY <1>2 DEF NoTxnOf
    <3>5. log[bottom][i].version \in {0, f[i].version}
      <4>1. CASE log[bottom][i].version # 0
        <5>1. NoTxnOf(i, bottom + 1 .. bottom) /\ bottom \in 0 .. bottom
          BY <1>2 DEF NoTxnOf
        <5> QED
          BY ZenonT(30), <1>2, <3>3, <4>1, <5>1, TruthIs
      <4> QED
        BY <4>1
    <3>6. \A w \in bottom .. head : w = bottom \/ w \in bottom + 1 .. head
      BY <1>2
    <3>7. \A w \in bottom .. head : log[w][i].version \in {0, f[i].version}
      BY <1>5, <3>1, <3>5, <3>6 DEF NoTxnOf
    <3> QED
      BY <3>3, <3>4, <3>7 DEF Sought
  <2>2. pc' = "below" => memo' = m
    BY <1>1
  <2> PICK n : n = bottom - 1
    OBVIOUS
  <2>3. ASSUME NEW i \in A \ kept PROVE Sought(i, found, next, bottom, head)'
    <3>1. Sought(i, f, n, bottom, head)
      BY <2>1
    <3>2. next' = n /\ found' = f
      BY <1>1
    <3> QED
      BY <3>1, <3>2, SoughtStays
  <2>4. below' = bottom' - 1 - Ahead' /\ next' < bottom'
    BY <1>0, <1>1, <1>2, <1>11
  <2>5. pc' = "below" => memo'.checkpoint = bottom' /\ bottom' \in 0 .. head'
    BY <1>2, <1>4, <2>2
  <2> QED
    BY <1>1, <2>3, <2>4, <2>5 DEF BelowOK
<1>14. HeadOK' /\ WalkOK' /\ Counted' /\ NoNeedlessFailure'
  BY <1>1 DEF HeadOK, WalkOK, Counted, NoNeedlessFailure
<1>15. Uncleaned'
  BY <1>0, <1>1, <1>11 DEF Uncleaned
<1> QED
  BY <1>8, <1>9, <1>10, <1>12, <1>13, <1>14, <1>15 DEF IInv

\* The checkpoint's files answer: a whole checkpoint has the txn of every appId.
LEMMA ReadCheckpointKeeps == ASSUME ConstantsAssumption, IInv, ReadCheckpoint PROVE IInv'
<1> PICK say : say = [i \in Ids |-> CheckpointSays(i)]
  OBVIOUS
<1>1. /\ pc = "checkpoint" /\ Complete(bottom) /\ Answer(say)
      /\ log' = log /\ there' = there /\ cps' = cps /\ hint' = hint /\ cleaned' = cleaned
      /\ faults' = faults /\ head' = head /\ bottom' = bottom /\ below' = below
  BY DEF ReadCheckpoint, world
<1>2. ASSUME NEW i \in Rest PROVE say[i] = Truth(i, bottom)
  <2>1. \E f \in cps[bottom] : InFile(i, f)
    BY <1>1 DEF Complete, InFile
  <2> QED
    BY <2>1 DEF CheckpointSays, Rest
<1>3. faults' \in Nat
  BY <1>1 DEF IInv, Typed
<1> QED
  BY <1>1, <1>2, <1>3, AnswerKeeps

\* The kernel answers for the handle's version, or fails.
LEMMA AskKernelKeeps == ASSUME ConstantsAssumption, IInv, AskKernel PROVE IInv'
<1> PICK say : say = [i \in Ids |-> Truth(i, head)]
  OBVIOUS
<1>1. /\ pc = "checkpoint" /\ Typed /\ (Complete(bottom) => faults' = faults + 1)
      /\ log' = log /\ there' = there /\ cps' = cps /\ hint' = hint /\ cleaned' = cleaned
      /\ faults' \in {faults, faults + 1} /\ head' = head /\ below' = below
      /\ Uncleaned /\ bottom # NoVersion /\ MemoGood(memo) /\ bottom <= head
      /\ Passed(found, bottom + 1 .. head)
  BY DEF AskKernel, world, IInv, WalkOK
<1>2. faults' \in Nat /\ faults \in Nat /\ head \in Nat /\ bottom \in 0 .. head
  BY <1>1, Bounds DEF Typed
<1>3. CASE Answer(say) /\ bottom' = bottom
  <2>1. ASSUME NEW i \in Rest PROVE say[i] = Truth(i, bottom)
    <3>1. NoTxnOf(i, bottom + 1 .. head) /\ i \in Ids
      BY <1>1 DEF Passed, Rest
    <3> QED
      BY <1>2, <3>1, TruthSame
  <2> QED
    BY <1>1, <1>2, <1>3, <2>1, AnswerKeeps
<1>4. CASE pc' = "failed" /\ UNCHANGED <<bottom, sent, next, found, memo, answered>>
  <2>1. /\ bottom' = bottom /\ sent' = sent /\ next' = next /\ found' = found /\ memo' = memo
        /\ answered' = answered
    BY <1>4
  <2>2. Typed'
    BY <1>1, <1>2, <1>4, <2>1 DEF Typed
  <2>3. MemoGood(memo)'
    BY <1>1, <2>1, MemoStays
  <2>4. AnswersOK' /\ Requested' /\ HeadOK' /\ WalkOK' /\ BelowOK' /\ Counted'
    BY <1>4 DEF AnswersOK, Requested, HeadOK, WalkOK, BelowOK, Counted
  <2>5. Uncleaned'
    BY <1>1, <1>4, <2>1 DEF Uncleaned
  <2>6. NoNeedlessFailure'
    BY <1>1, <1>2 DEF Uncleaned, NoNeedlessFailure
  <2> QED
    BY <2>2, <2>3, <2>4, <2>5, <2>6 DEF IInv
<1> QED
  BY <1>3, <1>4 DEF AskKernel

\* Some fields of the answers are replaced.
LEMMA Replaced ==
    ASSUME NEW f \in Answers, NEW S, NEW g \in [Ids -> AnswerType]
    PROVE  [i \in Ids |-> IF i \in S THEN g[i] ELSE f[i]] \in Answers
BY DEF Answers

\* One commit below the checkpoint is consumed.
LEMMA BelowOnKeeps == ASSUME ConstantsAssumption, IInv, BelowOn PROVE IInv'
<1> PICK l : l = Len(sent)
  OBVIOUS
<1> PICK n : n = next
  OBVIOUS
<1> PICK met : met = {i \in answered : log[n][i].version # 0}
  OBVIOUS
<1> PICK g : g = [i \in Ids |-> Met(i)]
  OBVIOUS
<1> PICK f : f = [i \in Ids |-> IF i \in met THEN g[i] ELSE found[i]]
  OBVIOUS
<1> PICK mf : mf = [i \in Ids |-> IF i \in met THEN g[i] ELSE memo.found[i]]
  OBVIOUS
<1>0. /\ Typed /\ pc = "below" /\ sent \in Seq({"read", "gone"}) /\ sent # <<>> /\ Head(sent) = "read"
      /\ Uncleaned /\ AllGood(found, head) /\ AllFound(found) /\ n < bottom
      /\ bottom \in 0 .. head /\ memo.checkpoint = bottom /\ below = bottom - 1 - Ahead
      /\ Ahead >= Floor - 1 /\ MemoGood(memo)
      /\ \A i \in answered : Sought(i, found, n, bottom, head)
  BY DEF IInv, BelowOn, Typed, AnswersOK, BelowOK, Requested
<1>1. /\ log' = log /\ there' = there /\ cps' = cps /\ hint' = hint /\ cleaned' = cleaned
      /\ faults' = faults /\ head' = head /\ bottom' = bottom /\ below' = below
      /\ next' = n - 1 /\ sent' = Tail(sent)
      /\ answered' = answered \ met
      /\ pc' = IF answered \ met = {} THEN "done" ELSE "below"
  BY DEF BelowOn, world
<1>2. found' = f /\ memo' = [memo EXCEPT !.found = mf]
  BY <1>0 DEF BelowOn, Typed, Memo
<1>3. /\ head \in 0 .. Last /\ Last \in Nat /\ NoVersion = -1 /\ l \in Nat /\ InFlight \in Nat
      /\ bottom \in 0 .. Last /\ n \in -1 .. Last /\ BelowReads \in Nat /\ Versions = 0 .. Last
      /\ Partitions \subseteq Ids /\ answered \subseteq Ids /\ log \in Logs
  BY <1>0, Bounds DEF Typed
<1>4. /\ sent' \in Seq({"read", "gone"}) /\ Len(sent') = l - 1 /\ l > 0
      /\ \A k \in 1 .. l - 1 : sent'[k] = sent[k + 1]
  BY <1>0, <1>1, Queue
<1>5. Ahead = n - l /\ Ahead' = Ahead
  BY <1>1, <1>3, <1>4 DEF Ahead
<1>6. Floor \in Nat
  <2>1. bottom \in Int /\ BelowReads \in Int
    BY <1>3
  <2> QED
    BY <1>0, <1>3, <2>1, FloorIs
<1>7. n \in 0 .. bottom - 1 /\ n \in Versions
  BY <1>0, <1>3, <1>4, <1>5, <1>6
<1>8. ASSUME NEW i \in met
      PROVE  /\ i \in Ids /\ g[i] \in AnswerType /\ g[i].version = found[i].version
             /\ g[i].version = Truth(i, head) /\ g[i] # Unknown
             /\ MarkHolds(i, g[i], head) /\ MarkHolds(i, g[i], bottom)
  <2>1. i \in Ids /\ i \in answered /\ log[n][i].version # 0 /\ found[i] \in AnswerType
    BY <1>0, <1>3 DEF Typed, Answers
  <2>2. /\ found[i].version \notin {-1, 0} /\ found[i].mark = NoVersion
        /\ NoTxnOf(i, n + 1 .. bottom - 1)
        /\ \A w \in bottom .. head : log[w][i].version \in {0, found[i].version}
    BY <1>0, <2>1 DEF Sought
  <2>3. PICK k : /\ k \in {n, NoVersion} /\ g[i] = [version |-> found[i].version, mark |-> k]
                 /\ k = n => log[n][i].marked /\ log[n][i].version = found[i].version
    <3>1. g[i] = Met(i)
      BY <2>1
    <3>2. CASE log[n][i].marked /\ log[n][i].version = found[i].version
      BY <3>1, <3>2 DEF Met
    <3>3. CASE ~(log[n][i].marked /\ log[n][i].version = found[i].version)
      <4>1. NoVersion # n
        BY <1>3, <1>7
      <4> QED
        BY <3>1, <3>3, <4>1 DEF Met
    <3> QED
      BY <3>2, <3>3
  <2>4. g[i].version = found[i].version /\ g[i].mark = k
    BY <2>3
  <2>5. found[i].version \in {-1, 0} \cup Values /\ k \in NoVersion .. Last
    BY <1>3, <1>7, <2>1, <2>3 DEF AnswerType
  <2>6. g[i] \in AnswerType
    BY <2>3, <2>5 DEF AnswerType
  <2>7. g[i] # Unknown
    BY <2>2, <2>4 DEF Unknown
  <2>8. found[i].version = Truth(i, head)
    BY <1>0, <2>1 DEF AllGood, AllFound
  <2>9. \A w \in n .. head : w = n \/ w \in n + 1 .. bottom - 1 \/ w \in bottom .. head
    BY <1>0, <1>3, <1>7
  <2>10. k = n => \A w \in n .. head : log[w][i].version \in {0, found[i].version}
    BY <2>2, <2>3, <2>9 DEF NoTxnOf
  <2>11. \A w \in n .. bottom : w \in n .. head
    BY <1>0, <1>3, <1>7
  <2>12. n <= head /\ n <= bottom
    BY <1>0, <1>3, <1>7
  <2>13. MarkHolds(i, g[i], head)
    BY <2>3, <2>4, <2>10, <2>12 DEF MarkHolds
  <2>14. MarkHolds(i, g[i], bottom)
    BY <2>3, <2>4, <2>10, <2>11, <2>12 DEF MarkHolds
  <2> QED
    BY <2>1, <2>4, <2>6, <2>7, <2>8, <2>13, <2>14
<1>9. f \in Answers /\ mf \in Answers
  <2>1. found \in Answers /\ memo.found \in Answers
    BY <1>0 DEF Typed, Memo
  <2> QED
    BY <1>8, <2>1 DEF Answers
<1>10. memo' \in Memo /\ memo'.checkpoint = bottom /\ memo'.found = mf
  BY <1>0, <1>2, <1>9 DEF Typed, Memo
<1>11. AllFound(f) /\ AllGood(f, head)
  <2>1. ASSUME NEW i \in Ids
        PROVE  f[i] # Unknown /\ f[i].version = Truth(i, head) /\ MarkHolds(i, f[i], head)
    <3>1. CASE i \in met
      BY <1>8, <3>1
    <3>2. CASE i \notin met
      BY <1>0, <3>2 DEF AllGood, AllFound
    <3> QED
      BY <3>1, <3>2
  <2> QED
    BY <2>1 DEF AllGood, AllFound
<1>12. MemoGood(memo)'
  <2> PICK m : m = memo'
    OBVIOUS
  <2>1. ASSUME NEW i \in Ids PROVE MarkHolds(i, m.found[i], m.checkpoint)
    <3>1. CASE i \in met
      BY ZenonT(30), <1>8, <1>10, <3>1
    <3>2. CASE i \notin met
      BY <1>0, <1>10, <3>2 DEF MemoGood
    <3> QED
      BY <3>1, <3>2
  <2>2. MemoGood(m)
    BY <2>1 DEF MemoGood
  <2> QED
    BY <1>1, <2>2, MemoStays
<1>13. Typed'
  <2>1. n - 1 \in NoVersion .. Last /\ Len(sent') <= InFlight
    BY <1>0, <1>3, <1>4, <1>7 DEF Typed
  <2>2. answered' \subseteq Partitions /\ pc' \in {"done", "below"}
    BY <1>0, <1>1 DEF Typed
  <2> QED
    BY <1>0, <1>1, <1>2, <1>4, <1>9, <1>10, <2>1, <2>2 DEF Typed
<1>14. AnswersOK'
  <2>1. AllGood(found, head)'
    BY <1>1, <1>2, <1>11, LogStays
  <2> QED
    BY <1>1, <1>2, <1>11, <2>1 DEF AnswersOK, AllFound
<1>15. Requested'
  <2>1. pc' # "walk" /\ Floor' = Floor
    BY <1>0, <1>1 DEF Floor
  <2> QED
    BY <1>0, <1>5, <2>1 DEF Requested
<1>16. BelowOK'
  <2> PICK n1 : n1 = n - 1
    OBVIOUS
  <2>1. ASSUME NEW i \in answered \ met PROVE Sought(i, found, next, bottom, head)'
    <3>1. i \in Ids /\ f[i] = found[i] /\ log[n][i].version = 0
      BY <1>3
    <3>2. \A w \in n1 + 1 .. bottom - 1 : w = n \/ w \in n + 1 .. bottom - 1
      BY <1>3, <1>7
    <3>3. Sought(i, f, n1, bottom, head)
      BY <1>0, <3>1, <3>2 DEF Sought, NoTxnOf
    <3>4. next' = n1
      BY <1>1
    <3> QED
      BY <1>1, <1>2, <3>3, <3>4, SoughtStays
  <2>2. next' < bottom' /\ bottom' \in 0 .. head' /\ below' = bottom' - 1 - Ahead'
    BY <1>0, <1>1, <1>3, <1>5
  <2> QED
    BY <1>1, <1>10, <2>1, <2>2 DEF BelowOK
<1>17. HeadOK' /\ WalkOK' /\ Counted' /\ NoNeedlessFailure'
  BY <1>1 DEF HeadOK, WalkOK, Counted, NoNeedlessFailure
<1>18. Uncleaned'
  <2>1. ~cleaned => there = Versions /\ \A k \in 1 .. l : sent[k] = "read"
    BY <1>0 DEF Uncleaned
  <2>2. ~cleaned => \A k \in 1 .. Len(sent') : sent'[k] = "read"
    BY <1>3, <1>4, <2>1
  <2> QED
    BY <1>0, <1>1, <2>1, <2>2 DEF Uncleaned
<1> QED
  BY <1>12, <1>13, <1>14, <1>15, <1>16, <1>17, <1>18 DEF IInv

\* The walk below ends: what it looked for stays without a mark.
LEMMA BelowEndsKeeps == ASSUME ConstantsAssumption, IInv, BelowEnds PROVE IInv'
<1> PICK g : g = [i \in Ids |-> [version |-> found[i].version, mark |-> NoVersion]]
  OBVIOUS
<1> PICK mf : mf = [i \in Ids |-> IF i \in answered THEN g[i] ELSE memo.found[i]]
  OBVIOUS
<1>0. Typed /\ pc = "below" /\ Uncleaned /\ AllGood(found, head) /\ AllFound(found) /\ MemoGood(memo)
  BY DEF IInv, BelowEnds, AnswersOK
<1>1. /\ log' = log /\ there' = there /\ cps' = cps /\ hint' = hint /\ cleaned' = cleaned
      /\ faults' \in {faults, faults + 1} /\ head' = head /\ bottom' = bottom /\ below' = below
      /\ next' = next /\ found' = found /\ answered' = answered /\ sent' = <<>> /\ pc' = "done"
  BY DEF BelowEnds, GiveUp, world
<1>2. memo' = [memo EXCEPT !.found = mf]
  BY <1>0 DEF BelowEnds, GiveUp, Typed, Memo
<1>3. NoVersion = -1 /\ NoVersion \in NoVersion .. Last /\ InFlight \in Nat
  BY <1>0, Bounds
<1>4. ASSUME NEW i \in Ids PROVE g[i] \in AnswerType /\ g[i].mark = NoVersion
  <2>1. found[i] \in AnswerType
    BY <1>0 DEF Typed, Answers
  <2> QED
    BY <1>3, <2>1 DEF AnswerType
<1>5. mf \in Answers
  <2>1. memo.found \in Answers
    BY <1>0 DEF Typed, Memo
  <2> QED
    BY <1>4, <2>1 DEF Answers
<1>6. memo' \in Memo /\ memo'.checkpoint = memo.checkpoint /\ memo'.found = mf
  BY <1>0, <1>2, <1>5 DEF Typed, Memo
<1>7. MemoGood(memo)'
  <2> PICK m : m = memo'
    OBVIOUS
  <2>1. ASSUME NEW i \in Ids PROVE MarkHolds(i, m.found[i], m.checkpoint)
    <3>1. CASE i \in answered
      BY <1>4, <1>6, <3>1 DEF MarkHolds
    <3>2. CASE i \notin answered
      BY <1>0, <1>6, <3>2 DEF MemoGood
    <3> QED
      BY <3>1, <3>2
  <2>2. MemoGood(m)
    BY <2>1 DEF MemoGood
  <2> QED
    BY <1>1, <2>2, MemoStays
<1>8. Typed'
  <2>1. sent' \in Seq({"read", "gone"}) /\ Len(sent') = 0 /\ 0 <= InFlight
    BY <1>1, <1>3
  <2>2. faults' \in Nat
    BY <1>0, <1>1 DEF Typed
  <2> QED
    BY <1>0, <1>1, <1>6, <2>1, <2>2 DEF Typed
<1>9. AnswersOK'
  BY <1>0, <1>1, LogStays DEF AnswersOK, AllFound
<1>10. Requested' /\ HeadOK' /\ WalkOK' /\ BelowOK' /\ Counted' /\ NoNeedlessFailure'
  BY <1>1 DEF Requested, HeadOK, WalkOK, BelowOK, Counted, NoNeedlessFailure
<1>11. Uncleaned'
  BY <1>0, <1>1 DEF Uncleaned
<1> QED
  BY <1>7, <1>8, <1>9, <1>10, <1>11 DEF IInv

-----------------------------------------------------------------------------
(* The theorems.                                                           *)

\* Nothing is read yet.
LEMMA Initially == ASSUME ConstantsAssumption, Init PROVE IInv
<1>0. /\ log \in Logs /\ there = Versions /\ cps = [v \in Versions |-> {}] /\ hint = NoVersion
      /\ faults = 0 /\ cleaned = FALSE /\ pc = "idle" /\ head \in Versions
      /\ bottom = NoVersion /\ sent = <<>> /\ next = NoVersion
      /\ found = [i \in Ids |-> Unknown]
      /\ memo = [checkpoint |-> NoVersion, found |-> [i \in Ids |-> Unknown]]
      /\ below = 0 /\ answered = {}
  BY DEF Init
<1>1. /\ Last \in Nat /\ NoVersion \in NoVersion .. Last /\ 0 \in 0 .. BelowReads /\ 0 <= InFlight
      /\ Unknown \in AnswerType /\ Unknown.mark = NoVersion
  BY DEF ConstantsAssumption, NoVersion, Unknown, AnswerType
<1>2. found \in Answers /\ memo \in Memo
  <2>1. [i \in Ids |-> Unknown] \in Answers
    BY <1>1 DEF Answers
  <2> QED
    BY <1>0, <1>1, <2>1 DEF Memo
<1>3. sent \in Seq({"read", "gone"}) /\ Len(sent) = 0
  BY <1>0
<1>4. Typed
  BY <1>0, <1>1, <1>2, <1>3 DEF Typed
<1>5. MemoGood(memo)
  BY <1>0, <1>1 DEF MemoGood, MarkHolds
<1>6. Requested /\ HeadOK /\ WalkOK /\ BelowOK /\ AnswersOK /\ Counted /\ NoNeedlessFailure
  BY <1>0 DEF Requested, HeadOK, WalkOK, BelowOK, AnswersOK, Counted, NoNeedlessFailure
<1>7. Uncleaned
  BY <1>0, <1>3 DEF Uncleaned
<1> QED
  BY <1>4, <1>5, <1>6, <1>7 DEF IInv

\* A step that changes nothing.
LEMMA StutterKeeps == ASSUME ConstantsAssumption, IInv, UNCHANGED vars PROVE IInv'
<1>1. /\ log' = log /\ there' = there /\ cps' = cps /\ hint' = hint /\ cleaned' = cleaned
      /\ faults' = faults /\ reader' = reader
  BY DEF vars, reader
<1>2. Typed
  BY DEF IInv
<1> QED
  BY <1>1, <1>2, WorldStep DEF Typed

\* The invariant holds in every reachable state.
THEOREM Invariance == ASSUME ConstantsAssumption PROVE Spec => []IInv
<1>1. Init => IInv
  BY Initially
<1>2. IInv /\ [Next]_vars => IInv'
  <2> SUFFICES ASSUME IInv, [Next]_vars PROVE IInv'
    OBVIOUS
  <2>1. ASSUME NEW v \in Versions, NEW f \in Files, WriteCheckpoint(v, f) PROVE IInv'
    BY <2>1, WriteCheckpointKeeps
  <2>2. ASSUME NEW v \in Versions,
               MoveHint(v) \/ CleanCommit(v) \/ CleanCheckpoint(v) \/ Start(v)
        PROVE  IInv'
    BY <2>2, MoveHintKeeps, CleanupKeeps, StartKeeps
  <2>3. CASE ReadHead \/ List \/ Send \/ WalkOn \/ WalkEnds
    BY <2>3, ReadHeadKeeps, ListKeeps, SendKeeps, WalkOnKeeps, WalkEndsKeeps
  <2>4. CASE ReadCheckpoint \/ AskKernel \/ BelowOn \/ BelowEnds \/ Outage
    BY <2>4, ReadCheckpointKeeps, AskKernelKeeps, BelowOnKeeps, BelowEndsKeeps, OutageKeeps
  <2>5. CASE UNCHANGED vars
    BY <2>5, StutterKeeps
  <2> QED
    BY <2>1, <2>2, <2>3, <2>4, <2>5 DEF Next
<1> QED
  BY <1>1, <1>2, PTL DEF Spec

\* Type correctness: requests under way and reads below a checkpoint stay within their
\* limits (IN_FLIGHT, BELOW_CHECKPOINT_READS).
THEOREM TypeIsOK == ASSUME ConstantsAssumption PROVE Spec => []TypeOK
<1>1. IInv => TypeOK
  <2> SUFFICES ASSUME IInv PROVE TypeOK
    OBVIOUS
  <2>1. Typed
    BY DEF IInv
  <2> PICK l : l = Len(sent)
    OBVIOUS
  <2>2. l \in Nat /\ l <= InFlight /\ DOMAIN sent = 1 .. l /\ InFlight \in Nat
    BY <2>1, Bounds DEF Typed
  <2>3. Cardinality(1 .. l) = l
    <3>1. 1 \in Int /\ l \in Int
      BY <2>2
    <3>2. Cardinality(1 .. l) = IF 1 > l THEN 0 ELSE l - 1 + 1
      BY <3>1, FS_Interval
    <3> QED
      BY <2>2, <3>2
  <2>4. Cardinality(DOMAIN sent) <= InFlight
    BY <2>2, <2>3
  <2>5. found \in [Ids -> [version : {-1, 0} \cup Values, mark : NoVersion .. Last]]
    BY <2>1 DEF Typed, Answers, AnswerType
  <2> QED
    BY <2>1, <2>4, <2>5 DEF TypeOK, Typed
<1> QED
  BY <1>1, Invariance, PTL

\* A read gives the newest txn of every appId at the handle's version, with the mark
\* recorded beside it and nothing newer, and fails only after a fault or log cleanup,
\* whatever checkpoints appear and whatever cleanup takes between its requests
\* (read_txns, fence.rs).
THEOREM ReadsAreTrue == ASSUME ConstantsAssumption PROVE Spec => []NewestFound
<1>1. IInv => NewestFound
  <2> SUFFICES ASSUME IInv PROVE NewestFound
    OBVIOUS
  <2>1. pc = "done" => \A i \in Ids : found[i].version = Truth(i, head) /\ MarkHolds(i, found[i], head)
    BY DEF IInv, AnswersOK, AllGood, AllFound
  <2>2. Newest
    BY <2>1 DEF Newest
  <2>3. MarkIsTheOffsets /\ MarkIsNewest
    BY <2>1 DEF MarkIsTheOffsets, MarkIsNewest, MarkHolds
  <2> QED
    BY <2>2, <2>3 DEF IInv, NewestFound
<1> QED
  BY <1>1, Invariance, PTL

-----------------------------------------------------------------------------
\* Locate, for any number of pipelines, near-time readers, relations, moves and failures
\* of the catalog: a step runs where the catalog said the table is, and an outage of the
\* catalog moves no table back.
CONSTANTS Pipelines, Near, Relations, Source, Target, MaxMoves, MaxFailures
VARIABLES catalog, lastKnown, lookup, asking, answer, fresh, current, asOf, heard, failures

Where == INSTANCE Locate WITH pc <- lookup

-----------------------------------------------------------------------------
(* Where the tables are: the locations a pipeline follows *)

Asking == {"post", "sent", "paging"}

(* The ends the refresh under way has located. *)
LocatedEnd(p, end) ==
  \/ lookup[p] \in {"settle", "step"}
  \/ lookup[p] \in Asking /\ asking[p] = "target" /\ end = "source"

WhereTyped ==
  /\ Where!TypeOK
  /\ asking \in [Pipelines -> Where!Ends]
  /\ answer \in [Pipelines -> Where!Locations \cup {Where!None}]
  /\ asOf \in [Pipelines -> [Where!Ends -> Where!Locations]]
  /\ heard \in [Pipelines -> BOOLEAN]
  /\ \A p \in Pipelines : lookup[p] = "paging" => answer[p] # Where!None
  /\ \A p \in Pipelines : \A end \in Where!Ends : LocatedEnd(p, end) => fresh[p][end] # Where!None

(* What a refresh has found is where the relation was when it began, or later;
   what waits to be read is so too; and nothing is newer than the catalog. *)
FoundSince ==
  \A p \in Pipelines : \A end \in Where!Ends :
    /\ asOf[p][end] <= catalog[Where!Relation(p, end)]
    /\ lookup[p] = "paging" /\ end = asking[p] => asOf[p][end] <= answer[p]
    /\ heard[p] /\ LocatedEnd(p, end) => asOf[p][end] <= fresh[p][end]

(* A pipeline that steps is open where its refresh found the tables. *)
StepsWhereFound == \A p \in Pipelines : lookup[p] = "step" => current[p] = fresh[p]

(* Both ends of a pipeline are open, or neither is. *)
OpenWhole ==
  \A p \in Pipelines :
    Where!Open(p) => \A end \in Where!Ends : current[p][end] # Where!NotOpen

WhereInv == WhereTyped /\ FoundSince /\ StepsWhereFound /\ OpenWhole

\* Facts about the names of locations.
LEMMA Names ==
  ASSUME Where!ConstantsAssumption
  PROVE  /\ Where!Locations \subseteq Nat /\ 0 \in Where!Locations /\ 1 \in Where!Locations
         /\ Where!None \notin Where!Locations /\ Where!NotOpen \notin Where!Locations
         /\ Where!None # Where!NotOpen
         /\ "source" \in Where!Ends /\ "target" \in Where!Ends
         /\ \A p \in Pipelines, end \in Where!Ends : Where!Relation(p, end) \in Relations
BY DEF Where!ConstantsAssumption, Where!Locations, Where!None, Where!NotOpen, Where!Ends,
       Where!Relation

\* A process starts with nothing open.
LEMMA WhereStarts ==
  ASSUME Where!ConstantsAssumption, Where!Init
  PROVE  WhereInv
<1>1. \A p \in Pipelines : lookup[p] = "closed" BY DEF Where!Init
<1>2. Where!TypeOK
  <2>1. catalog \in [Relations -> Where!Locations] BY Names DEF Where!Init
  <2>2. lastKnown \in [Relations -> Where!Locations \cup {Where!None}] BY DEF Where!Init
  <2>3. /\ fresh \in [Pipelines -> [Where!Ends -> Where!Locations \cup {Where!None}]]
        /\ current \in [Pipelines -> [Where!Ends -> Where!Locations \cup {Where!NotOpen}]]
    BY DEF Where!Init, Where!AllEnds
  <2>4. lookup \in [Pipelines -> {"closed", "post", "sent", "paging", "settle", "step"}]
    BY DEF Where!Init
  <2> QED BY <1>1, <2>1, <2>2, <2>3, <2>4 DEF Where!TypeOK
<1>3. WhereTyped
  <2>1. asOf \in [Pipelines -> [Where!Ends -> Where!Locations]]
    BY Names DEF Where!Init, Where!AllEnds
  <2>2. asking \in [Pipelines -> Where!Ends] /\ heard \in [Pipelines -> BOOLEAN]
    BY Names DEF Where!Init
  <2>3. answer \in [Pipelines -> Where!Locations \cup {Where!None}] BY DEF Where!Init
  <2> QED BY <1>1, <1>2, <2>1, <2>2, <2>3 DEF WhereTyped, LocatedEnd, Asking
<1>4. FoundSince
  <2>1. \A p \in Pipelines : \A end \in Where!Ends : asOf[p][end] = 0
    BY DEF Where!Init, Where!AllEnds
  <2>2. \A r \in Relations : catalog[r] \in Nat BY DEF Where!Init
  <2> QED BY <1>1, <2>1, <2>2, Names DEF FoundSince, LocatedEnd, Asking
<1>5. StepsWhereFound BY <1>1 DEF StepsWhereFound
<1>6. OpenWhole BY Names DEF OpenWhole, Where!Open, Where!Init, Where!AllEnds
<1> QED BY <1>3, <1>4, <1>5, <1>6 DEF WhereInv

\* A move in the catalog leaves every refresh with what it found.
LEMMA MoveKeeps ==
  ASSUME Where!ConstantsAssumption, WhereInv, NEW r \in Relations, Where!Move(r)
  PROVE  WhereInv'
<1>1. /\ catalog \in [Relations -> Where!Locations]
      /\ catalog[r] < MaxMoves
      /\ catalog' = [catalog EXCEPT ![r] = @ + 1]
      /\ UNCHANGED <<lastKnown, lookup, asking, answer, fresh, current, asOf, heard>>
  BY DEF WhereInv, WhereTyped, Where!TypeOK, Where!Move
<1>2. catalog' \in [Relations -> Where!Locations]
  BY <1>1 DEF Where!Locations, Where!ConstantsAssumption
<1>3. \A s \in Relations : catalog[s] <= catalog'[s] /\ catalog[s] \in Nat /\ catalog'[s] \in Nat
  BY <1>1, <1>2, Names DEF Where!Locations
<1>4. WhereTyped' BY <1>1, <1>2 DEF WhereInv, WhereTyped, Where!TypeOK, LocatedEnd
<1>5. FoundSince'
  <2>1. \A p \in Pipelines, end \in Where!Ends : asOf[p][end] \in Nat
    BY Names DEF WhereInv, WhereTyped
  <2> QED BY <1>1, <1>3, <2>1, Names DEF WhereInv, FoundSince, LocatedEnd, Where!Relation
<1>6. StepsWhereFound' /\ OpenWhole'
  BY <1>1 DEF WhereInv, StepsWhereFound, OpenWhole, Where!Open
<1> QED BY <1>4, <1>5, <1>6 DEF WhereInv

\* A refresh begins with nothing located.
LEMMA BeginKeeps ==
  ASSUME Where!ConstantsAssumption, WhereInv, NEW p \in Pipelines, Where!Begin(p),
         UNCHANGED <<catalog, lastKnown, answer, current, failures>>
  PROVE  WhereInv'
<1> DEFINE seen == [end \in Where!Ends |-> catalog[Where!Relation(p, end)]]
<1>1. /\ lookup' = [lookup EXCEPT ![p] = "post"]
      /\ asking' = [asking EXCEPT ![p] = "source"]
      /\ fresh' = [fresh EXCEPT ![p] = Where!AllEnds(Where!None)]
      /\ asOf' = [asOf EXCEPT ![p] = seen]
      /\ heard' = [heard EXCEPT ![p] = TRUE]
  BY DEF Where!Begin
<1>2. seen \in [Where!Ends -> Where!Locations]
  BY Names DEF WhereInv, WhereTyped, Where!TypeOK
<1>3. Where!AllEnds(Where!None) \in [Where!Ends -> Where!Locations \cup {Where!None}]
  BY DEF Where!AllEnds
<1> HIDE DEF seen
<1>4. WhereTyped'
  <2>1. Where!TypeOK' BY <1>1, <1>3 DEF WhereInv, WhereTyped, Where!TypeOK
  <2>2. \A q \in Pipelines, end \in Where!Ends :
          LocatedEnd(q, end)' => q # p /\ LocatedEnd(q, end) /\ fresh'[q] = fresh[q]
    BY <1>1 DEF WhereInv, WhereTyped, Where!TypeOK, LocatedEnd, Asking
  <2> QED BY <1>1, <1>2, <2>1, <2>2, Names DEF WhereInv, WhereTyped
<1>5. FoundSince'
  <2> SUFFICES ASSUME NEW q \in Pipelines, NEW end \in Where!Ends
               PROVE  /\ asOf'[q][end] <= catalog[Where!Relation(q, end)]
                      /\ lookup'[q] = "paging" /\ end = asking'[q] => asOf'[q][end] <= answer[q]
                      /\ heard'[q] /\ LocatedEnd(q, end)' => asOf'[q][end] <= fresh'[q][end]
    BY DEF FoundSince, Where!Relation
  <2>1. CASE q = p
    <3>1. asOf'[p] = seen /\ lookup'[p] = "post" /\ asking'[p] = "source"
      BY <1>1 DEF WhereInv, WhereTyped, Where!TypeOK
    <3>2. seen[end] = catalog[Where!Relation(p, end)] BY DEF seen
    <3>3. seen[end] \in Nat BY <1>2, Names
    <3> QED BY <2>1, <3>1, <3>2, <3>3 DEF LocatedEnd, Asking
  <2>2. CASE q # p
    BY <2>2, <1>1 DEF WhereInv, WhereTyped, Where!TypeOK, FoundSince, LocatedEnd
  <2> QED BY <2>1, <2>2
<1>6. StepsWhereFound'
  BY <1>1 DEF WhereInv, WhereTyped, Where!TypeOK, StepsWhereFound
<1>7. OpenWhole' BY DEF WhereInv, OpenWhole, Where!Open
<1> QED BY <1>4, <1>5, <1>6, <1>7 DEF WhereInv

\* A query on its way, or answered, tells of the catalog since the refresh began.
LEMMA AskKeeps ==
  ASSUME Where!ConstantsAssumption, WhereInv, NEW p \in Pipelines,
         Where!Post(p) \/ Where!Execute(p)
  PROVE  WhereInv'
<1> DEFINE r == Where!Relation(p, asking[p])
<1>1. r \in Relations /\ asking[p] \in Where!Ends BY Names DEF WhereInv, WhereTyped
<1>2. CASE Where!Post(p)
  <2>1. lookup' = [lookup EXCEPT ![p] = "sent"] /\ lookup[p] = "post"
        /\ UNCHANGED <<catalog, lastKnown, asking, answer, fresh, current, asOf, heard>>
    BY <1>2 DEF Where!Post
  <2>2. \A q \in Pipelines, end \in Where!Ends : LocatedEnd(q, end)' = LocatedEnd(q, end)
    BY <2>1 DEF WhereInv, WhereTyped, Where!TypeOK, LocatedEnd, Asking
  <2>3. WhereTyped' BY <2>1, <2>2 DEF WhereInv, WhereTyped, Where!TypeOK
  <2>4. FoundSince'
    BY <2>1, <2>2 DEF WhereInv, WhereTyped, Where!TypeOK, FoundSince, Where!Relation
  <2>5. StepsWhereFound' BY <2>1 DEF WhereInv, WhereTyped, Where!TypeOK, StepsWhereFound
  <2>6. OpenWhole' BY <2>1 DEF WhereInv, OpenWhole, Where!Open
  <2> QED BY <2>3, <2>4, <2>5, <2>6 DEF WhereInv
<1>3. CASE Where!Execute(p)
  <2>1. /\ lookup' = [lookup EXCEPT ![p] = "paging"] /\ lookup[p] = "sent"
        /\ answer' = [answer EXCEPT ![p] = catalog[r]]
        /\ UNCHANGED <<catalog, lastKnown, asking, fresh, current, asOf, heard>>
    BY <1>3 DEF Where!Execute
  <2>2. \A q \in Pipelines, end \in Where!Ends : LocatedEnd(q, end)' = LocatedEnd(q, end)
    BY <2>1 DEF WhereInv, WhereTyped, Where!TypeOK, LocatedEnd, Asking
  <2>3. catalog[r] \in Where!Locations BY <1>1 DEF WhereInv, WhereTyped, Where!TypeOK
  <2>4. answer'[p] = catalog[r] /\ \A q \in Pipelines \ {p} : answer'[q] = answer[q] /\ lookup'[q] = lookup[q]
    BY <2>1 DEF WhereInv, WhereTyped, Where!TypeOK
  <2>5. WhereTyped'
    <3>1. answer' \in [Pipelines -> Where!Locations \cup {Where!None}]
      BY <2>1, <2>3 DEF WhereInv, WhereTyped
    <3>2. Where!TypeOK' BY <2>1 DEF WhereInv, WhereTyped, Where!TypeOK
    <3>3. \A q \in Pipelines : lookup'[q] = "paging" => answer'[q] # Where!None
      BY <2>3, <2>4, Names DEF WhereInv, WhereTyped
    <3> QED BY <2>1, <2>2, <3>1, <3>2, <3>3 DEF WhereInv, WhereTyped
  <2>6. FoundSince'
    <3> SUFFICES ASSUME NEW q \in Pipelines, NEW end \in Where!Ends
                 PROVE  /\ asOf[q][end] <= catalog[Where!Relation(q, end)]
                        /\ lookup'[q] = "paging" /\ end = asking[q] => asOf[q][end] <= answer'[q]
                        /\ heard[q] /\ LocatedEnd(q, end)' => asOf[q][end] <= fresh[q][end]
      BY <2>1 DEF FoundSince, Where!Relation
    <3> QED BY <2>2, <2>4 DEF WhereInv, FoundSince
  <2>7. StepsWhereFound' BY <2>1 DEF WhereInv, WhereTyped, Where!TypeOK, StepsWhereFound
  <2>8. OpenWhole' BY <2>1 DEF WhereInv, OpenWhole, Where!Open
  <2> QED BY <2>5, <2>6, <2>7, <2>8 DEF WhereInv
<1> QED BY <1>2, <1>3

\* An end located is where it was when the refresh began, or later, if the catalog was
\* heard all along (locate).
LEMMA LocatedKeeps ==
  ASSUME Where!ConstantsAssumption, WhereInv, NEW p \in Pipelines, NEW loc \in Where!Locations,
         lookup[p] \in {"sent", "paging"}, Where!Located(p, loc),
         heard' \in [Pipelines -> BOOLEAN],
         \A q \in Pipelines : heard'[q] => heard[q],
         heard'[p] => asOf[p][asking[p]] <= loc,
         lastKnown' \in [Relations -> Where!Locations \cup {Where!None}]
  PROVE  WhereInv'
<1> DEFINE at == asking[p]
<1>1. /\ fresh' = [fresh EXCEPT ![p][at] = loc]
      /\ answer' = [answer EXCEPT ![p] = Where!None]
      /\ UNCHANGED <<catalog, current, asOf>>
  BY DEF Where!Located
<1>2. \/ /\ at = "source" /\ asking' = [asking EXCEPT ![p] = "target"]
         /\ lookup' = [lookup EXCEPT ![p] = "post"]
      \/ /\ at = "target" /\ lookup' = [lookup EXCEPT ![p] = "settle"] /\ UNCHANGED asking
  BY DEF Where!Located, WhereInv, WhereTyped, Where!Ends
<1>3. /\ asking \in [Pipelines -> Where!Ends] /\ at \in Where!Ends
      /\ fresh \in [Pipelines -> [Where!Ends -> Where!Locations \cup {Where!None}]]
      /\ lookup \in [Pipelines -> {"closed", "post", "sent", "paging", "settle", "step"}]
  BY DEF WhereInv, WhereTyped, Where!TypeOK
<1>4. /\ fresh' \in [Pipelines -> [Where!Ends -> Where!Locations \cup {Where!None}]]
      /\ fresh'[p][at] = loc
      /\ \A q \in Pipelines : q # p => fresh'[q] = fresh[q]
      /\ \A end \in Where!Ends : end # at => fresh'[p][end] = fresh[p][end]
  BY <1>1, <1>3
<1>5. /\ lookup' \in [Pipelines -> {"closed", "post", "sent", "paging", "settle", "step"}]
      /\ asking' \in [Pipelines -> Where!Ends]
      /\ lookup'[p] \in {"post", "settle"}
      /\ \A q \in Pipelines : q # p => lookup'[q] = lookup[q] /\ asking'[q] = asking[q]
  BY ZenonT(30), <1>2, <1>3, Names
<1>6. \A q \in Pipelines, end \in Where!Ends :
        LocatedEnd(q, end)' => \/ LocatedEnd(q, end) /\ ~(q = p /\ end = at)
                               \/ q = p /\ end = at
  <2> SUFFICES ASSUME NEW q \in Pipelines, NEW end \in Where!Ends, LocatedEnd(q, end)',
                      ~(q = p /\ end = at)
               PROVE  LocatedEnd(q, end)
    OBVIOUS
  <2>1. CASE q = p
    BY <2>1, <1>2, <1>3 DEF LocatedEnd, Asking, Where!Ends
  <2>2. CASE q # p BY <2>2, <1>5 DEF LocatedEnd
  <2> QED BY <2>1, <2>2
<1>7. WhereTyped'
  <2>1. Where!None \notin Where!Locations /\ loc # Where!None BY Names
  <2>2. \A q \in Pipelines : \A end \in Where!Ends :
          LocatedEnd(q, end)' => fresh'[q][end] # Where!None
    BY <1>4, <1>6, <2>1 DEF WhereInv, WhereTyped
  <2>3. \A q \in Pipelines : lookup'[q] \in {"settle", "step"} =>
          \A end \in Where!Ends : fresh'[q][end] # Where!None
    BY <2>2 DEF LocatedEnd
  <2>4. Where!TypeOK'
    BY <1>1, <1>4, <1>5, <2>3 DEF WhereInv, WhereTyped, Where!TypeOK
  <2>5. /\ answer' \in [Pipelines -> Where!Locations \cup {Where!None}]
        /\ \A q \in Pipelines : lookup'[q] = "paging" => answer'[q] # Where!None
    BY <1>1, <1>5 DEF WhereInv, WhereTyped
  <2> QED BY <1>1, <1>5, <2>2, <2>4, <2>5 DEF WhereInv, WhereTyped
<1>8. FoundSince'
  <2> SUFFICES ASSUME NEW q \in Pipelines, NEW end \in Where!Ends
               PROVE  /\ asOf[q][end] <= catalog[Where!Relation(q, end)]
                      /\ lookup'[q] = "paging" /\ end = asking'[q] => asOf[q][end] <= answer'[q]
                      /\ heard'[q] /\ LocatedEnd(q, end)' => asOf[q][end] <= fresh'[q][end]
    BY <1>1 DEF FoundSince, Where!Relation
  <2>1. asOf[q][end] <= catalog[Where!Relation(q, end)] BY DEF WhereInv, FoundSince
  <2>2. lookup'[q] = "paging" /\ end = asking'[q] => asOf[q][end] <= answer'[q]
    BY <1>1, <1>5 DEF WhereInv, WhereTyped, FoundSince
  <2>3. heard'[q] /\ LocatedEnd(q, end)' => asOf[q][end] <= fresh'[q][end]
    BY <1>4, <1>6 DEF WhereInv, FoundSince
  <2> QED BY <2>1, <2>2, <2>3
<1>9. StepsWhereFound'
  BY <1>1, <1>4, <1>5 DEF WhereInv, StepsWhereFound
<1>10. OpenWhole' BY <1>1 DEF WhereInv, OpenWhole, Where!Open
<1> QED BY <1>7, <1>8, <1>9, <1>10 DEF WhereInv

\* What a query falls back to is a location: the cached one, the one the pipeline is at,
\* or what dbt declared.
LEMMA FallbackIsLocation ==
  ASSUME Where!ConstantsAssumption, WhereInv, NEW p \in Pipelines
  PROVE  LET known == lastKnown[Where!Relation(p, asking[p])]
         IN  (IF known # Where!None THEN known ELSE Where!Base(p, asking[p])) \in Where!Locations
<1> DEFINE known == lastKnown[Where!Relation(p, asking[p])]
<1>1. known \in Where!Locations \cup {Where!None} /\ asking[p] \in Where!Ends
  BY Names DEF WhereInv, WhereTyped, Where!TypeOK
<1>2. Where!Base(p, asking[p]) \in Where!Locations
  <2>1. current[p] \in [Where!Ends -> Where!Locations \cup {Where!NotOpen}]
    BY DEF WhereInv, WhereTyped, Where!TypeOK
  <2>2. Where!Open(p) => current[p][asking[p]] # Where!NotOpen
    BY <1>1 DEF WhereInv, OpenWhole
  <2> QED BY <1>1, <2>1, <2>2, Names DEF Where!Base
<1> QED BY <1>1, <1>2

\* A query that is answered, or is not, keeps the invariant.
LEMMA ReplyKeeps ==
  ASSUME Where!ConstantsAssumption, WhereInv, NEW p \in Pipelines,
         Where!Answered(p) \/ Where!Unanswered(p)
  PROVE  WhereInv'
<1>1. CASE Where!Answered(p)
  <2>1. answer[p] \in Where!Locations BY <1>1 DEF Where!Answered, WhereInv, WhereTyped
  <2>2. asOf[p][asking[p]] <= answer[p]
    BY <1>1 DEF Where!Answered, WhereInv, WhereTyped, FoundSince
  <2>3. /\ lookup[p] \in {"sent", "paging"} /\ Where!Located(p, answer[p])
        /\ UNCHANGED heard
        /\ lastKnown' = [lastKnown EXCEPT ![Where!Relation(p, asking[p])] = answer[p]]
    BY <1>1 DEF Where!Answered
  <2>4. lastKnown' \in [Relations -> Where!Locations \cup {Where!None}]
    BY <2>1, <2>3 DEF WhereInv, WhereTyped, Where!TypeOK
  <2>5. heard' \in [Pipelines -> BOOLEAN] BY <2>3 DEF WhereInv, WhereTyped
  <2> QED BY <2>1, <2>2, <2>3, <2>4, <2>5, LocatedKeeps
<1>2. CASE Where!Unanswered(p)
  <2> DEFINE known == lastKnown[Where!Relation(p, asking[p])]
             loc == IF known # Where!None THEN known ELSE Where!Base(p, asking[p])
  <2>1. loc \in Where!Locations BY FallbackIsLocation
  <2>2. /\ lookup[p] \in {"sent", "paging"} /\ Where!Located(p, loc)
        /\ UNCHANGED lastKnown /\ heard' = [heard EXCEPT ![p] = FALSE]
    BY <1>2 DEF Where!Unanswered
  <2> HIDE DEF loc
  <2>3. /\ heard' \in [Pipelines -> BOOLEAN] /\ ~heard'[p]
        /\ \A q \in Pipelines : heard'[q] => heard[q]
    BY <2>2 DEF WhereInv, WhereTyped
  <2>4. lastKnown' \in [Relations -> Where!Locations \cup {Where!None}]
    BY <2>2 DEF WhereInv, WhereTyped, Where!TypeOK
  <2> QED BY <2>1, <2>2, <2>3, <2>4, LocatedKeeps
<1> QED BY <1>1, <1>2

\* What a refresh found is what the pipeline opens at.
LEMMA SettleKeeps ==
  ASSUME Where!ConstantsAssumption, WhereInv, NEW p \in Pipelines, Where!Settle(p)
  PROVE  WhereInv'
<1>1. /\ lookup[p] = "settle" /\ lookup' = [lookup EXCEPT ![p] = "step"]
      /\ UNCHANGED <<catalog, lastKnown, asking, answer, fresh, asOf, heard>>
      /\ \/ current' = [current EXCEPT ![p] = fresh[p]]
         \/ current' = current /\ fresh[p] = current[p]
  BY DEF Where!Settle, Where!Moved
<1>2. fresh[p] \in [Where!Ends -> Where!Locations]
  BY <1>1 DEF WhereInv, WhereTyped, Where!TypeOK
<1>3. /\ current' \in [Pipelines -> [Where!Ends -> Where!Locations \cup {Where!NotOpen}]]
      /\ current'[p] = fresh[p] /\ \A q \in Pipelines \ {p} : current'[q] = current[q]
  <2>1. current \in [Pipelines -> [Where!Ends -> Where!Locations \cup {Where!NotOpen}]]
    BY DEF WhereInv, WhereTyped, Where!TypeOK
  <2>2. fresh[p] \in [Where!Ends -> Where!Locations \cup {Where!NotOpen}] BY <1>2
  <2> QED BY <1>1, <2>1, <2>2
<1>4. \A q \in Pipelines, end \in Where!Ends : LocatedEnd(q, end)' = LocatedEnd(q, end)
  BY <1>1 DEF WhereInv, WhereTyped, Where!TypeOK, LocatedEnd, Asking
<1>5. WhereTyped' BY <1>1, <1>3, <1>4 DEF WhereInv, WhereTyped, Where!TypeOK
<1>6. FoundSince'
  BY <1>1, <1>4 DEF WhereInv, WhereTyped, Where!TypeOK, FoundSince, Where!Relation
<1>7. StepsWhereFound' BY <1>1, <1>3 DEF WhereInv, WhereTyped, Where!TypeOK, StepsWhereFound
<1>8. OpenWhole' BY <1>2, <1>3, Names DEF WhereInv, OpenWhole, Where!Open
<1> QED BY <1>5, <1>6, <1>7, <1>8 DEF WhereInv

\* A pipeline that fails is open nowhere.
LEMMA CloseKeeps ==
  ASSUME Where!ConstantsAssumption, WhereInv, NEW p \in Pipelines, Where!Fail(p)
  PROVE  WhereInv'
<1>1. /\ lookup[p] \in {"settle", "step"} /\ lookup' = [lookup EXCEPT ![p] = "closed"]
      /\ UNCHANGED <<catalog, lastKnown, asking, answer, fresh, asOf, heard>>
      /\ current' = [current EXCEPT ![p] = Where!AllEnds(Where!NotOpen)]
  BY DEF Where!Fail
<1>2. /\ current' \in [Pipelines -> [Where!Ends -> Where!Locations \cup {Where!NotOpen}]]
      /\ \A end \in Where!Ends : current'[p][end] = Where!NotOpen
      /\ \A q \in Pipelines \ {p} : current'[q] = current[q]
  BY <1>1 DEF WhereInv, WhereTyped, Where!TypeOK, Where!AllEnds
<1>3. \A q \in Pipelines, end \in Where!Ends : LocatedEnd(q, end)' => LocatedEnd(q, end)
  BY <1>1 DEF WhereInv, WhereTyped, Where!TypeOK, LocatedEnd, Asking
<1>4. WhereTyped' BY <1>1, <1>2, <1>3 DEF WhereInv, WhereTyped, Where!TypeOK
<1>5. FoundSince'
  BY <1>1, <1>3 DEF WhereInv, WhereTyped, Where!TypeOK, FoundSince, Where!Relation
<1>6. StepsWhereFound' BY <1>1, <1>2 DEF WhereInv, WhereTyped, Where!TypeOK, StepsWhereFound
<1>7. OpenWhole' BY <1>2, Names DEF WhereInv, OpenWhole, Where!Open
<1> QED BY <1>4, <1>5, <1>6, <1>7 DEF WhereInv

\* Every step keeps the invariant.
LEMMA WhereSteps ==
  ASSUME Where!ConstantsAssumption, WhereInv, [Where!Next]_Where!vars
  PROVE  WhereInv'
<1>1. CASE Where!Next
  <2>1. ASSUME NEW p \in Pipelines, Where!Attempt(p) \/ Where!Step(p) PROVE WhereInv'
    BY <2>1, BeginKeeps DEF Where!Attempt, Where!Step
  <2> QED BY <1>1, <2>1, MoveKeeps, AskKeeps, ReplyKeeps, SettleKeeps, CloseKeeps DEF Where!Next
<1>2. CASE UNCHANGED Where!vars
  BY <1>2 DEF Where!vars, WhereInv, WhereTyped, Where!TypeOK, FoundSince, StepsWhereFound, OpenWhole,
              Where!Open, LocatedEnd, Where!Relation
<1> QED BY <1>1, <1>2

\* WhereInv holds in every reachable state.
THEOREM WhereInvariance ==
  ASSUME Where!ConstantsAssumption
  PROVE  Where!Spec => []WhereInv
<1>1. Where!Init => WhereInv BY WhereStarts
<1>2. WhereInv /\ [Where!Next]_Where!vars => WhereInv' BY WhereSteps
<1> QED BY <1>1, <1>2, PTL DEF Where!Spec

\* Every reachable state of the pipelines that follow the catalog is well typed.
THEOREM WhereTypes ==
  ASSUME Where!ConstantsAssumption
  PROVE  Where!Spec => []Where!TypeOK
<1>1. WhereInv => Where!TypeOK BY DEF WhereInv, WhereTyped
<1> QED BY <1>1, WhereInvariance, PTL

\* No step runs at a place its table had left before the refresh in front of it began, if
\* the catalog answered that refresh (refresh, attempt).
THEOREM StepsFollowTheCatalog ==
  ASSUME Where!ConstantsAssumption
  PROVE  Where!Spec => []Where!StepsWhereItIs
<1>1. WhereInv => Where!StepsWhereItIs
  <2> SUFFICES ASSUME WhereInv, NEW p \in Pipelines, lookup[p] = "step", heard[p],
                      NEW end \in Where!Ends
               PROVE  current[p][end] >= asOf[p][end]
    BY DEF Where!StepsWhereItIs
  <2>1. current[p][end] = fresh[p][end] BY DEF WhereInv, StepsWhereFound
  <2>2. asOf[p][end] <= fresh[p][end] BY DEF WhereInv, FoundSince, LocatedEnd
  <2>3. asOf[p][end] \in Nat BY Names DEF WhereInv, WhereTyped
  <2>4. fresh[p][end] \in Nat
    BY Names DEF WhereInv, WhereTyped, Where!TypeOK
  <2> QED BY <2>1, <2>2, <2>3, <2>4
<1> QED BY <1>1, WhereInvariance, PTL

-----------------------------------------------------------------------------
(* An outage of the catalog. A relation that two pipelines follow is cached once for
   both, and the older of two answers may be cached last.                        *)

(* Every relation is one end of one pipeline. *)
OneReaderEach ==
  \A p, q \in Pipelines : \A e, f \in Where!Ends :
    Where!Relation(p, e) = Where!Relation(q, f) => p = q /\ e = f

(* What is cached is what the end was last located at, and nothing located is
   newer than the catalog. *)
CacheIsLast ==
  \A p \in Pipelines : \A end \in Where!Ends :
    LET known == lastKnown[Where!Relation(p, end)]
        now == catalog[Where!Relation(p, end)]
    IN  /\ fresh[p][end] # Where!None =>
             fresh[p][end] <= now /\ (known # Where!None => fresh[p][end] = known)
        /\ Where!Open(p) =>
             /\ current[p][end] <= now
             /\ known # Where!None => current[p][end] <= known
             /\ lookup[p] = "paging" /\ end = asking[p] => current[p][end] <= answer[p]
        /\ known # Where!None => known <= now
        /\ lookup[p] = "paging" /\ end = asking[p] => answer[p] <= now

\* Facts the cache's lemmas keep using.
LEMMA CacheTypes ==
  ASSUME Where!ConstantsAssumption, WhereInv
  PROVE  /\ \A p \in Pipelines, end \in Where!Ends :
              /\ catalog[Where!Relation(p, end)] \in Nat
              /\ lastKnown[Where!Relation(p, end)] \in Nat
              /\ fresh[p][end] \in Nat
              /\ current[p][end] \in Nat
         /\ \A p \in Pipelines : answer[p] \in Nat /\ asking[p] \in Where!Ends
<1>1. Where!None \in Nat /\ Where!NotOpen \in Nat
  BY DEF Where!ConstantsAssumption, Where!None, Where!NotOpen
<1> QED BY <1>1, Names DEF WhereInv, WhereTyped, Where!TypeOK

\* At the start nothing is cached and nothing is open.
LEMMA CacheStarts ==
  ASSUME Where!ConstantsAssumption, Where!Init
  PROVE  CacheIsLast
BY Names DEF Where!Init, CacheIsLast, Where!AllEnds, Where!Open

\* A step of the refresh under way keeps the cache in step with what it located: the cache
\* of a relation changes with the one end it is of.
LEMMA CacheSteps ==
  ASSUME Where!ConstantsAssumption, OneReaderEach, WhereInv, CacheIsLast, [Where!Next]_Where!vars
  PROVE  CacheIsLast'
<1> DEFINE Rel(q, end) == Where!Relation(q, end)
<1>1. \A p, q \in Pipelines : \A e, f \in Where!Ends : Rel(p, e) = Rel(q, f) => p = q /\ e = f
  BY DEF OneReaderEach
<1>2. \A q \in Pipelines, end \in Where!Ends : Rel(q, end) \in Relations BY Names
<1>3. \A q \in Pipelines, end \in Where!Ends : Rel(q, end)' = Rel(q, end) BY DEF Where!Relation
<1>4. ASSUME NEW r \in Relations, Where!Move(r) PROVE CacheIsLast'
  <2>1. /\ UNCHANGED <<lastKnown, lookup, asking, answer, fresh, current>>
        /\ \A q \in Pipelines, end \in Where!Ends :
              catalog[Rel(q, end)] <= catalog'[Rel(q, end)] /\ catalog'[Rel(q, end)] \in Nat
    <3>1. catalog' = [catalog EXCEPT ![r] = @ + 1] BY <1>4 DEF Where!Move
    <3>2. catalog \in [Relations -> Nat] BY Names DEF WhereInv, WhereTyped, Where!TypeOK
    <3> QED BY <1>2, <1>4, <3>1, <3>2 DEF Where!Move
  <2> QED BY <1>3, <2>1, CacheTypes DEF CacheIsLast, Where!Open
<1>5. ASSUME NEW p \in Pipelines, Where!Attempt(p) \/ Where!Step(p) PROVE CacheIsLast'
  <2>1. /\ UNCHANGED <<catalog, lastKnown, answer, current>>
        /\ lookup' = [lookup EXCEPT ![p] = "post"]
        /\ fresh' = [fresh EXCEPT ![p] = Where!AllEnds(Where!None)]
        /\ asking' = [asking EXCEPT ![p] = "source"]
    BY <1>5 DEF Where!Attempt, Where!Step, Where!Begin
  <2>2. /\ \A q \in Pipelines \ {p} :
             fresh'[q] = fresh[q] /\ lookup'[q] = lookup[q] /\ asking'[q] = asking[q]
        /\ \A end \in Where!Ends : fresh'[p][end] = Where!None
        /\ lookup'[p] = "post"
    BY <2>1 DEF WhereInv, WhereTyped, Where!TypeOK, Where!AllEnds
  <2> QED BY <1>3, <2>1, <2>2 DEF CacheIsLast, Where!Open
<1>6. ASSUME NEW p \in Pipelines, Where!Post(p) PROVE CacheIsLast'
  <2>1. /\ UNCHANGED <<catalog, lastKnown, asking, answer, fresh, current>>
        /\ \A q \in Pipelines : lookup'[q] = "paging" => lookup[q] = "paging"
    BY <1>6 DEF Where!Post, WhereInv, WhereTyped, Where!TypeOK
  <2> QED BY <1>3, <2>1 DEF CacheIsLast, Where!Open
<1>7. ASSUME NEW p \in Pipelines, Where!Execute(p) PROVE CacheIsLast'
  <2>1. /\ UNCHANGED <<catalog, lastKnown, asking, fresh, current>>
        /\ answer'[p] = catalog[Rel(p, asking[p])]
        /\ \A q \in Pipelines \ {p} : answer'[q] = answer[q] /\ lookup'[q] = lookup[q]
    BY <1>7 DEF Where!Execute, WhereInv, WhereTyped, Where!TypeOK
  <2> QED BY <1>3, <2>1, CacheTypes DEF CacheIsLast, Where!Open
<1>8. ASSUME NEW p \in Pipelines, NEW loc \in Where!Locations, Where!Located(p, loc),
             lookup[p] \in {"sent", "paging"},
             loc <= catalog[Rel(p, asking[p])],
             \/ lastKnown' = [lastKnown EXCEPT ![Rel(p, asking[p])] = loc]
                /\ (Where!Open(p) => current[p][asking[p]] <= loc)
             \/ UNCHANGED lastKnown
                /\ (lastKnown[Rel(p, asking[p])] # Where!None => loc = lastKnown[Rel(p, asking[p])])
      PROVE  CacheIsLast'
  <2> DEFINE at == asking[p]
  <2>1. at \in Where!Ends /\ loc \in Nat BY Names, CacheTypes
  <2>2. /\ UNCHANGED <<catalog, current>>
        /\ fresh'[p][at] = loc
        /\ \A q \in Pipelines, end \in Where!Ends : (q # p \/ end # at) => fresh'[q][end] = fresh[q][end]
        /\ \A q \in Pipelines : lookup'[q] = "paging" =>
              q # p /\ lookup[q] = "paging" /\ asking'[q] = asking[q] /\ answer'[q] = answer[q]
    BY <1>8, <2>1 DEF Where!Located, WhereInv, WhereTyped, Where!TypeOK
  <2>3. \A q \in Pipelines, end \in Where!Ends :
          (q # p \/ end # at) => lastKnown'[Rel(q, end)] = lastKnown[Rel(q, end)]
    BY <1>1, <1>2, <1>8, <2>1 DEF WhereInv, WhereTyped, Where!TypeOK
  <2>4. \/ lastKnown'[Rel(p, at)] = loc /\ (Where!Open(p) => current[p][at] <= loc)
        \/ /\ lastKnown'[Rel(p, at)] = lastKnown[Rel(p, at)]
           /\ lastKnown[Rel(p, at)] # Where!None => loc = lastKnown[Rel(p, at)]
    BY <1>2, <1>8, <2>1 DEF WhereInv, WhereTyped, Where!TypeOK
  <2> SUFFICES ASSUME NEW q \in Pipelines, NEW end \in Where!Ends
               PROVE  /\ fresh'[q][end] # Where!None =>
                           /\ fresh'[q][end] <= catalog[Rel(q, end)]
                           /\ lastKnown'[Rel(q, end)] # Where!None => fresh'[q][end] = lastKnown'[Rel(q, end)]
                      /\ Where!Open(q) =>
                           /\ current[q][end] <= catalog[Rel(q, end)]
                           /\ lastKnown'[Rel(q, end)] # Where!None => current[q][end] <= lastKnown'[Rel(q, end)]
                           /\ lookup'[q] = "paging" /\ end = asking'[q] => current[q][end] <= answer'[q]
                      /\ lastKnown'[Rel(q, end)] # Where!None =>
                           lastKnown'[Rel(q, end)] <= catalog[Rel(q, end)]
                      /\ lookup'[q] = "paging" /\ end = asking'[q] => answer'[q] <= catalog[Rel(q, end)]
    BY <1>3, <2>2 DEF CacheIsLast, Where!Open
  <2>5. CASE q = p /\ end = at
    BY <1>8, <2>2, <2>4, <2>5 DEF CacheIsLast
  <2>6. CASE q # p \/ end # at
    BY <2>2, <2>3, <2>6 DEF CacheIsLast
  <2> QED BY <2>5, <2>6
<1>9. ASSUME NEW p \in Pipelines, Where!Answered(p) PROVE CacheIsLast'
  <2>1. answer[p] \in Where!Locations /\ asking[p] \in Where!Ends
    BY <1>9 DEF Where!Answered, WhereInv, WhereTyped
  <2>2. /\ answer[p] <= catalog[Rel(p, asking[p])]
        /\ Where!Open(p) => current[p][asking[p]] <= answer[p]
    BY <1>9, <2>1 DEF Where!Answered, CacheIsLast
  <2> QED BY <1>8, <1>9, <2>1, <2>2 DEF Where!Answered
<1>10. ASSUME NEW p \in Pipelines, Where!Unanswered(p) PROVE CacheIsLast'
  <2> DEFINE known == lastKnown[Rel(p, asking[p])]
             loc == IF known # Where!None THEN known ELSE Where!Base(p, asking[p])
  <2>1. loc \in Where!Locations BY FallbackIsLocation
  <2>2. asking[p] \in Where!Ends BY CacheTypes
  <2>3. known # Where!None => loc = known OBVIOUS
  <2>4. loc <= catalog[Rel(p, asking[p])]
    <3>1. known # Where!None => known <= catalog[Rel(p, asking[p])]
      BY <2>2 DEF CacheIsLast
    <3>2. Where!Base(p, asking[p]) <= catalog[Rel(p, asking[p])]
      BY <2>2, CacheTypes DEF Where!Base, CacheIsLast
    <3> QED BY <3>1, <3>2
  <2>5. /\ lookup[p] \in {"sent", "paging"} /\ Where!Located(p, loc) /\ UNCHANGED lastKnown
    BY <1>10 DEF Where!Unanswered
  <2> HIDE DEF loc, known
  <2> QED BY <1>8, <2>1, <2>3, <2>4, <2>5 DEF known
<1>11. ASSUME NEW p \in Pipelines, Where!Settle(p) PROVE CacheIsLast'
  <2>1. /\ lookup[p] = "settle" /\ UNCHANGED <<catalog, lastKnown, fresh, asking, answer>>
        /\ current'[p] = fresh[p] /\ \A q \in Pipelines \ {p} : current'[q] = current[q]
        /\ \A q \in Pipelines : lookup'[q] = "paging" => lookup[q] = "paging" /\ q # p
    BY <1>11 DEF Where!Settle, Where!Moved, WhereInv, WhereTyped, Where!TypeOK
  <2>2. \A end \in Where!Ends : fresh[p][end] # Where!None
    BY <2>1 DEF WhereInv, WhereTyped, Where!TypeOK
  <2> SUFFICES ASSUME NEW q \in Pipelines, NEW end \in Where!Ends
               PROVE  /\ fresh[q][end] # Where!None =>
                           /\ fresh[q][end] <= catalog[Rel(q, end)]
                           /\ lastKnown[Rel(q, end)] # Where!None => fresh[q][end] = lastKnown[Rel(q, end)]
                      /\ Where!Open(q)' =>
                           /\ current'[q][end] <= catalog[Rel(q, end)]
                           /\ lastKnown[Rel(q, end)] # Where!None => current'[q][end] <= lastKnown[Rel(q, end)]
                           /\ lookup'[q] = "paging" /\ end = asking[q] => current'[q][end] <= answer[q]
                      /\ lastKnown[Rel(q, end)] # Where!None => lastKnown[Rel(q, end)] <= catalog[Rel(q, end)]
                      /\ lookup'[q] = "paging" /\ end = asking[q] => answer[q] <= catalog[Rel(q, end)]
    BY <1>3, <2>1 DEF CacheIsLast, Where!Open
  <2>3. CASE q = p BY <2>1, <2>2, <2>3, CacheTypes DEF CacheIsLast
  <2>4. CASE q # p BY <2>1, <2>4 DEF CacheIsLast, Where!Open
  <2> QED BY <2>3, <2>4
<1>12. ASSUME NEW p \in Pipelines, Where!Fail(p) PROVE CacheIsLast'
  <2>1. /\ UNCHANGED <<catalog, lastKnown, fresh, asking, answer>>
        /\ \A q \in Pipelines \ {p} : current'[q] = current[q]
        /\ current'[p]["source"] = Where!NotOpen
        /\ \A q \in Pipelines : lookup'[q] = "paging" => lookup[q] = "paging"
    BY <1>12, Names DEF Where!Fail, Where!AllEnds, WhereInv, WhereTyped, Where!TypeOK
  <2> QED BY <1>3, <2>1 DEF CacheIsLast, Where!Open
<1>13. CASE UNCHANGED Where!vars
  BY <1>3, <1>13 DEF Where!vars, CacheIsLast, Where!Open
<1> QED
  BY <1>4, <1>5, <1>6, <1>7, <1>9, <1>10, <1>11, <1>12, <1>13 DEF Where!Next

\* An outage of the catalog moves no pipeline back to a place it has left, if the relation is
\* followed by no other (Locator::locate, last_known).
THEOREM OutagesMoveNothingBack ==
  ASSUME Where!ConstantsAssumption, OneReaderEach
  PROVE  Where!Spec => [][Where!OutageMovesNothingBack]_Where!vars
<1> DEFINE Inv == WhereInv /\ CacheIsLast /\ failures \in Nat
<1>1. Where!Init => Inv BY WhereStarts, CacheStarts DEF Where!Init
<1>2. Inv /\ [Where!Next]_Where!vars => Inv'
  <2>1. failures \in Nat /\ [Where!Next]_Where!vars => failures' \in Nat
    BY DEF Where!Next, Where!vars, Where!Move, Where!Attempt, Where!Post, Where!Execute,
           Where!Answered, Where!Unanswered, Where!Settle, Where!Fail, Where!Step
  <2> QED BY <2>1, WhereSteps, CacheSteps
<1>3. Inv /\ [Where!Next]_Where!vars => Where!OutageMovesNothingBack
  <2> SUFFICES ASSUME WhereInv, CacheIsLast, failures \in Nat, [Where!Next]_Where!vars,
                      NEW p \in Pipelines,
                      failures' > failures, Where!Open(p), fresh'[p] # fresh[p]
               PROVE  fresh'[p][asking[p]] >= current[p][asking[p]]
    BY DEF Where!OutageMovesNothingBack
  <2>2. PICK q \in Pipelines : Where!Unanswered(q) \/ Where!Fail(q)
    BY DEF Where!Next, Where!vars, Where!Move, Where!Attempt, Where!Post, Where!Execute,
                Where!Answered, Where!Settle, Where!Step
  <2>3. q = p /\ Where!Unanswered(p)
    BY <2>2 DEF Where!Fail, Where!Unanswered, Where!Located, WhereInv, WhereTyped, Where!TypeOK
  <2> DEFINE known == lastKnown[Where!Relation(p, asking[p])]
             loc == IF known # Where!None THEN known ELSE Where!Base(p, asking[p])
  <2>4. fresh' = [fresh EXCEPT ![p][asking[p]] = loc]
    BY <2>3 DEF Where!Unanswered, Where!Located
  <2>5. fresh'[p][asking[p]] = loc /\ asking[p] \in Where!Ends
    BY <2>4, CacheTypes DEF WhereInv, WhereTyped, Where!TypeOK
  <2>6. known # Where!None => current[p][asking[p]] <= known BY <2>5 DEF CacheIsLast
  <2>7. Where!Base(p, asking[p]) = current[p][asking[p]] BY DEF Where!Base
  <2> QED BY <2>5, <2>6, <2>7, CacheTypes
<1> QED BY <1>1, <1>2, <1>3, PTL DEF Where!Spec

-----------------------------------------------------------------------------
\* PublishChain, for any number of versions, faults and messages in flight and any
\* threshold of the breaker: a client that follows prev_published_through applies no
\* message after a gap it did not notice, and none twice.
CONSTANTS Mode, Quiet, Threshold, MaxVersion, MaxPublishFaults, MaxFlight
VARIABLES target, publisher, br, net, client, publishFaults

Chain == INSTANCE PublishChain WITH
  p <- publisher, cl <- client, faults <- publishFaults, MaxFaults <- MaxPublishFaults

Envelope ==
    [prev : Nat, from : Nat \ {0}, through : Chain!Data, version : Nat, complete : BOOLEAN]

PublisherType ==
    [pc : {"idle", "rendered", "sending"}, cursor : Nat \ {0}, prev : Nat, through : Nat,
     version : Nat, pending : {"none", "full", "capped"},
     stat : {"none", "skipped", "failed", "sent"}, tried : BOOLEAN]

\* Every variable of PublishChain has its type.
ChainTyped ==
    /\ target \in Seq(Chain!Version)
    /\ publisher \in PublisherType
    /\ br \in [failures : Nat, open : BOOLEAN]
    /\ net \in Seq(Envelope)
    /\ client \in [base : Nat, held : Nat, last : Nat, first : Nat, applied : [Chain!Version -> Nat]]

\* Every commit of the target ends at a later source version than those before it.
Ascending == \A i, j \in 1 .. Len(target) : i < j => target[i] < target[j]

\* An open breaker has counted as many failures as it takes.
BreakerOK == br.open => Threshold > 0 /\ br.failures >= Threshold

\* A batch from .. through is the v-th commit of the target and starts behind the one before.
Committed(from, through, v) ==
    v \in 1 .. Len(target) /\ target[v] = through /\ (v > 1 => from > target[v - 1])

\* The publisher's batch follows the one it published before, and until it is
\* committed lies behind all that the target holds.
PublisherOK ==
    /\ publisher.prev # 0 => publisher.cursor = publisher.prev + 1
    /\ publisher.pc # "idle" => publisher.through \in Chain!Data /\ publisher.cursor <= publisher.through
    /\ Mode = "commit" /\ publisher.pc # "sending" => publisher.cursor > Chain!Stored
    /\ Mode = "commit" /\ publisher.pc = "sending" =>
         /\ Committed(publisher.cursor, publisher.through, publisher.version)
         /\ publisher.version = Len(target)
    /\ Mode = "near" /\ publisher.pc = "sending" => publisher.version = 0

\* So does a message on its way.
MessageOK(m) ==
    /\ m.from <= m.through
    /\ m.prev # 0 => m.from = m.prev + 1
    /\ Mode = "commit" => Committed(m.from, m.through, m.version)
    /\ Mode = "near" => m.version = 0

\* What the client has applied since its baseline is one stretch of versions, each
\* once; behind a commit's baseline, that stretch lies behind the baseline.
ClientOK ==
    /\ client.base <= Len(target)
    /\ client.held = IF client.base = 0 THEN 0 ELSE target[client.base]
    /\ client.last = 0 => client.first = 0 /\ \A v \in Chain!Version : client.applied[v] = 0
    /\ client.last # 0 =>
         /\ client.first # 0 /\ client.first <= client.last + 1
         /\ \A v \in Chain!Version :
               client.applied[v] = IF v \in client.first .. client.last THEN 1 ELSE 0
    /\ Mode = "commit" /\ client.first # 0 /\ client.first <= client.last => client.first > client.held

\* The inductive invariant of PublishChain.
ChainInv ==
    /\ ChainTyped
    /\ Ascending
    /\ BreakerOK
    /\ PublisherOK
    /\ \A i \in 1 .. Len(net) : MessageOK(net[i])
    /\ ClientOK

-----------------------------------------------------------------------------
(* PublishChain.                                                           *)

\* What the target stores is the end of its last commit, the largest of them.
LEMMA StoredIsLargest ==
    ASSUME target \in Seq(Chain!Version), Ascending, Chain!ConstantsAssumption
    PROVE  /\ Chain!Stored \in Nat
           /\ target # << >> => Len(target) \in 1 .. Len(target) /\ Chain!Stored = target[Len(target)]
           /\ \A i \in 1 .. Len(target) : target[i] \in Nat \ {0} /\ target[i] <= Chain!Stored
<1>1. \A i \in 1 .. Len(target) : target[i] \in Chain!Version
  OBVIOUS
<1>2. \A x \in Chain!Version : x \in Nat \ {0}
  BY DEF Chain!Version, Chain!ConstantsAssumption
<1>3. CASE target = << >>
  BY <1>3 DEF Chain!Stored, Chain!None
<1>4. CASE target # << >>
  <2>1. Len(target) \in 1 .. Len(target)
    BY <1>4
  <2>2. Chain!Stored = target[Len(target)]
    BY <1>4 DEF Chain!Stored
  <2>3. \A i \in 1 .. Len(target) : i = Len(target) \/ i < Len(target)
    OBVIOUS
  <2> QED
    BY <1>1, <1>2, <2>1, <2>2, <2>3 DEF Ascending
<1> QED
  BY <1>3, <1>4

\* What a commit does to the target: it stays ascending, and what was committed
\* stays committed.
LEMMA CommitExtends ==
    ASSUME target \in Seq(Chain!Version), Ascending, Chain!ConstantsAssumption,
           NEW t \in Chain!Version, t > Chain!Stored, target' = Append(target, t)
    PROVE  /\ target' \in Seq(Chain!Version)
           /\ Ascending'
           /\ Len(target') = Len(target) + 1
           /\ \A i \in 1 .. Len(target) : target'[i] = target[i]
           /\ target'[Len(target) + 1] = t
           /\ \A f, u, v : Committed(f, u, v) => Committed(f, u, v)'
<1> PICK n : n = Len(target)
  OBVIOUS
<1>1. /\ n \in Nat
      /\ target' \in Seq(Chain!Version)
      /\ Len(target') = n + 1
      /\ \A i \in 1 .. n : target'[i] = target[i]
      /\ target'[n + 1] = t
  OBVIOUS
<1>2. \A i \in 1 .. n : target[i] < t
  BY StoredIsLargest DEF Chain!Version, Chain!ConstantsAssumption
<1>3. Ascending'
  <2> SUFFICES ASSUME NEW i \in 1 .. n + 1, NEW j \in 1 .. n + 1, i < j
               PROVE  target'[i] < target'[j]
    BY <1>1 DEF Ascending
  <2>1. i \in 1 .. n
    BY <1>1
  <2>2. j \in 1 .. n \/ j = n + 1
    BY <1>1
  <2> QED
    BY <1>1, <1>2, <2>1, <2>2 DEF Ascending
<1>4. \A f, u, v : Committed(f, u, v) => Committed(f, u, v)'
  <2> SUFFICES ASSUME NEW f, NEW u, NEW v, Committed(f, u, v) PROVE Committed(f, u, v)'
    OBVIOUS
  <2>1. v \in 1 .. n /\ target[v] = u /\ (v > 1 => f > target[v - 1])
    BY DEF Committed
  <2>2. v \in 1 .. n + 1 /\ target'[v] = u
    BY <1>1, <2>1
  <2>3. v > 1 => v - 1 \in 1 .. n
    BY <1>1, <2>1
  <2> QED
    BY <1>1, <2>1, <2>2, <2>3 DEF Committed
<1> QED
  BY <1>1, <1>3, <1>4

\* A client's baseline is not touched by a commit.
LEMMA ClientStays ==
    ASSUME ClientOK, target \in Seq(Chain!Version), target' \in Seq(Chain!Version),
           client.base \in Nat, client' = client,
           Len(target') >= Len(target), \A i \in 1 .. Len(target) : target'[i] = target[i]
    PROVE  ClientOK'
<1>1. client.base <= Len(target) /\ Len(target) <= Len(target')
  BY DEF ClientOK
<1>2. client.base # 0 => target'[client.base] = target[client.base]
  BY <1>1
<1> QED
  BY <1>1, <1>2 DEF ClientOK

\* A step of the publisher that neither commits nor sends.
LEMMA PublisherOnly ==
    ASSUME ChainInv, UNCHANGED <<target, net, client>>,
           publisher' \in PublisherType,
           br' \in [failures : Nat, open : BOOLEAN], BreakerOK', PublisherOK'
    PROVE  ChainInv'
<1>1. ChainTyped'
  BY DEF ChainInv, ChainTyped, PublisherType
<1>2. Ascending'
  BY DEF ChainInv, Ascending
<1>3. \A i \in 1 .. Len(net') : MessageOK(net[i])'
  BY DEF ChainInv, MessageOK, Committed
<1>4. ClientOK'
  BY DEF ChainInv, ClientOK
<1> QED
  BY <1>1, <1>2, <1>3, <1>4 DEF ChainInv

\* The breaker's bookkeeping.
LEMMA WindowRecorded ==
    ASSUME br \in [failures : Nat, open : BOOLEAN], BreakerOK, Chain!ConstantsAssumption,
           Chain!RecordSuccess \/ Chain!RecordFailure
    PROVE  br' \in [failures : Nat, open : BOOLEAN] /\ BreakerOK'
<1>1. CASE Chain!RecordSuccess
  BY <1>1 DEF BreakerOK, Chain!RecordSuccess
<1>2. CASE Chain!RecordFailure
  <2> PICK n \in Nat, o \in BOOLEAN : n = br.failures /\ o = br.open
    OBVIOUS
  <2>1. br' = [failures |-> n + 1, open |-> o \/ (Threshold > 0 /\ n + 1 >= Threshold)]
    BY <1>2 DEF Chain!RecordFailure
  <2>2. br'.failures = n + 1 /\ br'.open = (o \/ (Threshold > 0 /\ n + 1 >= Threshold))
    BY <2>1
  <2>3. br' \in [failures : Nat, open : BOOLEAN]
    BY <2>1
  <2>4. o => Threshold > 0 /\ n >= Threshold
    BY DEF BreakerOK
  <2>5. Threshold \in Nat
    BY DEF Chain!ConstantsAssumption
  <2>6. BreakerOK'
    BY <2>2, <2>4, <2>5 DEF BreakerOK
  <2> QED
    BY <2>3, <2>6
<1> QED
  BY <1>1, <1>2

\* The versions of a poll.
LEMMA Polled ==
    ASSUME Chain!ConstantsAssumption, NEW from \in Nat, NEW v \in Chain!Batches(from)
    PROVE  v \in Chain!Data /\ v \in Chain!Version /\ v \in Nat \ {0} /\ v >= from
BY DEF Chain!ConstantsAssumption, Chain!Batches, Chain!Data, Chain!Version

\* Rendering a batch, whether it succeeds, fails or is paused.
LEMMA Renders ==
    ASSUME ChainInv, Chain!ConstantsAssumption,
           Chain!Render \/ Chain!RenderPaused \/ Chain!RenderFails
    PROVE  ChainInv'
<1>1. PICK through \in Chain!Batches(publisher.cursor), pending \in {"none", "full", "capped"},
           tried \in BOOLEAN :
        /\ publisher.pc = "idle"
        /\ publisher' = [publisher EXCEPT !.pc = "rendered", !.through = through,
                                          !.pending = pending, !.tried = tried]
        /\ UNCHANGED <<target, net, client>>
        /\ br' = br \/ Chain!RecordFailure
  BY DEF Chain!Render, Chain!RenderPaused, Chain!RenderFails
<1>2. ChainTyped /\ BreakerOK /\ PublisherOK
  BY DEF ChainInv
<1>3. through \in Chain!Data /\ through \in Nat \ {0} /\ through >= publisher.cursor
  BY <1>1, <1>2, Polled DEF ChainTyped, PublisherType
<1>4. br' \in [failures : Nat, open : BOOLEAN] /\ BreakerOK'
  BY <1>1, <1>2, WindowRecorded DEF ChainTyped, PublisherType, BreakerOK
<1>5. Chain!Stored' = Chain!Stored
  BY <1>1 DEF Chain!Stored
<1>6. PublisherOK'
  BY <1>1, <1>2, <1>3, <1>5 DEF PublisherOK, ChainTyped, PublisherType
<1> QED
  BY <1>1, <1>2, <1>3, <1>4, <1>6, PublisherOnly DEF ChainTyped, PublisherType

\* Once a batch is settled, whatever became of its message, the next follows it.
LEMMA SettledFollows ==
    ASSUME ChainTyped, PublisherOK, Ascending, Chain!ConstantsAssumption, publisher.pc = "sending",
           NEW stat \in {"skipped", "failed", "sent"}, publisher' = Chain!Settled(stat),
           target' = target
    PROVE  PublisherOK'
<1>1. publisher.through \in Nat \ {0}
  BY DEF PublisherOK, Chain!Data, Chain!Version
<1>2. /\ publisher'.pc = "idle" /\ publisher'.cursor = publisher.through + 1
      /\ publisher'.prev = publisher.through
  BY DEF Chain!Settled, ChainTyped, PublisherType
<1>3. Chain!Stored' = Chain!Stored
  BY DEF Chain!Stored
<1>4. Mode = "commit" => publisher.through >= Chain!Stored
  <2> SUFFICES ASSUME Mode = "commit" PROVE publisher.through >= Chain!Stored
    OBVIOUS
  <2>1. Committed(publisher.cursor, publisher.through, publisher.version)
    BY DEF PublisherOK
  <2>2. publisher.version = Len(target)
    BY DEF PublisherOK
  <2> QED
    BY <1>1, <2>1, <2>2, StoredIsLargest DEF Committed, ChainTyped, PublisherType
<1>5. Chain!Stored \in Nat
  BY StoredIsLargest DEF ChainTyped, PublisherType
<1> QED
  BY <1>1, <1>2, <1>3, <1>4, <1>5 DEF PublisherOK

\* The steps of the publisher without a commit or a message.
LEMMA Idles ==
    ASSUME ChainInv, Chain!ConstantsAssumption,
           \/ Chain!NearTimeReady \/ Chain!NearTimeSkips \/ Chain!SendNothing
           \/ Chain!CoolDown \/ Chain!Reopen
    PROVE  ChainInv'
<1>1. ChainTyped /\ BreakerOK /\ PublisherOK /\ Ascending
  BY DEF ChainInv
<1>2. CASE Chain!NearTimeReady
  <2>1. PublisherOK'
    BY <1>1, <1>2 DEF PublisherOK, Chain!NearTimeReady, Chain!None, ChainTyped, PublisherType
  <2> QED
    BY <1>1, <1>2, <2>1, PublisherOnly DEF ChainTyped, PublisherType, Chain!NearTimeReady, Chain!None, BreakerOK
<1>3. CASE Chain!NearTimeSkips
  <2>1. PICK through \in Chain!Batches(publisher.cursor) :
          /\ Mode = "near" /\ publisher.pc = "idle"
          /\ publisher' = [publisher EXCEPT !.cursor = through + 1, !.prev = through]
          /\ UNCHANGED <<target, br, net, client>>
    BY <1>3 DEF Chain!NearTimeSkips
  <2>2. through \in Nat \ {0}
    BY <1>1, Polled DEF ChainTyped, PublisherType
  <2>3. PublisherOK'
    BY <1>1, <2>1, <2>2 DEF PublisherOK, ChainTyped, PublisherType
  <2>4. BreakerOK' /\ br' \in [failures : Nat, open : BOOLEAN]
    BY <1>1, <2>1 DEF BreakerOK, ChainTyped, PublisherType
  <2>5. publisher \in PublisherType /\ through + 1 \in Nat \ {0} /\ through \in Nat
    BY <1>1, <2>2 DEF ChainTyped
  <2>6. publisher' \in PublisherType
    BY <2>1, <2>5 DEF PublisherType
  <2> QED
    BY <2>1, <2>3, <2>4, <2>6, PublisherOnly
<1>4. CASE Chain!SendNothing
  <2> PICK stat \in {"skipped", "failed"} : publisher' = Chain!Settled(stat)
    BY <1>4 DEF Chain!SendNothing
  <2>1. UNCHANGED <<target, br, net, client>> /\ publisher.pc = "sending"
    BY <1>4 DEF Chain!SendNothing
  <2>2. publisher.through \in Nat \ {0}
    BY <1>1, <2>1 DEF PublisherOK, Chain!Data, Chain!Version
  <2>3. PublisherOK'
    BY <1>1, <2>1, <2>2, SettledFollows
  <2>4. BreakerOK' /\ br' \in [failures : Nat, open : BOOLEAN]
    BY <1>1, <2>1 DEF BreakerOK, ChainTyped, PublisherType
  <2>5. publisher \in PublisherType /\ publisher.through + 1 \in Nat \ {0}
        /\ publisher.through \in Nat
    BY <1>1, <2>2 DEF ChainTyped
  <2>6. publisher' \in PublisherType
    BY <2>5 DEF PublisherType, Chain!Settled, Chain!None
  <2> QED
    BY <2>1, <2>3, <2>4, <2>6, PublisherOnly
<1>5. CASE Chain!CoolDown
  <2>1. PublisherOK' /\ BreakerOK'
    BY <1>1, <1>5 DEF PublisherOK, Chain!CoolDown, Chain!Stored, Committed, ChainTyped, PublisherType, BreakerOK
  <2> QED
    BY <1>1, <1>5, <2>1, PublisherOnly DEF ChainTyped, PublisherType, Chain!CoolDown
<1>6. CASE Chain!Reopen
  <2>1. Chain!Stored \in Nat
    BY <1>1, StoredIsLargest DEF ChainTyped, PublisherType
  <2>2. /\ publisher' = Chain!Opened /\ br' = [failures |-> 0, open |-> FALSE]
        /\ UNCHANGED <<target, net, client>>
    BY <1>6 DEF Chain!Reopen
  <2>3. Chain!Stored' = Chain!Stored
    BY <2>2 DEF Chain!Stored
  <2>4. PublisherOK' /\ BreakerOK'
    BY <2>1, <2>2, <2>3 DEF PublisherOK, BreakerOK, Chain!Opened, Chain!None
  <2>5. Chain!Stored + 1 \in Nat \ {0}
    BY <2>1
  <2>6. publisher' \in PublisherType
    BY <2>2, <2>5 DEF PublisherType, Chain!Opened, Chain!None
  <2>7. br' \in [failures : Nat, open : BOOLEAN]
    BY <2>2
  <2> QED
    BY <2>2, <2>4, <2>6, <2>7, PublisherOnly
<1> QED
  BY <1>2, <1>3, <1>4, <1>5, <1>6

\* A commit, the publisher's or that of the pipeline beside the near-time reader.
LEMMA Commits ==
    ASSUME ChainInv, Chain!ConstantsAssumption, Chain!CommitBatch \/ Chain!PipelineCommits
    PROVE  ChainInv'
<1>1. ChainTyped /\ BreakerOK /\ PublisherOK /\ Ascending /\ ClientOK
      /\ \A i \in 1 .. Len(net) : MessageOK(net[i])
  BY DEF ChainInv
<1>2. Chain!Stored \in Nat /\ (target # << >> => Chain!Stored = target[Len(target)])
  BY <1>1, StoredIsLargest DEF ChainTyped, PublisherType
<1>3. PICK t \in Chain!Version : t > Chain!Stored /\ target' = Append(target, t)
  <2>1. CASE Chain!CommitBatch
    <3>1. publisher.through \in Chain!Version /\ publisher.through > Chain!Stored
      BY <1>1, <1>2, <2>1 DEF Chain!CommitBatch, PublisherOK, Chain!Data, Chain!Version, ChainTyped, PublisherType
    <3> QED
      BY <2>1, <3>1 DEF Chain!CommitBatch
  <2>2. CASE Chain!PipelineCommits
    BY <1>2, <2>2, Polled DEF Chain!PipelineCommits
  <2> QED
    BY <2>1, <2>2
<1>4. UNCHANGED <<br, net, client>>
  BY DEF Chain!CommitBatch, Chain!PipelineCommits
<1> PICK n : n = Len(target)
  OBVIOUS
<1>5. /\ target' \in Seq(Chain!Version) /\ Ascending' /\ Len(target') = n + 1 /\ n \in Nat
      /\ \A i \in 1 .. n : target'[i] = target[i]
      /\ target'[n + 1] = t
      /\ \A f, u, v : Committed(f, u, v) => Committed(f, u, v)'
  BY <1>1, <1>3, CommitExtends DEF ChainTyped, PublisherType
<1>6. ClientOK'
  BY <1>1, <1>4, <1>5, ClientStays DEF ChainTyped, PublisherType
<1>7. \A i \in 1 .. Len(net') : MessageOK(net[i])'
  BY <1>1, <1>4, <1>5 DEF MessageOK
<1>8. BreakerOK'
  BY <1>1, <1>4 DEF BreakerOK
<1>9. ChainTyped' /\ PublisherOK'
  <2>1. CASE Chain!CommitBatch
    <3>1. /\ publisher' = [publisher EXCEPT !.pc = "sending", !.version = n + 1]
          /\ publisher.pc = "rendered" /\ Mode = "commit" /\ t = publisher.through
      <4>1. target' = Append(target, publisher.through)
        BY <2>1 DEF Chain!CommitBatch
      <4> QED
        BY <1>5, <2>1, <4>1 DEF Chain!CommitBatch
    <3>2. n >= 1 => publisher.cursor > target[n]
      BY SMTT(20), <1>1, <1>2, <1>5, <3>1 DEF PublisherOK, ChainTyped, PublisherType
    <3>3. /\ publisher'.pc = "sending" /\ publisher'.version = n + 1
          /\ publisher'.cursor = publisher.cursor /\ publisher'.through = publisher.through
          /\ publisher'.prev = publisher.prev
      BY <1>1, <3>1 DEF ChainTyped, PublisherType
    <3>4. Committed(publisher.cursor, publisher.through, publisher.version)'
      <4>1. target'[n + 1] = publisher.through /\ (n + 1 > 1 => publisher.cursor > target'[n])
        BY <1>5, <3>1, <3>2
      <4> QED
        BY <1>5, <3>3, <4>1 DEF Committed
    <3>5. PublisherOK'
      BY <1>1, <1>5, <3>1, <3>3, <3>4 DEF PublisherOK
    <3>6. publisher' \in PublisherType
      <4>1. publisher \in PublisherType /\ n + 1 \in Nat
        BY <1>1, <1>5 DEF ChainTyped
      <4> QED
        BY <3>1, <4>1 DEF PublisherType
    <3>7. ChainTyped'
      BY <1>1, <1>4, <1>5, <3>6 DEF ChainTyped, PublisherType
    <3> QED
      BY <3>5, <3>7
  <2>2. CASE Chain!PipelineCommits
    BY <1>1, <1>4, <1>5, <2>2 DEF ChainTyped, PublisherType, PublisherOK, Chain!PipelineCommits
  <2> QED
    BY <2>1, <2>2
<1> QED
  BY <1>5, <1>6, <1>7, <1>8, <1>9 DEF ChainInv

\* A message sent: on its way it says what the publisher knew of its batch.
LEMMA EnvelopeOK ==
    ASSUME ChainInv, Chain!ConstantsAssumption, publisher.pc = "sending"
    PROVE  Chain!Envelope \in Envelope /\ MessageOK(Chain!Envelope)
<1>1. publisher \in PublisherType /\ PublisherOK
  BY DEF ChainInv, ChainTyped
<1>2. /\ Chain!Envelope.prev = publisher.prev /\ Chain!Envelope.from = publisher.cursor
      /\ Chain!Envelope.through = publisher.through /\ Chain!Envelope.version = publisher.version
  BY DEF Chain!Envelope
<1>3. publisher.through \in Chain!Data
  BY <1>1 DEF PublisherOK
<1>4. Chain!Envelope \in Envelope
  BY <1>1, <1>3 DEF Chain!Envelope, Envelope, PublisherType
<1>5. MessageOK(Chain!Envelope)
  BY <1>1, <1>2 DEF MessageOK, PublisherOK
<1> QED
  BY <1>4, <1>5

\* Sending, whether the answer says that it arrived or not.
LEMMA Sends ==
    ASSUME ChainInv, Chain!ConstantsAssumption, Chain!Send \/ Chain!SendFails
    PROVE  ChainInv'
<1>1. ChainTyped /\ BreakerOK /\ PublisherOK /\ Ascending /\ ClientOK
      /\ \A i \in 1 .. Len(net) : MessageOK(net[i])
  BY DEF ChainInv
<1>2. PICK stat \in {"sent", "failed"} : publisher' = Chain!Settled(stat)
  BY DEF Chain!Send, Chain!SendFails
<1>3. /\ publisher.pc = "sending"
      /\ net' = net \/ net' = Append(net, Chain!Envelope)
      /\ Chain!RecordSuccess \/ Chain!RecordFailure
      /\ UNCHANGED <<target, client>>
  BY DEF Chain!Send, Chain!SendFails
<1>4. br' \in [failures : Nat, open : BOOLEAN] /\ BreakerOK'
  BY <1>1, <1>3, WindowRecorded DEF ChainTyped
<1>5. Chain!Envelope \in Envelope /\ MessageOK(Chain!Envelope)
  BY <1>3, EnvelopeOK
<1>6. PublisherOK'
  BY <1>1, <1>2, <1>3, SettledFollows
<1>7. publisher.through \in Nat \ {0}
  BY <1>1, <1>3 DEF PublisherOK, Chain!Data, Chain!Version
<1>8. publisher' \in PublisherType
  <2>1. publisher \in PublisherType /\ publisher.through + 1 \in Nat \ {0}
        /\ publisher.through \in Nat
    BY <1>1, <1>7 DEF ChainTyped
  <2> QED
    BY <1>2, <2>1 DEF PublisherType, Chain!Settled, Chain!None
<1>9. net' \in Seq(Envelope) /\ \A i \in 1 .. Len(net') : MessageOK(net'[i])
  <2> PICK e \in Envelope : e = Chain!Envelope
    BY <1>5
  <2>1. net \in Seq(Envelope) /\ MessageOK(e)
    BY <1>1, <1>5 DEF ChainTyped
  <2>2. CASE net' = net
    BY <1>1, <2>1, <2>2
  <2>3. CASE net' = Append(net, e)
    <3>1. net' \in Seq(Envelope) /\ Len(net') = Len(net) + 1 /\ net'[Len(net) + 1] = e
          /\ \A i \in 1 .. Len(net) : net'[i] = net[i]
      BY <2>1, <2>3
    <3>2. \A i \in 1 .. Len(net') : i \in 1 .. Len(net) \/ i = Len(net) + 1
      BY <2>1, <3>1
    <3> QED
      BY <1>1, <2>1, <3>1, <3>2
  <2> QED
    BY <1>3, <2>2, <2>3
<1>10. \A m : MessageOK(m) => MessageOK(m)'
  BY <1>3 DEF MessageOK, Committed
<1>11. \A i \in 1 .. Len(net') : MessageOK(net[i])'
  BY <1>9, <1>10
<1>12. ClientOK' /\ Ascending'
  BY <1>1, <1>3 DEF ClientOK, Ascending
<1>13. ChainTyped'
  BY <1>1, <1>3, <1>4, <1>8, <1>9 DEF ChainTyped
<1> QED
  BY <1>4, <1>6, <1>11, <1>12, <1>13 DEF ChainInv

ClientType ==
    [base : Nat, held : Nat, last : Nat, first : Nat, applied : [Chain!Version -> Nat]]

\* A client that joins has applied nothing, and holds what its baseline holds.
LEMMA JoinedOK ==
    ASSUME ChainTyped, Ascending, Chain!ConstantsAssumption
    PROVE  /\ Chain!Joined(target) \in ClientType
           /\ Chain!Joined(target).base = Len(target)
           /\ Chain!Joined(target).held = IF Len(target) = 0 THEN 0 ELSE target[Len(target)]
           /\ Chain!Joined(target).last = 0 /\ Chain!Joined(target).first = 0
           /\ \A v \in Chain!Version : Chain!Joined(target).applied[v] = 0
<1>1. Len(target) = 0 <=> target = << >>
  BY DEF ChainTyped
<1>2. Len(target) \in Nat
  BY DEF ChainTyped
<1>3. (IF target = << >> THEN 0 ELSE target[Len(target)]) \in Nat
  BY StoredIsLargest DEF ChainTyped, Chain!Stored, Chain!None
<1> QED
  BY <1>1, <1>2, <1>3 DEF Chain!Joined, Chain!None, ClientType

\* A step of the client, or the loss of a message.
LEMMA ClientOnly ==
    ASSUME ChainInv, UNCHANGED <<target, publisher, br>>, net' = net \/ (net # << >> /\ net' = Tail(net)),
           client' \in ClientType, ClientOK'
    PROVE  ChainInv'
<1>1. ChainTyped /\ \A i \in 1 .. Len(net) : MessageOK(net[i])
  BY DEF ChainInv
<1>2. net' \in Seq(Envelope) /\ \A i \in 1 .. Len(net') : MessageOK(net'[i])
  <2>1. CASE net' = net
    BY <1>1, <2>1 DEF ChainTyped
  <2>2. CASE net # << >> /\ net' = Tail(net)
    <3>1. net \in Seq(Envelope)
      BY <1>1 DEF ChainTyped
    <3>2. net' \in Seq(Envelope) /\ Len(net') = Len(net) - 1
          /\ \A i \in 1 .. Len(net') : net'[i] = net[i + 1] /\ i + 1 \in 1 .. Len(net)
      BY <2>2, <3>1
    <3> QED
      BY <1>1, <3>2
  <2> QED
    BY <2>1, <2>2
<1>3. \A m : MessageOK(m) => MessageOK(m)'
  BY DEF MessageOK, Committed
<1>4. \A i \in 1 .. Len(net') : MessageOK(net[i])'
  BY <1>2, <1>3
<1>5. ChainTyped'
  BY <1>1, <1>2 DEF ChainTyped, ClientType
<1>6. Ascending' /\ BreakerOK' /\ PublisherOK'
  BY DEF ChainInv, Ascending, BreakerOK, PublisherOK, Chain!Stored, Committed
<1> QED
  BY <1>4, <1>5, <1>6 DEF ChainInv

\* The client's own steps: it joins, a message is lost on the way, or it is received.
LEMMA Hears ==
    ASSUME ChainInv, Chain!ConstantsAssumption, Chain!Join \/ Chain!Lose \/ Chain!Receive
    PROVE  ChainInv'
<1>1. ChainTyped /\ Ascending /\ ClientOK /\ \A i \in 1 .. Len(net) : MessageOK(net[i])
  BY DEF ChainInv
<1>2. client \in ClientType /\ net \in Seq(Envelope) /\ target \in Seq(Chain!Version)
  BY <1>1 DEF ChainTyped, ClientType
<1> PICK j : j = Chain!Joined(target)
  OBVIOUS
<1>3. /\ j \in ClientType /\ j.base = Len(target)
      /\ j.held = IF Len(target) = 0 THEN 0 ELSE target[Len(target)]
      /\ j.last = 0 /\ j.first = 0 /\ \A v \in Chain!Version : j.applied[v] = 0
  BY <1>1, JoinedOK
<1>4. ASSUME target' = target, client' = client \/ client' = j
      PROVE  client' \in ClientType /\ ClientOK'
  <2>1. CASE client' = client
    BY <1>1, <1>2, <1>4, <2>1 DEF ClientOK
  <2>2. CASE client' = j
    BY <1>2, <1>3, <1>4, <2>2 DEF ClientOK
  <2> QED
    BY <1>4, <2>1, <2>2
<1>5. CASE Chain!Join
  BY <1>4, <1>5, ClientOnly DEF Chain!Join
<1>6. CASE Chain!Lose
  BY <1>4, <1>6, ClientOnly DEF Chain!Lose
<1>7. CASE Chain!Receive
  <2> PICK m : m = net[1]
    OBVIOUS
  <2>1. net # << >> /\ net' = Tail(net) /\ UNCHANGED <<target, publisher, br>>
    BY <1>7 DEF Chain!Receive
  <2>2. m \in Envelope /\ MessageOK(m)
    BY <1>1, <1>2, <2>1
  <2>3. client' = IF Chain!InBaseline(m) \/ Chain!Replay(m) THEN client
                  ELSE IF Chain!Gap(m) THEN j
                  ELSE IF m.complete THEN Chain!Apply(m)
                  ELSE [j EXCEPT !.last = m.through, !.first = m.through + 1]
    BY <1>7 DEF Chain!Receive
  <2>4. m.through \in Nat \ {0} /\ m.from \in Nat \ {0} /\ m.from <= m.through /\ m.prev \in Nat
    BY <2>2 DEF Envelope, MessageOK, Chain!Data, Chain!Version
  <2>5. CASE Chain!InBaseline(m) \/ Chain!Replay(m) \/ Chain!Gap(m)
    <3>1. CASE Chain!InBaseline(m) \/ Chain!Replay(m)
      <4>1. client' = client
        BY <2>3, <3>1
      <4> QED
        BY <1>4, <2>1, <4>1, ClientOnly
    <3>2. CASE Chain!Gap(m) /\ ~(Chain!InBaseline(m) \/ Chain!Replay(m))
      <4>1. client' = j
        BY <2>3, <3>2
      <4> QED
        BY <1>4, <2>1, <4>1, ClientOnly
    <3> QED
      BY <2>5, <3>1, <3>2
  <2>6. CASE ~Chain!InBaseline(m) /\ ~Chain!Replay(m) /\ ~Chain!Gap(m) /\ ~m.complete
    <3>1. client' = [j EXCEPT !.last = m.through, !.first = m.through + 1]
      BY <2>3, <2>6
    <3>2. /\ client'.base = j.base /\ client'.held = j.held /\ client'.applied = j.applied
          /\ client'.last = m.through /\ client'.first = m.through + 1
          /\ client' \in ClientType
      <4>1. m.through \in Nat /\ m.through + 1 \in Nat
        BY <2>4
      <4> QED
        BY <1>3, <3>1, <4>1 DEF ClientType
    <3>3. \A v \in Chain!Version : v \in Nat
      BY DEF Chain!Version, Chain!ConstantsAssumption
    <3>4. ClientOK'
      BY <1>2, <1>3, <2>1, <2>4, <3>2, <3>3 DEF ClientOK
    <3> QED
      BY <2>1, <3>2, <3>4, ClientOnly
  <2>7. CASE ~Chain!InBaseline(m) /\ ~Chain!Replay(m) /\ ~Chain!Gap(m) /\ m.complete
    <3>1. client' = Chain!Apply(m)
      BY <2>3, <2>7
    <3>2. /\ client'.base = client.base /\ client'.held = client.held
          /\ client'.last = m.through
          /\ client'.first = IF client.first = 0 THEN m.from ELSE client.first
          /\ client'.applied = [v \in Chain!Version |->
               IF v \in m.from .. m.through THEN client.applied[v] + 1 ELSE client.applied[v]]
      BY <1>2, <3>1 DEF ClientType, Chain!Apply, Chain!None
    <3>3. client'.applied \in [Chain!Version -> Nat]
      <4>1. \A v \in Chain!Version : client.applied[v] \in Nat
        BY <1>2 DEF ClientType
      <4> QED
        BY <3>2, <4>1
    <3>4. client' \in ClientType
      BY <1>2, <2>4, <3>1, <3>3 DEF ClientType, Chain!Apply, Chain!None
    <3>5. client.last # 0 => m.prev = client.last /\ m.from = client.last + 1
      BY <2>2, <2>7 DEF Chain!Gap, MessageOK, Chain!None
    <3>6. \A v \in Chain!Version : v \in Nat
      BY DEF Chain!Version, Chain!ConstantsAssumption
    <3>7. Mode = "commit" => m.from > client.held
      <4> SUFFICES ASSUME Mode = "commit" PROVE m.from > client.held
        OBVIOUS
      <4>1. m.version \in 1 .. Len(target) /\ (m.version > 1 => m.from > target[m.version - 1])
        BY <2>2 DEF MessageOK, Committed
      <4>2. m.version > client.base
        <5>1. m.version # 0 /\ m.version \in Nat /\ client.base \in Nat
          <6>1. Len(target) \in Nat
            BY <1>2
          <6>2. m.version \in 1 .. Len(target)
            BY <4>1
          <6>3. client.base \in Nat
            BY <1>2 DEF ClientType
          <6>4. \A k \in Nat : \A i \in 1 .. k : i # 0 /\ i \in Nat
            OBVIOUS
          <6> QED
            BY <6>1, <6>2, <6>3, <6>4
        <5> QED
          BY <2>7, <5>1 DEF Chain!InBaseline, Chain!None
      <4>3. client.base \in Nat /\ client.base <= Len(target)
        BY <1>1, <1>2 DEF ClientType, ClientOK
      <4>4. CASE client.base = 0
        BY <1>1, <2>4, <4>4 DEF ClientOK
      <4>5. CASE client.base # 0
        <5>1. client.base \in 1 .. Len(target) /\ m.version - 1 \in 1 .. Len(target)
              /\ client.base <= m.version - 1
          BY <4>1, <4>2, <4>3, <4>5
        <5>2. target[client.base] <= target[m.version - 1]
          <6>1. target[client.base] \in Nat
            BY <1>2, <5>1 DEF Chain!Version, Chain!ConstantsAssumption
          <6>2. CASE client.base < m.version - 1
            <7> PICK a \in 1 .. Len(target), b \in 1 .. Len(target) :
                   a = client.base /\ b = m.version - 1
              BY <5>1
            <7>1. target[a] < target[b]
              BY <1>1, <6>2 DEF Ascending
            <7>2. target[b] \in Nat
              BY SMTT(20), <1>2 DEF Chain!Version, Chain!ConstantsAssumption
            <7> QED
              BY <6>1, <7>1, <7>2
          <6>3. CASE client.base = m.version - 1
            BY <6>1, <6>3
          <6> QED
            BY <5>1, <6>2, <6>3
        <5>3. target[client.base] \in Nat /\ target[m.version - 1] \in Nat
          <6>1. \A k \in 1 .. Len(target) : target[k] \in Nat
            BY <1>2, <3>6
          <6> QED
            BY <5>1, <6>1
        <5> QED
          BY <1>1, <2>4, <4>1, <4>5, <5>1, <5>2, <5>3 DEF ClientOK
      <4> QED
        BY <4>4, <4>5
    <3>8. client.first \in Nat /\ client.last \in Nat /\ client.held \in Nat
      BY <1>2 DEF ClientType
    <3>9. client'.first # 0 /\ client'.first <= client'.last + 1
      BY <1>1, <2>4, <3>2, <3>5, <3>8 DEF ClientOK
    <3>10. \A v \in Chain!Version :
              client'.applied[v] = IF v \in client'.first .. client'.last THEN 1 ELSE 0
      <4>1. CASE client.last = 0
        BY <1>1, <2>4, <3>2, <3>6, <4>1 DEF ClientOK
      <4>2. CASE client.last # 0
        <5>1. client.first # 0 /\ client'.first = client.first /\ client'.last = m.through
              /\ client.first <= client.last + 1
          BY <1>1, <3>2, <4>2 DEF ClientOK
        <5>2. ASSUME NEW v \in Chain!Version
              PROVE client'.applied[v] = IF v \in client'.first .. client'.last THEN 1 ELSE 0
          <6>1. client.applied[v] = IF v \in client.first .. client.last THEN 1 ELSE 0
            BY <1>1, <4>2 DEF ClientOK
          <6>2. client'.applied[v] =
                  IF v \in m.from .. m.through THEN client.applied[v] + 1 ELSE client.applied[v]
            BY <3>2
          <6> QED
            BY <2>4, <3>5, <3>6, <3>8, <4>2, <5>1, <6>1, <6>2
        <5> QED
          BY <5>2
      <4> QED
        BY <4>1, <4>2
    <3>11. Mode = "commit" /\ client'.first # 0 /\ client'.first <= client'.last
             => client'.first > client'.held
      BY <1>1, <2>4, <3>2, <3>5, <3>7, <3>8 DEF ClientOK
    <3>12. ClientOK'
      <4>1. client'.base <= Len(target') /\ client'.held = IF client'.base = 0 THEN 0 ELSE target'[client'.base]
        BY <1>1, <2>1, <3>2 DEF ClientOK
      <4> QED
        BY <2>4, <3>2, <3>9, <3>10, <3>11, <4>1 DEF ClientOK
    <3> QED
      BY <2>1, <3>4, <3>12, ClientOnly
  <2> QED
    BY <2>5, <2>6, <2>7
<1> QED
  BY <1>5, <1>6, <1>7

\* It holds initially,
LEMMA ChainInit == Chain!ConstantsAssumption /\ Chain!Init => ChainInv
<1> SUFFICES ASSUME Chain!ConstantsAssumption, Chain!Init PROVE ChainInv
  OBVIOUS
<1>1. /\ target = << >> /\ net = << >> /\ publisher = Chain!Opened
      /\ br = [failures |-> 0, open |-> FALSE] /\ client = Chain!Joined(target)
  BY DEF Chain!Init
<1>2. Chain!Stored = 0
  BY <1>1 DEF Chain!Stored, Chain!None
<1>3. Len(target) = 0 /\ Len(net) = 0
  BY <1>1
<1>4. Ascending /\ BreakerOK
  BY <1>1, <1>3 DEF Ascending, BreakerOK
<1>5. publisher \in PublisherType /\ PublisherOK
  BY <1>1, <1>2 DEF Chain!Opened, Chain!None, PublisherOK, PublisherType
<1>6. client = [base |-> 0, held |-> 0, last |-> 0, first |-> 0, applied |-> [v \in Chain!Version |-> 0]]
  BY <1>1, <1>3 DEF Chain!Joined, Chain!None
<1>7. ClientOK
  BY <1>3, <1>6 DEF ClientOK
<1>8. ChainTyped
  BY <1>1, <1>5, <1>6 DEF ChainTyped, ClientType
<1> QED
  BY <1>3, <1>4, <1>5, <1>7, <1>8 DEF ChainInv

\* and every step preserves it.
LEMMA ChainStep ==
    Chain!ConstantsAssumption /\ ChainInv /\ [Chain!Next]_(Chain!vars) => ChainInv'
<1> SUFFICES ASSUME Chain!ConstantsAssumption, ChainInv, [Chain!Next]_(Chain!vars) PROVE ChainInv'
  OBVIOUS
<1>1. CASE UNCHANGED Chain!vars
  <2>1. UNCHANGED <<target, publisher, br, net, client>>
    BY <1>1 DEF Chain!vars
  <2> QED
    BY <2>1 DEF ChainInv, ChainTyped, Ascending, BreakerOK, PublisherOK, MessageOK, Committed,
                ClientOK, Chain!Stored
<1>2. CASE Chain!Next
  BY <1>2, Renders, Idles, Commits, Sends, Hears DEF Chain!Next
<1> QED
  BY <1>1, <1>2

\* Theorem. The inductive invariant holds always.
THEOREM ChainInvariance ==
    ASSUME Chain!ConstantsAssumption
    PROVE  Chain!Spec => []ChainInv
<1>1. Chain!Init => ChainInv
  BY ChainInit
<1>2. ChainInv /\ [Chain!Next]_(Chain!vars) => ChainInv'
  BY ChainStep
<1> QED
  BY <1>1, <1>2, PTL DEF Chain!Spec

\* Theorem. Every variable of PublishChain has its type, and an envelope names a
\* batch of the source behind the one before it (publish/mod.rs).
THEOREM ChainTypes ==
    ASSUME Chain!ConstantsAssumption
    PROVE  Chain!Spec => []Chain!TypeOK
<1>1. ChainInv => Chain!TypeOK
  <2> SUFFICES ASSUME ChainInv PROVE Chain!TypeOK
    OBVIOUS
  <2>1. \A i \in 1 .. Len(target) - 1 : target[i] < target[i + 1]
    BY SMTT(20) DEF ChainInv, ChainTyped, Ascending
  <2>2. \A i \in 1 .. Len(net) : net[i].from <= net[i].through /\ net[i].prev < net[i].from
    <3> SUFFICES ASSUME NEW i \in 1 .. Len(net)
                 PROVE net[i].from <= net[i].through /\ net[i].prev < net[i].from
      OBVIOUS
    <3>1. net[i] \in Envelope /\ MessageOK(net[i])
      BY DEF ChainInv, ChainTyped
    <3> QED
      BY <3>1 DEF Envelope, MessageOK
  <2>3. publisher.pc # "idle" => publisher.through \in Chain!Data /\ publisher.through >= publisher.cursor
    BY DEF ChainInv, ChainTyped, PublisherType, PublisherOK, Chain!Data, Chain!Version
  <2> QED
    BY <2>1, <2>2, <2>3 DEF Chain!TypeOK, ChainInv, ChainTyped, BreakerOK, PublisherType
<1> QED
  BY <1>1, ChainInvariance, PTL

\* Theorem. Whatever was lost, skipped by the breaker or replayed after a restart,
\* a client has applied every version from the first message after its baseline to
\* the last (Pipeline::publish, NearTimeReader::poll: prev_published_through).
THEOREM ChainHasNoHole ==
    ASSUME Chain!ConstantsAssumption
    PROVE  Chain!Spec => []Chain!NoHole
<1>1. ChainInv => Chain!NoHole
  BY DEF ChainInv, ClientOK, Chain!NoHole, Chain!None, Chain!Data
<1> QED
  BY <1>1, ChainInvariance, PTL

\* Theorem. No version's rows are applied twice, nor on top of a baseline that
\* holds them (target_version, the offset a restart resumes from).
THEOREM AppliedAtMostOnce ==
    ASSUME Chain!ConstantsAssumption
    PROVE  Chain!Spec => []Chain!AppliedOnce
<1>1. ChainInv => Chain!AppliedOnce
  <2> SUFFICES ASSUME ChainInv, NEW v \in Chain!Version
               PROVE  client.applied[v] <= 1 /\ (Mode = "commit" /\ client.applied[v] > 0 => v > client.held)
    BY DEF Chain!AppliedOnce
  <2>1. ClientOK /\ client.first \in Nat /\ client.last \in Nat /\ client.held \in Nat
    BY DEF ChainInv, ChainTyped
  <2>2. CASE client.last = 0
    BY <2>1, <2>2 DEF ClientOK
  <2>3. CASE client.last # 0
    BY <2>1, <2>3 DEF ClientOK, Chain!Version
  <2> QED
    BY <2>2, <2>3
<1> QED
  BY <1>1, ChainInvariance, PTL

-----------------------------------------------------------------------------
\* KafkaLag, for any number of partitions, offsets and holds and any intervals: a member
\* that says it is caught up has taken what its report knew of, and once-mode ends only
\* when nothing is left to read.
CONSTANTS Partition, MaxOffset, Interval, Idle, MaxHolds, Once, SlowCalls, Stuck
VARIABLES topicLog, stable, fetch, queue, app, nextOffset, quiet, polled, paused, blocked,
  docs, age, caughtUp, full, held, holds, stopAt, tops, phase

Reader == INSTANCE KafkaLag WITH log <- topicLog, next <- nextOffset, end <- stopAt

-----------------------------------------------------------------------------
(* What a reader knows of its topic: caught up, and the end of once-mode *)

Watermarks == [ls : Nat, fetch : Nat, app : Nat, queued : Nat]
Offsets == [Partition -> Nat]

ReaderTyped ==
  /\ topicLog \in [Partition -> Seq({"message", "marker"})]
  /\ stable \in Offsets /\ fetch \in Offsets /\ app \in Offsets /\ nextOffset \in Offsets
  /\ stopAt \in Offsets /\ quiet \in Offsets /\ polled \in Offsets /\ tops \in Offsets
  /\ queue \in [Partition -> Seq(Nat)]
  /\ paused \subseteq Partition /\ blocked \subseteq Stuck
  /\ docs = <<>> \/ \E w \in [Partition -> Watermarks] : docs = <<w>>
  /\ age \in 0 .. 2 * Interval + 1 /\ caughtUp \in BOOLEAN
  /\ full \in BOOLEAN /\ held \in BOOLEAN /\ holds \in 0 .. MaxHolds
  /\ phase \in {"top", "due", "sought", "recv", "feed", "commit", "done", "failed"}

(* No message from one offset up to another. *)
NoMessage(p, from, to) == \A o \in from .. to - 1 : topicLog[p][o + 1] # "message"

(* The offset that librdkafka hands on next. *)
AtHead(p) == fetch[p] - Len(queue[p])

(* librdkafka holds a run of offsets; of a partition that is not paused, what lies
   between the next one expected and that run are no messages. *)
PositionsHold ==
  \A p \in Partition :
    /\ stopAt[p] <= stable[p] /\ stable[p] <= Len(topicLog[p])
    /\ fetch[p] <= stable[p] /\ app[p] <= stable[p] /\ nextOffset[p] <= stable[p]
    /\ Len(queue[p]) <= fetch[p]
    /\ \A i \in 1 .. Len(queue[p]) : queue[p][i] = AtHead(p) + i - 1
    /\ p \notin paused => nextOffset[p] <= AtHead(p) /\ NoMessage(p, nextOffset[p], AtHead(p))
    /\ p \in blocked => queue[p] = <<>> /\ p \notin paused

(* A report under way was true of the partition as it is, unless the partition was
   sought since; and that was a moment ago. *)
ReportHolds ==
  /\ Once => docs = <<>>
  /\ docs # <<>> => \A p \in Partition :
       /\ docs[1][p].ls <= Len(topicLog[p])
       /\ p \notin paused /\ docs[1][p].queued = 0 /\ docs[1][p].fetch >= docs[1][p].ls =>
            \/ NoMessage(p, nextOffset[p], docs[1][p].ls)
            \/ quiet[p] = 0 /\ phase \in {"sought", "recv"}

(* Nothing is read while a batch is held, and what is being fed or committed is in the
   buffer. *)
HeldStops ==
  /\ held => full /\ Partition \subseteq paused \cup blocked
  /\ phase \in {"feed", "commit"} => full /\ ~held

(* The clocks. *)
ClocksHold ==
  /\ \A p \in Partition : quiet[p] <= Reader!Cap /\ polled[p] <= quiet[p]
  /\ Once /\ ~SlowCalls =>
       /\ ~full => \A p \in Partition \ blocked : quiet[p] = polled[p]
       /\ phase \in {"due", "sought"} => \A p \in Partition : tops[p] <= quiet[p]
       /\ Reader!OnceIsComplete

ReaderInv == ReaderTyped /\ PositionsHold /\ ReportHolds /\ HeldStops /\ ClocksHold

\* The smaller of two numbers.
LEMMA SmallerIs ==
  ASSUME NEW a \in Int, NEW b \in Int
  PROVE  Reader!Min({a, b}) = IF a <= b THEN a ELSE b
<1> DEFINE m == IF a <= b THEN a ELSE b
<1>1. m \in {a, b} /\ \A y \in {a, b} : m <= y OBVIOUS
<1>2. \A x \in {a, b} : (\A y \in {a, b} : x <= y) => x = m OBVIOUS
<1> QED BY <1>1, <1>2 DEF Reader!Min

\* The larger of the two intervals.
LEMMA CapIs ==
  ASSUME Reader!ConstantsAssumption
  PROVE  /\ Reader!Cap \in Nat \ {0} /\ Interval <= Reader!Cap /\ Idle <= Reader!Cap
         /\ Interval \in Nat \ {0} /\ Idle \in Nat \ {0} /\ MaxOffset \in Nat /\ MaxHolds \in Nat
         /\ Stuck \subseteq Partition /\ Once \in BOOLEAN
<1>1. /\ Interval \in Nat \ {0} /\ Idle \in Nat \ {0} /\ MaxOffset \in Nat /\ MaxHolds \in Nat
      /\ Stuck \subseteq Partition /\ Once \in BOOLEAN
  BY DEF Reader!ConstantsAssumption
<1> DEFINE m == IF Interval >= Idle THEN Interval ELSE Idle
<1>2. m \in {Interval, Idle} /\ \A y \in {Interval, Idle} : m >= y BY <1>1
<1>3. \A x \in {Interval, Idle} : (\A y \in {Interval, Idle} : x >= y) => x = m BY <1>1
<1>4. Reader!Cap = m BY <1>2, <1>3 DEF Reader!Cap, Reader!Max
<1> QED BY <1>1, <1>4

\* At first nothing is read, fetched or reported.
LEMMA ReaderStarts == ASSUME Reader!ConstantsAssumption, Reader!Init PROVE ReaderInv
<1> USE CapIs
<1>1. /\ topicLog \in [Partition -> Seq({"message", "marker"})]
      /\ \A p \in Partition : Len(topicLog[p]) \in Nat
  <2>1. <<>> \in Seq({"message", "marker"}) /\ <<"message">> \in Seq({"message", "marker"})
    OBVIOUS
  <2>2. topicLog \in [Partition -> {<<>>, <<"message">>}]
    BY DEF Reader!Init
  <2>3. topicLog \in [Partition -> Seq({"message", "marker"})] BY <2>1, <2>2
  <2> QED BY <2>3
<1>2. stable \in Offsets /\ stopAt \in Offsets
  BY <1>1 DEF Reader!Init, Offsets
<1>3. Reader!Zero \in Offsets BY DEF Reader!Zero, Offsets
<1>4. ReaderTyped
  <2>1. [p \in Partition |-> <<>>] \in [Partition -> Seq(Nat)] OBVIOUS
  <2>2. 2 * Interval + 1 \in 0 .. 2 * Interval + 1 OBVIOUS
  <2>3. queue \in [Partition -> Seq(Nat)] BY <2>1 DEF Reader!Init
  <2>4. fetch \in Offsets /\ app \in Offsets /\ nextOffset \in Offsets /\ quiet \in Offsets
        /\ polled \in Offsets /\ tops \in Offsets
    BY <1>3 DEF Reader!Init
  <2>5. /\ paused \subseteq Partition /\ blocked \subseteq Stuck /\ docs = <<>>
        /\ age \in 0 .. 2 * Interval + 1 /\ caughtUp \in BOOLEAN
        /\ full \in BOOLEAN /\ held \in BOOLEAN /\ holds \in 0 .. MaxHolds /\ phase = "top"
    <3>1. 0 \in 0 .. MaxHolds OBVIOUS
    <3> QED BY <2>2, <3>1, Zenon DEF Reader!Init
  <2> QED BY <1>1, <1>2, <2>3, <2>4, <2>5 DEF ReaderTyped
<1>5. PositionsHold
  <2> SUFFICES ASSUME NEW p \in Partition
               PROVE  /\ stopAt[p] = stable[p] /\ stable[p] = Len(topicLog[p]) /\ fetch[p] = 0 /\ app[p] = 0
                      /\ nextOffset[p] = 0 /\ queue[p] = <<>> /\ paused = {} /\ stable[p] \in Nat
    BY DEF PositionsHold, AtHead, NoMessage
  <2> QED BY <1>1 DEF Reader!Init, Reader!Zero
<1>6. ReportHolds /\ HeldStops BY DEF Reader!Init, ReportHolds, HeldStops
<1>7. ClocksHold BY DEF Reader!Init, Reader!Zero, ClocksHold, Reader!OnceIsComplete
<1> QED BY <1>4, <1>5, <1>6, <1>7 DEF ReaderInv

\* The types are kept.
LEMMA ReaderTypes ==
  ASSUME Reader!ConstantsAssumption, ReaderTyped, PositionsHold, Reader!Next
  PROVE  ReaderTyped'
<1> USE CapIs
<1> DEFINE Times == /\ quiet' \in Offsets /\ polled' \in Offsets
<1>1. ASSUME NEW ps, Reader!Again(ps) PROVE Times
  BY <1>1 DEF Reader!Again, ReaderTyped, Offsets
<1>3. ASSUME Reader!Polled
      PROVE  docs' = <<>> /\ caughtUp' \in BOOLEAN /\ age' \in 0 .. 2 * Interval + 1
  <2>1. Reader!Observed \in BOOLEAN BY DEF Reader!Observed, ReaderTyped
  <2>2. 0 \in 0 .. 2 * Interval + 1 /\ age \in 0 .. 2 * Interval + 1 BY DEF ReaderTyped
  <2> QED BY <1>3, <2>1, <2>2 DEF Reader!Polled
<1>4. ASSUME NEW p \in Partition, Reader!Hand(p)
      PROVE  app' \in Offsets /\ queue' \in [Partition -> Seq(Nat)] /\ UNCHANGED <<topicLog, stable, fetch>>
             /\ Head(queue[p]) \in Nat
  <2>1. queue \in [Partition -> Seq(Nat)] /\ app \in [Partition -> Nat] BY DEF ReaderTyped, Offsets
  <2>2. queue[p] \in Seq(Nat) /\ queue[p] # <<>> BY <1>4, <2>1 DEF Reader!Hand
  <2>3. Head(queue[p]) \in Nat /\ Tail(queue[p]) \in Seq(Nat) BY <2>2
  <2> QED BY SMTT(20), <1>4, <2>1, <2>3 DEF Reader!Hand, Offsets, Reader!topic
<1>5. CASE Reader!Top
  BY <1>5 DEF Reader!Top, ReaderTyped, Reader!topic, Reader!client
<1>6. CASE Reader!RetryHeld \/ Reader!OnceDone \/ Reader!Fed
  BY <1>6 DEF Reader!RetryHeld, Reader!OnceDone, Reader!Fed, ReaderTyped, Reader!topic, Reader!client
<1>7. CASE Reader!Release
  <2>1. Times BY <1>1, <1>7 DEF Reader!Release
  <2>2. fetch' \in Offsets /\ tops' \in Offsets BY <1>7 DEF Reader!Release, ReaderTyped, Offsets
  <2>3. queue' \in [Partition -> Seq(Nat)]
    <3>1. <<>> \in Seq(Nat) OBVIOUS
    <3> QED BY <1>7, <3>1 DEF Reader!Release, ReaderTyped
  <2> QED BY <1>7, <2>1, <2>2, <2>3 DEF Reader!Release, ReaderTyped, Reader!topic
<1>8. CASE Reader!PollNothing \/ Reader!CloseBatch
  <2>1. docs' = <<>> /\ caughtUp' \in BOOLEAN /\ age' \in 0 .. 2 * Interval + 1
    BY <1>3, <1>8 DEF Reader!PollNothing, Reader!CloseBatch
  <2> QED BY <1>8, <2>1 DEF Reader!PollNothing, Reader!CloseBatch, ReaderTyped, Reader!topic, Reader!client
<1>9. CASE Reader!Committed
  <2>1. Times BY <1>1, <1>9 DEF Reader!Committed, Reader!AfterCommit
  <2> QED BY <1>9, <2>1 DEF Reader!Committed, ReaderTyped, Reader!topic, Reader!client
<1>10. ASSUME NEW p \in Partition, Reader!RecheckBlocked(p) PROVE ReaderTyped'
  <2>1. nextOffset' \in Offsets /\ quiet' \in Offsets /\ polled' \in Offsets /\ tops' \in Offsets
    BY <1>10 DEF Reader!RecheckBlocked, ReaderTyped, Offsets
  <2> QED BY <1>10, <2>1 DEF Reader!RecheckBlocked, ReaderTyped, Reader!topic, Reader!client
<1>11. ASSUME NEW p \in Partition, Reader!StepOver(p) PROVE ReaderTyped'
  BY <1>4, <1>11 DEF Reader!StepOver, ReaderTyped, Reader!loop
<1>12. ASSUME NEW p \in Partition, Reader!Take(p) PROVE ReaderTyped'
  <2>1. Times BY <1>1, <1>12 DEF Reader!Take
  <2>2. docs' = <<>> /\ caughtUp' \in BOOLEAN /\ age' \in 0 .. 2 * Interval + 1
    BY <1>3, <1>12 DEF Reader!Take
  <2>3. app' \in Offsets /\ queue' \in [Partition -> Seq(Nat)] /\ UNCHANGED <<topicLog, stable, fetch>>
        /\ Head(queue[p]) \in Nat
    <3>1. Reader!Hand(p) BY <1>12 DEF Reader!Take
    <3> QED BY <1>4, <3>1
  <2>4. nextOffset' \in Offsets
    <3>1. nextOffset \in [Partition -> Nat] BY DEF ReaderTyped, Offsets
    <3>2. nextOffset' = [nextOffset EXCEPT ![p] = Head(queue[p]) + 1] BY <1>12 DEF Reader!Take, Reader!Expect
    <3> QED BY SMTT(20), <2>3, <3>1, <3>2 DEF Offsets
  <2> QED BY <1>12, <2>1, <2>2, <2>3, <2>4 DEF Reader!Take, ReaderTyped
<1>13. ASSUME NEW p \in Partition, Reader!DropPaused(p) PROVE ReaderTyped'
  <2>2. docs' = <<>> /\ caughtUp' \in BOOLEAN /\ age' \in 0 .. 2 * Interval + 1
    BY <1>3, <1>13 DEF Reader!DropPaused
  <2>3. app' \in Offsets /\ queue' \in [Partition -> Seq(Nat)] /\ UNCHANGED <<topicLog, stable, fetch>>
    BY <1>4, <1>13 DEF Reader!DropPaused
  <2> QED BY <1>13, <2>2, <2>3 DEF Reader!DropPaused, ReaderTyped
<1>14. CASE Reader!Hold
  BY <1>14 DEF Reader!Hold, ReaderTyped, Reader!topic, Reader!client
<1>15. CASE Reader!Report
  <2>1. Reader!StatsRaw \in [Partition -> Watermarks]
    BY DEF Reader!StatsRaw, Watermarks, ReaderTyped, Offsets
  <2> QED BY <1>15, <2>1 DEF Reader!Report, ReaderTyped, Reader!topic, Reader!client, Reader!loop
<1>16. CASE Reader!Tick
  <2>1. \A x \in Nat, y \in Nat : Reader!Min({x, y}) \in Nat /\ Reader!Min({x, y}) <= y
    BY SmallerIs
  <2>2. /\ \A p \in Partition : quiet[p] + 1 \in Nat /\ polled[p] + 1 \in Nat /\ polled[p] \in Nat
        /\ age + 1 \in Nat /\ 2 * Interval + 1 \in Nat /\ Reader!Cap \in Nat
    <3>1. quiet \in [Partition -> Nat] /\ polled \in [Partition -> Nat] /\ age \in 0 .. 2 * Interval + 1
      BY DEF ReaderTyped, Offsets
    <3> QED BY <3>1
  <2>3. quiet' \in Offsets /\ polled' \in Offsets
    BY <1>16, <2>1, <2>2 DEF Reader!Tick, Offsets
  <2>4. age' \in 0 .. 2 * Interval + 1
    BY <1>16, <2>1, <2>2 DEF Reader!Tick
  <2> QED BY <1>16, <2>3, <2>4 DEF Reader!Tick, ReaderTyped, Reader!topic, Reader!client
<1>17. ASSUME NEW p \in Partition, Reader!Reposition(p) PROVE ReaderTyped'
  BY <1>17 DEF Reader!Reposition, ReaderTyped, Reader!topic, Reader!client
<1>18. ASSUME NEW p \in Partition, NEW r \in {"message", "marker"}, Reader!Append1(p, r)
       PROVE  topicLog' \in [Partition -> Seq({"message", "marker"})]
  BY <1>18 DEF Reader!Append1, ReaderTyped
<1>19. ASSUME NEW p \in Partition, Reader!Produce(p) PROVE ReaderTyped'
  <2>1. stable' \in Offsets
    <3>1. stable \in [Partition -> Nat] /\ topicLog[p] \in Seq({"message", "marker"}) BY DEF ReaderTyped, Offsets
    <3>2. Len(topicLog[p]) \in Nat BY <3>1
    <3> QED BY <1>19, <3>1, <3>2 DEF Reader!Produce, Offsets
  <2> QED BY <1>18, <1>19, <2>1 DEF Reader!Produce, ReaderTyped, Reader!client, Reader!loop
<1>20. ASSUME NEW p \in Partition, Reader!EndTransaction(p) PROVE ReaderTyped'
  <2>1. stable' \in Offsets
    <3>1. stable \in [Partition -> Nat] /\ topicLog[p] \in Seq({"message", "marker"}) BY DEF ReaderTyped, Offsets
    <3>2. Len(topicLog[p]) \in Nat BY <3>1
    <3> QED BY <1>20, <3>1, <3>2 DEF Reader!EndTransaction, Offsets
  <2> QED BY <1>18, <1>20, <2>1 DEF Reader!EndTransaction, ReaderTyped, Reader!client, Reader!loop
<1>21. ASSUME NEW p \in Partition, Reader!Fetch(p) PROVE ReaderTyped'
  <2>1. fetch' \in Offsets /\ queue' \in [Partition -> Seq(Nat)]
    <3>1. fetch \in [Partition -> Nat] /\ queue \in [Partition -> Seq(Nat)] BY DEF ReaderTyped, Offsets
    <3>2. fetch[p] + 1 \in Nat /\ Append(queue[p], fetch[p]) \in Seq(Nat) BY <3>1
    <3> QED BY <1>21, <3>1, <3>2 DEF Reader!Fetch, Offsets
  <2> QED BY <1>21, <2>1 DEF Reader!Fetch, ReaderTyped, Reader!topic, Reader!loop
<1> QED
  BY <1>5, <1>6, <1>7, <1>8, <1>9, <1>10, <1>11, <1>12, <1>13, <1>14, <1>15, <1>16, <1>17, <1>19, <1>20, <1>21
     DEF Reader!Next, Reader!Loop

\* The types a position is made of.
LEMMA PositionTypes ==
  ASSUME ReaderTyped, NEW p \in Partition
  PROVE  /\ stable[p] \in Nat /\ fetch[p] \in Nat /\ app[p] \in Nat /\ nextOffset[p] \in Nat /\ stopAt[p] \in Nat
         /\ quiet[p] \in Nat /\ polled[p] \in Nat /\ tops[p] \in Nat
         /\ queue[p] \in Seq(Nat) /\ Len(queue[p]) \in Nat
         /\ topicLog[p] \in Seq({"message", "marker"}) /\ Len(topicLog[p]) \in Nat
<1>1. queue[p] \in Seq(Nat) /\ topicLog[p] \in Seq({"message", "marker"}) BY DEF ReaderTyped
<1>2. Len(queue[p]) \in Nat /\ Len(topicLog[p]) \in Nat BY <1>1
<1> QED BY <1>1, <1>2 DEF ReaderTyped, Offsets

\* Where a record is appended, what was between two offsets is as it was.
LEMMA AppendKeeps ==
  ASSUME ReaderTyped, NEW p \in Partition, NEW r \in {"message", "marker"}, Reader!Append1(p, r)
  PROVE  /\ \A q \in Partition : Len(topicLog[q]) <= Len(topicLog'[q])
         /\ Len(topicLog'[p]) = Len(topicLog[p]) + 1
         /\ \A q \in Partition, from \in Nat, to \in Nat :
              to <= Len(topicLog[q]) => (NoMessage(q, from, to)' <=> NoMessage(q, from, to))
<1>1. topicLog' = [topicLog EXCEPT ![p] = Append(@, r)] BY DEF Reader!Append1
<1>2. \A q \in Partition : q # p => topicLog'[q] = topicLog[q] BY <1>1 DEF ReaderTyped
<1>3. topicLog'[p] = Append(topicLog[p], r) BY <1>1 DEF ReaderTyped
<1>4. /\ Len(topicLog'[p]) = Len(topicLog[p]) + 1 /\ Len(topicLog[p]) \in Nat
      /\ \A i \in 1 .. Len(topicLog[p]) : topicLog'[p][i] = topicLog[p][i]
  BY <1>3, PositionTypes
<1>5. \A q \in Partition : Len(topicLog[q]) <= Len(topicLog'[q])
  <2>1. \A q \in Partition : Len(topicLog[q]) \in Nat BY PositionTypes
  <2> QED BY <1>2, <1>4, <2>1
<1>6. ASSUME NEW q \in Partition, NEW from \in Nat, NEW to \in Nat, to <= Len(topicLog[q])
      PROVE  \A o \in from .. to - 1 : topicLog'[q][o + 1] = topicLog[q][o + 1]
  BY <1>2, <1>4, <1>6
<1> QED BY <1>4, <1>5, <1>6 DEF NoMessage

\* Messages are handed on from the head of the run.
LEMMA HandKeeps ==
  ASSUME ReaderTyped, PositionsHold, NEW p \in Partition, Reader!Hand(p)
  PROVE  /\ Head(queue[p]) = AtHead(p) /\ AtHead(p) \in Nat /\ AtHead(p) + 1 <= stable[p]
         /\ AtHead(p)' = AtHead(p) + 1 /\ app'[p] = AtHead(p) + 1
         /\ \A q \in Partition : q # p => queue'[q] = queue[q] /\ app'[q] = app[q]
         /\ Len(queue'[p]) = Len(queue[p]) - 1 /\ Len(queue[p]) > 0
         /\ \A i \in 1 .. Len(queue'[p]) : queue'[p][i] = AtHead(p) + i
         /\ UNCHANGED <<topicLog, stable, fetch>>
<1>1. /\ app' = [app EXCEPT ![p] = Head(queue[p]) + 1] /\ queue' = [queue EXCEPT ![p] = Tail(@)]
      /\ UNCHANGED <<topicLog, stable, fetch>> /\ queue[p] # <<>>
  BY DEF Reader!Hand, Reader!topic
<1>2. \A q \in Partition : q # p => queue'[q] = queue[q] /\ app'[q] = app[q]
  BY <1>1 DEF ReaderTyped, Offsets
<1>3. queue'[p] = Tail(queue[p]) /\ app'[p] = Head(queue[p]) + 1
  BY <1>1 DEF ReaderTyped, Offsets
<1>4. /\ queue[p] \in Seq(Nat) /\ Len(queue[p]) \in Nat /\ fetch[p] \in Nat /\ stable[p] \in Nat
  BY PositionTypes
<1>5. Len(queue[p]) > 0 BY <1>1, <1>4
<1>6. /\ Len(Tail(queue[p])) = Len(queue[p]) - 1 /\ Head(queue[p]) = queue[p][1]
      /\ \A i \in 1 .. Len(queue[p]) - 1 : Tail(queue[p])[i] = queue[p][i + 1]
  BY <1>1, <1>4
<1>7. /\ Len(queue[p]) <= fetch[p] /\ fetch[p] <= stable[p]
      /\ \A i \in 1 .. Len(queue[p]) : queue[p][i] = fetch[p] - Len(queue[p]) + i - 1
  BY DEF PositionsHold, AtHead
<1>8. queue[p][1] = fetch[p] - Len(queue[p]) BY <1>4, <1>5, <1>7
<1>9. \A i \in 1 .. Len(queue[p]) - 1 : queue[p][i + 1] = fetch[p] - Len(queue[p]) + i
  BY <1>4, <1>7
<1>10. /\ Head(queue[p]) = AtHead(p) /\ AtHead(p) \in Nat /\ AtHead(p) + 1 <= stable[p]
       /\ app'[p] = AtHead(p) + 1 /\ Len(queue'[p]) = Len(queue[p]) - 1
  BY <1>3, <1>4, <1>5, <1>6, <1>7, <1>8 DEF AtHead
<1>11. AtHead(p)' = AtHead(p) + 1 BY <1>1, <1>4, <1>10 DEF AtHead
<1>12. \A i \in 1 .. Len(queue'[p]) : queue'[p][i] = AtHead(p) + i
  BY <1>3, <1>6, <1>9, <1>10 DEF AtHead
<1> QED BY <1>1, <1>2, <1>5, <1>10, <1>11, <1>12

\* The positions are kept by a step that moves none of them.
LEMMA StillPositions ==
  ASSUME PositionsHold, UNCHANGED <<topicLog, stable, fetch, queue, app, nextOffset, paused, blocked, stopAt>>
  PROVE  PositionsHold'
BY DEF PositionsHold, AtHead, NoMessage

\* The positions are kept by every step.
LEMMA PositionSteps ==
  ASSUME Reader!ConstantsAssumption, ReaderTyped, PositionsHold, Reader!Next
  PROVE  PositionsHold'
<1> DEFINE Good(q) ==
      /\ stopAt[q] <= stable[q] /\ stable[q] <= Len(topicLog[q])
      /\ fetch[q] <= stable[q] /\ app[q] <= stable[q] /\ nextOffset[q] <= stable[q]
      /\ Len(queue[q]) <= fetch[q]
      /\ \A i \in 1 .. Len(queue[q]) : queue[q][i] = AtHead(q) + i - 1
      /\ q \notin paused => nextOffset[q] <= AtHead(q) /\ NoMessage(q, nextOffset[q], AtHead(q))
      /\ q \in blocked => queue[q] = <<>> /\ q \notin paused
<1>1. (\A q \in Partition : Good(q)) /\ (PositionsHold' <=> \A q \in Partition : Good(q)')
  BY DEF PositionsHold
<1> HIDE DEF Good
<1>2. CASE \/ Reader!Top \/ Reader!RetryHeld \/ Reader!OnceDone \/ Reader!PollNothing \/ Reader!Fed
           \/ Reader!CloseBatch \/ Reader!Committed \/ Reader!Report \/ Reader!Tick
  <2>1. UNCHANGED <<topicLog, stable, fetch, queue, app, nextOffset, paused, blocked, stopAt>>
    BY <1>2 DEF Reader!Top, Reader!RetryHeld, Reader!OnceDone, Reader!PollNothing, Reader!Fed,
       Reader!CloseBatch, Reader!Committed, Reader!Report, Reader!Tick, Reader!topic, Reader!client,
       Reader!loop
  <2> QED BY <2>1, StillPositions
<1>3. ASSUME NEW p \in Partition, Reader!RecheckBlocked(p) PROVE PositionsHold'
  <2>1. /\ UNCHANGED <<topicLog, stable, fetch, queue, app, stopAt>> /\ blocked' = blocked \ {p}
        /\ paused' = paused \cup {p} /\ nextOffset'[p] = stopAt[p]
        /\ \A q \in Partition : q # p => nextOffset'[q] = nextOffset[q]
    BY <1>3 DEF Reader!RecheckBlocked, Reader!topic, Reader!client, ReaderTyped, Offsets
  <2> SUFFICES ASSUME NEW q \in Partition PROVE Good(q)' BY <1>1
  <2> QED BY <1>1, <2>1 DEF Good, AtHead, NoMessage
<1>4. CASE Reader!Release
  <2>1. /\ UNCHANGED <<topicLog, stable, app, nextOffset, blocked, stopAt>> /\ paused' = {}
        /\ \A q \in Partition : /\ fetch'[q] = IF q \in paused THEN nextOffset[q] ELSE fetch[q]
                                /\ queue'[q] = IF q \in paused THEN <<>> ELSE queue[q]
    BY <1>4 DEF Reader!Release, Reader!topic
  <2> SUFFICES ASSUME NEW q \in Partition PROVE Good(q)' BY <1>1
  <2>2. CASE q \notin paused BY <1>1, <2>1, <2>2 DEF Good, AtHead, NoMessage
  <2>3. CASE q \in paused
    <3>1. queue'[q] = <<>> /\ fetch'[q] = nextOffset[q] /\ Len(queue'[q]) = 0 /\ nextOffset[q] \in Nat
      BY <2>1, <2>3, PositionTypes
    <3>2. AtHead(q)' = nextOffset[q] BY <3>1 DEF AtHead
    <3>3. \A i \in 1 .. Len(queue'[q]) : FALSE BY <3>1
    <3>4. NoMessage(q, nextOffset[q], nextOffset[q])' BY <2>1, <3>1 DEF NoMessage
    <3> QED BY <1>1, <2>1, <2>3, <3>1, <3>2, <3>3, <3>4 DEF Good
  <2> QED BY <2>2, <2>3
<1>5. ASSUME NEW p \in Partition, Reader!StepOver(p) PROVE PositionsHold'
  <2>1. Reader!Hand(p) /\ UNCHANGED <<nextOffset, paused, blocked, stopAt>>
        /\ topicLog[p][Head(queue[p]) + 1] = "marker"
    BY <1>5 DEF Reader!StepOver, Reader!loop, Reader!Record
  <2> SUFFICES ASSUME NEW q \in Partition PROVE Good(q)' BY <1>1
  <2>2. CASE q # p
    <3>1. queue'[q] = queue[q] /\ app'[q] = app[q] /\ UNCHANGED <<topicLog, stable, fetch>>
      BY <2>1, <2>2, HandKeeps
    <3>2. AtHead(q)' = AtHead(q) BY <3>1 DEF AtHead
    <3>3. nextOffset'[q] = nextOffset[q] BY <2>1, <2>2
    <3> QED BY <1>1, <2>1, <3>1, <3>2, <3>3 DEF Good, NoMessage
  <2>3. CASE q = p
    <3>0. /\ Head(queue[p]) = AtHead(p) /\ AtHead(p) \in Nat /\ AtHead(p) + 1 <= stable[p]
          /\ AtHead(p)' = AtHead(p) + 1 /\ app'[p] = AtHead(p) + 1
          /\ Len(queue'[p]) = Len(queue[p]) - 1 /\ Len(queue[p]) > 0 /\ queue[p] # <<>>
          /\ \A i \in 1 .. Len(queue'[p]) : queue'[p][i] = AtHead(p) + i
          /\ UNCHANGED <<topicLog, stable, fetch>>
          /\ fetch[p] \in Nat /\ nextOffset[p] \in Nat /\ stable[p] \in Nat /\ Len(queue[p]) \in Nat
      BY <2>1, HandKeeps, PositionTypes DEF Reader!Hand
    <3>1. NoMessage(p, nextOffset[p], AtHead(p)) => NoMessage(p, nextOffset[p], AtHead(p) + 1)
      BY <2>1, <3>0 DEF NoMessage
    <3>2. NoMessage(p, nextOffset[p], AtHead(p) + 1) => NoMessage(p, nextOffset[p], AtHead(p))'
      BY <2>1, <3>0 DEF NoMessage
    <3>3. \A i \in 1 .. Len(queue'[p]) : queue'[p][i] = AtHead(p)' + i - 1
      BY <3>0
    <3>4. Good(p) BY <1>1
    <3>5. p \notin blocked BY <3>0, <3>4 DEF Good
    <3>6. Len(queue'[p]) <= fetch'[p] /\ app'[p] <= stable'[p]
      BY <3>0, <3>4 DEF Good
    <3>7. p \notin paused => nextOffset[p] <= AtHead(p)' /\ NoMessage(p, nextOffset[p], AtHead(p))'
      BY <3>0, <3>1, <3>2, <3>4 DEF Good
    <3>8. Good(p)' BY <2>1, <3>0, <3>3, <3>4, <3>5, <3>6, <3>7 DEF Good
    <3> QED BY <2>3, <3>8
  <2> QED BY <2>2, <2>3
<1>6. ASSUME NEW p \in Partition, Reader!Take(p) PROVE PositionsHold'
  <2>1. /\ Reader!Hand(p) /\ UNCHANGED <<paused, blocked, stopAt>>
        /\ nextOffset'[p] = Head(queue[p]) + 1 /\ \A q \in Partition : q # p => nextOffset'[q] = nextOffset[q]
    BY <1>6 DEF Reader!Take, Reader!Expect, ReaderTyped, Offsets
  <2> SUFFICES ASSUME NEW q \in Partition PROVE Good(q)' BY <1>1
  <2>2. CASE q # p
    <3>1. queue'[q] = queue[q] /\ app'[q] = app[q] /\ UNCHANGED <<topicLog, stable, fetch>>
      BY <2>1, <2>2, HandKeeps
    <3>2. AtHead(q)' = AtHead(q) BY <3>1 DEF AtHead
    <3>3. nextOffset'[q] = nextOffset[q] BY <2>1, <2>2
    <3> QED BY <1>1, <2>1, <3>1, <3>2, <3>3 DEF Good, NoMessage
  <2>3. CASE q = p
    <3>0. /\ Head(queue[p]) = AtHead(p) /\ AtHead(p) \in Nat /\ AtHead(p) + 1 <= stable[p]
          /\ AtHead(p)' = AtHead(p) + 1 /\ app'[p] = AtHead(p) + 1
          /\ Len(queue'[p]) = Len(queue[p]) - 1 /\ Len(queue[p]) > 0 /\ queue[p] # <<>>
          /\ \A i \in 1 .. Len(queue'[p]) : queue'[p][i] = AtHead(p) + i
          /\ UNCHANGED <<topicLog, stable, fetch>>
          /\ fetch[p] \in Nat /\ nextOffset[p] \in Nat /\ stable[p] \in Nat /\ Len(queue[p]) \in Nat
      BY <2>1, HandKeeps, PositionTypes DEF Reader!Hand
    <3>1. nextOffset'[p] = AtHead(p)' /\ nextOffset'[p] \in Nat BY <2>1, <3>0
    <3>2. NoMessage(p, nextOffset[p], AtHead(p))' BY <3>1 DEF NoMessage
    <3>3. \A i \in 1 .. Len(queue'[p]) : queue'[p][i] = AtHead(p)' + i - 1
      BY <3>0
    <3>4. Good(p) BY <1>1
    <3>5. p \notin blocked BY <3>0, <3>4 DEF Good
    <3>6. Len(queue'[p]) <= fetch'[p] /\ app'[p] <= stable'[p] /\ nextOffset'[p] <= stable'[p]
      BY <3>0, <3>1, <3>4 DEF Good
    <3>7. nextOffset'[p] <= AtHead(p)' BY <3>0, <3>1
    <3>8. Good(p)' BY <2>1, <3>0, <3>2, <3>3, <3>4, <3>5, <3>6, <3>7 DEF Good
    <3> QED BY <2>3, <3>8
  <2> QED BY <2>2, <2>3
<1>7. ASSUME NEW p \in Partition, Reader!DropPaused(p) PROVE PositionsHold'
  <2>1. Reader!Hand(p) /\ UNCHANGED <<nextOffset, paused, blocked, stopAt>> /\ p \in paused
    BY <1>7 DEF Reader!DropPaused
  <2> SUFFICES ASSUME NEW q \in Partition PROVE Good(q)' BY <1>1
  <2>2. CASE q # p
    <3>1. queue'[q] = queue[q] /\ app'[q] = app[q] /\ UNCHANGED <<topicLog, stable, fetch>>
      BY <2>1, <2>2, HandKeeps
    <3>2. AtHead(q)' = AtHead(q) BY <3>1 DEF AtHead
    <3>3. nextOffset'[q] = nextOffset[q] BY <2>1, <2>2
    <3> QED BY <1>1, <2>1, <3>1, <3>2, <3>3 DEF Good, NoMessage
  <2>3. CASE q = p
    <3>0. /\ Head(queue[p]) = AtHead(p) /\ AtHead(p) \in Nat /\ AtHead(p) + 1 <= stable[p]
          /\ AtHead(p)' = AtHead(p) + 1 /\ app'[p] = AtHead(p) + 1
          /\ Len(queue'[p]) = Len(queue[p]) - 1 /\ Len(queue[p]) > 0 /\ queue[p] # <<>>
          /\ \A i \in 1 .. Len(queue'[p]) : queue'[p][i] = AtHead(p) + i
          /\ UNCHANGED <<topicLog, stable, fetch>>
          /\ fetch[p] \in Nat /\ nextOffset[p] \in Nat /\ stable[p] \in Nat /\ Len(queue[p]) \in Nat
      BY <2>1, HandKeeps, PositionTypes DEF Reader!Hand
    <3>1. \A i \in 1 .. Len(queue'[p]) : queue'[p][i] = AtHead(p)' + i - 1
      BY <3>0
    <3>4. Good(p) BY <1>1
    <3>5. p \notin blocked BY <3>0, <3>4 DEF Good
    <3>6. Len(queue'[p]) <= fetch'[p] /\ app'[p] <= stable'[p]
      BY <3>0, <3>4 DEF Good
    <3>8. Good(p)' BY <2>1, <3>0, <3>1, <3>4, <3>5, <3>6 DEF Good
    <3> QED BY <2>3, <3>8
  <2> QED BY <2>2, <2>3
<1>8. CASE Reader!Hold
  <2>1. UNCHANGED <<topicLog, stable, fetch, queue, app, nextOffset, blocked, stopAt>> /\ paused' = Partition \ blocked
    BY <1>8 DEF Reader!Hold, Reader!topic, Reader!client
  <2> SUFFICES ASSUME NEW q \in Partition PROVE Good(q)' BY <1>1
  <2> QED BY <1>1, <2>1 DEF Good, AtHead, NoMessage
<1>9. ASSUME NEW p \in Partition, Reader!Reposition(p) PROVE PositionsHold'
  <2>1. UNCHANGED <<topicLog, stable, fetch, queue, app, nextOffset, blocked, stopAt>> /\ paused' = paused \cup {p}
        /\ p \notin blocked
    BY <1>9 DEF Reader!Reposition, Reader!topic, Reader!client
  <2> SUFFICES ASSUME NEW q \in Partition PROVE Good(q)' BY <1>1
  <2> QED BY <1>1, <2>1 DEF Good, AtHead, NoMessage
<1>10. ASSUME NEW p \in Partition, NEW r \in {"message", "marker"}, Reader!Append1(p, r),
              UNCHANGED <<fetch, queue, app, nextOffset, paused, blocked, stopAt>>,
              \A q \in Partition : stable'[q] \in Nat /\ stable[q] <= stable'[q] /\ stable'[q] <= Len(topicLog'[q])
       PROVE  PositionsHold'
  <2> SUFFICES ASSUME NEW q \in Partition PROVE Good(q)' BY <1>1
  <2>1. Good(q) BY <1>1
  <2>2. AtHead(q)' = AtHead(q) /\ AtHead(q) \in Nat /\ AtHead(q) <= Len(topicLog[q])
    BY SMTT(20), <1>10, <2>1, PositionTypes DEF AtHead, Good
  <2>3. NoMessage(q, nextOffset[q], AtHead(q)) => NoMessage(q, nextOffset[q], AtHead(q))'
    <3>1. NoMessage(q, nextOffset[q], AtHead(q)) => \A o \in nextOffset[q] .. AtHead(q) - 1 : topicLog'[q][o + 1] # "message"
      BY <1>10, <2>2, AppendKeeps, PositionTypes DEF NoMessage
    <3> QED BY <1>10, <2>2, <3>1 DEF NoMessage
  <2> QED BY SMTT(20), <1>10, <2>1, <2>2, <2>3, PositionTypes DEF Good
<1>11. ASSUME NEW p \in Partition, Reader!Produce(p) PROVE PositionsHold'
  <2>1. Reader!Append1(p, "message") /\ UNCHANGED <<fetch, queue, app, nextOffset, paused, blocked, stopAt>>
    BY <1>11 DEF Reader!Produce, Reader!client, Reader!loop
  <2>2. stable' = stable \/ (stable[p] = Len(topicLog[p]) /\ stable' = [stable EXCEPT ![p] = @ + 1])
    BY <1>11 DEF Reader!Produce
  <2>3. \A q \in Partition : stable'[q] \in Nat /\ stable[q] <= stable'[q] /\ stable'[q] <= Len(topicLog'[q])
    <3> SUFFICES ASSUME NEW q \in Partition
                 PROVE  stable'[q] \in Nat /\ stable[q] <= stable'[q] /\ stable'[q] <= Len(topicLog'[q])
      OBVIOUS
    <3>1. /\ stable[q] <= Len(topicLog[q]) /\ Len(topicLog[q]) <= Len(topicLog'[q]) /\ Len(topicLog'[p]) = Len(topicLog[p]) + 1
          /\ stable[q] \in Nat /\ Len(topicLog[q]) \in Nat /\ Len(topicLog[p]) \in Nat
      BY <1>1, <2>1, AppendKeeps, PositionTypes DEF Good
    <3>2. stable'[q] = stable[q] \/ (q = p /\ stable[p] = Len(topicLog[p]) /\ stable'[q] = stable[q] + 1)
      BY <2>2 DEF ReaderTyped, Offsets
    <3>3. Len(topicLog'[q]) \in Int BY <2>1, <3>1, AppendKeeps DEF Reader!Append1, ReaderTyped
    <3> QED BY <3>1, <3>2, <3>3
  <2> QED BY <1>10, <2>1, <2>3
<1>12. ASSUME NEW p \in Partition, Reader!EndTransaction(p) PROVE PositionsHold'
  <2>1. Reader!Append1(p, "marker") /\ UNCHANGED <<fetch, queue, app, nextOffset, paused, blocked, stopAt>>
    BY <1>12 DEF Reader!EndTransaction, Reader!client, Reader!loop
  <2>2. stable[p] < Len(topicLog[p]) /\ stable' = [stable EXCEPT ![p] = Len(topicLog[p]) + 1]
    BY <1>12 DEF Reader!EndTransaction
  <2>3. \A q \in Partition : stable'[q] \in Nat /\ stable[q] <= stable'[q] /\ stable'[q] <= Len(topicLog'[q])
    <3> SUFFICES ASSUME NEW q \in Partition
                 PROVE  stable'[q] \in Nat /\ stable[q] <= stable'[q] /\ stable'[q] <= Len(topicLog'[q])
      OBVIOUS
    <3>1. /\ stable[q] <= Len(topicLog[q]) /\ Len(topicLog[q]) <= Len(topicLog'[q]) /\ Len(topicLog'[p]) = Len(topicLog[p]) + 1
          /\ stable[q] \in Nat /\ Len(topicLog[q]) \in Nat /\ Len(topicLog[p]) \in Nat
      BY <1>1, <2>1, AppendKeeps, PositionTypes DEF Good
    <3>2. (q # p /\ stable'[q] = stable[q]) \/ (q = p /\ stable'[q] = Len(topicLog[p]) + 1)
      BY <2>2 DEF ReaderTyped, Offsets
    <3>3. Len(topicLog'[q]) \in Int BY <2>1, <3>1, AppendKeeps DEF Reader!Append1, ReaderTyped
    <3> QED BY <2>2, <3>1, <3>2, <3>3
  <2> QED BY <1>10, <2>1, <2>3
<1>13. ASSUME NEW p \in Partition, Reader!Fetch(p) PROVE PositionsHold'
  <2>1. /\ UNCHANGED <<topicLog, stable, app, nextOffset, paused, blocked, stopAt>> /\ p \notin blocked
        /\ fetch[p] < stable[p]
        /\ fetch' = [fetch EXCEPT ![p] = @ + 1] /\ queue' = [queue EXCEPT ![p] = Append(@, fetch[p])]
    BY <1>13 DEF Reader!Fetch, Reader!topic, Reader!loop
  <2>2. /\ \A q \in Partition : q # p => fetch'[q] = fetch[q] /\ queue'[q] = queue[q]
        /\ fetch'[p] = fetch[p] + 1 /\ queue'[p] = Append(queue[p], fetch[p])
    BY <2>1 DEF ReaderTyped, Offsets
  <2> SUFFICES ASSUME NEW q \in Partition PROVE Good(q)' BY <1>1
  <2>3. CASE q # p BY <1>1, <2>1, <2>2, <2>3 DEF Good, AtHead, NoMessage
  <2>4. CASE q = p
    <3>1. queue[p] \in Seq(Nat) /\ fetch[p] \in Nat /\ Len(queue[p]) \in Nat /\ stable[p] \in Nat
      BY PositionTypes
    <3>2. /\ Len(queue'[p]) = Len(queue[p]) + 1
          /\ \A i \in 1 .. Len(queue[p]) : queue'[p][i] = queue[p][i]
          /\ queue'[p][Len(queue[p]) + 1] = fetch[p]
      BY <2>2, <3>1
    <3>3. AtHead(p)' = AtHead(p) /\ AtHead(p) = fetch[p] - Len(queue[p]) /\ AtHead(p) \in Int
      <4>1. Len(queue'[p]) = Len(queue[p]) + 1 /\ fetch'[p] = fetch[p] + 1 BY <2>2, <3>2
      <4>2. (fetch[p] + 1) - (Len(queue[p]) + 1) = fetch[p] - Len(queue[p]) BY SMTT(20), <3>1
      <4> QED BY <3>1, <4>1, <4>2 DEF AtHead
    <3>4. \A i \in 1 .. Len(queue[p]) : queue[p][i] = AtHead(p) + i - 1
      BY <1>1 DEF Good
    <3>5. \A i \in 1 .. Len(queue'[p]) : queue'[p][i] = AtHead(p)' + i - 1
      <4> SUFFICES ASSUME NEW i \in 1 .. Len(queue[p]) + 1 PROVE queue'[p][i] = AtHead(p) + i - 1
        BY <3>2, <3>3
      <4>1. CASE i \in 1 .. Len(queue[p]) BY <3>2, <3>4, <4>1
      <4>2. CASE i = Len(queue[p]) + 1
        <5>1. queue'[p][i] = fetch[p] BY <3>2, <4>2
        <5> QED BY <3>1, <3>3, <4>2, <5>1
      <4> QED BY SMTT(20), <3>1, <4>1, <4>2
    <3>6. NoMessage(p, nextOffset[p], AtHead(p)) => NoMessage(p, nextOffset[p], AtHead(p))'
      BY <2>1, <3>3 DEF NoMessage
    <3>7. Len(queue'[p]) <= fetch'[p] /\ fetch'[p] <= stable'[p]
      <4>1. Len(queue[p]) <= fetch[p] BY <1>1 DEF Good
      <4> QED BY <2>1, <2>2, <3>1, <3>2, <4>1
    <3> QED BY <1>1, <2>1, <2>4, <3>3, <3>5, <3>6, <3>7 DEF Good
  <2> QED BY <2>3, <2>4
<1> QED
  BY <1>2, <1>3, <1>4, <1>5, <1>6, <1>7, <1>8, <1>9, <1>11, <1>12, <1>13 DEF Reader!Next, Reader!Loop

\* A report stays true of what is not sought again.
LEMMA ReportSteps ==
  ASSUME Reader!ConstantsAssumption, ReaderTyped, PositionsHold, ReportHolds, Reader!Next
  PROVE  ReportHolds'
<1>1. CASE docs' = <<>>
  BY <1>1 DEF ReportHolds
<1>2. CASE Reader!Report
  <2>1. /\ UNCHANGED <<topicLog, stable, fetch, queue, app, nextOffset, paused>> /\ ~Once /\ docs' = <<Reader!StatsRaw>>
    BY <1>2 DEF Reader!Report, Reader!topic, Reader!client, Reader!loop
  <2>2. docs'[1] = Reader!StatsRaw BY <2>1
  <2> SUFFICES ASSUME NEW p \in Partition
               PROVE  /\ docs'[1][p].ls <= Len(topicLog'[p])
                      /\ p \notin paused' /\ docs'[1][p].queued = 0 /\ docs'[1][p].fetch >= docs'[1][p].ls =>
                           \A o \in nextOffset[p] .. docs'[1][p].ls - 1 : topicLog[p][o + 1] # "message"
    BY <2>1 DEF ReportHolds, NoMessage
  <2>3. /\ docs'[1][p].ls = stable[p] /\ docs'[1][p].queued = Len(queue[p]) /\ docs'[1][p].fetch = fetch[p]
    BY <2>2 DEF Reader!StatsRaw
  <2>4. /\ stable[p] <= Len(topicLog[p])
        /\ p \notin paused => NoMessage(p, nextOffset[p], AtHead(p))
    BY DEF PositionsHold
  <2>5. stable[p] \in Nat /\ fetch[p] \in Nat /\ nextOffset[p] \in Nat BY PositionTypes
  <2>6. Len(queue[p]) = 0 => AtHead(p) = fetch[p] BY <2>5 DEF AtHead
  <2> QED BY <2>1, <2>3, <2>4, <2>5, <2>6 DEF NoMessage
<1> DEFINE Still(p) ==
      /\ docs'[1][p].ls <= Len(topicLog'[p])
      /\ p \notin paused' /\ docs'[1][p].queued = 0 /\ docs'[1][p].fetch >= docs'[1][p].ls =>
           \/ NoMessage(p, nextOffset[p], docs[1][p].ls)'
           \/ quiet'[p] = 0 /\ phase' \in {"sought", "recv"}
<1>3. ASSUME docs' = docs, docs # <<>> => \A p \in Partition : Still(p) PROVE ReportHolds'
  BY <1>3 DEF ReportHolds
<1>4. docs # <<>> => ~Once /\ \A p \in Partition :
        /\ docs[1][p].ls \in Nat
        /\ docs[1][p].ls <= Len(topicLog[p])
        /\ p \notin paused /\ docs[1][p].queued = 0 /\ docs[1][p].fetch >= docs[1][p].ls =>
             \/ NoMessage(p, nextOffset[p], docs[1][p].ls)
             \/ quiet[p] = 0 /\ phase \in {"sought", "recv"}
  <2> SUFFICES ASSUME docs # <<>>, NEW p \in Partition PROVE docs[1][p].ls \in Nat
    BY DEF ReportHolds
  <2>1. PICK w \in [Partition -> Watermarks] : docs = <<w>> BY DEF ReaderTyped
  <2>2. docs[1] = w BY <2>1
  <2> QED BY <2>2 DEF Watermarks
<1>5. CASE Reader!Top \/ Reader!RetryHeld \/ Reader!OnceDone \/ Reader!Fed \/ Reader!Committed
  <2>1. /\ UNCHANGED <<topicLog, nextOffset, paused, docs>>
        /\ phase \in {"sought", "recv"} => phase = "sought" /\ UNCHANGED quiet
        /\ docs # <<>> /\ phase = "sought" => phase' = "recv"
    BY <1>4, <1>5 DEF Reader!Top, Reader!RetryHeld, Reader!OnceDone, Reader!Fed, Reader!Committed,
       Reader!topic, Reader!Finished
  <2> QED BY <1>3, <1>4, <2>1 DEF NoMessage
<1>6. ASSUME NEW q \in Partition, Reader!RecheckBlocked(q) PROVE ReportHolds'
  <2>1. /\ UNCHANGED <<topicLog, docs>> /\ phase = "due" /\ paused' = paused \cup {q}
        /\ \A p \in Partition : p # q => nextOffset'[p] = nextOffset[p]
    BY <1>6 DEF Reader!RecheckBlocked, Reader!topic, ReaderTyped, Offsets
  <2> QED BY <1>3, <1>4, <2>1 DEF NoMessage
<1>7. CASE Reader!Release
  <2>1. /\ UNCHANGED <<topicLog, nextOffset, docs>> /\ phase = "due" /\ phase' = "sought"
        /\ \A p \in Partition : quiet'[p] = IF p \in paused THEN 0 ELSE quiet[p]
    BY <1>7 DEF Reader!Release, Reader!topic, Reader!Again
  <2> QED BY <1>3, <1>4, <2>1 DEF NoMessage
<1>8. ASSUME NEW q \in Partition, Reader!StepOver(q) PROVE ReportHolds'
  <2>1. UNCHANGED <<topicLog, nextOffset, quiet, paused, phase, docs>>
    BY <1>8 DEF Reader!StepOver, Reader!Hand, Reader!topic, Reader!loop
  <2> QED BY <1>3, <1>4, <2>1 DEF NoMessage
<1>9. CASE Reader!Hold
  <2>1. UNCHANGED <<topicLog, nextOffset, docs>> /\ phase = "commit" /\ paused' = Partition \ blocked
    BY <1>9 DEF Reader!Hold, Reader!topic
  <2>2. \A p \in Partition : p \notin paused' => p \notin paused
    BY <2>1 DEF PositionsHold
  <2> QED BY <1>3, <1>4, <2>1, <2>2 DEF NoMessage
<1>10. CASE Reader!Tick
  <2>1. /\ UNCHANGED <<topicLog, nextOffset, paused, docs>>
        /\ docs # <<>> => phase \notin {"sought", "recv"}
    BY <1>10 DEF Reader!Tick, Reader!topic, Reader!Awaits
  <2> QED BY <1>3, <1>4, <2>1 DEF NoMessage
<1>11. ASSUME NEW q \in Partition, Reader!Reposition(q) PROVE ReportHolds'
  <2>1. UNCHANGED <<topicLog, nextOffset, docs>> /\ phase = "due" /\ paused' = paused \cup {q}
    BY <1>11 DEF Reader!Reposition, Reader!topic
  <2> QED BY <1>3, <1>4, <2>1 DEF NoMessage
<1>12. ASSUME NEW q \in Partition, Reader!Produce(q) \/ Reader!EndTransaction(q) PROVE ReportHolds'
  <2>1. UNCHANGED <<nextOffset, quiet, paused, phase, docs>>
    BY <1>12 DEF Reader!Produce, Reader!EndTransaction, Reader!loop
  <2>2. PICK r \in {"message", "marker"} : Reader!Append1(q, r)
    BY <1>12 DEF Reader!Produce, Reader!EndTransaction
  <2> SUFFICES ASSUME docs # <<>>, NEW p \in Partition PROVE Still(p)
    BY <1>3, <2>1
  <2>3. /\ Len(topicLog[p]) <= Len(topicLog'[p]) /\ Len(topicLog[p]) \in Nat /\ Len(topicLog'[p]) \in Nat /\ nextOffset[p] \in Nat
        /\ docs[1][p].ls \in Nat /\ docs[1][p].ls <= Len(topicLog[p])
    <3>1. topicLog' \in [Partition -> Seq({"message", "marker"})] BY <2>2 DEF Reader!Append1, ReaderTyped
    <3>2. Len(topicLog'[p]) \in Nat BY <3>1
    <3>3. Len(topicLog[p]) <= Len(topicLog'[p]) BY <2>2, AppendKeeps
    <3> QED BY <1>4, <3>2, <3>3, PositionTypes
  <2>4. NoMessage(p, nextOffset[p], docs[1][p].ls) =>
          \A o \in nextOffset[p] .. docs[1][p].ls - 1 : topicLog'[p][o + 1] # "message"
    BY <2>2, <2>3, AppendKeeps DEF NoMessage
  <2>5. NoMessage(p, nextOffset[p], docs[1][p].ls) => NoMessage(p, nextOffset[p], docs[1][p].ls)'
    BY <2>1, <2>4 DEF NoMessage
  <2> QED BY <1>4, <2>1, <2>3, <2>5
<1>13. ASSUME NEW q \in Partition, Reader!Fetch(q) PROVE ReportHolds'
  <2>1. UNCHANGED <<topicLog, nextOffset, quiet, paused, phase, docs>>
    BY <1>13 DEF Reader!Fetch, Reader!topic, Reader!loop
  <2> QED BY <1>3, <1>4, <2>1 DEF NoMessage
<1>14. CASE Reader!PollNothing \/ Reader!CloseBatch \/ \E p \in Partition : Reader!Take(p) \/ Reader!DropPaused(p)
  BY <1>1, <1>14 DEF Reader!PollNothing, Reader!CloseBatch, Reader!Take, Reader!DropPaused, Reader!Polled
<1> QED
  BY <1>2, <1>5, <1>6, <1>7, <1>8, <1>9, <1>10, <1>11, <1>12, <1>13, <1>14 DEF Reader!Next, Reader!Loop

\* Nothing is read while a batch is held.
LEMMA HeldSteps ==
  ASSUME ReaderTyped, PositionsHold, HeldStops, Reader!Next
  PROVE  HeldStops'
<1> USE DEF HeldStops
<1>1. CASE Reader!Top \/ Reader!RetryHeld \/ Reader!OnceDone \/ Reader!PollNothing \/ Reader!Fed
           \/ Reader!Committed \/ Reader!CloseBatch
  BY <1>1 DEF Reader!Top, Reader!RetryHeld, Reader!OnceDone, Reader!PollNothing, Reader!Fed,
     Reader!Committed, Reader!CloseBatch, ReaderTyped
<1>2. CASE Reader!Release BY <1>2 DEF Reader!Release
<1>3. ASSUME NEW p \in Partition, Reader!RecheckBlocked(p) PROVE HeldStops'
  BY <1>3 DEF Reader!RecheckBlocked
<1>4. ASSUME NEW p \in Partition, Reader!StepOver(p) PROVE HeldStops'
  BY <1>4 DEF Reader!StepOver, Reader!loop
<1>5. ASSUME NEW p \in Partition, Reader!Take(p) PROVE HeldStops'
  <2>1. p \notin paused /\ p \notin blocked
    BY <1>5 DEF Reader!Take, Reader!Hand, PositionsHold
  <2> QED BY <1>5, <2>1 DEF Reader!Take
<1>6. ASSUME NEW p \in Partition, Reader!DropPaused(p) PROVE HeldStops'
  BY <1>6 DEF Reader!DropPaused
<1>7. CASE Reader!Hold BY <1>7 DEF Reader!Hold, ReaderTyped
<1>8. CASE Reader!Report BY <1>8 DEF Reader!Report, Reader!loop
<1>9. CASE Reader!Tick BY <1>9 DEF Reader!Tick
<1>10. ASSUME NEW p \in Partition, Reader!Reposition(p) PROVE HeldStops'
  BY <1>10 DEF Reader!Reposition
<1>11. ASSUME NEW p \in Partition, Reader!Produce(p) \/ Reader!EndTransaction(p) \/ Reader!Fetch(p)
       PROVE  HeldStops'
  BY <1>11 DEF Reader!Produce, Reader!EndTransaction, Reader!Fetch, Reader!loop
<1> QED
  BY <1>1, <1>2, <1>3, <1>4, <1>5, <1>6, <1>7, <1>8, <1>9, <1>10, <1>11 DEF Reader!Next, Reader!Loop

\* The clocks run as they did.
LEMMA ClockSteps ==
  ASSUME Reader!ConstantsAssumption, ReaderTyped, PositionsHold, ReportHolds, HeldStops, ClocksHold,
         Reader!Next
  PROVE  ClocksHold'
<1>1. /\ Reader!Cap \in Nat \ {0} /\ Once \in BOOLEAN
      /\ \A p \in Partition : /\ quiet[p] \in Nat /\ polled[p] \in Nat /\ tops[p] \in Nat
                              /\ quiet[p] <= Reader!Cap /\ polled[p] <= quiet[p]
  BY CapIs, PositionTypes DEF ClocksHold
<1>2. UNCHANGED Reader!Cap BY DEF Reader!Cap
<1> DEFINE Slow == ~(Once /\ ~SlowCalls)
           Even == ~full => \A p \in Partition \ blocked : quiet[p] = polled[p]
           Tops == phase \in {"due", "sought"} => \A p \in Partition : tops[p] <= quiet[p]
<1>3. Slow \/ (Even /\ Tops) BY DEF ClocksHold
<1>4. ASSUME \A p \in Partition : quiet'[p] <= Reader!Cap /\ polled'[p] <= quiet'[p],
             Slow \/ (Even' /\ Tops'),
             Slow \/ phase' # "done" \/ Reader!OnceIsComplete'
      PROVE  ClocksHold'
  BY <1>2, <1>4 DEF ClocksHold, Reader!OnceIsComplete
<1>5. CASE Reader!Top
  <2>1. /\ UNCHANGED <<quiet, polled, blocked, full>> /\ phase' = "due" /\ (Once => tops' = quiet)
    BY <1>5 DEF Reader!Top
  <2> QED BY <1>1, <1>3, <1>4, <2>1
<1>6. CASE Reader!RetryHeld \/ Reader!PollNothing \/ Reader!Fed \/ Reader!CloseBatch \/ Reader!Hold
           \/ \E p \in Partition : Reader!DropPaused(p) \/ Reader!Reposition(p)
  <2>1. /\ UNCHANGED <<quiet, polled, blocked, full>> /\ phase' \in {"top", "recv", "commit"}
    BY <1>6 DEF Reader!RetryHeld, Reader!PollNothing, Reader!Fed, Reader!CloseBatch, Reader!Hold,
       Reader!DropPaused, Reader!Reposition
  <2> QED BY <1>1, <1>3, <1>4, <2>1
<1>7. CASE Reader!OnceDone
  <2>1. /\ UNCHANGED <<topicLog, nextOffset, stopAt, quiet, polled, blocked, full, held, tops>>
        /\ phase \in {"due", "sought"} /\ phase' \in {"recv", "done", "failed"}
        /\ phase' = "done" => Reader!Finished /\ blocked = {}
    BY <1>7 DEF Reader!OnceDone, Reader!topic
  <2>2. Slow \/ phase' # "done" \/ Reader!OnceIsComplete'
    <3> SUFFICES ASSUME ~Slow, phase' = "done", NEW p \in Partition
                 PROVE  ~full /\ ~held /\ (Reader!Unread(p, stopAt[p])' = {} \/ polled[p] >= Idle)
      BY <2>1 DEF Reader!OnceIsComplete, Reader!Finished
    <3>1. ~full /\ ~held /\ Reader!Done(p) /\ quiet[p] = polled[p] /\ tops[p] <= quiet[p]
      BY <1>3, <2>1 DEF Reader!Finished
    <3>2. nextOffset[p] \in Nat /\ stopAt[p] \in Nat BY PositionTypes
    <3>3. CASE nextOffset[p] >= stopAt[p]
      BY <2>1, <3>1, <3>2, <3>3 DEF Reader!Unread
    <3>4. CASE tops[p] >= Idle
      BY <1>1, <3>1, <3>4, CapIs
    <3> QED BY <3>1, <3>3, <3>4 DEF Reader!Done
  <2> QED BY <1>1, <1>3, <1>4, <2>1, <2>2
<1>8. CASE Reader!Release
  <2>1. /\ UNCHANGED <<blocked, full>> /\ phase = "due" /\ phase' = "sought"
        /\ \A p \in Partition : /\ quiet'[p] = IF p \in paused THEN 0 ELSE quiet[p]
                                /\ polled'[p] = IF p \in paused THEN 0 ELSE polled[p]
                                /\ tops'[p] = IF p \in paused THEN 0 ELSE tops[p]
    BY <1>8 DEF Reader!Release, Reader!Again
  <2> QED BY <1>1, <1>3, <1>4, <2>1
<1>9. CASE Reader!Committed
  <2>1. /\ UNCHANGED <<blocked>> /\ phase' = "top"
        /\ \A p \in Partition : /\ quiet'[p] = IF p \in Partition \ blocked THEN 0 ELSE quiet[p]
                                /\ polled'[p] = IF p \in Partition \ blocked THEN 0 ELSE polled[p]
    BY <1>9 DEF Reader!Committed, Reader!AfterCommit, Reader!Again
  <2> QED BY <1>1, <1>4, <2>1
<1>10. ASSUME NEW q \in Partition, Reader!RecheckBlocked(q) PROVE ClocksHold'
  <2>1. /\ full' = full /\ phase' = phase /\ phase = "due" /\ blocked' = blocked \ {q}
        /\ \A p \in Partition : /\ quiet'[p] = IF p = q THEN 0 ELSE quiet[p]
                                /\ polled'[p] = IF p = q THEN 0 ELSE polled[p]
                                /\ tops'[p] = IF p = q THEN 0 ELSE tops[p]
    BY <1>10 DEF Reader!RecheckBlocked, ReaderTyped, Offsets
  <2> QED BY <1>1, <1>3, <1>4, <2>1
<1>11. ASSUME NEW q \in Partition, Reader!Take(q) PROVE ClocksHold'
  <2>1. /\ full' = TRUE /\ phase' = "feed"
        /\ \A p \in Partition : /\ quiet'[p] = IF p \in {q} THEN 0 ELSE quiet[p]
                                /\ polled'[p] = IF p \in {q} THEN 0 ELSE polled[p]
    BY <1>11 DEF Reader!Take, Reader!Again
  <2> QED BY <1>1, <1>4, <2>1
<1>12. CASE Reader!Report \/ \E p \in Partition : Reader!StepOver(p) \/ Reader!Produce(p)
                              \/ Reader!EndTransaction(p) \/ Reader!Fetch(p)
  <2>1. UNCHANGED <<quiet, polled, blocked, full, tops, phase>>
    BY <1>12 DEF Reader!Report, Reader!StepOver, Reader!Produce, Reader!EndTransaction, Reader!Fetch,
       Reader!loop
  <2>2. Slow \/ phase # "done"
    BY <1>12 DEF Reader!Report, Reader!StepOver, Reader!Hand, Reader!Produce, Reader!EndTransaction,
       Reader!Fetch, Reader!Room
  <2> QED BY <1>1, <1>3, <1>4, <2>1, <2>2
<1>13. CASE Reader!Tick
  <2>1. /\ UNCHANGED <<blocked, full, tops, phase>> /\ Reader!Awaits
        /\ \A p \in Partition :
             /\ quiet'[p] = Reader!Min({quiet[p] + 1, Reader!Cap})
             /\ polled'[p] = IF Once /\ phase = "recv" THEN Reader!Min({polled[p] + 1, Reader!Cap})
                             ELSE polled[p]
    BY <1>13 DEF Reader!Tick
  <2>2. ASSUME NEW p \in Partition
        PROVE  /\ quiet'[p] = IF quiet[p] + 1 <= Reader!Cap THEN quiet[p] + 1 ELSE Reader!Cap
               /\ polled'[p] = IF Once /\ phase = "recv"
                               THEN IF polled[p] + 1 <= Reader!Cap THEN polled[p] + 1 ELSE Reader!Cap
                               ELSE polled[p]
    <3>1. quiet[p] \in Nat /\ polled[p] \in Nat /\ Reader!Cap \in Nat BY PositionTypes, CapIs DEF ReaderInv
    <3>2. quiet[p] + 1 \in Int /\ polled[p] + 1 \in Int /\ Reader!Cap \in Int BY <3>1
    <3>3. /\ Reader!Min({quiet[p] + 1, Reader!Cap})
                 = IF quiet[p] + 1 <= Reader!Cap THEN quiet[p] + 1 ELSE Reader!Cap
          /\ Reader!Min({polled[p] + 1, Reader!Cap})
                 = IF polled[p] + 1 <= Reader!Cap THEN polled[p] + 1 ELSE Reader!Cap
      BY <3>2, SmallerIs
    <3> QED BY <2>1, <3>3
  <2>3. \A p \in Partition : quiet'[p] <= Reader!Cap /\ polled'[p] <= quiet'[p]
    BY <1>1, <2>2
  <2>4. Slow \/ phase = "recv" \/ (phase \in {"feed", "commit"} /\ full)
    BY <2>1 DEF Reader!Awaits, HeldStops
  <2> QED BY <1>1, <1>3, <1>4, <2>1, <2>2, <2>3, <2>4
<1> QED
  BY <1>5, <1>6, <1>7, <1>8, <1>9, <1>10, <1>11, <1>12, <1>13 DEF Reader!Next, Reader!Loop

\* Every step keeps the invariant.
LEMMA ReaderSteps ==
  ASSUME Reader!ConstantsAssumption, ReaderInv, [Reader!Next]_(Reader!vars)
  PROVE  ReaderInv'
<1>1. CASE Reader!Next
  BY <1>1, ReaderTypes, PositionSteps, ReportSteps, HeldSteps, ClockSteps DEF ReaderInv
<1>2. CASE UNCHANGED Reader!vars
  <2>1. UNCHANGED <<topicLog, stable, fetch, queue, app, nextOffset, quiet, polled, paused, blocked, docs, age, caughtUp,
                    full, held, holds, stopAt, tops, phase>>
    BY <1>2 DEF Reader!vars, Reader!topic, Reader!client, Reader!loop
  <2>2. ReaderTyped' BY <2>1 DEF ReaderInv, ReaderTyped
  <2>3. PositionsHold' BY <2>1, StillPositions DEF ReaderInv
  <2>4. ReportHolds' BY <2>1 DEF ReaderInv, ReportHolds, NoMessage
  <2>5. HeldStops' /\ ClocksHold'
    BY <2>1 DEF ReaderInv, HeldStops, ClocksHold, Reader!OnceIsComplete, Reader!Unread, Reader!Record,
       Reader!Cap
  <2> QED BY <2>2, <2>3, <2>4, <2>5 DEF ReaderInv
<1> QED BY <1>1, <1>2

\* In every state the reader's positions, its report and its clocks fit together.
THEOREM ReaderInvariance ==
  ASSUME Reader!ConstantsAssumption
  PROVE  Reader!Spec => []ReaderInv
<1>1. Reader!Init => ReaderInv BY ReaderStarts
<1>2. ReaderInv /\ [Reader!Next]_(Reader!vars) => ReaderInv' BY ReaderSteps
<1> QED BY <1>1, <1>2, PTL DEF Reader!Spec

\* The type invariant of the reader.
THEOREM ReaderTypeOK ==
  ASSUME Reader!ConstantsAssumption
  PROVE  Reader!Spec => []Reader!TypeOK
<1>1. ReaderInv => Reader!TypeOK
  <2> SUFFICES ASSUME ReaderInv PROVE Reader!TypeOK OBVIOUS
  <2>1. ASSUME NEW p \in Partition
        PROVE  /\ stable[p] <= Len(topicLog[p]) /\ nextOffset[p] <= Len(topicLog[p])
               /\ fetch[p] <= stable[p] /\ app[p] <= stable[p]
               /\ quiet[p] \in 0 .. Reader!Cap /\ polled[p] \in 0 .. quiet[p]
    <3>1. /\ stable[p] <= Len(topicLog[p]) /\ nextOffset[p] <= stable[p] /\ fetch[p] <= stable[p] /\ app[p] <= stable[p]
          /\ quiet[p] <= Reader!Cap /\ polled[p] <= quiet[p]
      BY DEF ReaderInv, PositionsHold, ClocksHold
    <3>2. /\ stable[p] \in Nat /\ Len(topicLog[p]) \in Nat /\ nextOffset[p] \in Nat /\ quiet[p] \in Nat /\ polled[p] \in Nat
      BY PositionTypes DEF ReaderInv
    <3>3. Reader!Cap \in Nat BY CapIs
    <3>4. \A i \in Nat, j \in Nat, k \in Nat : i <= j /\ j <= k => i <= k OBVIOUS
    <3>5. nextOffset[p] <= Len(topicLog[p]) BY <3>1, <3>2, <3>4
    <3>6. \A i \in Nat, j \in Nat : i <= j => i \in 0 .. j OBVIOUS
    <3>7. quiet[p] \in 0 .. Reader!Cap /\ polled[p] \in 0 .. quiet[p] BY <3>1, <3>2, <3>3, <3>6
    <3> QED BY <3>1, <3>5, <3>7
  <2>2. Len(docs) <= 1
    <3>1. docs = <<>> \/ \E w \in [Partition -> Watermarks] : docs = <<w>> BY DEF ReaderInv, ReaderTyped
    <3>2. Len(<<>>) = 0 OBVIOUS
    <3>3. ASSUME NEW w \in [Partition -> Watermarks] PROVE Len(<<w>>) = 1 OBVIOUS
    <3>4. Len(docs) = 0 \/ Len(docs) = 1 BY <3>1, <3>2, <3>3
    <3> QED BY <3>4
  <2>3. /\ paused \subseteq Partition /\ blocked \subseteq Stuck /\ age \in 0 .. 2 * Interval + 1
        /\ holds \in 0 .. MaxHolds /\ {caughtUp, full, held} \subseteq BOOLEAN
        /\ phase \in {"top", "due", "sought", "recv", "feed", "commit", "done", "failed"}
    BY DEF ReaderInv, ReaderTyped
  <2> QED BY <2>1, <2>2, <2>3 DEF Reader!TypeOK
<1> QED BY <1>1, ReaderInvariance, PTL

\* A member that says it is caught up has taken every message its report knew to be stable
\* (step.rs:1526), whatever was stepped over, paused or sought while the report was under
\* way: a partition that was sought since is not taken as settled.
THEOREM CaughtUpIsProved ==
  ASSUME Reader!ConstantsAssumption
  PROVE  Reader!Spec => [][Reader!CaughtUpIsTrue]_(Reader!vars)
<1>1. ASSUME ReaderInv, [Reader!Next]_(Reader!vars) PROVE Reader!CaughtUpIsTrue
  <2> SUFFICES ASSUME docs # <<>>, docs' = <<>>, caughtUp', NEW p \in Partition
               PROVE  Reader!Unread(p, docs[1][p].ls) = {}
    BY DEF Reader!CaughtUpIsTrue
  <2>1. Reader!Polled
    BY <1>1 DEF Reader!Next, Reader!Loop, Reader!Top, Reader!RetryHeld, Reader!Release, Reader!OnceDone,
       Reader!PollNothing, Reader!Fed, Reader!CloseBatch, Reader!Committed, Reader!RecheckBlocked,
       Reader!StepOver, Reader!Take, Reader!DropPaused, Reader!Hold, Reader!Report, Reader!Tick,
       Reader!Reposition, Reader!Produce, Reader!EndTransaction, Reader!Fetch, Reader!vars
  <2>2. Reader!Lag(p, docs[1][p]) = 0
    BY <2>1 DEF Reader!Polled, Reader!Observed
  <2>3. PICK w \in [Partition -> Watermarks] : docs = <<w>> BY <1>1 DEF ReaderInv, ReaderTyped
  <2>4. docs[1] = w /\ w[p].ls \in Nat /\ w[p].fetch \in Nat BY <2>3 DEF Watermarks
  <2>5. nextOffset[p] \in Nat /\ quiet[p] \in Nat BY <1>1, PositionTypes DEF ReaderInv
  <2>6. CASE Reader!SteppedOver(p, docs[1][p])
    <3>1. p \notin paused /\ quiet[p] # 0 /\ docs[1][p].queued = 0 /\ docs[1][p].fetch >= docs[1][p].ls
      BY <2>5, <2>6, CapIs DEF Reader!SteppedOver
    <3>2. NoMessage(p, nextOffset[p], docs[1][p].ls) BY <1>1, <3>1 DEF ReaderInv, ReportHolds
    <3> QED BY <3>2 DEF NoMessage, Reader!Unread, Reader!Record
  <2>7. CASE docs[1][p].ls <= nextOffset[p]
    BY <2>4, <2>5, <2>7 DEF Reader!Unread
  <2>8. CASE ~Reader!SteppedOver(p, docs[1][p]) /\ ~(docs[1][p].ls <= nextOffset[p])
    BY <2>2, <2>4, <2>5, <2>8 DEF Reader!Lag
  <2> QED BY <2>6, <2>7, <2>8
<1> QED BY <1>1, ReaderInvariance, PTL DEF Reader!Spec

\* Once-mode ends only when every partition was read to its end or was polled for
\* ONCE_IDLE without a message (docs/kafka-design.md:1979), as long as a seek and a
\* recheck's reads take no time that idleness is measured in.
THEOREM OnceModeIsComplete ==
  ASSUME Reader!ConstantsAssumption, ~SlowCalls
  PROVE  Reader!Spec => []Reader!OnceIsComplete
<1>1. ~Once => (Reader!Init => phase # "done") /\ (phase # "done" /\ [Reader!Next]_(Reader!vars) => (phase # "done")')
  BY DEF Reader!Init, Reader!Next, Reader!Loop, Reader!Top, Reader!RetryHeld, Reader!Release, Reader!OnceDone,
     Reader!Finished, Reader!PollNothing, Reader!Fed, Reader!CloseBatch, Reader!Committed,
     Reader!RecheckBlocked, Reader!StepOver, Reader!Take, Reader!DropPaused, Reader!Hold, Reader!Report,
     Reader!Tick, Reader!Reposition, Reader!Produce, Reader!EndTransaction, Reader!Fetch, Reader!vars,
     Reader!loop
<1>2. CASE Once
  <2>1. ReaderInv => Reader!OnceIsComplete BY <1>2 DEF ReaderInv, ClocksHold
  <2> QED BY <2>1, ReaderInvariance, PTL
<1>3. CASE ~Once
  <2>1. Reader!Init => ~(phase = "done") BY DEF Reader!Init
  <2>2. ~(phase = "done") /\ [Reader!Next]_(Reader!vars) => ~(phase = "done")' BY <1>1, <1>3
  <2>3. ~(phase = "done") => Reader!OnceIsComplete BY DEF Reader!OnceIsComplete
  <2> QED BY <2>1, <2>2, <2>3, PTL DEF Reader!Spec
<1> QED BY <1>2, <1>3, CapIs
=============================================================================
