------------------------ MODULE KafkaPipeline_proofs ------------------------
(***************************************************************************)
(* Proofs about KafkaPipeline, for every group of members, every topic,    *)
(* every inherited log and every bound: from one inductive invariant,      *)
(* that batches go on from the stored offsets without gap or overlap, that *)
(* the takeover marker is one, that offsets only move forward, that every  *)
(* message is in the target once, and that no member waits for nothing.    *)
(*                                                                         *)
(* Two hypotheses stand on the theorems, because without either one TLC    *)
(* finds the properties violated (the configurations stale and aba): the   *)
(* operator does not pass --allow-replay, and a refresh that moved the     *)
(* handle does not then fail to read the table's id.                       *)
(***************************************************************************)
EXTENDS KafkaPipeline, TLAPS, WellFoundedInduction

-----------------------------------------------------------------------------
(* The inductive invariant.                                                *)

\* Where a partition starts that has no offset stored.
Wanted(p) == IF Explicit[p] = None THEN 0 ELSE Explicit[p]

\* Where reading goes on from when offset b is stored.
After(p, b) == IF b # None THEN b + 1 ELSE Wanted(p)

\* Each of a commit's partitions goes on from its stored offset, with all that follows.
Continues(c) ==
    \A p \in Partition :
        IF c.txn[p] = None THEN c.rows[p] = {}
        ELSE /\ c.txn[p] >= After(p, Stored(p)) - 1
             /\ c.rows[p] = Messages(p, After(p, Stored(p)), c.txn[p])

\* A commit that may land next.
Admissible(c) ==
    /\ c \in Commit /\ c.by = "batch"
    /\ Continues(c)
    /\ c.marker => ~HasMarker(Len(target))

\* The handle a member commits from is in the log, and so is the marker it knows of.
HandleOK(r) ==
    /\ r.seen =< Len(target)
    /\ r.marked # None => r.marked =< Len(target)
    /\ r.marked = None \/ r.marked = r.seen \/ HasMarker(r.marked)

\* What it carries it read at its handle, and no base is ahead of what is stored.
FenceOK(r) ==
    /\ r.carried \subseteq Owned(r)
    /\ \A p \in r.carried : r.base[p] = Txn(r.seen, p)
    /\ \A p \in Partition : r.base[p] =< Stored(p)

\* A partition nothing of which is buffered is read from its offset in the target.
AtRest(r, p) ==
    IF r.reread[p] THEN r.base[p] # None /\ r.next[p] = r.base[p]
    ELSE r.next[p] = After(p, r.base[p])

\* What is buffered of p goes on from its offset in the target, without a gap.
Buffered(r, p) ==
    /\ p \in Owned(r) /\ ~r.reread[p]
    /\ r.base[p] = None => r.unbased[p] = Wanted(p)
    /\ \E top \in r.buf[p] :
          /\ r.buf[p] = Messages(p, After(p, r.base[p]), top)
          /\ p \in Ready(r) => r.next[p] = top + 1
    /\ p \notin Ready(r) => After(p, r.base[p]) < low[p]

\* A partition that is polled is read where its offsets say.
PositionOK(r) ==
    /\ \A p \in Owned(r) : p \notin Ready(r) => p \in r.paused
    /\ \A p \in Ready(r) : p \notin r.paused => r.pos[p] = r.next[p]
    /\ \A p \in Ready(r) : r.base[p] = None => r.unbased[p] = Wanted(p)
    /\ r.st = "held" => Owned(r) \subseteq r.paused

\* While it polls, each partition holds what follows its base, or nothing.
PollOK(r) ==
    r.st = "poll" =>
        \A p \in Partition :
            IF r.buf[p] # {} THEN Buffered(r, p) ELSE p \in Ready(r) => AtRest(r, p)

\* A batch is what its partitions hold from the offsets it was read from.
BatchOK(r) ==
    r.st \in {"try", "held", "flush"} =>
        /\ r.buf = Nothing
        /\ \A p \in Partition :
              IF r.batch.last[p] = None THEN r.batch.rows[p] = {}
              ELSE /\ p \in Owned(r) /\ r.batch.last[p] >= After(p, r.batch.bases[p])
                   /\ r.batch.rows[p] = Messages(p, After(p, r.batch.bases[p]), r.batch.last[p])
                   /\ r.batch.bases[p] =< r.base[p]
        /\ \A p \in Ready(r) :
              IF r.batch.last[p] # None /\ r.base[p] = r.batch.bases[p]
              THEN ~r.reread[p] /\ r.next[p] = r.batch.last[p] + 1
              ELSE AtRest(r, p)

\* A member that opens: its baseline knows of no marker and asserts no offset below one
\* it has read.
BaselineOK(r) ==
    /\ r.st \in {"down", "baseline"} => Owned(r) = {} /\ r.buf = Nothing
    /\ r.st = "baseline" =>
          /\ ~HasMarker(r.seen)
          /\ \A p \in Partition : r.batch.last[p] # None => r.batch.last[p] >= Txn(r.seen, p)

\* A member that waits is due to go on.
WaitOK(r) ==
    /\ Owned(r) = {} => r.st \in {"down", "baseline", "poll"} /\ ~r.blocked /\ r.buf = Nothing
    /\ r.blocked => r.st # "poll" \/ r.recheck
    /\ \A p \in Owned(r) : r.parts[p] = "blocked" => r.recheck

\* What holds of each member.
MemOK(r) ==
    /\ HandleOK(r) /\ FenceOK(r) /\ PositionOK(r) /\ PollOK(r)
    /\ BatchOK(r) /\ BaselineOK(r) /\ WaitOK(r)

\* A put whose answer was lost lands at its own version, as a commit that continues.
LateOK ==
    /\ late.at =< Len(target) + 1
    /\ late.at = Len(target) + 1 => Admissible(late.commit)

\* No row is ahead of the stored offset of its partition.
RowsBehind ==
    \A i \in 1 .. Len(target) : \A p \in Partition : \A o \in target[i].rows[p] : o =< Stored(p)

\* The inductive invariant.
IInv ==
    /\ TypeOK
    /\ EveryCommitContinues /\ OneMarker
    /\ LateOK
    /\ \A m \in Member : MemOK(mem[m])
-----------------------------------------------------------------------------
\* A set of naturals has a least one.
LEMMA LeastNatural ==
    ASSUME NEW T \in SUBSET Nat, T # {}
    PROVE  \E x \in T : \A y \in T : x =< y
<1> PICK R : R = {ss \in Nat \X Nat : ss[1] < ss[2]}
  OBVIOUS
<1>1. IsWellFoundedOn(R, Nat)
  BY NatLessThanWellFounded DEF OpToRel
<1>2. PICK x \in T : \A y \in T : ~(<<y, x>> \in R)
  BY <1>1, WFMin
<1>3. ASSUME NEW y \in T PROVE x =< y
  <2> PICK z : z = <<y, x>>
    OBVIOUS
  <2>1. z \in Nat \X Nat /\ z[1] = y /\ z[2] = x /\ z \notin R
    BY <1>2
  <2>2. ~(y < x)
    BY <2>1
  <2> QED
    BY <2>2
<1> QED
  BY <1>3

-----------------------------------------------------------------------------
(* The log.                                                                *)

\* The newest commit of p among the first n, if there is one, gives its txn.
LEMMA NewestIsTxn ==
    ASSUME target \in Seq(Commit), NEW n \in 0 .. Len(target), NEW p \in Partition,
           NEW i \in 1 .. n, Newest(n, p, i)
    PROVE  Txn(n, p) = target[i].txn[p]
<1>1. PICK k : k = CHOOSE j \in 1 .. n : Newest(n, p, j)
  OBVIOUS
<1>2. k \in 1 .. n /\ Newest(n, p, k)
  BY <1>1
<1>3. k = i
  BY <1>2 DEF Newest
<1> QED
  BY <1>1, <1>3 DEF Txn

\* Without one there is no txn.
LEMMA NoNewestNoTxn ==
    ASSUME NEW n, NEW p, \A i \in 1 .. n : ~Newest(n, p, i)
    PROVE  Txn(n, p) = None
  BY DEF Txn

\* A txn is an offset or None.
LEMMA TxnType ==
    ASSUME target \in Seq(Commit), NEW n \in 0 .. Len(target), NEW p \in Partition
    PROVE  Txn(n, p) \in Nat \cup {None}
<1>1. CASE \E i \in 1 .. n : Newest(n, p, i)
  <2>1. PICK i \in 1 .. n : Newest(n, p, i)
    BY <1>1
  <2>2. target[i] \in Commit
    OBVIOUS
  <2> QED
    BY <2>1, <2>2, NewestIsTxn DEF Commit
<1>2. CASE \A i \in 1 .. n : ~Newest(n, p, i)
  BY <1>2, NoNewestNoTxn
<1> QED
  BY <1>1, <1>2

\* So is the offset stored at the end of the log.
LEMMA StoredType ==
    ASSUME target \in Seq(Commit), NEW p \in Partition
    PROVE  Stored(p) \in Nat \cup {None}
<1>1. Len(target) \in Nat
  OBVIOUS
<1> QED
  BY <1>1, TxnType DEF Stored

\* Nothing was written of p since: its newest txn is the one there was.
LEMMA NothingSince ==
    ASSUME target \in Seq(Commit), NEW n \in 0 .. Len(target), NEW p \in Partition,
           \A i \in n + 1 .. Len(target) : target[i].txn[p] = None
    PROVE  Stored(p) = Txn(n, p)
<1>0. Len(target) \in Nat
  OBVIOUS
<1>1. CASE \E i \in 1 .. n : Newest(n, p, i)
  <2>1. PICK i \in 1 .. n : Newest(n, p, i)
    BY <1>1
  <2>2. Newest(Len(target), p, i) /\ i \in 1 .. Len(target)
    BY <1>0, <2>1 DEF Newest
  <2> QED
    BY <1>0, <2>1, <2>2, NewestIsTxn DEF Stored
<1>2. CASE \A i \in 1 .. n : ~Newest(n, p, i)
  <2>1. ASSUME NEW i \in 1 .. Len(target), Newest(Len(target), p, i)
        PROVE  FALSE
    BY <1>0, <1>2, <2>1 DEF Newest
  <2> QED
    BY <1>2, <2>1, NoNewestNoTxn DEF Stored
<1> QED
  BY <1>1, <1>2

\* The log only grows: what was read of its first commits stays so.
LEMMA PrefixStays ==
    ASSUME target \in Seq(Commit), NEW c \in Commit, target' = Append(target, c),
           NEW l, l = Len(target)
    PROVE  /\ target' \in Seq(Commit) /\ Len(target') = l + 1
           /\ target'[l + 1] = c
           /\ \A i \in 1 .. l : target'[i] = target[i]
           /\ \A n \in 0 .. l, p \in Partition : Txn(n, p)' = Txn(n, p)
           /\ \A n \in 0 .. l : HasMarker(n)' <=> HasMarker(n)
           /\ HasMarker(l + 1)' <=> (HasMarker(l) \/ c.marker)
<1>0. l \in Nat /\ l = Len(target)
  OBVIOUS
<1>1. target' \in Seq(Commit) /\ Len(target') = l + 1 /\ target'[l + 1] = c
  OBVIOUS
<1>2. \A i \in 1 .. l : target'[i] = target[i]
  OBVIOUS
<1>3. ASSUME NEW n \in 0 .. l, NEW p \in Partition
      PROVE  Txn(n, p)' = Txn(n, p)
  <2>1. \A i \in 1 .. n : Newest(n, p, i)' <=> Newest(n, p, i)
    BY <1>0, <1>2 DEF Newest
  <2>2. CASE \E i \in 1 .. n : Newest(n, p, i)
    <3>1. PICK i \in 1 .. n : Newest(n, p, i)
      BY <2>2
    <3>2. PICK k : k = CHOOSE j \in 1 .. n : Newest(n, p, j)'
      OBVIOUS
    <3>3. k \in 1 .. n /\ Newest(n, p, k)'
      BY <2>1, <3>1, <3>2
    <3>4. k = i
      BY <2>1, <3>1, <3>3 DEF Newest
    <3>5. Txn(n, p)' = target'[k].txn[p]
      BY <2>1, <3>1, <3>2 DEF Txn
    <3> QED
      BY <1>0, <1>2, <3>1, <3>4, <3>5, NewestIsTxn
  <2>3. CASE \A i \in 1 .. n : ~Newest(n, p, i)
    BY <2>1, <2>3 DEF Txn
  <2> QED
    BY <2>2, <2>3
<1>4. \A n \in 0 .. l : HasMarker(n)' <=> HasMarker(n)
  BY <1>0, <1>2 DEF HasMarker
<1>5. HasMarker(l + 1)' <=> (HasMarker(l) \/ c.marker)
  <2>1. \A i \in 1 .. l + 1 : i \in 1 .. l \/ i = l + 1
    BY <1>0
  <2> QED
    BY <1>0, <1>1, <1>2, <2>1 DEF HasMarker
<1> QED
  BY <1>1, <1>2, <1>3, <1>4, <1>5

\* A commit moves the stored offsets it writes and no others.
LEMMA StoredAppended ==
    ASSUME target \in Seq(Commit), NEW c \in Commit, target' = Append(target, c),
           NEW p \in Partition
    PROVE  Stored(p)' = IF c.txn[p] # None THEN c.txn[p] ELSE Stored(p)
<1> PICK l : l = Len(target)
  OBVIOUS
<1>0. l \in Nat /\ l = Len(target)
  OBVIOUS
<1>1. /\ Len(target') = l + 1
      /\ target'[l + 1] = c
      /\ \A i \in 1 .. l : target'[i] = target[i]
  BY <1>0, PrefixStays
<1>2. CASE c.txn[p] # None
  <2>1. \A k \in 1 .. l + 1 :
            Newest(l + 1, p, k)' <=> k = l + 1
    BY <1>0, <1>1, <1>2 DEF Newest
  <2>2. PICK k : k = CHOOSE j \in 1 .. l + 1 : Newest(l + 1, p, j)'
    OBVIOUS
  <2>3. k = l + 1
    BY <1>0, <2>1, <2>2
  <2>4. Txn(l + 1, p)' = target'[k].txn[p]
    BY <1>0, <1>1, <2>1, <2>2 DEF Txn
  <2> QED
    BY <1>1, <1>2, <2>3, <2>4 DEF Stored
<1>3. CASE c.txn[p] = None
  <2>1. \A k \in 1 .. l + 1 :
            Newest(l + 1, p, k)' <=> (k \in 1 .. l /\ Newest(l, p, k))
    BY <1>0, <1>1, <1>3 DEF Newest
  <2>2. CASE \E k \in 1 .. l : Newest(l, p, k)
    <3>1. PICK i \in 1 .. l : Newest(l, p, i)
      BY <2>2
    <3>2. PICK k : k = CHOOSE j \in 1 .. l + 1 : Newest(l + 1, p, j)'
      OBVIOUS
    <3>3. k \in 1 .. l /\ Newest(l, p, k)
      BY <1>0, <2>1, <3>1, <3>2
    <3>4. Txn(l + 1, p)' = target'[k].txn[p]
      BY <1>0, <1>1, <2>1, <3>1, <3>2 DEF Txn
    <3>5. Txn(l, p) = target[k].txn[p]
      BY <1>0, <3>3, NewestIsTxn
    <3> QED
      BY <1>1, <1>3, <3>3, <3>4, <3>5 DEF Stored
  <2>3. CASE \A k \in 1 .. l : ~Newest(l, p, k)
    BY <1>0, <1>1, <1>3, <2>1, <2>3 DEF Stored, Txn
  <2> QED
    BY <2>2, <2>3
<1> QED
  BY <1>2, <1>3

\* The log is what it was, or goes one commit further and moves no offset back.
Grows ==
    \/ target' = target
    \/ \E c \in Commit : /\ target' = Append(target, c)
                         /\ \A p \in Partition : c.txn[p] # None => c.txn[p] >= Stored(p)

\* What a longer log keeps of the one before it.
LEMMA GrownLog ==
    ASSUME target \in Seq(Commit), Grows
    PROVE  /\ Len(target) \in Nat /\ Len(target') \in Nat /\ Len(target) =< Len(target')
           /\ \A n \in 0 .. Len(target), p \in Partition : Txn(n, p)' = Txn(n, p)
           /\ \A n \in 0 .. Len(target) : HasMarker(n)' <=> HasMarker(n)
           /\ \A p \in Partition : Stored(p)' >= Stored(p) /\ Stored(p)' \in Nat \cup {None}
<1> PICK l : l = Len(target)
  OBVIOUS
<1>1. CASE target' = target
  <2>1. \A p \in Partition : Stored(p) \in Nat \cup {None} /\ Stored(p)' = Stored(p)
    BY <1>1, StoredType DEF Stored, Txn, Newest, None
  <2> QED
    BY <1>1, <2>1 DEF Txn, Newest, HasMarker, None
<1>2. CASE target' # target
  <2>1. PICK c \in Commit : /\ target' = Append(target, c)
                            /\ \A p \in Partition : c.txn[p] # None => c.txn[p] >= Stored(p)
    BY <1>2 DEF Grows
  <2>2. /\ Len(target') = l + 1
        /\ \A n \in 0 .. l, p \in Partition : Txn(n, p)' = Txn(n, p)
        /\ \A n \in 0 .. l : HasMarker(n)' <=> HasMarker(n)
    BY <2>1, PrefixStays
  <2>3. \A p \in Partition : Stored(p)' = IF c.txn[p] # None THEN c.txn[p] ELSE Stored(p)
    BY <2>1, StoredAppended
  <2>4. \A p \in Partition : Stored(p)' >= Stored(p) /\ Stored(p)' \in Nat \cup {None}
    BY <2>1, <2>3, StoredType DEF Commit, None
  <2> QED
    BY <2>2, <2>4
<1> QED
  BY <1>1, <1>2

\* What holds of a member keeps holding while others write and the topic moves.
LEMMA MemKept ==
    ASSUME target \in Seq(Commit), low \in [Partition -> Nat], low' \in [Partition -> Nat], Grows,
           \A p \in Partition : low[p] =< low'[p],
           NEW r \in MemType, MemOK(r)
    PROVE  MemOK(r)'
<1> PICK l : l = Len(target)
  OBVIOUS
<1>0. /\ l \in Nat /\ l =< Len(target') /\ Len(target') \in Nat
      /\ \A n \in 0 .. l, p \in Partition : Txn(n, p)' = Txn(n, p)
      /\ \A n \in 0 .. l : HasMarker(n)' <=> HasMarker(n)
      /\ \A p \in Partition : Stored(p)' >= Stored(p) /\ Stored(p)' \in Nat \cup {None}
  BY GrownLog
<1>1. /\ r.seen \in Nat /\ r.marked \in Nat \cup {None} /\ r.base \in [Partition -> Nat \cup {None}]
      /\ r.unbased \in [Partition -> Nat \cup {None}] /\ r.next \in [Partition -> Nat]
      /\ r.carried \subseteq Partition
  BY DEF MemType
<1>2. HandleOK(r)'
  BY <1>0, <1>1 DEF MemOK, HandleOK, None
<1>3. FenceOK(r)'
  <2>1. r.carried \subseteq Owned(r)' /\ r.seen \in 0 .. l
    BY <1>0, <1>1 DEF MemOK, FenceOK, HandleOK, Owned
  <2>2. \A p \in r.carried : r.base[p] = Txn(r.seen, p)'
    BY <1>0, <1>1, <2>1 DEF MemOK, FenceOK
  <2>3. \A p \in Partition : r.base[p] =< Stored(p)'
    <3> TAKE p \in Partition
    <3>1. Stored(p) \in Int /\ r.base[p] \in Int /\ r.base[p] =< Stored(p) /\ Stored(p)' >= Stored(p)
      BY <1>0, <1>1, StoredType DEF MemOK, FenceOK, None
    <3>2. Stored(p)' \in Int
      BY <1>0 DEF None
    <3> QED
      BY <3>1, <3>2
  <2> QED
    BY <2>1, <2>2, <2>3 DEF FenceOK
<1>4. PositionOK(r)'
  BY DEF MemOK, PositionOK, Owned, Ready, Wanted
<1>5. PollOK(r)'
  <2>1. ASSUME NEW p \in Partition, Buffered(r, p)
        PROVE  Buffered(r, p)'
    <3>1. After(p, r.base[p]) \in Nat
      BY <1>1, ConstantsAssumption DEF After, Wanted, None
    <3> QED
      BY <2>1, <3>1 DEF Buffered, Owned, Ready, After, Wanted, Messages
  <2> QED
    BY <2>1 DEF MemOK, PollOK, AtRest, Ready, After, Wanted
<1>6. BatchOK(r)'
  BY DEF MemOK, BatchOK, AtRest, Ready, After, Wanted, Messages, Nothing
<1>7. BaselineOK(r)'
  <2>1. r.seen \in 0 .. l
    BY <1>0, <1>1 DEF MemOK, HandleOK
  <2> QED
    BY <1>0, <2>1 DEF MemOK, BaselineOK, Owned, Nothing
<1>8. WaitOK(r)'
  BY DEF MemOK, WaitOK, Owned, Nothing
<1> QED
  BY <1>2, <1>3, <1>4, <1>5, <1>6, <1>7, <1>8 DEF MemOK

\* What a commit has to be for the log to stay sound.
LEMMA LogGrown ==
    ASSUME IInv, NEW c \in Commit, target' = Append(target, c),
           c.by = "batch" => Continues(c),
           c.marker => ~HasMarker(Len(target)),
           late' = late \/ late' = NoLate
    PROVE  EveryCommitContinues' /\ OneMarker' /\ LateOK'
<1> PICK l : l = Len(target)
  OBVIOUS
<1>0. /\ l \in Nat /\ Len(target') = l + 1 /\ target'[l + 1] = c
      /\ \A i \in 1 .. l : target'[i] = target[i]
      /\ \A n \in 0 .. l, p \in Partition : Txn(n, p)' = Txn(n, p)
  BY PrefixStays DEF IInv, TypeOK
<1>1. EveryCommitContinues'
  <2> SUFFICES ASSUME NEW i \in 1 .. l + 1, target'[i].by = "batch", NEW p \in Partition
               PROVE  IF target'[i].txn[p] = None THEN target'[i].rows[p] = {}
                      ELSE /\ target'[i].txn[p] >= From(i, p)' - 1
                           /\ target'[i].rows[p] = Messages(p, From(i, p), target[i].txn[p])'
    BY <1>0 DEF EveryCommitContinues
  <2>1. From(i, p)' = After(p, Txn(i - 1, p))
    BY <1>0 DEF From, After, Wanted
  <2>2. CASE i \in 1 .. l
    <3>1. From(i, p) = After(p, Txn(i - 1, p)) /\ target'[i] = target[i]
      BY <1>0, <2>2 DEF From, After, Wanted
    <3>2. IF target[i].txn[p] = None THEN target[i].rows[p] = {}
          ELSE /\ target[i].txn[p] >= From(i, p) - 1
               /\ target[i].rows[p] = Messages(p, From(i, p), target[i].txn[p])
      BY <1>0, <2>2, <3>1 DEF IInv, EveryCommitContinues
    <3> QED
      BY <2>1, <3>1, <3>2 DEF Messages
  <2>3. CASE i = l + 1
    <3>1. Txn(i - 1, p) = Stored(p) /\ target'[i] = c
      BY <1>0, <2>3 DEF Stored
    <3> QED
      BY <2>1, <3>1 DEF Continues, Messages
  <2> QED
    BY <1>0, <2>2, <2>3
<1>2. OneMarker'
  BY <1>0 DEF IInv, OneMarker, HasMarker
<1>3. LateOK'
  BY <1>0 DEF IInv, TypeOK, LateOK, NoLate
<1> QED
  BY <1>1, <1>2, <1>3

\* A step that writes nothing: what is known of the log stays.
LEMMA LogSame ==
    ASSUME IInv, target' = target
    PROVE  /\ EveryCommitContinues' /\ OneMarker'
           /\ \A c : Admissible(c)' <=> Admissible(c)
<1>1. EveryCommitContinues'
  <2>1. \A i, p : From(i, p)' = From(i, p)
    BY DEF From, Txn, Newest
  <2>2. \A p, a, b : Messages(p, a, b)' = Messages(p, a, b)
    BY DEF Messages
  <2> QED
    BY <2>1, <2>2 DEF IInv, EveryCommitContinues, Messages
<1>2. OneMarker'
  BY DEF IInv, OneMarker
<1>3. \A c : Admissible(c)' <=> Admissible(c)
  BY DEF Admissible, Continues, HasMarker, After, Wanted, Stored, Txn, Newest, Messages
<1> QED
  BY <1>1, <1>2, <1>3

\* A step of a member that writes nothing.
LEMMA MemStep ==
    ASSUME IInv, NEW m \in Member, NEW r \in MemType, MemOK(r), Put(m, r),
           UNCHANGED <<low, high, target, late>>, faults' \in 0 .. MaxFaults
    PROVE  IInv'
<1>1. TypeOK'
  BY DEF IInv, TypeOK, Put
<1>2. ASSUME NEW x \in Member PROVE MemOK(mem[x])'
  <2>0. /\ target \in Seq(Commit) /\ low \in [Partition -> Nat] /\ low' \in [Partition -> Nat] /\ Grows
        /\ \A p \in Partition : low[p] =< low'[p]
    BY DEF IInv, TypeOK, Grows
  <2> PICK s : s = mem'[x]
    OBVIOUS
  <2>1. s \in MemType /\ MemOK(s)
    BY DEF IInv, TypeOK, Put
  <2>2. MemOK(s)'
    BY <2>0, <2>1, MemKept
  <2> QED
    BY <2>2
<1>3. EveryCommitContinues' /\ OneMarker' /\ LateOK'
  BY LogSame DEF IInv, LateOK
<1> QED
  BY <1>1, <1>2, <1>3 DEF IInv

-----------------------------------------------------------------------------
(* What the operators on a member's record do.                             *)

\* What the invariant says of one member.
LEMMA MemFacts ==
    ASSUME IInv, NEW m \in Member
    PROVE  /\ mem[m] \in MemType /\ MemOK(mem[m])
           /\ target \in Seq(Commit) /\ Len(target) \in Nat
           /\ low \in [Partition -> Nat] /\ high \in [Partition -> Nat]
           /\ \A p \in Partition : low[p] =< high[p]
           /\ \A p \in Partition : Stored(p) \in Nat \cup {None}
           /\ mem \in [Member -> MemType]
<1>1. target \in Seq(Commit)
  BY DEF IInv, TypeOK
<1>2. \A p \in Partition : Stored(p) \in Nat \cup {None}
  BY <1>1, StoredType
<1> QED
  BY <1>1, <1>2 DEF IInv, TypeOK

\* Start offsets are naturals.
LEMMA WantedType ==
    \A p \in Partition : Wanted(p) \in Nat /\ \A b \in Nat \cup {None} : After(p, b) \in Nat
  BY ConstantsAssumption DEF Wanted, After, None

\* No offset, and no message, of any partition.
LEMMA NowhereType ==
    /\ Nowhere \in [Partition -> Nat \cup {None}] /\ \A p \in Partition : Nowhere[p] = None
    /\ Nothing \in [Partition -> SUBSET Nat] /\ \A p \in Partition : Nothing[p] = {}
  BY DEF Nowhere, Nothing

\* A member that is down is a member.
LEMMA DownType == Down \in MemType
<1>1. NoBatch \in [last : [Partition -> Nat \cup {None}], rows : [Partition -> SUBSET Nat],
                   bases : [Partition -> Nat \cup {None}]]
  BY NowhereType DEF NoBatch
<1>2. NotStalled \in [partition : Partition \cup {None}, offset : Nat \cup {None}]
  BY DEF NotStalled
<1> QED
  BY <1>1, <1>2, NowhereType DEF Down, MemType

\* A member that owns nothing and waits for partitions.
LEMMA IdleOK ==
    ASSUME target \in Seq(Commit), NEW r \in MemType, HandleOK(r),
           r.st \in {"down", "poll"}, r.carried = {}, r.base = Nowhere, r.buf = Nothing,
           ~r.blocked, Owned(r) = {}
    PROVE  MemOK(r)
<1>1. Ready(r) = {}
  BY DEF Owned, Ready
<1>2. FenceOK(r)
  BY NowhereType, StoredType DEF FenceOK, None
<1>3. PositionOK(r) /\ PollOK(r) /\ BatchOK(r) /\ BaselineOK(r) /\ WaitOK(r)
  BY <1>1, NowhereType DEF PositionOK, PollOK, BatchOK, BaselineOK, WaitOK
<1> QED
  BY <1>2, <1>3 DEF MemOK

\* Nothing is asked of a member that is down.
LEMMA DownOK == ASSUME target \in Seq(Commit) PROVE MemOK(Down)
<1> PICK r : r = Down
  OBVIOUS
<1>1. /\ r.st = "down" /\ r.seen = 0 /\ r.marked = None /\ r.carried = {} /\ r.base = Nowhere
      /\ r.buf = Nothing /\ ~r.blocked /\ Owned(r) = {}
  BY DEF Down, Owned
<1>2. r \in MemType /\ Len(target) \in Nat
  BY DownType
<1>3. MemOK(r)
  BY <1>1, <1>2, IdleOK DEF HandleOK
<1> QED
  BY <1>3

\* Nor of one that gave its partitions up, but for its handle.
LEMMA UnassignedOK ==
    ASSUME target \in Seq(Commit), NEW r \in MemType, HandleOK(r)
    PROVE  Unassigned(r) \in MemType /\ MemOK(Unassigned(r))
<1>0. r.seen \in Nat /\ r.marked \in Nat \cup {None}
  BY DEF MemType
<1> PICK u : u = Unassigned(r)
  OBVIOUS
<1>1. u \in MemType
  BY <1>0, DownType DEF Unassigned, MemType
<1>2. /\ u.st = "poll" /\ u.seen = r.seen /\ u.marked = r.marked /\ u.carried = {}
      /\ u.base = Nowhere /\ u.buf = Nothing /\ ~u.blocked /\ Owned(u) = {}
  BY DEF Unassigned, Down, Owned
<1>3. MemOK(u)
  BY <1>1, <1>2, IdleOK DEF HandleOK
<1> QED
  BY <1>1, <1>3

\* A read of the target leaves a member with what the log holds now.
LEMMA ResetFields ==
    ASSUME target \in Seq(Commit), NEW r \in MemType
    PROVE  LET s == RefreshAndReset(r)
           IN  /\ s \in MemType
               /\ s.seen = Len(target) /\ s.marked = Len(target) /\ s.carried = Owned(r)
               /\ s.base = [p \in Partition |-> IF p \in Owned(r) THEN Stored(p) ELSE None]
               /\ s.st = r.st /\ s.why = r.why /\ s.parts = r.parts /\ s.next = r.next
               /\ s.reread = r.reread /\ s.unbased = r.unbased /\ s.pos = r.pos
               /\ s.paused = r.paused /\ s.aged = r.aged /\ s.buf = r.buf /\ s.stalled = r.stalled
               /\ s.batch = r.batch /\ s.blocked = r.blocked /\ s.recheck = r.recheck
               /\ s.evicted = r.evicted /\ Owned(s) = Owned(r) /\ Ready(s) = Ready(r)
               /\ HandleOK(s) /\ FenceOK(s)
<1> PICK s : s = RefreshAndReset(r)
  OBVIOUS
<1> PICK b : b = [p \in Partition |-> IF p \in Owned(r) THEN Stored(p) ELSE None]
  OBVIOUS
<1>0. Len(target) \in Nat /\ b \in [Partition -> Nat \cup {None}]
      /\ \A p \in Partition : Stored(p) \in Nat \cup {None}
  BY StoredType
<1>1. s = [r EXCEPT !.seen = Len(target), !.base = b, !.carried = Owned(r), !.marked = Len(target)]
  BY DEF RefreshAndReset
<1>2. Owned(r) \in SUBSET Partition
  BY DEF Owned
<1>3. s \in MemType
  BY ZenonT(60), <1>0, <1>1, <1>2 DEF MemType
<1>4. /\ s.seen = Len(target) /\ s.marked = Len(target) /\ s.carried = Owned(r) /\ s.base = b
      /\ s.st = r.st /\ s.why = r.why /\ s.parts = r.parts /\ s.next = r.next
      /\ s.reread = r.reread /\ s.unbased = r.unbased /\ s.pos = r.pos
      /\ s.paused = r.paused /\ s.aged = r.aged /\ s.buf = r.buf /\ s.stalled = r.stalled
      /\ s.batch = r.batch /\ s.blocked = r.blocked /\ s.recheck = r.recheck
      /\ s.evicted = r.evicted
  BY <1>1 DEF MemType
<1>5. Owned(s) = Owned(r) /\ Ready(s) = Ready(r)
  BY <1>4 DEF Owned, Ready
<1>6. HandleOK(s)
  BY <1>0, <1>4 DEF HandleOK
<1>7. FenceOK(s)
  BY <1>0, <1>2, <1>4, <1>5 DEF FenceOK, Stored, None
<1> QED
  BY <1>3, <1>4, <1>5, <1>6, <1>7

\* reposition_changed, field by field: `again' are the partitions it reads again.
Repositioned(s, changed, b, t) ==
    /\ t \in MemType
    /\ t.seen = s.seen /\ t.marked = s.marked /\ t.carried = s.carried /\ t.base = s.base
    /\ t.st = s.st /\ t.why = s.why /\ t.parts = s.parts /\ t.unbased = s.unbased
    /\ t.pos = s.pos /\ t.aged = s.aged /\ t.batch = s.batch /\ t.blocked = s.blocked
    /\ t.evicted = s.evicted /\ Owned(t) = Owned(s) /\ Ready(t) = Ready(s)
    /\ t.buf = IF \E p \in changed : s.buf[p] # {} THEN Nothing ELSE s.buf
    /\ s.recheck => t.recheck
    /\ \E again \in SUBSET Partition :
          /\ changed \subseteq again
          /\ \A p \in Partition : s.buf[p] # {} /\ t.buf[p] = {} => p \in again
          /\ \A p \in Ready(s) :
                /\ b.last[p] = None /\ t.buf[p] = {} /\ At(s, p) # None
                   /\ At(s, p) # s.next[p]
                => p \in again
          /\ \A p \in Partition : p \in again =>
                \/ p \in changed
                \/ s.buf[p] # {} /\ t.buf[p] = {}
                \/ p \in Ready(s) /\ b.last[p] = None /\ t.buf[p] = {}
          /\ \A p \in Partition :
                IF p \in again /\ p \in Ready(s)
                THEN /\ t.next[p] = IF At(s, p) = None THEN 0 ELSE At(s, p)
                     /\ ~t.reread[p] /\ p \in t.paused
                ELSE /\ t.next[p] = s.next[p] /\ t.reread[p] = s.reread[p]
                     /\ (p \in t.paused <=> p \in s.paused)

\* Reposition does what Repositioned says.
LEMMA RepositionFields ==
    ASSUME NEW s \in MemType, NEW changed \in SUBSET Partition, NEW b,
           b.last \in [Partition -> Nat \cup {None}], NEW t, t = Reposition(s, changed, b)
    PROVE  Repositioned(s, changed, b, t)
<1> DEFINE drop  == \E p \in changed : s.buf[p] # {}
           buf   == IF drop THEN Nothing ELSE s.buf
           again == changed \cup {p \in Partition : s.buf[p] # {} /\ buf[p] = {}}
                      \cup {p \in Ready(s) : /\ p \notin Ranges(b) /\ buf[p] = {}
                                             /\ At(s, p) # None /\ At(s, p) # s.next[p]}
           ready == again \cap Ready(s)
           st    == IF drop THEN NotStalled ELSE s.stalled
           nx    == [p \in Partition |-> IF p \notin ready THEN s.next[p]
                                         ELSE IF At(s, p) = None THEN 0 ELSE At(s, p)]
           rr    == [p \in Partition |-> p \notin ready /\ s.reread[p]]
           pd    == s.paused \cup ready
           rc    == s.recheck \/ again \ Ready(s) # {}
<1>1. t = [s EXCEPT !.buf = buf, !.stalled = st, !.next = nx, !.reread = rr, !.paused = pd,
                    !.recheck = rc]
  BY DEF Reposition
<1>2. Ready(s) \in SUBSET Partition /\ again \in SUBSET Partition /\ pd \in SUBSET Partition
  BY DEF Ready, MemType
<1>3. buf \in [Partition -> SUBSET Nat]
  BY NowhereType DEF MemType
<1>4. st \in [partition : Partition \cup {None}, offset : Nat \cup {None}]
  BY DEF MemType, NotStalled
<1>5. \A p \in Partition : At(s, p) \in Nat \cup {None}
  BY DEF MemType, At, None
<1>6. nx \in [Partition -> Nat] /\ rr \in [Partition -> BOOLEAN] /\ rc \in BOOLEAN
  BY <1>5 DEF MemType, None
<1>7. \A p \in Partition : p \in Ranges(b) <=> b.last[p] # None
  BY DEF Ranges
<1>8. \A p \in Partition : p \in again <=>
         \/ p \in changed
         \/ s.buf[p] # {} /\ buf[p] = {}
         \/ p \in Ready(s) /\ b.last[p] = None /\ buf[p] = {} /\ At(s, p) # None
            /\ At(s, p) # s.next[p]
  BY <1>2, <1>7
<1>9. \A p \in Partition :
         IF p \in again /\ p \in Ready(s)
         THEN /\ nx[p] = IF At(s, p) = None THEN 0 ELSE At(s, p)
              /\ ~rr[p] /\ p \in pd
         ELSE nx[p] = s.next[p] /\ rr[p] = s.reread[p] /\ (p \in pd <=> p \in s.paused)
  BY DEF MemType
<1>10. buf = IF \E p \in changed : s.buf[p] # {} THEN Nothing ELSE s.buf
  OBVIOUS
<1>11. s.recheck => rc
  OBVIOUS
<1> HIDE DEF drop, buf, again, ready, st, nx, rr, pd, rc
<1>12. t \in MemType
  <2>1. PICK x : x = [s EXCEPT !.buf = buf, !.stalled = st, !.next = nx]
    OBVIOUS
  <2>2. x \in MemType
    BY <1>3, <1>4, <1>6, <2>1 DEF MemType
  <2>3. t = [x EXCEPT !.reread = rr, !.paused = pd, !.recheck = rc]
    BY <1>1, <2>1 DEF MemType
  <2> QED
    BY ZenonT(60), <1>2, <1>6, <2>2, <2>3 DEF MemType
<1>13. /\ t.seen = s.seen /\ t.marked = s.marked /\ t.carried = s.carried /\ t.base = s.base
       /\ t.st = s.st /\ t.why = s.why /\ t.parts = s.parts /\ t.unbased = s.unbased
       /\ t.pos = s.pos /\ t.aged = s.aged /\ t.batch = s.batch /\ t.blocked = s.blocked
       /\ t.evicted = s.evicted /\ t.buf = buf /\ t.next = nx /\ t.reread = rr
       /\ t.paused = pd /\ t.recheck = rc
  BY <1>1 DEF MemType
<1>14. Owned(t) = Owned(s) /\ Ready(t) = Ready(s)
  BY <1>13 DEF Owned, Ready
<1> QED
  <2>1. /\ again \in SUBSET Partition
        /\ changed \subseteq again
        /\ \A p \in Partition : s.buf[p] # {} /\ t.buf[p] = {} => p \in again
        /\ \A p \in Ready(s) :
              /\ b.last[p] = None /\ t.buf[p] = {} /\ At(s, p) # None /\ At(s, p) # s.next[p]
              => p \in again
        /\ \A p \in Partition : p \in again =>
              \/ p \in changed
              \/ s.buf[p] # {} /\ t.buf[p] = {}
              \/ p \in Ready(s) /\ b.last[p] = None /\ t.buf[p] = {}
        /\ \A p \in Partition :
              IF p \in again /\ p \in Ready(s)
              THEN /\ t.next[p] = IF At(s, p) = None THEN 0 ELSE At(s, p)
                   /\ ~t.reread[p] /\ p \in t.paused
              ELSE /\ t.next[p] = s.next[p] /\ t.reread[p] = s.reread[p]
                   /\ (p \in t.paused <=> p \in s.paused)
    BY <1>2, <1>8, <1>9, <1>13
  <2> QED
    BY <1>10, <1>11, <1>12, <1>13, <1>14, <2>1 DEF Repositioned

\* With no batch to spare, every partition is read again from its offset, or its buffer goes on
\* from there.
LEMMA ReadAgain ==
    ASSUME NEW s \in MemType, NEW changed \in SUBSET Partition, PositionOK(s),
           \A p \in Partition : p \notin changed /\ s.buf[p] # {} => Buffered(s, p),
           \A p \in Ready(s) : p \notin changed /\ s.reread[p] =>
               s.base[p] # None /\ s.next[p] = s.base[p],
           NEW t, t = Reposition(s, changed, NoBatch)
    PROVE  /\ PositionOK(t)
           /\ \A p \in Partition :
                 IF t.buf[p] # {} THEN Buffered(t, p) ELSE p \in Ready(t) => AtRest(t, p)
<1>0. /\ s.base \in [Partition -> Nat \cup {None}] /\ s.next \in [Partition -> Nat]
      /\ s.buf \in [Partition -> SUBSET Nat]
  BY DEF MemType
<1>1. NoBatch.last \in [Partition -> Nat \cup {None}] /\ \A p \in Partition : NoBatch.last[p] = None
  BY NowhereType DEF NoBatch
<1>9. Repositioned(s, changed, NoBatch, t)
  BY <1>1, RepositionFields
<1>2. /\ t \in MemType /\ t.base = s.base /\ t.st = s.st /\ t.parts = s.parts
      /\ t.unbased = s.unbased /\ t.pos = s.pos /\ Owned(t) = Owned(s) /\ Ready(t) = Ready(s)
      /\ t.buf = IF \E p \in changed : s.buf[p] # {} THEN Nothing ELSE s.buf
  BY <1>9 DEF Repositioned
<1>3. PICK again \in SUBSET Partition :
         /\ changed \subseteq again
         /\ \A p \in Partition : s.buf[p] # {} /\ t.buf[p] = {} => p \in again
         /\ \A p \in Ready(s) :
               /\ NoBatch.last[p] = None /\ t.buf[p] = {} /\ At(s, p) # None
                  /\ At(s, p) # s.next[p]
               => p \in again
         /\ \A p \in Partition : p \in again =>
               \/ p \in changed
               \/ s.buf[p] # {} /\ t.buf[p] = {}
               \/ p \in Ready(s) /\ NoBatch.last[p] = None /\ t.buf[p] = {}
         /\ \A p \in Partition :
               IF p \in again /\ p \in Ready(s)
               THEN /\ t.next[p] = IF At(s, p) = None THEN 0 ELSE At(s, p)
                    /\ ~t.reread[p] /\ p \in t.paused
               ELSE /\ t.next[p] = s.next[p] /\ t.reread[p] = s.reread[p]
                    /\ (p \in t.paused <=> p \in s.paused)
  BY <1>9 DEF Repositioned
<1>4. \A p \in Ready(s) : At(s, p) = After(p, s.base[p]) /\ At(s, p) \in Nat
  BY <1>0, WantedType DEF PositionOK, At, After, Ready, None
<1>5. Ready(s) \subseteq Owned(s) /\ Owned(s) \subseteq Partition /\ Owned(s) = {p \in Partition : s.parts[p] # "none"}
  BY DEF Ready, Owned
<1>6. PositionOK(t)
  <2>1. \A p \in Owned(t) : p \notin Ready(t) => p \in t.paused
    BY <1>2, <1>3, <1>5 DEF PositionOK
  <2>2. \A p \in Ready(t) : p \notin t.paused => t.pos[p] = t.next[p]
    BY <1>2, <1>3, <1>5 DEF PositionOK
  <2>3. t.st = "held" => Owned(t) \subseteq t.paused
    BY <1>2, <1>3, <1>5 DEF PositionOK
  <2> QED
    BY <1>2, <2>1, <2>2, <2>3 DEF PositionOK
<1>7. ASSUME NEW p \in Partition, t.buf[p] # {}
      PROVE  Buffered(t, p)
  <2>1. t.buf = s.buf /\ p \notin changed
    BY <1>2, <1>7, NowhereType
  <2>2. Buffered(s, p) /\ (p \notin again \/ p \notin Ready(s))
    BY <1>1, <1>3, <1>7, <2>1
  <2> QED
    BY <1>2, <1>3, <2>1, <2>2 DEF Buffered
<1>8. ASSUME NEW p \in Ready(t), t.buf[p] = {}
      PROVE  AtRest(t, p)
  <2>0. p \in Partition /\ p \in Ready(s)
    BY <1>2, <1>5
  <2>1. CASE p \in again
    BY <1>2, <1>3, <1>4, <2>0, <2>1 DEF AtRest, None
  <2>2. CASE p \notin again
    <3>1. p \notin changed /\ At(s, p) = s.next[p] /\ t.next[p] = s.next[p] /\ t.reread[p] = s.reread[p]
      BY <1>1, <1>3, <1>4, <1>8, <2>0, <2>2 DEF None
    <3>2. ~s.reread[p]
      BY <1>0, <1>4, <2>0, <3>1 DEF After, None
    <3> QED
      BY <1>2, <1>4, <2>0, <3>1, <3>2 DEF AtRest
  <2> QED
    BY <2>1, <2>2
<1> QED
  BY <1>5, <1>6, <1>7, <1>8

\* A batch that survives keeps what it was read from; what it does not hold is read again.
LEMMA ReadAround ==
    ASSUME NEW s \in MemType, NEW changed \in SUBSET Partition, PositionOK(s), s.buf = Nothing,
           \A p \in Ready(s) : p \notin changed =>
              IF s.batch.last[p] # None /\ s.base[p] = s.batch.bases[p]
              THEN ~s.reread[p] /\ s.next[p] = s.batch.last[p] + 1
              ELSE AtRest(s, p),
           \A p \in changed : s.batch.last[p] # None => s.base[p] # s.batch.bases[p],
           NEW t, t = Reposition(s, changed, s.batch)
    PROVE  /\ PositionOK(t) /\ t.buf = Nothing
           /\ \A p \in Ready(t) :
                 IF t.batch.last[p] # None /\ t.base[p] = t.batch.bases[p]
                 THEN ~t.reread[p] /\ t.next[p] = t.batch.last[p] + 1
                 ELSE AtRest(t, p)
<1>0. /\ s.base \in [Partition -> Nat \cup {None}] /\ s.next \in [Partition -> Nat]
      /\ s.batch.last \in [Partition -> Nat \cup {None}]
  BY DEF MemType
<1>9. Repositioned(s, changed, s.batch, t)
  BY <1>0, RepositionFields
<1>2. /\ t \in MemType /\ t.base = s.base /\ t.st = s.st /\ t.parts = s.parts
      /\ t.unbased = s.unbased /\ t.pos = s.pos /\ t.batch = s.batch
      /\ Owned(t) = Owned(s) /\ Ready(t) = Ready(s)
      /\ t.buf = IF \E p \in changed : s.buf[p] # {} THEN Nothing ELSE s.buf
  BY <1>9 DEF Repositioned
<1>3. PICK again \in SUBSET Partition :
         /\ changed \subseteq again
         /\ \A p \in Partition : s.buf[p] # {} /\ t.buf[p] = {} => p \in again
         /\ \A p \in Ready(s) :
               /\ s.batch.last[p] = None /\ t.buf[p] = {} /\ At(s, p) # None
                  /\ At(s, p) # s.next[p]
               => p \in again
         /\ \A p \in Partition : p \in again =>
               \/ p \in changed
               \/ s.buf[p] # {} /\ t.buf[p] = {}
               \/ p \in Ready(s) /\ s.batch.last[p] = None /\ t.buf[p] = {}
         /\ \A p \in Partition :
               IF p \in again /\ p \in Ready(s)
               THEN /\ t.next[p] = IF At(s, p) = None THEN 0 ELSE At(s, p)
                    /\ ~t.reread[p] /\ p \in t.paused
               ELSE /\ t.next[p] = s.next[p] /\ t.reread[p] = s.reread[p]
                    /\ (p \in t.paused <=> p \in s.paused)
  BY <1>9 DEF Repositioned
<1>4. \A p \in Ready(s) : At(s, p) = After(p, s.base[p]) /\ At(s, p) \in Nat
  BY <1>0, WantedType DEF PositionOK, At, After, Ready, None
<1>5. Ready(s) \subseteq Owned(s) /\ Owned(s) \subseteq Partition
  BY DEF Ready, Owned
<1>6. PositionOK(t)
  <2>1. \A p \in Owned(t) : p \notin Ready(t) => p \in t.paused
    BY <1>2, <1>3, <1>5 DEF PositionOK
  <2>2. \A p \in Ready(t) : p \notin t.paused => t.pos[p] = t.next[p]
    BY <1>2, <1>3, <1>5 DEF PositionOK
  <2>3. t.st = "held" => Owned(t) \subseteq t.paused
    BY <1>2, <1>3, <1>5 DEF PositionOK
  <2> QED
    BY <1>2, <2>1, <2>2, <2>3 DEF PositionOK
<1>7. t.buf = Nothing
  BY <1>2
<1>8. ASSUME NEW p \in Ready(t)
      PROVE  IF t.batch.last[p] # None /\ t.base[p] = t.batch.bases[p]
             THEN ~t.reread[p] /\ t.next[p] = t.batch.last[p] + 1
             ELSE AtRest(t, p)
  <2>0. p \in Partition /\ p \in Ready(s)
    BY <1>2, <1>5
  <2>1. CASE p \in again
    <3>1. AtRest(t, p)
      BY <1>2, <1>3, <1>4, <2>0, <2>1 DEF AtRest, None
    <3>2. t.batch.last[p] = None \/ t.base[p] # t.batch.bases[p]
      BY <1>2, <1>3, <2>0, <2>1, NowhereType
    <3> QED
      BY <3>1, <3>2
  <2>2. CASE p \notin again
    BY <1>2, <1>3, <2>0, <2>2 DEF AtRest
  <2> QED
    BY <2>1, <2>2
<1> QED
  BY <1>6, <1>7, <1>8

-----------------------------------------------------------------------------
(* The steps of a member that write nothing.                               *)

\* Fields no invariant of a member looks at, or that may only grow.
Like(r, u) ==
    /\ u.st = r.st /\ u.parts = r.parts /\ u.next = r.next /\ u.reread = r.reread
    /\ u.unbased = r.unbased /\ u.pos = r.pos /\ u.base = r.base /\ u.buf = r.buf
    /\ u.batch = r.batch /\ u.seen = r.seen /\ u.marked = r.marked /\ u.carried = r.carried

\* A member that differs only there is as sound.
LEMMA LikeOK ==
    ASSUME NEW r \in MemType, NEW u \in MemType, MemOK(r), Like(r, u),
           r.paused \subseteq u.paused, u.blocked = r.blocked, r.recheck => u.recheck
    PROVE  MemOK(u)
<1>1. Owned(u) = Owned(r) /\ Ready(u) = Ready(r) /\ u.st = r.st
  BY DEF Like, Owned, Ready
<1>2. HandleOK(u)
  BY DEF Like, MemOK, HandleOK
<1>3. FenceOK(u)
  BY <1>1 DEF Like, MemOK, FenceOK
<1>4. PositionOK(u)
  BY <1>1 DEF Like, MemOK, PositionOK
<1>5. PollOK(u)
  <2>1. ASSUME NEW p \in Partition, Buffered(r, p) PROVE Buffered(u, p)
    BY <1>1, <2>1 DEF Like, Buffered
  <2> QED
    BY <1>1, <2>1 DEF Like, MemOK, PollOK, AtRest
<1>6. BatchOK(u)
  BY <1>1 DEF Like, MemOK, BatchOK, AtRest
<1>7. BaselineOK(u)
  BY <1>1 DEF Like, MemOK, BaselineOK
<1>8. WaitOK(u)
  BY <1>1 DEF Like, MemOK, WaitOK
<1> QED
  BY <1>2, <1>3, <1>4, <1>5, <1>6, <1>7, <1>8 DEF MemOK

\* The invariant survives Evict.
LEMMA EvictKeeps ==
    ASSUME IInv, NEW m \in Member, Evict(m), faults' \in 0 .. MaxFaults
    PROVE  IInv'
<1> PICK u : u = [mem[m] EXCEPT !.evicted = TRUE]
  OBVIOUS
<1>1. mem[m] \in MemType /\ MemOK(mem[m])
  BY MemFacts
<1>2. u \in MemType
  BY <1>1 DEF MemType
<1>3. Like(mem[m], u) /\ u.paused = mem[m].paused /\ u.blocked = mem[m].blocked
      /\ u.recheck = mem[m].recheck
  BY <1>1 DEF MemType, Like
<1>4. MemOK(u)
  BY <1>1, <1>2, <1>3, LikeOK
<1> QED
  BY <1>2, <1>4, MemStep DEF Evict

\* The invariant survives FeedStalled.
LEMMA FeedStalledKeeps ==
    ASSUME IInv, NEW m \in Member, FeedStalled(m), faults' \in 0 .. MaxFaults
    PROVE  IInv'
<1> PICK u : u = [mem[m] EXCEPT !.stalled = NotStalled]
  OBVIOUS
<1>1. mem[m] \in MemType /\ MemOK(mem[m])
  BY MemFacts
<1>2. u \in MemType
  BY <1>1 DEF MemType, NotStalled
<1>3. Like(mem[m], u) /\ u.paused = mem[m].paused /\ u.blocked = mem[m].blocked
      /\ u.recheck = mem[m].recheck
  BY <1>1 DEF MemType, Like
<1>4. MemOK(u)
  BY <1>1, <1>2, <1>3, LikeOK
<1> QED
  BY <1>2, <1>4, MemStep DEF FeedStalled

\* A crash, a refused baseline, and partitions that are gone: everything is forgotten.
LEMMA ForgetKeeps ==
    ASSUME IInv, NEW m \in Member, faults' \in 0 .. MaxFaults, UNCHANGED <<low, high, target, late>>,
           \/ Put(m, Down)
           \/ Put(m, Unassigned(mem[m]))
    PROVE  IInv'
<1>1. mem[m] \in MemType /\ HandleOK(mem[m]) /\ target \in Seq(Commit)
  BY MemFacts DEF MemOK
<1>2. CASE Put(m, Down)
  BY <1>1, <1>2, DownType, DownOK, MemStep
<1>3. CASE Put(m, Unassigned(mem[m]))
  BY <1>1, <1>3, UnassignedOK, MemStep
<1> QED
  BY <1>2, <1>3

\* A baseline is of a log without the marker, and takes no offset back.
LEMMA BaselineFacts ==
    ASSUME target \in Seq(Commit), low \in [Partition -> Nat], high \in [Partition -> Nat]
    PROVE  /\ Baseline \in [Partition -> Nat \cup {None}]
           /\ Baseline # Nowhere =>
                 /\ ~HasMarker(Len(target))
                 /\ \A p \in Partition : Baseline[p] # None => Baseline[p] >= Stored(p)
<1>0. /\ \A p \in Partition : Stored(p) \in Nat \cup {None}
      /\ Explicit \in [Partition -> Nat \cup {None}]
  BY StoredType, ConstantsAssumption
<1>1. CASE Era(Len(target)) = "Fresh"
  <2>1. \A p \in Partition : Stored(p) = None /\ ~HasMarker(Len(target))
    BY <1>1 DEF Era, Stored
  <2>2. \A p \in Partition : FreshStart(p) \in Nat
    BY <1>0 DEF FreshStart, None
  <2>3. Baseline = [p \in Partition |-> FreshStart(p) - 1]
    BY <1>1 DEF Baseline
  <2>4. \A p \in Partition : Baseline[p] \in Nat \cup {None} /\ Baseline[p] >= None
    BY <2>2, <2>3 DEF None
  <2>5. ~HasMarker(Len(target))
    BY <1>1 DEF Era
  <2> QED
    BY <2>1, <2>3, <2>4, <2>5
<1>2. CASE Era(Len(target)) = "Kdi"
  <2>1. Baseline = [p \in Partition |-> IF Stored(p) # None THEN Stored(p)
                                        ELSE IF Explicit[p] > 0 THEN Explicit[p] - 1 ELSE None]
    BY <1>2 DEF Baseline
  <2>2. \A p \in Partition : Baseline[p] \in Nat \cup {None} /\ Baseline[p] >= Stored(p)
    BY <1>0, <2>1 DEF None
  <2>3. ~HasMarker(Len(target))
    BY <1>2 DEF Era
  <2> QED
    BY <2>1, <2>2, <2>3
<1>3. CASE Era(Len(target)) = "Ddi"
  BY <1>3, NowhereType DEF Baseline
<1> QED
  BY <1>1, <1>2, <1>3 DEF Era

\* The invariant survives OpenRead.
LEMMA OpenReadKeeps ==
    ASSUME IInv, NEW m \in Member, OpenRead(m), faults' \in 0 .. MaxFaults
    PROVE  IInv'
<1> PICK b : b = [NoBatch EXCEPT !.last = Baseline]
  OBVIOUS
<1> PICK st : st = IF Baseline = Nowhere THEN "poll" ELSE "baseline"
  OBVIOUS
<1> PICK u : u = [Down EXCEPT !.seen = Len(target), !.st = st, !.batch = b]
  OBVIOUS
<1>0. /\ target \in Seq(Commit) /\ Len(target) \in Nat
      /\ Baseline \in [Partition -> Nat \cup {None}]
      /\ Baseline # Nowhere =>
            /\ ~HasMarker(Len(target))
            /\ \A p \in Partition : Baseline[p] # None => Baseline[p] >= Stored(p)
  BY MemFacts, BaselineFacts
<1>1. b \in [last : [Partition -> Nat \cup {None}], rows : [Partition -> SUBSET Nat],
             bases : [Partition -> Nat \cup {None}]] /\ b.last = Baseline
  BY <1>0, NowhereType DEF NoBatch
<1>2. u \in MemType
  BY ZenonT(60), <1>0, <1>1, DownType DEF MemType
<1>3. /\ u.st = st /\ u.seen = Len(target) /\ u.marked = None /\ u.carried = {} /\ u.base = Nowhere
      /\ u.buf = Nothing /\ ~u.blocked /\ Owned(u) = {} /\ u.batch = b
  BY DEF Down, Owned
<1>4. HandleOK(u)
  BY <1>0, <1>3 DEF HandleOK
<1>5. CASE st = "poll"
  <2>1. MemOK(u)
    BY <1>0, <1>2, <1>3, <1>4, <1>5, IdleOK
  <2> QED
    BY <1>2, <2>1, MemStep DEF OpenRead
<1>6. CASE st = "baseline" /\ Baseline # Nowhere
  <2>1. Ready(u) = {}
    BY <1>3 DEF Owned, Ready
  <2>2. FenceOK(u)
    BY <1>0, <1>3, NowhereType, StoredType DEF FenceOK, None
  <2>3. BaselineOK(u)
    BY <1>0, <1>1, <1>3, <1>6 DEF BaselineOK, Stored
  <2>4. PositionOK(u) /\ PollOK(u) /\ BatchOK(u) /\ WaitOK(u)
    BY <1>3, <1>6, <2>1 DEF PositionOK, PollOK, BatchOK, WaitOK
  <2>5. MemOK(u)
    BY <1>4, <2>2, <2>3, <2>4 DEF MemOK
  <2> QED
    BY <1>2, <2>5, MemStep DEF OpenRead
<1> QED
  BY <1>5, <1>6

\* Records with fields replaced, here and below, are records of the type.
LEMMA ExceptThree ==
    ASSUME NEW r \in MemType, NEW pos \in [Partition -> Nat], NEW rr \in [Partition -> BOOLEAN],
           NEW nx \in [Partition -> Nat]
    PROVE  [r EXCEPT !.pos = pos, !.reread = rr, !.next = nx] \in MemType
  BY DEF MemType

\* A member whose buffer is replaced stays a member.
LEMMA ExceptBuf ==
    ASSUME NEW r \in MemType, NEW bf \in [Partition -> SUBSET Nat]
    PROVE  [r EXCEPT !.buf = bf] \in MemType
  BY DEF MemType

\* A member stalled on a blocked partition stays a member.
LEMMA ExceptStalled ==
    ASSUME NEW r \in MemType, NEW ps \in SUBSET Partition,
           NEW s \in [partition : Partition \cup {None}, offset : Nat \cup {None}]
    PROVE  [r EXCEPT !.stalled = s, !.paused = ps] \in MemType
  BY DEF MemType

\* librdkafka hands over the first message at or after its position.
LEMMA NextMessageFacts ==
    ASSUME NEW p \in Partition, NEW x \in Nat, low[p] \in Nat, high[p] \in Nat,
           NextMessage(p, x) # None, NEW o, o = NextMessage(p, x)
    PROVE  /\ o \in Nat /\ o >= x /\ o < high[p] /\ o >= low[p] /\ <<p, o>> \notin Holes
           /\ x >= low[p] => \A y \in x .. o - 1 : <<p, y>> \in Holes
<1> PICK S : S = {y \in x .. high[p] - 1 : MessageAt(p, y)}
  OBVIOUS
<1>1. S \in SUBSET Nat /\ S # {}
  BY DEF NextMessage
<1>2. PICK z \in S : \A y \in S : z =< y
  BY <1>1, LeastNatural
<1>3. z \in x .. high[p] - 1 /\ MessageAt(p, z) /\ \A y \in x .. z - 1 : ~MessageAt(p, y)
  BY <1>2
<1>4. o = CHOOSE y \in x .. high[p] - 1 :
             MessageAt(p, y) /\ \A w \in x .. y - 1 : ~MessageAt(p, w)
  BY <1>3 DEF NextMessage
<1>5. o \in x .. high[p] - 1 /\ MessageAt(p, o) /\ \A w \in x .. o - 1 : ~MessageAt(p, w)
  BY <1>3, <1>4
<1> QED
  BY <1>5 DEF MessageAt

\* The invariant survives DropMessage.
LEMMA DropMessageKeeps ==
    ASSUME IInv, NEW m \in Member, NEW p \in Partition, DropMessage(m, p),
           faults' \in 0 .. MaxFaults
    PROVE  IInv'
<1> PICK r : r = mem[m]
  OBVIOUS
<1> PICK o : o = NextMessage(p, r.pos[p])
  OBVIOUS
<1> PICK again \in BOOLEAN : again <=> p \notin r.paused /\ r.reread[p] /\ o = r.next[p]
  OBVIOUS
<1> PICK pos : pos = [r.pos EXCEPT ![p] = o + 1]
  OBVIOUS
<1> PICK rr : rr = [r.reread EXCEPT ![p] = @ /\ ~again]
  OBVIOUS
<1> PICK nx : nx = [r.next EXCEPT ![p] = IF again THEN o + 1 ELSE @]
  OBVIOUS
<1> PICK u : u = [r EXCEPT !.pos = pos, !.reread = rr, !.next = nx]
  OBVIOUS
<1>0. /\ r \in MemType /\ MemOK(r) /\ low \in [Partition -> Nat] /\ high \in [Partition -> Nat]
      /\ target \in Seq(Commit)
  BY MemFacts
<1>1. /\ r.pos \in [Partition -> Nat] /\ r.reread \in [Partition -> BOOLEAN]
      /\ r.next \in [Partition -> Nat] /\ r.base \in [Partition -> Nat \cup {None}]
      /\ r.parts \in [Partition -> {"none", "ready", "blocked"}]
  BY <1>0 DEF MemType
<1>2. o \in Nat /\ p \in Owned(r) /\ (p \in r.paused \/ o < r.next[p] \/ again)
  <2>1. p \in Owned(r) /\ (p \in r.paused \/ o < r.next[p] \/ again)
    BY DEF DropMessage, Delivers
  <2>2. r.pos[p] \in Nat /\ low[p] \in Nat /\ high[p] \in Nat /\ NextMessage(p, r.pos[p]) # None
    BY <1>0, <1>1 DEF DropMessage, Delivers
  <2> QED
    BY <2>1, <2>2, NextMessageFacts
<1>a. /\ pos \in [Partition -> Nat] /\ rr \in [Partition -> BOOLEAN] /\ nx \in [Partition -> Nat]
      /\ pos[p] = o + 1 /\ (rr[p] <=> r.reread[p] /\ ~again)
      /\ nx[p] = IF again THEN o + 1 ELSE r.next[p]
      /\ \A q \in Partition : q # p => /\ pos[q] = r.pos[q] /\ rr[q] = r.reread[q]
                                      /\ nx[q] = r.next[q]
  <2>1. pos \in [Partition -> Nat] /\ pos[p] = o + 1 /\ \A q \in Partition : q # p => pos[q] = r.pos[q]
    BY <1>1, <1>2
  <2>2. /\ nx \in [Partition -> Nat] /\ nx[p] = IF again THEN o + 1 ELSE r.next[p]
        /\ \A q \in Partition : q # p => nx[q] = r.next[q]
    BY <1>1, <1>2
  <2>3. /\ rr \in [Partition -> BOOLEAN] /\ (rr[p] <=> r.reread[p] /\ ~again)
        /\ \A q \in Partition : q # p => rr[q] = r.reread[q]
    BY <1>1
  <2> QED
    BY <2>1, <2>2, <2>3
<1>3. u \in MemType
  BY ZenonT(30), <1>0, <1>a, ExceptThree
<1>b. Put(m, u)
  BY <1>0 DEF DropMessage, MemType
<1>4. /\ u.pos = pos /\ u.reread = rr /\ u.next = nx
      /\ u.st = r.st /\ u.parts = r.parts /\ u.unbased = r.unbased /\ u.base = r.base
      /\ u.buf = r.buf /\ u.batch = r.batch /\ u.seen = r.seen /\ u.marked = r.marked
      /\ u.carried = r.carried /\ u.paused = r.paused /\ u.blocked = r.blocked
      /\ u.recheck = r.recheck
  BY <1>0 DEF MemType
<1>5. Owned(u) = Owned(r) /\ Ready(u) = Ready(r) /\ Ready(r) \subseteq Partition
  BY <1>4 DEF Owned, Ready
<1>6. p \notin r.paused => again
  <2>1. p \notin r.paused => p \in Ready(r) /\ r.pos[p] = r.next[p]
    BY <1>0, <1>2 DEF MemOK, PositionOK
  <2>2. r.pos[p] \in Nat /\ low[p] \in Nat /\ high[p] \in Nat /\ NextMessage(p, r.pos[p]) # None
    BY <1>0, <1>1 DEF DropMessage, Delivers
  <2>3. o >= r.pos[p]
    BY <2>2, NextMessageFacts
  <2> QED
    BY <1>1, <1>2, <2>1, <2>3
<1>7. PositionOK(u)
  <2>1. \A q \in Ready(u) : q \notin u.paused => u.pos[q] = u.next[q]
    BY <1>0, <1>4, <1>5, <1>6, <1>a DEF MemOK, PositionOK
  <2> QED
    BY SMTT(30), <1>0, <1>4, <1>5, <2>1 DEF MemOK, PositionOK
<1>8. ASSUME NEW q \in Ready(r), AtRest(r, q) PROVE AtRest(u, q)
  <2>1. CASE again /\ q = p
    <3>1. u.next[q] = r.next[q] + 1 /\ ~u.reread[q] /\ r.reread[q]
      BY <1>4, <1>a, <2>1
    <3> QED
      BY <1>1, <1>4, <1>8, <3>1 DEF AtRest, After
  <2>2. CASE ~(again /\ q = p)
    <3>0. q \in Partition
      BY <1>5
    <3>1. u.next[q] = r.next[q] /\ u.reread[q] = r.reread[q]
      <4>1. CASE q # p
        BY <1>4, <1>a, <3>0, <4>1
      <4>2. CASE q = p /\ ~again
        <5>1. rr[p] = r.reread[p] /\ nx[p] = r.next[p]
          BY <1>1, <1>a, <4>2
        <5> QED
          BY <1>4, <4>2, <5>1
      <4> QED
        BY <2>2, <4>1, <4>2
    <3> QED
      BY <1>4, <1>8, <3>1 DEF AtRest
  <2> QED
    BY <2>1, <2>2
<1>9. ASSUME NEW q \in Partition, ~r.reread[q] PROVE u.next[q] = r.next[q] /\ ~u.reread[q]
  BY <1>4, <1>9, <1>a
<1>10. PollOK(u)
  <2>1. ASSUME NEW q \in Partition, Buffered(r, q) PROVE Buffered(u, q)
    BY <1>4, <1>5, <1>9, <2>1 DEF Buffered
  <2> QED
    BY <1>0, <1>4, <1>5, <1>8, <2>1 DEF MemOK, PollOK
<1>11. BatchOK(u)
  <2>1. ASSUME u.st \in {"try", "held", "flush"}, NEW q \in Ready(u)
        PROVE  IF u.batch.last[q] # None /\ u.base[q] = u.batch.bases[q]
               THEN ~u.reread[q] /\ u.next[q] = u.batch.last[q] + 1
               ELSE AtRest(u, q)
    <3>1. /\ q \in Partition /\ q \in Ready(r) /\ u.batch = r.batch /\ u.base = r.base
          /\ IF r.batch.last[q] # None /\ r.base[q] = r.batch.bases[q]
             THEN ~r.reread[q] /\ r.next[q] = r.batch.last[q] + 1
             ELSE AtRest(r, q)
      BY <1>0, <1>4, <1>5, <2>1 DEF MemOK, BatchOK
    <3> QED
      BY <1>8, <1>9, <3>1
  <2> QED
    BY SMTT(30), <1>0, <1>4, <1>5, <2>1 DEF MemOK, BatchOK
<1>12. HandleOK(u) /\ FenceOK(u) /\ BaselineOK(u) /\ WaitOK(u)
  <2>1. HandleOK(u) /\ FenceOK(u)
    BY <1>0, <1>4, <1>5 DEF MemOK, HandleOK, FenceOK
  <2>2. BaselineOK(u) /\ WaitOK(u)
    BY <1>0, <1>4, <1>5 DEF MemOK, BaselineOK, WaitOK
  <2> QED
    BY <2>1, <2>2
<1>13. MemOK(u)
  BY <1>7, <1>10, <1>11, <1>12 DEF MemOK
<1> QED
  BY <1>3, <1>13, <1>b, MemStep DEF DropMessage

\* A message taken goes on from the buffer, or starts it at the offset expected.
LEMMA TakenOK ==
    ASSUME IInv, NEW m \in Member, NEW p \in Partition, Takes(m, p),
           NEW u, u = Taken(mem[m], p)
    PROVE  u \in MemType /\ MemOK(u) /\ u.st = "poll" /\ Owned(u) # {}
<1> PICK r : r = mem[m]
  OBVIOUS
<1> PICK o : o = NextMessage(p, r.pos[p])
  OBVIOUS
<1> PICK pos : pos = [r.pos EXCEPT ![p] = o + 1]
  OBVIOUS
<1> PICK rr : rr = [r.reread EXCEPT ![p] = FALSE]
  OBVIOUS
<1> PICK nx : nx = [r.next EXCEPT ![p] = o + 1]
  OBVIOUS
<1> PICK bf : bf = [r.buf EXCEPT ![p] = @ \cup {o}]
  OBVIOUS
<1>0. /\ r \in MemType /\ MemOK(r) /\ low \in [Partition -> Nat] /\ high \in [Partition -> Nat]
      /\ target \in Seq(Commit)
  BY MemFacts
<1>1. /\ r.pos \in [Partition -> Nat] /\ r.reread \in [Partition -> BOOLEAN]
      /\ r.next \in [Partition -> Nat] /\ r.base \in [Partition -> Nat \cup {None}]
      /\ r.buf \in [Partition -> SUBSET Nat]
      /\ r.parts \in [Partition -> {"none", "ready", "blocked"}]
  BY <1>0 DEF MemType
<1>2. p \in Owned(r) /\ p \in Ready(r) /\ r.st = "poll" /\ r.pos[p] = r.next[p]
  BY <1>0 DEF Takes, Delivers, Polls, MemOK, PositionOK
<1>3. /\ o \in Nat /\ o >= r.next[p] /\ (r.reread[p] => o > r.next[p])
      /\ <<p, o>> \notin Holes /\ \A y \in r.next[p] .. o - 1 : <<p, y>> \in Holes
  BY <1>0, <1>1, <1>2, NextMessageFacts DEF Takes, Delivers
<1>4. u = [r EXCEPT !.pos = pos, !.reread = rr, !.next = nx, !.buf = bf]
  BY <1>0 DEF Taken, MemType
<1>a. /\ pos \in [Partition -> Nat] /\ rr \in [Partition -> BOOLEAN] /\ nx \in [Partition -> Nat]
      /\ bf \in [Partition -> SUBSET Nat]
      /\ pos[p] = o + 1 /\ ~rr[p] /\ nx[p] = o + 1 /\ bf[p] = r.buf[p] \cup {o}
      /\ \A q \in Partition : q # p => /\ pos[q] = r.pos[q] /\ rr[q] = r.reread[q]
                                      /\ nx[q] = r.next[q] /\ bf[q] = r.buf[q]
  BY <1>1, <1>3
<1>5. u \in MemType
  <2>1. PICK x : x = [r EXCEPT !.pos = pos, !.reread = rr, !.next = nx]
    OBVIOUS
  <2>2. x \in MemType
    BY <1>0, <1>a, <2>1, ExceptThree
  <2>3. u = [x EXCEPT !.buf = bf]
    BY <1>0, <1>4, <2>1 DEF MemType
  <2> QED
    BY <1>a, <2>2, <2>3, ExceptBuf
<1>6. /\ u.pos = pos /\ u.reread = rr /\ u.next = nx /\ u.buf = bf
      /\ u.st = r.st /\ u.parts = r.parts /\ u.unbased = r.unbased /\ u.base = r.base
      /\ u.batch = r.batch /\ u.seen = r.seen /\ u.marked = r.marked
      /\ u.carried = r.carried /\ u.paused = r.paused /\ u.blocked = r.blocked
      /\ u.recheck = r.recheck
  BY <1>0, <1>4 DEF MemType
<1>7. Owned(u) = Owned(r) /\ Ready(u) = Ready(r) /\ Ready(r) \subseteq Partition
  BY <1>6 DEF Owned, Ready
<1>8. PositionOK(u)
  BY SMTT(30), <1>0, <1>1, <1>2, <1>6, <1>7, <1>a DEF MemOK, PositionOK
<1>9. Buffered(u, p)
  <2> PICK a : a = After(p, r.base[p])
    OBVIOUS
  <2>0. a \in Nat
    BY <1>1, WantedType
  <2>1. u.buf[p] = r.buf[p] \cup {o} /\ ~u.reread[p] /\ u.next[p] = o + 1
    BY <1>6, <1>a
  <2>2. u.buf[p] = Messages(p, a, o)
    <3>1. CASE r.buf[p] = {}
      <4>1. AtRest(r, p)
        BY <1>0, <1>2, <3>1, <1>7 DEF MemOK, PollOK
      <4>2. a =< o /\ \A y \in a .. o - 1 : <<p, y>> \in Holes
        BY <1>1, <1>3, <2>0, <4>1 DEF AtRest, After, None
      <4> QED
        BY <1>3, <2>0, <2>1, <3>1, <4>2 DEF Messages
    <3>2. CASE r.buf[p] # {}
      <4>1. Buffered(r, p)
        BY <1>0, <1>2, <3>2, <1>7 DEF MemOK, PollOK
      <4>2. PICK top \in r.buf[p] : r.buf[p] = Messages(p, a, top) /\ r.next[p] = top + 1
        BY <1>2, <4>1 DEF Buffered
      <4>3. top \in Nat /\ a =< top /\ \A y \in top + 1 .. o - 1 : <<p, y>> \in Holes
        BY <1>1, <1>3, <4>2, <2>0 DEF Messages
      <4>4. \A y \in a .. o : y \in a .. top \/ y \in top + 1 .. o - 1 \/ y = o
        BY <1>3, <2>0, <4>3
      <4>5. o \in a .. o /\ a .. top \subseteq a .. o
        BY <1>1, <1>3, <2>0, <4>2, <4>3
      <4> QED
        BY <1>3, <2>0, <2>1, <4>2, <4>3, <4>4, <4>5 DEF Messages
    <3> QED
      BY <3>1, <3>2
  <2>3. r.base[p] = None => r.unbased[p] = Wanted(p)
    BY <1>0, <1>2 DEF MemOK, PositionOK
  <2>4. o \in u.buf[p]
    BY <2>1
  <2> QED
    BY <1>2, <1>6, <1>7, <2>1, <2>2, <2>3, <2>4 DEF Buffered
<1>10. ASSUME NEW q \in Partition, q # p
       PROVE  IF u.buf[q] # {} THEN Buffered(u, q) ELSE q \in Ready(u) => AtRest(u, q)
  <2>1. u.buf[q] = r.buf[q] /\ u.next[q] = r.next[q] /\ u.reread[q] = r.reread[q]
    BY <1>6, <1>10, <1>a
  <2>2. IF r.buf[q] # {} THEN Buffered(r, q) ELSE q \in Ready(r) => AtRest(r, q)
    BY <1>0, <1>2 DEF MemOK, PollOK
  <2>3. CASE r.buf[q] # {}
    BY <1>6, <1>7, <2>1, <2>2, <2>3 DEF Buffered
  <2>4. CASE r.buf[q] = {}
    BY ZenonT(30), <1>6, <1>7, <2>1, <2>2, <2>4 DEF AtRest
  <2> QED
    BY <2>3, <2>4
<1>11. PollOK(u)
  <2>1. u.buf[p] # {}
    BY <1>6, <1>a
  <2> QED
    BY <1>9, <1>10, <2>1 DEF PollOK
<1>12. HandleOK(u) /\ FenceOK(u)
  BY <1>0, <1>6, <1>7 DEF MemOK, HandleOK, FenceOK
<1>13. BatchOK(u) /\ BaselineOK(u) /\ WaitOK(u)
  BY <1>0, <1>2, <1>6, <1>7 DEF MemOK, BatchOK, BaselineOK, WaitOK
<1> QED
  BY <1>2, <1>5, <1>6, <1>7, <1>8, <1>11, <1>12, <1>13 DEF MemOK

\* The invariant survives Take.
LEMMA TakeKeeps ==
    ASSUME IInv, NEW m \in Member, NEW p \in Partition, Take(m, p), faults' \in 0 .. MaxFaults
    PROVE  IInv'
  BY TakenOK, MemStep DEF Take

\* The invariant survives Stall.
LEMMA StallKeeps ==
    ASSUME IInv, NEW m \in Member, NEW p \in Partition, Stall(m, p), faults' \in 0 .. MaxFaults
    PROVE  IInv'
<1> PICK t : t = Taken(mem[m], p)
  OBVIOUS
<1> PICK s : s = [partition |-> p, offset |-> NextMessage(p, mem[m].pos[p])]
  OBVIOUS
<1> PICK u : u = [t EXCEPT !.stalled = s, !.paused = Owned(mem[m])]
  OBVIOUS
<1>0. t \in MemType /\ MemOK(t) /\ mem[m] \in MemType
      /\ low \in [Partition -> Nat] /\ high \in [Partition -> Nat]
  BY TakenOK, MemFacts DEF Stall
<1>1. s.offset \in Nat
  BY <1>0, NextMessageFacts DEF Stall, Takes, Delivers, MemType
<1>2. Owned(mem[m]) \in SUBSET Partition /\ Owned(mem[m]) = Owned(t)
  <2>1. t.parts = mem[m].parts
    BY <1>0 DEF Taken, MemType
  <2> QED
    BY <2>1 DEF Owned
<1>a. s \in [partition : Partition \cup {None}, offset : Nat \cup {None}]
  BY <1>1
<1>3. u \in MemType
  BY <1>0, <1>2, <1>a, ExceptStalled
<1>4. Like(t, u) /\ u.blocked = t.blocked /\ u.recheck = t.recheck /\ u.paused = Owned(t)
  BY <1>0, <1>2 DEF Like, MemType
<1>5. Owned(u) = Owned(t) /\ Ready(u) = Ready(t) /\ Ready(t) \subseteq Owned(t)
  BY <1>4 DEF Like, Owned, Ready
<1>6. PositionOK(u)
  BY <1>0, <1>4, <1>5 DEF MemOK, PositionOK, Like
<1>7. MemOK(u)
  <2>1. HandleOK(u) /\ FenceOK(u) /\ BaselineOK(u) /\ WaitOK(u)
    BY <1>0, <1>4, <1>5 DEF MemOK, HandleOK, FenceOK, BaselineOK, WaitOK, Like
  <2>2. BatchOK(u)
    BY SMTT(30), <1>0, <1>4, <1>5 DEF MemOK, BatchOK, AtRest, Like
  <2>3. ASSUME NEW q \in Partition, Buffered(t, q) PROVE Buffered(u, q)
    BY <1>4, <1>5, <2>3 DEF Buffered, Like
  <2>4. PollOK(u)
    BY <1>0, <1>4, <1>5, <2>3 DEF MemOK, PollOK, AtRest, Like
  <2> QED
    BY <1>6, <2>1, <2>2, <2>4 DEF MemOK
<1> QED
  BY <1>3, <1>7, MemStep DEF Stall

\* A member that gets paused partitions and positions stays a member.
LEMMA ExceptTwo ==
    ASSUME NEW r \in MemType, NEW ps \in SUBSET Partition, NEW pos \in [Partition -> Nat]
    PROVE  [r EXCEPT !.paused = ps, !.pos = pos] \in MemType
  BY DEF MemType

\* The invariant survives Release.
LEMMA ReleaseKeeps ==
    ASSUME IInv, NEW m \in Member, Release(m), faults' \in 0 .. MaxFaults
    PROVE  IInv'
<1> PICK r : r = mem[m]
  OBVIOUS
<1> DEFINE ps  == r.paused \cap Ready(r)
           pos == [q \in Partition |-> IF q \in ps THEN r.next[q] ELSE r.pos[q]]
<1>u. PICK u : u = [r EXCEPT !.paused = @ \ ps, !.pos = pos]
  OBVIOUS
<1>0. r \in MemType /\ MemOK(r)
  BY MemFacts
<1>1. /\ r.pos \in [Partition -> Nat] /\ r.next \in [Partition -> Nat]
      /\ r.paused \in SUBSET Partition
  BY <1>0 DEF MemType
<1>2. pos \in [Partition -> Nat] /\ r.paused \ ps \in SUBSET Partition
  BY <1>1
<1>3. u \in MemType /\ Put(m, u)
  BY <1>u, <1>0, <1>2, ExceptTwo DEF Release
<1>4. /\ u.pos = pos /\ u.paused = r.paused \ ps
      /\ u.st = r.st /\ u.parts = r.parts /\ u.unbased = r.unbased /\ u.base = r.base
      /\ u.buf = r.buf /\ u.batch = r.batch /\ u.seen = r.seen /\ u.marked = r.marked
      /\ u.carried = r.carried /\ u.blocked = r.blocked /\ u.next = r.next
      /\ u.recheck = r.recheck /\ u.reread = r.reread /\ r.st = "poll"
  BY <1>0, <1>u DEF MemType, Release
<1>5. Owned(u) = Owned(r) /\ Ready(u) = Ready(r) /\ Ready(r) \subseteq Partition
  BY <1>4 DEF Owned, Ready
<1>6. PositionOK(u)
  BY <1>0, <1>4, <1>5 DEF MemOK, PositionOK
<1>7. PollOK(u)
  <2>1. ASSUME NEW q \in Partition, Buffered(r, q) PROVE Buffered(u, q)
    BY <1>4, <1>5, <2>1 DEF Buffered
  <2> QED
    BY <1>0, <1>4, <1>5, <2>1 DEF MemOK, PollOK, AtRest
<1>8. HandleOK(u) /\ FenceOK(u)
  BY <1>0, <1>4, <1>5 DEF MemOK, HandleOK, FenceOK
<1>9. BatchOK(u) /\ BaselineOK(u) /\ WaitOK(u)
  BY <1>0, <1>4, <1>5 DEF MemOK, BatchOK, BaselineOK, WaitOK
<1> QED
  BY <1>3, <1>6, <1>7, <1>8, <1>9, MemStep DEF MemOK, Release

\* A member whose partitions become ready, blocked or unknown stays a member.
LEMMA ExceptParts ==
    ASSUME NEW r \in MemType, NEW ps \in SUBSET Partition, NEW rc \in BOOLEAN,
           NEW parts \in [Partition -> {"none", "ready", "blocked"}]
    PROVE  [r EXCEPT !.parts = parts, !.recheck = rc, !.paused = ps] \in MemType
  BY DEF MemType

\* The invariant survives OutOfRange.
LEMMA OutOfRangeKeeps ==
    ASSUME IInv, NEW m \in Member, OutOfRange(m), faults' \in 0 .. MaxFaults
    PROVE  IInv'
<1> PICK r : r = mem[m]
  OBVIOUS
<1> DEFINE bad   == {p \in Ready(r) : r.next[p] < low[p]}
           parts == [p \in Partition |-> IF p \in bad THEN "blocked" ELSE r.parts[p]]
           rc    == r.recheck \/ bad # {}
           ps    == r.paused \cup (IF bad # {} THEN bad ELSE Ready(r))
<1>u. PICK u : u = [r EXCEPT !.parts = parts, !.recheck = rc, !.paused = ps]
  OBVIOUS
<1>0. r \in MemType /\ MemOK(r) /\ low \in [Partition -> Nat]
  BY MemFacts
<1>1. /\ r.parts \in [Partition -> {"none", "ready", "blocked"}] /\ r.paused \in SUBSET Partition
      /\ r.recheck \in BOOLEAN /\ Ready(r) \in SUBSET Partition
      /\ r.next \in [Partition -> Nat] /\ r.base \in [Partition -> Nat \cup {None}]
      /\ r.buf \in [Partition -> SUBSET Nat]
  BY <1>0 DEF MemType, Ready
<1>2. parts \in [Partition -> {"none", "ready", "blocked"}] /\ rc \in BOOLEAN /\ ps \in SUBSET Partition
  BY <1>1
<1>3. u \in MemType /\ Put(m, u)
  BY <1>u, <1>0, <1>2, ExceptParts DEF OutOfRange
<1>4. /\ u.parts = parts /\ u.recheck = rc /\ u.paused = ps
      /\ u.st = r.st /\ u.unbased = r.unbased /\ u.base = r.base /\ u.pos = r.pos
      /\ u.buf = r.buf /\ u.batch = r.batch /\ u.seen = r.seen /\ u.marked = r.marked
      /\ u.carried = r.carried /\ u.blocked = r.blocked /\ u.next = r.next
      /\ u.reread = r.reread
  BY <1>0, <1>u DEF MemType
<1>5. Owned(u) = Owned(r) /\ Ready(u) = Ready(r) \ bad /\ Ready(r) \subseteq Owned(r)
  BY <1>1, <1>4 DEF Owned, Ready
<1>6. r.st = "poll"
  BY <1>0, <1>5 DEF OutOfRange, Polls, MemOK, PositionOK
<1>7. PositionOK(u)
  BY <1>0, <1>4, <1>5, <1>6 DEF MemOK, PositionOK
<1>8. PollOK(u)
  <2>1. ASSUME NEW q \in Partition, Buffered(r, q) PROVE Buffered(u, q)
    <3>1. CASE q \notin bad
      BY <1>4, <1>5, <2>1, <3>1 DEF Buffered
    <3>2. CASE q \in bad
      <4>1. PICK top \in r.buf[q] : r.buf[q] = Messages(q, After(q, r.base[q]), top) /\ r.next[q] = top + 1
        BY <2>1, <3>2 DEF Buffered
      <4>2. After(q, r.base[q]) =< top /\ top \in Nat /\ After(q, r.base[q]) \in Nat
        <5>1. After(q, r.base[q]) \in Nat /\ top \in Nat
          BY <1>1, WantedType
        <5>2. top \in After(q, r.base[q]) .. top
          BY <4>1 DEF Messages
        <5> QED
          BY <5>1, <5>2
      <4>3. After(q, r.base[q]) < low[q]
        BY <1>0, <3>2, <4>1, <4>2
      <4> QED
        BY <1>4, <1>5, <2>1, <3>2, <4>1, <4>3 DEF Buffered
    <3> QED
      BY <3>1, <3>2
  <2> QED
    BY <1>0, <1>4, <1>5, <2>1 DEF MemOK, PollOK, AtRest
<1>9. HandleOK(u) /\ FenceOK(u)
  BY <1>0, <1>4, <1>5 DEF MemOK, HandleOK, FenceOK
<1>10. BatchOK(u) /\ BaselineOK(u)
  BY <1>0, <1>4, <1>5, <1>6 DEF MemOK, BatchOK, BaselineOK
<1>11. WaitOK(u)
  <2>1. WaitOK(r)
    BY <1>0 DEF MemOK
  <2>2. \A p \in Owned(u) : u.parts[p] = "blocked" => u.recheck
    BY ZenonT(30), <1>4, <1>5, <2>1 DEF WaitOK, Owned
  <2> QED
    BY <1>4, <1>5, <1>6, <2>1, <2>2 DEF WaitOK
<1> QED
  BY <1>3, <1>7, <1>8, <1>9, <1>10, <1>11, MemStep DEF MemOK, OutOfRange

BatchType ==
    [last : [Partition -> Nat \cup {None}], rows : [Partition -> SUBSET Nat],
     bases : [Partition -> Nat \cup {None}]]

\* A closed batch is the buffer, from the offsets it was read from.
LEMMA ClosedOK ==
    ASSUME NEW r \in MemType, MemOK(r), r.st = "poll", r.stalled = NotStalled, NEW b, b = Closed(r)
    PROVE  /\ b \in BatchType
           /\ \A p \in Partition :
                 IF r.buf[p] = {} THEN b.last[p] = None /\ b.rows[p] = {}
                 ELSE /\ b.last[p] # None /\ p \in Owned(r) /\ b.last[p] >= After(p, b.bases[p])
                      /\ b.rows[p] = Messages(p, After(p, b.bases[p]), b.last[p])
                      /\ b.bases[p] = r.base[p]
                      /\ p \in Ready(r) => ~r.reread[p] /\ r.next[p] = b.last[p] + 1
<1>1. r.buf \in [Partition -> SUBSET Nat] /\ r.base \in [Partition -> Nat \cup {None}]
  BY DEF MemType
<1>2. /\ b.last = [p \in Partition |->
                     IF r.buf[p] = {} THEN None
                     ELSE CHOOSE o \in r.buf[p] : \A x \in r.buf[p] : x =< o]
      /\ b.rows = [p \in Partition |->
                     IF r.stalled.partition = p THEN r.buf[p] \ {r.stalled.offset} ELSE r.buf[p]]
      /\ b.bases = [p \in Partition |-> IF r.buf[p] = {} THEN None ELSE r.base[p]]
      /\ b = [last |-> b.last, rows |-> b.rows, bases |-> b.bases]
  BY DEF Closed
<1>3. ASSUME NEW p \in Partition PROVE b.rows[p] = r.buf[p]
  <2>1. r.stalled.offset = None /\ r.buf[p] \subseteq Nat
    BY <1>1 DEF NotStalled
  <2>2. r.buf[p] \ {r.stalled.offset} = r.buf[p]
    BY <2>1 DEF None
  <2> QED
    BY <1>2, <2>2
<1>4. ASSUME NEW p \in Partition, r.buf[p] # {}
      PROVE  /\ p \in Owned(r) /\ b.last[p] \in Nat /\ b.last[p] >= After(p, r.base[p])
             /\ r.buf[p] = Messages(p, After(p, r.base[p]), b.last[p])
             /\ p \in Ready(r) => ~r.reread[p] /\ r.next[p] = b.last[p] + 1
  <2>1. Buffered(r, p)
    BY <1>4 DEF MemOK, PollOK
  <2>2. PICK top \in r.buf[p] : /\ r.buf[p] = Messages(p, After(p, r.base[p]), top)
                                /\ p \in Ready(r) => r.next[p] = top + 1
    BY <2>1 DEF Buffered
  <2>3. After(p, r.base[p]) \in Nat
    BY <1>1, WantedType
  <2>4. top \in Nat /\ After(p, r.base[p]) =< top /\ \A x \in r.buf[p] : x \in Nat /\ x =< top
    BY <1>1, <2>2, <2>3 DEF Messages
  <2>5. PICK c : c = CHOOSE o \in r.buf[p] : \A x \in r.buf[p] : x =< o
    OBVIOUS
  <2>6. c \in r.buf[p] /\ \A x \in r.buf[p] : x =< c
    BY <2>2, <2>4, <2>5
  <2>7. c = top
    BY <2>2, <2>4, <2>6
  <2>8. b.last[p] = top
    BY <1>2, <1>4, <2>5, <2>7
  <2> QED
    BY <2>1, <2>2, <2>4, <2>8 DEF Buffered
<1>5. \A p \in Partition : b.last[p] \in Nat \cup {None}
  BY <1>2, <1>4
<1>6. b \in BatchType
  <2>1. b.last \in [Partition -> Nat \cup {None}]
    BY <1>2, <1>5
  <2>2. b.rows \in [Partition -> SUBSET Nat]
    BY <1>1, <1>2
  <2>3. b.bases \in [Partition -> Nat \cup {None}]
    BY <1>1, <1>2 DEF None
  <2> QED
    BY <1>2, <2>1, <2>2, <2>3 DEF BatchType
<1>7. ASSUME NEW p \in Partition
      PROVE  IF r.buf[p] = {} THEN b.last[p] = None /\ b.rows[p] = {}
             ELSE /\ b.last[p] # None /\ p \in Owned(r) /\ b.last[p] >= After(p, b.bases[p])
                  /\ b.rows[p] = Messages(p, After(p, b.bases[p]), b.last[p])
                  /\ b.bases[p] = r.base[p]
                  /\ p \in Ready(r) => ~r.reread[p] /\ r.next[p] = b.last[p] + 1
  <2>1. CASE r.buf[p] = {}
    BY <1>2, <1>3, <2>1
  <2>2. CASE r.buf[p] # {}
    <3>1. b.bases[p] = r.base[p]
      BY <1>2, <2>2
    <3>2. b.last[p] # None
      BY <1>4, <2>2 DEF None
    <3> QED
      BY <1>3, <1>4, <2>2, <3>1, <3>2
  <2> QED
    BY <2>1, <2>2
<1> QED
  BY <1>6, <1>7

\* A member that closes a batch stays a member.
LEMMA ExceptBatch ==
    ASSUME NEW r \in MemType, NEW b \in BatchType, NEW st \in {"try", "flush"}
    PROVE  [r EXCEPT !.st = st, !.batch = b, !.buf = Nothing] \in MemType
  BY NowhereType DEF MemType, BatchType

\* The batch is closed, to be tried or to be flushed.
LEMMA CloseOK ==
    ASSUME NEW r \in MemType, MemOK(r), r.st = "poll", r.stalled = NotStalled, Owned(r) # {},
           NEW st \in {"try", "flush"},
           NEW u, u = [r EXCEPT !.st = st, !.batch = Closed(r), !.buf = Nothing]
    PROVE  u \in MemType /\ MemOK(u)
<1>b. PICK b : b = Closed(r)
  OBVIOUS
<1>0. /\ b \in BatchType
      /\ \A p \in Partition :
            IF r.buf[p] = {} THEN b.last[p] = None /\ b.rows[p] = {}
            ELSE /\ b.last[p] # None /\ p \in Owned(r) /\ b.last[p] >= After(p, b.bases[p])
                 /\ b.rows[p] = Messages(p, After(p, b.bases[p]), b.last[p])
                 /\ b.bases[p] = r.base[p]
                 /\ p \in Ready(r) => ~r.reread[p] /\ r.next[p] = b.last[p] + 1
  BY <1>b, ClosedOK
<1>1. u \in MemType
  BY <1>b, <1>0, ExceptBatch
<1>2. /\ u.st = st /\ u.batch = b /\ u.buf = Nothing /\ u.parts = r.parts
      /\ u.unbased = r.unbased /\ u.base = r.base /\ u.pos = r.pos /\ u.seen = r.seen
      /\ u.marked = r.marked /\ u.carried = r.carried /\ u.blocked = r.blocked
      /\ u.next = r.next /\ u.reread = r.reread /\ u.paused = r.paused /\ u.recheck = r.recheck
  BY <1>b DEF MemType
<1>3. Owned(u) = Owned(r) /\ Ready(u) = Ready(r) /\ Ready(r) \subseteq Partition
  BY <1>2 DEF Owned, Ready
<1>4. HandleOK(u) /\ FenceOK(u)
  BY <1>2, <1>3 DEF MemOK, HandleOK, FenceOK
<1>5. PositionOK(u)
  BY <1>2, <1>3 DEF MemOK, PositionOK
<1>6. BatchOK(u)
  <2>0. \A p \in Partition : r.base[p] \in Nat \cup {None}
    BY DEF MemType
  <2>1. \A p \in Partition :
           IF b.last[p] = None THEN b.rows[p] = {}
           ELSE /\ p \in Owned(r) /\ b.last[p] >= After(p, b.bases[p])
                /\ b.rows[p] = Messages(p, After(p, b.bases[p]), b.last[p])
                /\ b.bases[p] =< r.base[p]
    BY <1>0, <2>0 DEF None
  <2>2. \A p \in Ready(r) :
           IF b.last[p] # None /\ r.base[p] = b.bases[p]
           THEN ~r.reread[p] /\ r.next[p] = b.last[p] + 1
           ELSE AtRest(r, p)
    BY <1>0, <1>3 DEF MemOK, PollOK
  <2> QED
    BY <1>2, <1>3, <2>1, <2>2 DEF BatchOK, AtRest
<1>7. PollOK(u) /\ BaselineOK(u) /\ WaitOK(u)
  BY <1>2, <1>3 DEF MemOK, PollOK, BaselineOK, WaitOK
<1> QED
  BY <1>1, <1>4, <1>5, <1>6, <1>7 DEF MemOK

\* The invariant survives CloseBatch.
LEMMA CloseBatchKeeps ==
    ASSUME IInv, NEW m \in Member, CloseBatch(m), faults' \in 0 .. MaxFaults
    PROVE  IInv'
<1>u. PICK u : u = [mem[m] EXCEPT !.st = "try", !.batch = Closed(mem[m]), !.buf = Nothing]
  OBVIOUS
<1>1. mem[m] \in MemType /\ MemOK(mem[m])
  BY MemFacts
<1>2. Owned(mem[m]) # {}
  BY <1>1 DEF CloseBatch, HasBuffer, MemOK, PollOK, Buffered
<1>3. u \in MemType /\ MemOK(u)
  BY <1>u, <1>1, <1>2, CloseOK DEF CloseBatch
<1> QED
  BY <1>u, <1>3, MemStep DEF CloseBatch

\* The invariant survives Revoke.
LEMMA RevokeKeeps ==
    ASSUME IInv, NEW m \in Member, Revoke(m), faults' \in 0 .. MaxFaults
    PROVE  IInv'
<1> PICK r : r = mem[m]
  OBVIOUS
<1>1. r \in MemType /\ MemOK(r)
  BY MemFacts
<1>2. CASE ~Flushable(r)
  BY <1>2, ForgetKeeps DEF Revoke
<1>3. CASE Flushable(r) /\ r.st = "poll"
  <2>u. PICK u : u = [r EXCEPT !.st = "flush", !.batch = Closed(r), !.buf = Nothing]
    OBVIOUS
  <2>1. u \in MemType /\ MemOK(u)
    BY <2>u, <1>1, <1>3, CloseOK DEF Revoke, Flushable
  <2>2. Put(m, u)
    BY <2>u, <1>1, <1>3 DEF Revoke, MemType
  <2> QED
    BY <2>1, <2>2, MemStep DEF Revoke
<1>4. CASE Flushable(r) /\ r.st = "held"
  <2>u. PICK u : u = [r EXCEPT !.st = "flush", !.batch = r.batch, !.buf = Nothing]
    OBVIOUS
  <2>0. r.batch \in BatchType
    BY <1>1 DEF MemType, BatchType
  <2>1. u \in MemType
    BY <2>u, <2>0, <1>1, ExceptBatch
  <2>2. Put(m, u)
    BY <2>u, <1>1, <1>4 DEF Revoke, MemType
  <2>3. /\ u.st = "flush" /\ u.batch = r.batch /\ u.buf = Nothing /\ u.parts = r.parts
        /\ u.unbased = r.unbased /\ u.base = r.base /\ u.pos = r.pos /\ u.seen = r.seen
        /\ u.marked = r.marked /\ u.carried = r.carried /\ u.blocked = r.blocked
        /\ u.next = r.next /\ u.reread = r.reread /\ u.paused = r.paused /\ u.recheck = r.recheck
    BY <2>u, <1>1 DEF MemType
  <2>4. Owned(u) = Owned(r) /\ Ready(u) = Ready(r)
    BY <2>3 DEF Owned, Ready
  <2>5. HandleOK(u) /\ FenceOK(u) /\ PositionOK(u)
    BY <1>1, <2>3, <2>4 DEF MemOK, HandleOK, FenceOK, PositionOK
  <2>6. PollOK(u) /\ BatchOK(u)
    BY <1>1, <1>4, <2>3, <2>4 DEF MemOK, PollOK, BatchOK, AtRest
  <2>7. BaselineOK(u) /\ WaitOK(u)
    BY <1>1, <1>4, <2>3, <2>4 DEF MemOK, BaselineOK, WaitOK, Revoke
  <2> QED
    BY <2>1, <2>2, <2>5, <2>6, <2>7, MemStep DEF Revoke, MemOK
<1> QED
  BY <1>2, <1>3, <1>4 DEF Revoke

-----------------------------------------------------------------------------
(* The steps of a member that read the target again.                       *)

\* s is r after the target was read again: where it was, at the offsets the log has now.
Fresh(r, s) ==
    /\ s.seen = Len(target) /\ s.marked = Len(target) /\ s.carried = Owned(r)
    /\ s.base = [p \in Partition |-> IF p \in Owned(r) THEN Stored(p) ELSE None]
    /\ s.parts = r.parts /\ s.next = r.next /\ s.reread = r.reread /\ s.unbased = r.unbased
    /\ s.pos = r.pos /\ s.paused = r.paused /\ s.buf = r.buf /\ s.recheck = r.recheck

\* A fence read again asserts what the log holds; its offsets only moved forward.
LEMMA FreshFacts ==
    ASSUME target \in Seq(Commit), NEW r \in MemType, FenceOK(r), PositionOK(r),
           NEW s \in MemType, Fresh(r, s), s.st = "held" => r.st = "held"
    PROVE  /\ HandleOK(s) /\ FenceOK(s) /\ PositionOK(s)
           /\ Owned(s) = Owned(r) /\ Ready(s) = Ready(r) /\ Ready(r) \subseteq Owned(r)
           /\ Owned(r) \subseteq Partition
           /\ Changed(r) \in SUBSET Partition
           /\ \A p \in Owned(r) : p \notin Changed(r) => s.base[p] = r.base[p]
           /\ \A p \in Owned(r) : r.base[p] =< s.base[p]
           /\ \A p \in Changed(r) : p \in Owned(r) /\ r.base[p] < s.base[p]
<1>0. Len(target) \in Nat
  OBVIOUS
<1>1. /\ Owned(s) = Owned(r) /\ Ready(s) = Ready(r) /\ Owned(r) \subseteq Partition
      /\ Ready(r) \subseteq Owned(r)
  BY DEF Fresh, Owned, Ready
<1>2. \A p \in Partition : /\ Stored(p) \in Nat \cup {None} /\ r.base[p] \in Nat \cup {None}
                           /\ r.base[p] =< Stored(p)
  BY StoredType DEF FenceOK, MemType
<1>3. \A p \in Partition : s.base[p] = IF p \in Owned(r) THEN Stored(p) ELSE None
  BY DEF Fresh
<1>4. HandleOK(s)
  BY <1>0 DEF Fresh, HandleOK
<1>5. FenceOK(s)
  <2>1. s.carried = Owned(r) /\ s.seen = Len(target)
    BY DEF Fresh
  <2> QED
    BY <1>1, <1>2, <1>3, <2>1 DEF FenceOK, Stored, None
<1>6. PositionOK(s)
  <2>1. \A p \in Ready(s) : s.base[p] = None => s.unbased[p] = Wanted(p)
    BY <1>1, <1>2, <1>3 DEF Fresh, PositionOK, None
  <2> QED
    BY <1>1, <2>1 DEF Fresh, PositionOK
<1>7. \A p \in Partition : p \in Changed(r) <=> p \in Owned(r) /\ Stored(p) # r.base[p]
  BY <1>1 DEF Changed
<1>8. Changed(r) \in SUBSET Partition
  BY DEF Changed, Owned
<1> QED
  BY <1>1, <1>2, <1>3, <1>4, <1>5, <1>6, <1>7, <1>8 DEF None

\* A batch that is tried again, or waits, after the read.
LEMMA SparedOK ==
    ASSUME target \in Seq(Commit), NEW r \in MemType, MemOK(r), r.st \in {"try", "held", "flush"},
           NEW s \in MemType, Fresh(r, s), s.batch = r.batch, s.st \in {"try", "flush"},
           s.blocked = r.blocked, NEW t, t = Reposition(s, Changed(r), r.batch)
    PROVE  t \in MemType /\ MemOK(t) /\ Owned(t) = Owned(r)
<1>0. /\ HandleOK(s) /\ FenceOK(s) /\ PositionOK(s)
      /\ Owned(s) = Owned(r) /\ Ready(s) = Ready(r) /\ Ready(r) \subseteq Owned(r)
      /\ Owned(r) \subseteq Partition
      /\ Changed(r) \in SUBSET Partition
      /\ \A p \in Owned(r) : p \notin Changed(r) => s.base[p] = r.base[p]
      /\ \A p \in Owned(r) : r.base[p] =< s.base[p]
      /\ \A p \in Changed(r) : p \in Owned(r) /\ r.base[p] < s.base[p]
  BY FreshFacts DEF MemOK
<1>1. /\ s.buf = r.buf /\ s.next = r.next /\ s.reread = r.reread /\ s.parts = r.parts
      /\ s.recheck = r.recheck
  BY DEF Fresh
<1>2. /\ r.batch.last \in [Partition -> Nat \cup {None}]
      /\ \A p \in Partition : /\ r.base[p] \in Nat \cup {None} /\ s.base[p] \in Nat \cup {None}
                              /\ r.batch.bases[p] \in Nat \cup {None}
  BY DEF MemType
<1>3. BatchOK(r) /\ WaitOK(r) /\ r.buf = Nothing
  BY DEF MemOK, BatchOK
<1>4. \A p \in Changed(r) : s.batch.last[p] # None => s.base[p] # s.batch.bases[p]
  BY <1>0, <1>2, <1>3 DEF BatchOK, None
<1>5. \A p \in Ready(s) : p \notin Changed(r) =>
         IF s.batch.last[p] # None /\ s.base[p] = s.batch.bases[p]
         THEN ~s.reread[p] /\ s.next[p] = s.batch.last[p] + 1
         ELSE AtRest(s, p)
  BY <1>0, <1>1, <1>3 DEF BatchOK, AtRest
<1>6. /\ PositionOK(t) /\ t.buf = Nothing
      /\ \A p \in Ready(t) :
            IF t.batch.last[p] # None /\ t.base[p] = t.batch.bases[p]
            THEN ~t.reread[p] /\ t.next[p] = t.batch.last[p] + 1
            ELSE AtRest(t, p)
  <2>1. s.buf = Nothing /\ t = Reposition(s, Changed(r), s.batch)
    BY <1>1, <1>3
  <2> QED
    BY <1>0, <1>4, <1>5, <2>1, ReadAround
<1>7. Repositioned(s, Changed(r), r.batch, t)
  BY <1>0, <1>2, RepositionFields
<1>8. /\ t \in MemType /\ t.seen = s.seen /\ t.marked = s.marked /\ t.carried = s.carried
      /\ t.base = s.base /\ t.st = s.st /\ t.parts = s.parts /\ t.batch = s.batch
      /\ t.blocked = s.blocked /\ Owned(t) = Owned(s) /\ Ready(t) = Ready(s)
      /\ s.recheck => t.recheck
  BY <1>7 DEF Repositioned
<1>9. HandleOK(t) /\ FenceOK(t)
  BY <1>0, <1>8 DEF HandleOK, FenceOK
<1>10. BatchOK(t)
  <2>1. \A p \in Partition : t.batch.last[p] # None => t.batch.bases[p] =< t.base[p]
    <3> SUFFICES ASSUME NEW p \in Partition, r.batch.last[p] # None
                 PROVE  r.batch.bases[p] =< s.base[p]
      BY <1>8
    <3>1. r.batch.bases[p] =< r.base[p]
      BY <1>3 DEF BatchOK
    <3>2. p \in Owned(r)
      BY <1>3 DEF BatchOK
    <3> QED
      BY <1>0, <1>2, <3>1, <3>2 DEF None
  <2> QED
    BY <1>0, <1>3, <1>6, <1>8, <2>1 DEF BatchOK
<1>11. PollOK(t) /\ BaselineOK(t)
  BY <1>8 DEF PollOK, BaselineOK
<1>12. WaitOK(t)
  BY <1>0, <1>1, <1>3, <1>8 DEF WaitOK
<1> QED
  BY <1>0, <1>6, <1>8, <1>9, <1>10, <1>11, <1>12 DEF MemOK

\* The batch is dropped, or there is none: everything is read on from the target's offsets.
LEMMA DroppedOK ==
    ASSUME target \in Seq(Commit), NEW r \in MemType,
           FenceOK(r), PositionOK(r), PollOK(r), BatchOK(r), r.st \in {"poll", "try", "held"},
           NEW s \in MemType, Fresh(r, s), s.st = "poll",
           NEW t, t = Reposition(s, Changed(r), NoBatch)
    PROVE  /\ t \in MemType /\ HandleOK(t) /\ FenceOK(t) /\ PositionOK(t) /\ PollOK(t) /\ BatchOK(t)
           /\ BaselineOK(t) /\ t.st = "poll" /\ t.parts = s.parts /\ t.blocked = s.blocked
           /\ (s.recheck => t.recheck)
           /\ Owned(t) = Owned(r) /\ Ready(t) = Ready(r)
           /\ (s.buf = Nothing => t.buf = Nothing)
<1>0. /\ HandleOK(s) /\ FenceOK(s) /\ PositionOK(s)
      /\ Owned(s) = Owned(r) /\ Ready(s) = Ready(r) /\ Ready(r) \subseteq Owned(r)
      /\ Owned(r) \subseteq Partition
      /\ Changed(r) \in SUBSET Partition
      /\ \A p \in Owned(r) : p \notin Changed(r) => s.base[p] = r.base[p]
  BY FreshFacts
<1>1. /\ s.buf = r.buf /\ s.next = r.next /\ s.reread = r.reread /\ s.parts = r.parts
      /\ s.unbased = r.unbased
  BY DEF Fresh
<1>2. ASSUME NEW p \in Partition, p \notin Changed(r), s.buf[p] # {}
      PROVE  Buffered(s, p)
  <2>1. r.st = "poll"
    BY <1>1, <1>2, NowhereType DEF BatchOK
  <2>2. Buffered(r, p)
    BY <1>1, <1>2, <2>1 DEF PollOK
  <2>3. s.base[p] = r.base[p]
    BY <1>0, <1>2, <2>2 DEF Buffered
  <2> QED
    BY <1>0, <1>1, <2>2, <2>3 DEF Buffered
<1>3. ASSUME NEW p \in Ready(s), p \notin Changed(r), s.reread[p]
      PROVE  s.base[p] # None /\ s.next[p] = s.base[p]
  <2>0. p \in Partition /\ p \in Ready(r) /\ r.reread[p] /\ s.base[p] = r.base[p]
    BY <1>0, <1>1, <1>3
  <2>1. AtRest(r, p)
    <3>1. CASE r.st = "poll"
      BY <2>0, <3>1 DEF PollOK, Buffered
    <3>2. CASE r.st \in {"try", "held"}
      BY <2>0, <3>2 DEF BatchOK
    <3> QED
      BY <3>1, <3>2
  <2> QED
    BY <1>1, <2>0, <2>1 DEF AtRest
<1>4. /\ PositionOK(t)
      /\ \A p \in Partition :
            IF t.buf[p] # {} THEN Buffered(t, p) ELSE p \in Ready(t) => AtRest(t, p)
  BY <1>0, <1>2, <1>3, ReadAgain
<1>5. NoBatch.last \in [Partition -> Nat \cup {None}]
  BY NowhereType DEF NoBatch
<1>6. Repositioned(s, Changed(r), NoBatch, t)
  BY <1>0, <1>5, RepositionFields
<1>7. /\ t \in MemType /\ t.seen = s.seen /\ t.marked = s.marked /\ t.carried = s.carried
      /\ t.base = s.base /\ t.st = s.st /\ t.parts = s.parts /\ t.blocked = s.blocked
      /\ Owned(t) = Owned(s) /\ Ready(t) = Ready(s) /\ (s.recheck => t.recheck)
      /\ (s.buf = Nothing => t.buf = Nothing)
  BY <1>6 DEF Repositioned
<1>8. HandleOK(t) /\ FenceOK(t)
  <2>1. HandleOK(s) /\ FenceOK(s) /\ Owned(t) = Owned(s)
    BY <1>0, <1>7
  <2>2. t.seen = s.seen /\ t.marked = s.marked /\ t.carried = s.carried /\ t.base = s.base
    BY <1>7
  <2> QED
    BY <2>1, <2>2 DEF HandleOK, FenceOK
<1>9. PollOK(t) /\ BatchOK(t) /\ BaselineOK(t)
  BY <1>4, <1>7 DEF PollOK, BatchOK, BaselineOK
<1> QED
  BY <1>0, <1>4, <1>7, <1>8, <1>9

\* A member whose handle has aged, or has been refreshed, stays a member.
LEMMA ExceptAged ==
    ASSUME NEW r \in MemType, NEW a \in BOOLEAN
    PROVE  [r EXCEPT !.aged = a] \in MemType
  BY DEF MemType

\* A member that goes on to its next step stays a member.
LEMMA ExceptSt ==
    ASSUME NEW r \in MemType, NEW st \in {"try", "poll"}
    PROVE  [r EXCEPT !.st = st] \in MemType
  BY DEF MemType

\* A member that drops its batch stays a member.
LEMMA ExceptDropped ==
    ASSUME NEW r \in MemType
    PROVE  [r EXCEPT !.batch = NoBatch, !.blocked = FALSE, !.st = "poll"] \in MemType
  BY NowhereType DEF MemType, NoBatch

\* The invariant survives RefreshAged.
LEMMA RefreshAgedKeeps ==
    ASSUME IInv, NEW m \in Member, RefreshAged(m), faults' \in 0 .. MaxFaults
    PROVE  IInv'
<1> PICK r : r = mem[m]
  OBVIOUS
<1>s. PICK s : s = RefreshAndReset(r)
  OBVIOUS
<1>t. PICK t : t = Reposition(s, Changed(r), r.batch)
  OBVIOUS
<1>u. PICK u : u = [t EXCEPT !.aged = TRUE]
  OBVIOUS
<1>0. target \in Seq(Commit) /\ r \in MemType /\ MemOK(r) /\ r.st \in {"try", "flush"}
  BY MemFacts DEF RefreshAged
<1>1. /\ s \in MemType /\ Fresh(r, s) /\ s.batch = r.batch /\ s.st = r.st /\ s.blocked = r.blocked
  BY <1>0, <1>s, ResetFields DEF Fresh
<1>2. t \in MemType /\ MemOK(t)
  BY <1>0, <1>1, <1>t, SparedOK
<1>3. u \in MemType
  BY <1>2, <1>u, ExceptAged
<1>4. Like(t, u) /\ u.paused = t.paused /\ u.blocked = t.blocked /\ u.recheck = t.recheck
  BY <1>2, <1>u DEF Like, MemType
<1>5. MemOK(u)
  BY <1>2, <1>3, <1>4, LikeOK
<1>6. Put(m, u)
  BY <1>s, <1>t, <1>u DEF RefreshAged
<1> QED
  BY <1>3, <1>5, <1>6, MemStep DEF RefreshAged

\* The invariant survives ResetInPlace.
LEMMA ResetInPlaceKeeps ==
    ASSUME IInv, NEW m \in Member, ResetInPlace(m), faults' \in 0 .. MaxFaults
    PROVE  IInv'
<1> PICK r : r = mem[m]
  OBVIOUS
<1>x. PICK x : x = RefreshAndReset(r)
  OBVIOUS
<1>s. PICK s : s = [x EXCEPT !.aged = FALSE]
  OBVIOUS
<1>0. target \in Seq(Commit) /\ r \in MemType /\ MemOK(r) /\ r.st \in {"try", "flush"}
  BY MemFacts DEF ResetInPlace
<1>1. /\ x \in MemType /\ Fresh(r, x) /\ x.batch = r.batch /\ x.st = r.st /\ x.blocked = r.blocked
  BY <1>0, <1>x, ResetFields DEF Fresh
<1>2. s \in MemType
  BY <1>1, <1>s, ExceptAged
<1>3. Fresh(r, s) /\ s.batch = r.batch /\ s.st = r.st /\ s.blocked = r.blocked
  BY <1>1, <1>s DEF Fresh, MemType
<1>4. CASE r.st = "flush"
  BY <1>4, ForgetKeeps DEF ResetInPlace
<1>5. CASE r.st = "try" /\ ~Moved(s)
  <2>t. PICK t : t = Reposition(s, Changed(r), r.batch)
    OBVIOUS
  <2>1. t \in MemType /\ MemOK(t)
    BY <1>0, <1>2, <1>3, <1>5, <2>t, SparedOK
  <2>2. Put(m, t)
    BY <1>s, <1>x, <1>5, <2>t DEF ResetInPlace
  <2> QED
    BY <2>1, <2>2, MemStep DEF ResetInPlace
<1>6. CASE r.st = "try" /\ Moved(s)
  <2>d. PICK d : d = [s EXCEPT !.batch = NoBatch, !.blocked = FALSE, !.st = "poll"]
    OBVIOUS
  <2>t. PICK t : t = Reposition(d, Changed(r), NoBatch)
    OBVIOUS
  <2>1. d \in MemType
    BY <1>2, <2>d, ExceptDropped
  <2>2. Fresh(r, d) /\ d.st = "poll" /\ ~d.blocked
    BY <1>2, <1>3, <2>d DEF Fresh, MemType
  <2>3. /\ t \in MemType /\ HandleOK(t) /\ FenceOK(t) /\ PositionOK(t) /\ PollOK(t) /\ BatchOK(t)
        /\ BaselineOK(t) /\ t.st = "poll" /\ t.parts = d.parts /\ t.blocked = d.blocked
        /\ (d.recheck => t.recheck) /\ Owned(t) = Owned(r)
    BY <1>0, <1>6, <2>1, <2>2, <2>t, DroppedOK DEF MemOK
  <2>4. WaitOK(t)
    BY <1>0, <1>6, <2>2, <2>3 DEF MemOK, WaitOK, Fresh
  <2>5. Put(m, t)
    BY <1>s, <1>x, <1>6, <2>d, <2>t DEF ResetInPlace
  <2> QED
    BY <2>3, <2>4, <2>5, MemStep DEF ResetInPlace, MemOK
<1> QED
  BY <1>0, <1>4, <1>5, <1>6

\* The invariant survives RecheckForBatch.
LEMMA RecheckForBatchKeeps ==
    ASSUME IInv, NEW m \in Member, RecheckForBatch(m), faults' \in 0 .. MaxFaults
    PROVE  IInv'
<1> PICK r : r = mem[m]
  OBVIOUS
<1>s. PICK s : s = RefreshAndReset(r)
  OBVIOUS
<1>0. target \in Seq(Commit) /\ r \in MemType /\ MemOK(r) /\ r.st = "held"
  BY MemFacts DEF RecheckForBatch
<1>1. /\ s \in MemType /\ Fresh(r, s) /\ s.batch = r.batch /\ s.st = r.st /\ s.blocked = r.blocked
  BY <1>0, <1>s, ResetFields DEF Fresh
<1>2. CASE ~Moved(s)
  <2>d. PICK d : d = [s EXCEPT !.st = "try"]
    OBVIOUS
  <2>t. PICK t : t = Reposition(d, Changed(r), r.batch)
    OBVIOUS
  <2>1. d \in MemType
    BY <1>1, <2>d, ExceptSt
  <2>2. Fresh(r, d) /\ d.st = "try" /\ d.batch = r.batch /\ d.blocked = r.blocked
    BY <1>1, <2>d DEF Fresh, MemType
  <2>3. t \in MemType /\ MemOK(t)
    BY <1>0, <2>1, <2>2, <2>t, SparedOK
  <2>4. Put(m, t)
    BY <1>s, <1>2, <2>d, <2>t DEF RecheckForBatch
  <2> QED
    BY <2>3, <2>4, MemStep DEF RecheckForBatch
<1>3. CASE Moved(s)
  <2>d. PICK d : d = [s EXCEPT !.batch = NoBatch, !.blocked = FALSE, !.st = "poll"]
    OBVIOUS
  <2>t. PICK t : t = Reposition(d, Changed(r), NoBatch)
    OBVIOUS
  <2>1. d \in MemType
    BY <1>1, <2>d, ExceptDropped
  <2>2. Fresh(r, d) /\ d.st = "poll" /\ ~d.blocked
    BY <1>1, <2>d DEF Fresh, MemType
  <2>3. /\ t \in MemType /\ HandleOK(t) /\ FenceOK(t) /\ PositionOK(t) /\ PollOK(t) /\ BatchOK(t)
        /\ BaselineOK(t) /\ t.st = "poll" /\ t.parts = d.parts /\ t.blocked = d.blocked
        /\ (d.recheck => t.recheck) /\ Owned(t) = Owned(r)
    BY <1>0, <2>1, <2>2, <2>t, DroppedOK DEF MemOK
  <2>4. WaitOK(t)
    BY <1>0, <2>2, <2>3 DEF MemOK, WaitOK, Fresh
  <2>5. Put(m, t)
    BY <1>s, <1>3, <2>d, <2>t DEF RecheckForBatch
  <2> QED
    BY <2>3, <2>4, <2>5, MemStep DEF RecheckForBatch, MemOK
<1> QED
  BY <1>2, <1>3

\* The invariant survives WatermarksFail.
LEMMA WatermarksFailKeeps ==
    ASSUME IInv, NEW m \in Member, WatermarksFail(m), faults' \in 0 .. MaxFaults
    PROVE  IInv'
<1> PICK r : r = mem[m]
  OBVIOUS
<1>s. PICK s : s = RefreshAndReset(r)
  OBVIOUS
<1>t. PICK t : t = Reposition(s, Changed(r), NoBatch)
  OBVIOUS
<1>0. target \in Seq(Commit) /\ r \in MemType /\ MemOK(r) /\ r.st = "poll"
  BY MemFacts DEF WatermarksFail
<1>1. /\ s \in MemType /\ Fresh(r, s) /\ s.st = "poll" /\ s.blocked = r.blocked
      /\ s.recheck = r.recheck
  BY <1>0, <1>s, ResetFields DEF Fresh
<1>2. /\ t \in MemType /\ HandleOK(t) /\ FenceOK(t) /\ PositionOK(t) /\ PollOK(t) /\ BatchOK(t)
      /\ BaselineOK(t) /\ t.st = "poll" /\ t.parts = s.parts /\ t.blocked = s.blocked
      /\ (s.recheck => t.recheck) /\ Owned(t) = Owned(r)
      /\ (s.buf = Nothing => t.buf = Nothing)
  BY <1>0, <1>1, <1>t, DroppedOK DEF MemOK
<1>3. WaitOK(t)
  BY <1>0, <1>1, <1>2 DEF MemOK, WaitOK, Fresh
<1>4. Put(m, t)
  BY <1>s, <1>t DEF WatermarksFail
<1> QED
  BY <1>2, <1>3, <1>4, MemStep DEF WatermarksFail, MemOK

-----------------------------------------------------------------------------
(* Partitions are resolved.                                                *)

\* A start goes on from the stored offset, re-reads it, or blocks.
LEMMA StartFacts ==
    ASSUME NEW p \in Partition, NEW b \in Nat \cup {None}, low[p] \in Nat, high[p] \in Nat,
           low[p] =< high[p], NEW s, s = Start(p, b)
    PROVE  /\ s.state \in {"ready", "blocked"} /\ s.offset \in Nat /\ s.reread \in BOOLEAN
           /\ s.state = "ready" =>
                 IF s.reread THEN b # None /\ s.offset = b ELSE s.offset = After(p, b)
           /\ s.state = "blocked" => ~s.reread
           /\ After(p, b) < low[p] => s.state = "blocked"
<1>0. Explicit[p] \in Nat \cup {None}
  BY ConstantsAssumption
<1>1. CASE b = None
  <2>1. s = IF Wanted(p) < low[p] \/ Wanted(p) > high[p]
            THEN [state |-> "blocked", offset |-> 0, reread |-> FALSE]
            ELSE [state |-> "ready", offset |-> Wanted(p), reread |-> FALSE]
    BY <1>1 DEF Start, Wanted
  <2>2. After(p, b) = Wanted(p) /\ Wanted(p) \in Nat
    BY <1>0, <1>1 DEF After, Wanted, None
  <2> QED
    BY <2>1, <2>2
<1>2. CASE b \in Nat
  <2>0. b # None /\ After(p, b) = b + 1
    BY <1>2 DEF After, None
  <2>1. CASE b + 1 < low[p]
    <3>1. s = [state |-> "blocked", offset |-> 0, reread |-> FALSE]
      BY <2>0, <2>1 DEF Start
    <3> QED
      BY <3>1
  <2>2. CASE b + 1 = low[p]
    <3>1. s = [state |-> "ready", offset |-> b + 1, reread |-> FALSE]
      BY <1>2, <2>0, <2>2 DEF Start
    <3> QED
      BY <1>2, <2>0, <2>2, <3>1
  <2>3. CASE b + 1 > low[p] /\ b >= high[p]
    <3>1. s = [state |-> "blocked", offset |-> 0, reread |-> FALSE]
      BY <1>2, <2>0, <2>3 DEF Start
    <3> QED
      BY <3>1
  <2>4. CASE b + 1 > low[p] /\ ~(b >= high[p])
    <3>1. s = [state |-> "ready", offset |-> b, reread |-> TRUE]
      BY <1>2, <2>0, <2>4 DEF Start
    <3> QED
      BY <1>2, <2>0, <2>4, <3>1
  <2> QED
    BY <1>2, <2>1, <2>2, <2>3, <2>4
<1> QED
  BY <1>1, <1>2

\* A member that has resolved its partitions stays a member.
LEMMA ExceptResolved ==
    ASSUME NEW r \in MemType, NEW parts \in [Partition -> {"none", "ready", "blocked"}],
           NEW nx \in [Partition -> Nat], NEW rr \in [Partition -> BOOLEAN],
           NEW ub \in [Partition -> Nat \cup {None}],
           NEW t, t = [r EXCEPT !.parts = parts, !.next = nx, !.reread = rr, !.unbased = ub]
    PROVE  t \in MemType
  BY DEF MemType

\* A member that is given partitions stays a member.
LEMMA ExceptOwned ==
    ASSUME NEW r \in MemType, NEW parts \in [Partition -> {"none", "ready", "blocked"}]
    PROVE  [r EXCEPT !.parts = parts] \in MemType
  BY DEF MemType

\* A member that starts reading its partitions stays a member.
LEMMA ExceptAssigned ==
    ASSUME NEW s \in MemType, NEW pos \in [Partition -> Nat], NEW ps \in SUBSET Partition,
           NEW due \in BOOLEAN, NEW u, u = [s EXCEPT !.pos = pos, !.paused = ps, !.recheck = due]
    PROVE  u \in MemType
  BY DEF MemType

\* A member that has partitions taken from it stays a member.
LEMMA ExceptUnresolved ==
    ASSUME NEW x \in MemType, NEW parts \in [Partition -> {"none", "ready", "blocked"}],
           NEW ps \in SUBSET Partition,
           NEW r, r = [x EXCEPT !.parts = parts, !.paused = ps, !.blocked = TRUE, !.recheck = TRUE]
    PROVE  r \in MemType
  BY DEF MemType

\* Each partition of ps is ready at an offset that goes on from the target's, or blocked.
LEMMA ResolvedFacts ==
    ASSUME low \in [Partition -> Nat], high \in [Partition -> Nat],
           \A p \in Partition : low[p] =< high[p],
           NEW r \in MemType, NEW ps \in SUBSET Partition, NEW t, t = Resolved(r, ps)
    PROVE  /\ t \in MemType
           /\ t.st = r.st /\ t.base = r.base /\ t.buf = r.buf /\ t.batch = r.batch
           /\ t.seen = r.seen /\ t.marked = r.marked /\ t.carried = r.carried /\ t.pos = r.pos
           /\ t.paused = r.paused /\ t.blocked = r.blocked /\ t.recheck = r.recheck
           /\ \A p \in Partition :
                 IF p \in ps
                 THEN /\ t.parts[p] \in {"ready", "blocked"}
                      /\ t.parts[p] = "ready" =>
                            /\ AtRest(t, p)
                            /\ r.base[p] = None => t.unbased[p] = Wanted(p)
                      /\ t.parts[p] = "blocked" => ~t.reread[p] /\ t.unbased[p] = r.unbased[p]
                      /\ After(p, r.base[p]) < low[p] => t.parts[p] = "blocked"
                 ELSE /\ t.parts[p] = r.parts[p] /\ t.next[p] = r.next[p]
                      /\ t.reread[p] = r.reread[p] /\ t.unbased[p] = r.unbased[p]
<1> DEFINE parts == [p \in Partition |-> IF p \in ps THEN Start(p, r.base[p]).state ELSE r.parts[p]]
           nx    == [p \in Partition |-> IF p \in ps THEN Start(p, r.base[p]).offset ELSE r.next[p]]
           rr    == [p \in Partition |-> IF p \in ps THEN Start(p, r.base[p]).reread ELSE r.reread[p]]
           ub    == [p \in Partition |->
                       IF p \in ps /\ r.base[p] = None /\ Start(p, r.base[p]).state = "ready"
                       THEN Start(p, r.base[p]).offset ELSE r.unbased[p]]
<1>0. /\ r.base \in [Partition -> Nat \cup {None}] /\ r.unbased \in [Partition -> Nat \cup {None}]
      /\ r.parts \in [Partition -> {"none", "ready", "blocked"}] /\ r.next \in [Partition -> Nat]
      /\ r.reread \in [Partition -> BOOLEAN]
  BY DEF MemType
<1>1. t = [r EXCEPT !.parts = parts, !.next = nx, !.reread = rr, !.unbased = ub]
  BY DEF Resolved
<1>2. \A p \in Partition :
         LET s == Start(p, r.base[p])
         IN  /\ s.state \in {"ready", "blocked"} /\ s.offset \in Nat /\ s.reread \in BOOLEAN
             /\ s.state = "ready" =>
                   IF s.reread THEN r.base[p] # None /\ s.offset = r.base[p]
                   ELSE s.offset = After(p, r.base[p])
             /\ s.state = "blocked" => ~s.reread
             /\ After(p, r.base[p]) < low[p] => s.state = "blocked"
  BY <1>0, StartFacts
<1>3. /\ parts \in [Partition -> {"none", "ready", "blocked"}] /\ nx \in [Partition -> Nat]
      /\ rr \in [Partition -> BOOLEAN]
  BY <1>0, <1>2
<1>4. ub \in [Partition -> Nat \cup {None}]
  BY <1>0, <1>2
<1>5. t \in MemType
  <2> HIDE DEF parts, nx, rr, ub
  <2> QED
    BY <1>1, <1>3, <1>4, ExceptResolved
<1>6. /\ t.parts = parts /\ t.next = nx /\ t.reread = rr /\ t.unbased = ub
      /\ t.st = r.st /\ t.base = r.base /\ t.buf = r.buf /\ t.batch = r.batch
      /\ t.seen = r.seen /\ t.marked = r.marked /\ t.carried = r.carried /\ t.pos = r.pos
      /\ t.paused = r.paused /\ t.blocked = r.blocked /\ t.recheck = r.recheck
  <2> HIDE DEF parts, nx, rr, ub
  <2> QED
    BY <1>1 DEF MemType
<1>7. ASSUME NEW p \in Partition, p \in ps
      PROVE  /\ t.parts[p] \in {"ready", "blocked"}
             /\ t.parts[p] = "ready" =>
                   /\ AtRest(t, p)
                   /\ r.base[p] = None => t.unbased[p] = Wanted(p)
             /\ t.parts[p] = "blocked" => ~t.reread[p] /\ t.unbased[p] = r.unbased[p]
             /\ After(p, r.base[p]) < low[p] => t.parts[p] = "blocked"
  <2>s. PICK s : s = Start(p, r.base[p])
    OBVIOUS
  <2>1. /\ t.parts[p] = s.state /\ t.next[p] = s.offset /\ t.reread[p] = s.reread
        /\ t.unbased[p] = IF r.base[p] = None /\ s.state = "ready" THEN s.offset ELSE r.unbased[p]
    BY <1>6, <1>7, <2>s
  <2>2. /\ s.state \in {"ready", "blocked"} /\ s.offset \in Nat /\ s.reread \in BOOLEAN
        /\ s.state = "ready" =>
              IF s.reread THEN r.base[p] # None /\ s.offset = r.base[p]
              ELSE s.offset = After(p, r.base[p])
        /\ s.state = "blocked" => ~s.reread
        /\ After(p, r.base[p]) < low[p] => s.state = "blocked"
    BY <1>2, <2>s
  <2>3. t.parts[p] = "ready" => AtRest(t, p)
    BY <1>6, <2>1, <2>2 DEF AtRest
  <2>4. t.parts[p] = "ready" /\ r.base[p] = None => t.unbased[p] = Wanted(p)
    BY <2>1, <2>2 DEF After
  <2> HIDE DEF parts, nx, rr, ub
  <2> QED
    BY <2>1, <2>2, <2>3, <2>4
<1>8. \A p \in Partition : p \notin ps =>
         /\ t.parts[p] = r.parts[p] /\ t.next[p] = r.next[p]
         /\ t.reread[p] = r.reread[p] /\ t.unbased[p] = r.unbased[p]
  BY <1>6
<1> HIDE DEF parts, nx, rr, ub
<1> QED
  BY <1>5, <1>6, <1>7, <1>8


\* A member whose recheck is done stays a member.
LEMMA ExceptRecheck ==
    ASSUME NEW r \in MemType, NEW u, u = [r EXCEPT !.recheck = FALSE]
    PROVE  u \in MemType
  BY DEF MemType

\* A member after a recheck of its blocked partitions stays a member.
LEMMA ExceptRechecked ==
    ASSUME NEW t \in MemType, NEW u,
           u = [t EXCEPT !.blocked = FALSE, !.recheck = @ \/ Owned(t) # Ready(t)]
    PROVE  u \in MemType
<1>1. (t.recheck \/ Owned(t) # Ready(t)) \in BOOLEAN
  OBVIOUS
<1>2. u = [t EXCEPT !.blocked = FALSE, !.recheck = t.recheck \/ Owned(t) # Ready(t)]
  BY DEF MemType
<1> QED
  BY ZenonT(30), <1>1, <1>2 DEF MemType

\* The invariant survives RecheckBlocked.
LEMMA RecheckBlockedKeeps ==
    ASSUME IInv, NEW m \in Member, RecheckBlocked(m), faults' \in 0 .. MaxFaults
    PROVE  IInv'
<1>x. PICK x : x = mem[m]
  OBVIOUS
<1>r. PICK r : r = [x EXCEPT !.recheck = FALSE]
  OBVIOUS
<1>f. PICK f : f = RefreshAndReset(r)
  OBVIOUS
<1>s. PICK s : s = Reposition(f, Changed(r), NoBatch)
  OBVIOUS
<1>t. PICK t : t = Resolved(s, Owned(s) \ Ready(s))
  OBVIOUS
<1>u. PICK u : u = [t EXCEPT !.blocked = FALSE, !.recheck = @ \/ Owned(t) # Ready(t)]
  OBVIOUS
<1>0. /\ target \in Seq(Commit) /\ x \in MemType /\ MemOK(x) /\ x.st = "poll"
      /\ low \in [Partition -> Nat] /\ high \in [Partition -> Nat]
      /\ \A p \in Partition : low[p] =< high[p]
  BY <1>x, MemFacts DEF RecheckBlocked
<1>1. r \in MemType
  BY <1>0, <1>r, ExceptRecheck
<1>2. Like(x, r) /\ r.paused = x.paused /\ r.st = "poll"
  BY <1>0, <1>r DEF Like, MemType
<1>3. FenceOK(r) /\ PositionOK(r) /\ PollOK(r) /\ BatchOK(r)
  <2>1. Owned(r) = Owned(x) /\ Ready(r) = Ready(x)
    BY <1>2 DEF Like, Owned, Ready
  <2>2. FenceOK(r) /\ PositionOK(r)
    BY <1>0, <1>2, <2>1 DEF Like, MemOK, FenceOK, PositionOK
  <2>3. PollOK(r)
    BY <1>0, <1>2, <2>1 DEF Like, MemOK, PollOK, Buffered, AtRest
  <2> QED
    BY <1>2, <2>2, <2>3 DEF BatchOK
<1>4. f \in MemType /\ Fresh(r, f) /\ f.st = "poll"
  BY <1>0, <1>1, <1>2, <1>f, ResetFields DEF Fresh
<1>5. /\ s \in MemType /\ HandleOK(s) /\ FenceOK(s) /\ PositionOK(s) /\ PollOK(s)
      /\ BaselineOK(s) /\ s.st = "poll" /\ Owned(s) = Owned(r)
      /\ (f.buf = Nothing => s.buf = Nothing)
  BY <1>0, <1>1, <1>2, <1>3, <1>4, <1>s, DroppedOK
<1>p. PICK ps : ps = Owned(s) \ Ready(s)
  OBVIOUS
<1>6. /\ t \in MemType
      /\ t.st = s.st /\ t.base = s.base /\ t.buf = s.buf /\ t.batch = s.batch
      /\ t.seen = s.seen /\ t.marked = s.marked /\ t.carried = s.carried /\ t.pos = s.pos
      /\ t.paused = s.paused
      /\ \A p \in Partition :
            IF p \in ps
            THEN /\ t.parts[p] \in {"ready", "blocked"}
                 /\ t.parts[p] = "ready" =>
                       /\ AtRest(t, p)
                       /\ s.base[p] = None => t.unbased[p] = Wanted(p)
                 /\ t.parts[p] = "blocked" => ~t.reread[p] /\ t.unbased[p] = s.unbased[p]
                 /\ After(p, s.base[p]) < low[p] => t.parts[p] = "blocked"
            ELSE /\ t.parts[p] = s.parts[p] /\ t.next[p] = s.next[p]
                 /\ t.reread[p] = s.reread[p] /\ t.unbased[p] = s.unbased[p]
  <2>1. ps \in SUBSET Partition
    BY <1>p DEF Owned
  <2> QED
    BY <1>0, <1>5, <1>p, <1>t, <2>1, ResolvedFacts
<1>7. u \in MemType
  BY <1>6, <1>u, ExceptRechecked
<1>8. /\ Like(t, u) /\ u.paused = t.paused /\ ~u.blocked
      /\ Owned(t) # Ready(t) => u.recheck
  BY <1>6, <1>u DEF Like, MemType
<1>9. /\ Owned(t) = Owned(s) /\ Ready(s) \subseteq Ready(t)
      /\ \A p \in Ready(t) : p \in ps \/ p \in Ready(s)
      /\ Owned(t) \subseteq Partition
  BY <1>6, <1>p DEF Owned, Ready
<1>10. /\ u.st = "poll" /\ u.base = s.base /\ u.buf = s.buf /\ u.seen = s.seen
       /\ u.marked = s.marked /\ u.carried = s.carried /\ u.pos = s.pos /\ u.paused = s.paused
       /\ u.parts = t.parts /\ u.next = t.next /\ u.reread = t.reread /\ u.unbased = t.unbased
       /\ Owned(u) = Owned(s) /\ Ready(u) = Ready(t)
  BY <1>5, <1>6, <1>8, <1>9 DEF Like, Owned, Ready
<1>11. HandleOK(u) /\ FenceOK(u)
  <2>1. HandleOK(s) /\ FenceOK(s)
    BY <1>5
  <2> QED
    BY <1>10, <2>1 DEF HandleOK, FenceOK
<1>12. PositionOK(u)
  <2>1. \A p \in ps : p \in s.paused
    BY <1>5, <1>p DEF PositionOK
  <2>0. \A p \in Ready(u) : p \in Partition /\ (p \in ps \/ p \in Ready(s))
    BY <1>9, <1>10 DEF Ready
  <2>2. ASSUME NEW p \in Ready(u), p \notin u.paused
        PROVE  u.pos[p] = u.next[p]
    <3>1. p \notin ps /\ p \in Ready(s) /\ p \in Partition
      BY <1>10, <2>0, <2>1, <2>2
    <3>2. s.pos[p] = s.next[p]
      BY <1>5, <1>10, <2>2, <3>1 DEF PositionOK
    <3>3. t.next[p] = s.next[p]
      BY <1>6, <3>1
    <3> QED
      BY <1>10, <3>2, <3>3
  <2>3. ASSUME NEW p \in Ready(u), u.base[p] = None
        PROVE  u.unbased[p] = Wanted(p)
    <3>1. CASE p \in ps
      <4>1. t.parts[p] = "ready" /\ s.base[p] = None
        BY <1>10, <2>3 DEF Ready
      <4>2. t.unbased[p] = Wanted(p)
        BY <1>6, <2>0, <3>1, <4>1
      <4> QED
        BY <1>10, <4>2
    <3>2. CASE p \notin ps
      <4>1. p \in Ready(s) /\ p \in Partition
        BY <2>0, <3>2
      <4>2. s.unbased[p] = Wanted(p)
        BY <1>5, <1>10, <2>3, <4>1 DEF PositionOK
      <4>3. t.unbased[p] = s.unbased[p]
        BY <1>6, <3>2, <4>1
      <4> QED
        BY <1>10, <4>2, <4>3
    <3> QED
      BY <3>1, <3>2
  <2>4. \A p \in Owned(u) : p \notin Ready(u) => p \in u.paused
    BY <1>5, <1>9, <1>10 DEF PositionOK
  <2> QED
    BY <1>10, <2>2, <2>3, <2>4 DEF PositionOK
<1>13. PollOK(u)
  <2> SUFFICES ASSUME NEW p \in Partition
               PROVE  IF u.buf[p] # {} THEN Buffered(u, p) ELSE p \in Ready(u) => AtRest(u, p)
    BY DEF PollOK
  <2>0. IF s.buf[p] # {} THEN Buffered(s, p) ELSE p \in Ready(s) => AtRest(s, p)
    BY <1>5 DEF PollOK
  <2>1. CASE p \in ps
    <3>1. p \notin Ready(s)
      BY <1>p, <2>1
    <3>2. CASE s.buf[p] # {}
      <4>1. Buffered(s, p) /\ After(p, s.base[p]) < low[p]
        BY <2>0, <3>1, <3>2 DEF Buffered
      <4>2. t.parts[p] = "blocked" /\ ~t.reread[p] /\ t.unbased[p] = s.unbased[p]
        BY <1>6, <2>1, <4>1
      <4>3. p \notin Ready(u)
        BY <1>10, <4>2 DEF Ready
      <4> QED
        BY <1>10, <3>2, <4>1, <4>2, <4>3 DEF Buffered
    <3>3. CASE s.buf[p] = {}
      <4>1. p \in Ready(u) => AtRest(t, p)
        BY <1>6, <1>10, <2>1 DEF Ready
      <4> QED
        BY <1>6, <1>10, <3>3, <4>1 DEF AtRest
    <3> QED
      BY <3>2, <3>3
  <2>2. CASE p \notin ps
    <3>1. p \in Ready(u) <=> p \in Ready(s)
      BY <1>9, <1>10, <2>2
    <3>2. u.next[p] = s.next[p] /\ u.reread[p] = s.reread[p] /\ u.unbased[p] = s.unbased[p]
      BY <1>6, <1>10, <2>2
    <3> QED
      BY <1>10, <2>0, <3>1, <3>2 DEF Buffered, AtRest
  <2> QED
    BY <2>1, <2>2
<1>14. BatchOK(u) /\ BaselineOK(u)
  BY <1>10 DEF BatchOK, BaselineOK
<1>15. WaitOK(u)
  <2>1. Owned(u) = {} => u.buf = Nothing
    <3>1. Owned(u) = {} => Owned(x) = {} /\ f.buf = x.buf
      BY <1>2, <1>4, <1>5, <1>10 DEF Like, Fresh, Owned
    <3>2. Owned(x) = {} => x.buf = Nothing
      BY <1>0 DEF MemOK, WaitOK
    <3> QED
      BY <1>5, <1>10, <3>1, <3>2
  <2>2. \A p \in Owned(u) : u.parts[p] = "blocked" => u.recheck
    BY <1>8, <1>10 DEF Owned, Ready
  <2> QED
    BY <1>8, <1>10, <2>1, <2>2 DEF WaitOK
<1>16. Put(m, u)
  BY <1>x, <1>r, <1>f, <1>s, <1>t, <1>u DEF RecheckBlocked
<1> QED
  BY <1>7, <1>11, <1>12, <1>13, <1>14, <1>15, <1>16, MemStep DEF RecheckBlocked, MemOK

\* The invariant survives Assign.
LEMMA AssignKeeps ==
    ASSUME IInv, NEW m \in Member, NEW ps \in SUBSET Partition, Assign(m, ps),
           faults' \in 0 .. MaxFaults
    PROVE  IInv'
<1>x. PICK x : x = mem[m]
  OBVIOUS
<1>a. PICK parts : parts = [p \in Partition |-> IF p \in ps THEN "ready" ELSE "none"]
  OBVIOUS
<1>r. PICK r : r = [x EXCEPT !.parts = parts]
  OBVIOUS
<1>f. PICK f : f = RefreshAndReset(r)
  OBVIOUS
<1>s. PICK s : s = Resolved(f, ps)
  OBVIOUS
<1>u. PICK u : u = [s EXCEPT !.pos = s.next, !.paused = Owned(s) \ Ready(s),
                             !.recheck = Owned(s) # Ready(s)]
  OBVIOUS
<1>0. /\ target \in Seq(Commit) /\ x \in MemType /\ MemOK(x) /\ x.st = "poll" /\ Owned(x) = {}
      /\ low \in [Partition -> Nat] /\ high \in [Partition -> Nat] /\ ps # {}
      /\ \A p \in Partition : low[p] =< high[p]
  BY <1>x, MemFacts DEF Assign
<1>1. parts \in [Partition -> {"none", "ready", "blocked"}]
  BY <1>a
<1>2. r \in MemType
  <2>1. x \in MemType
    BY <1>0
  <2> QED
    BY <2>1, <1>1, <1>r, ExceptOwned
<1>3. /\ r.parts = parts /\ r.st = "poll" /\ r.buf = Nothing /\ ~r.blocked
  <2>1. x.buf = Nothing /\ ~x.blocked
    BY <1>0 DEF MemOK, WaitOK
  <2> QED
    BY <1>0, <1>r, <2>1 DEF MemType
<1>4. Owned(r) = ps /\ Ready(r) = ps
  BY <1>3, <1>a DEF Owned, Ready
<1>5. /\ f \in MemType /\ f.seen = Len(target) /\ f.marked = Len(target) /\ f.carried = ps
      /\ f.st = "poll" /\ f.buf = Nothing /\ ~f.blocked /\ f.parts = parts
      /\ HandleOK(f) /\ FenceOK(f) /\ Owned(f) = ps
  BY <1>0, <1>2, <1>3, <1>4, <1>f, ResetFields
<1>6. /\ s \in MemType
      /\ s.st = f.st /\ s.base = f.base /\ s.buf = f.buf /\ s.batch = f.batch
      /\ s.seen = f.seen /\ s.marked = f.marked /\ s.carried = f.carried
      /\ s.blocked = f.blocked
      /\ \A p \in Partition :
            IF p \in ps
            THEN /\ s.parts[p] \in {"ready", "blocked"}
                 /\ s.parts[p] = "ready" =>
                       /\ AtRest(s, p)
                       /\ f.base[p] = None => s.unbased[p] = Wanted(p)
            ELSE s.parts[p] = f.parts[p]
  BY <1>0, <1>5, <1>s, ResolvedFacts
<1>7. Owned(s) = ps /\ Ready(s) \subseteq ps /\ (Owned(s) \ Ready(s)) \in SUBSET Partition
  BY <1>5, <1>6, <1>a DEF Owned, Ready
<1>8. u \in MemType
  <2>1. s.next \in [Partition -> Nat] /\ (Owned(s) # Ready(s)) \in BOOLEAN
    BY <1>6 DEF MemType
  <2> QED
    BY <1>6, <1>7, <1>u, <2>1, ExceptAssigned
<1>9. /\ u.st = "poll" /\ u.base = f.base /\ u.buf = Nothing /\ u.seen = f.seen
      /\ u.marked = f.marked /\ u.carried = f.carried /\ ~u.blocked /\ u.parts = s.parts
      /\ u.next = s.next /\ u.pos = s.next /\ u.reread = s.reread /\ u.unbased = s.unbased
      /\ u.paused = Owned(s) \ Ready(s) /\ u.recheck = (Owned(s) # Ready(s))
  BY <1>5, <1>6, <1>u DEF MemType
<1>10. Owned(u) = ps /\ Ready(u) = Ready(s)
  BY <1>7, <1>9 DEF Owned, Ready
<1>11. HandleOK(u) /\ FenceOK(u)
  <2>1. HandleOK(f) /\ FenceOK(f) /\ Owned(u) = Owned(f)
    BY <1>5, <1>10
  <2> QED
    BY <1>9, <2>1 DEF HandleOK, FenceOK
<1>12. \A p \in Ready(u) : /\ p \in Partition /\ AtRest(s, p)
                           /\ (f.base[p] = None => s.unbased[p] = Wanted(p))
  BY <1>6, <1>7, <1>10 DEF Ready
<1>13. PositionOK(u)
  <2>1. \A p \in Owned(u) : p \notin Ready(u) => p \in u.paused
    BY <1>7, <1>9, <1>10
  <2>2. \A p \in Ready(u) : u.base[p] = None => u.unbased[p] = Wanted(p)
    BY <1>9, <1>12
  <2>3. u.pos = u.next /\ u.st = "poll"
    BY <1>9
  <2> QED
    BY <2>1, <2>2, <2>3 DEF PositionOK
<1>14. PollOK(u) /\ BatchOK(u) /\ BaselineOK(u)
  <2>1. \A p \in Ready(u) : AtRest(u, p)
    BY <1>6, <1>9, <1>12 DEF AtRest
  <2> QED
    BY <1>9, <2>1, NowhereType DEF PollOK, BatchOK, BaselineOK
<1>15. WaitOK(u)
  BY <1>0, <1>7, <1>9, <1>10 DEF WaitOK, Owned, Ready
<1>16. Put(m, u)
  BY <1>x, <1>a, <1>r, <1>f, <1>s, <1>u DEF Assign
<1> QED
  BY <1>8, <1>11, <1>13, <1>14, <1>15, <1>16, MemStep DEF Assign, MemOK

\* A read of the target that failed: the handle as it was, or a fence that knows nothing.
Misread(r, y) ==
    /\ y.st = r.st /\ y.parts = r.parts /\ y.next = r.next /\ y.reread = r.reread
    /\ y.unbased = r.unbased /\ y.pos = r.pos /\ y.base = r.base /\ y.buf = r.buf
    /\ y.batch = r.batch /\ y.paused = r.paused /\ y.blocked = r.blocked
    /\ y.recheck = r.recheck
    /\ \/ y.seen = r.seen /\ y.carried = r.carried /\ y.marked = r.marked
       \/ y.seen = Len(target) /\ y.carried = {} /\ y.marked = None

\* A read that failed leaves a sound member, if it does not fail at the id.
LEMMA MisreadOK ==
    ASSUME "id" \notin FailsAt, target \in Seq(Commit), NEW r \in MemType, MemOK(r),
           r.st \in {"poll", "try", "held"}, NEW y \in FailedResets(r)
    PROVE  y \in MemType /\ Misread(r, y) /\ MemOK(y)
<1>0. PICK at \in FailsAt \ {"watermarks"} :
         y = [r EXCEPT !.seen = IF at = "handle" THEN @ ELSE Len(target),
                       !.carried = IF at = "offsets" THEN {} ELSE @,
                       !.marked = IF at = "offsets" THEN None ELSE @]
  BY DEF FailedResets
<1>1. at = "handle" \/ at = "offsets"
  BY ConstantsAssumption
<1>2. Len(target) \in Nat
  OBVIOUS
<1>3. y \in MemType /\ Misread(r, y)
  <2>1. CASE at = "handle"
    <3>1. y = [r EXCEPT !.seen = r.seen, !.carried = r.carried, !.marked = r.marked]
      BY <1>0, <2>1
    <3> QED
      BY <3>1 DEF MemType, Misread
  <2>2. CASE at = "offsets"
    <3>1. y = [r EXCEPT !.seen = Len(target), !.carried = {}, !.marked = None]
      BY <1>0, <2>2
    <3>2. y \in MemType
      BY <1>2, <3>1 DEF MemType
    <3> QED
      BY SMTT(20), <3>1, <3>2 DEF MemType, Misread
  <2> QED
    BY <1>1, <2>1, <2>2
<1>4. Owned(y) = Owned(r) /\ Ready(y) = Ready(r)
  BY <1>3 DEF Misread, Owned, Ready
<1>5. HandleOK(y)
  BY <1>2, <1>3 DEF Misread, MemOK, HandleOK
<1>6. FenceOK(y)
  BY <1>3, <1>4 DEF Misread, MemOK, FenceOK
<1>7. PositionOK(y)
  BY <1>3, <1>4 DEF Misread, MemOK, PositionOK
<1>8. PollOK(y)
  BY <1>3, <1>4 DEF Misread, MemOK, PollOK, Buffered, AtRest
<1>9. BatchOK(y)
  BY <1>3, <1>4 DEF Misread, MemOK, BatchOK, AtRest
<1>10. BaselineOK(y)
  BY <1>3 DEF Misread, BaselineOK
<1>11. WaitOK(y)
  BY <1>3, <1>4 DEF Misread, MemOK, WaitOK
<1> QED
  BY <1>3, <1>5, <1>6, <1>7, <1>8, <1>9, <1>10, <1>11 DEF MemOK

\* The invariant survives AssignUnresolved.
LEMMA AssignUnresolvedKeeps ==
    ASSUME "id" \notin FailsAt, IInv, NEW m \in Member, NEW ps \in SUBSET Partition,
           AssignUnresolved(m, ps), faults' \in 0 .. MaxFaults
    PROVE  IInv'
<1>x. PICK x : x = mem[m]
  OBVIOUS
<1>a. PICK parts : parts = [p \in Partition |-> IF p \in ps THEN "blocked" ELSE "none"]
  OBVIOUS
<1>r. PICK r : r = [x EXCEPT !.parts = parts, !.paused = ps, !.blocked = TRUE, !.recheck = TRUE]
  OBVIOUS
<1>0. /\ target \in Seq(Commit) /\ x \in MemType /\ MemOK(x) /\ x.st = "poll" /\ Owned(x) = {}
      /\ ps # {}
  BY <1>x, MemFacts DEF AssignUnresolved
<1>1. parts \in [Partition -> {"none", "ready", "blocked"}]
  BY <1>a
<1>2. r \in MemType
  BY <1>0, <1>1, <1>r, ExceptUnresolved
<1>3. /\ r.parts = parts /\ r.st = "poll" /\ r.buf = Nothing /\ r.blocked /\ r.recheck
      /\ r.paused = ps /\ r.carried = x.carried /\ r.base = x.base /\ r.seen = x.seen
      /\ r.marked = x.marked
  <2>1. x.buf = Nothing
    BY <1>0 DEF MemOK, WaitOK
  <2> QED
    BY <1>0, <1>r, <2>1 DEF MemType
<1>4. Owned(r) = ps /\ Ready(r) = {}
  BY <1>3, <1>a DEF Owned, Ready
<1>5. HandleOK(r)
  BY <1>0, <1>3 DEF MemOK, HandleOK
<1>6. FenceOK(r)
  BY <1>0, <1>3, <1>4 DEF MemOK, FenceOK
<1>7. PositionOK(r) /\ PollOK(r) /\ BatchOK(r) /\ BaselineOK(r) /\ WaitOK(r)
  BY <1>0, <1>3, <1>4, NowhereType DEF PositionOK, PollOK, BatchOK, BaselineOK, WaitOK
<1>8. MemOK(r)
  BY <1>5, <1>6, <1>7 DEF MemOK
<1>9. ASSUME NEW y \in FailedResets(r)
      PROVE  y \in MemType /\ MemOK(y)
  BY <1>0, <1>2, <1>3, <1>8, <1>9, MisreadOK
<1>10. ASSUME NEW y, y = RefreshAndReset(r)
       PROVE  y \in MemType /\ MemOK(y)
  <2>1. /\ y \in MemType /\ HandleOK(y) /\ FenceOK(y) /\ y.st = r.st /\ y.buf = r.buf
        /\ y.paused = r.paused /\ y.recheck = r.recheck /\ Owned(y) = Owned(r)
        /\ Ready(y) = Ready(r)
    BY <1>0, <1>2, <1>10, ResetFields
  <2>2. PositionOK(y) /\ PollOK(y) /\ BatchOK(y) /\ BaselineOK(y) /\ WaitOK(y)
    BY <1>0, <1>3, <1>4, <2>1, NowhereType DEF PositionOK, PollOK, BatchOK, BaselineOK, WaitOK
  <2> QED
    BY <2>1, <2>2 DEF MemOK
<1>11. \E y : (y \in FailedResets(r) \/ y = RefreshAndReset(r)) /\ Put(m, y)
  BY <1>x, <1>a, <1>r DEF AssignUnresolved
<1>12. PICK y : (y \in FailedResets(r) \/ y = RefreshAndReset(r)) /\ Put(m, y)
  BY <1>11
<1>13. y \in MemType /\ MemOK(y)
  BY <1>9, <1>10, <1>12
<1> QED
  BY <1>12, <1>13, MemStep DEF AssignUnresolved

-----------------------------------------------------------------------------
(* A batch that is held, or tried again.                                   *)

\* A member that holds its batch back stays a member.
LEMMA ExceptHeld ==
    ASSUME NEW r \in MemType, NEW why \in {"retry", "operator"}
    PROVE  [r EXCEPT !.st = "held", !.why = why, !.aged = FALSE] \in MemType
  BY DEF MemType

\* A held batch: every partition is paused, nothing else moves.
LEMMA HeldFields ==
    ASSUME NEW r \in MemType, r.st = "try", NEW why \in {"retry", "operator"}, NEW u, u = Hold(r, why)
    PROVE  /\ u \in MemType
           /\ u.st = "held" /\ u.paused = r.paused \cup Owned(r) /\ u.recheck = r.recheck
           /\ u.parts = r.parts /\ u.next = r.next /\ u.reread = r.reread
           /\ u.unbased = r.unbased /\ u.pos = r.pos /\ u.base = r.base /\ u.buf = r.buf
           /\ u.batch = r.batch /\ u.seen = r.seen /\ u.marked = r.marked /\ u.carried = r.carried
<1>v. PICK v : v = [r EXCEPT !.st = "held", !.why = why, !.aged = FALSE]
  OBVIOUS
<1>p. PICK ps : ps = r.paused \cup Owned(r)
  OBVIOUS
<1>w. PICK w : w = [v EXCEPT !.paused = ps]
  OBVIOUS
<1>1. v \in MemType
  BY <1>v, ExceptHeld
<1>2. ps \in SUBSET Partition
  BY <1>p DEF MemType, Owned
<1>3. w \in MemType
  BY <1>1, <1>2, <1>w DEF MemType
<1>4. u = [w EXCEPT !.blocked = r.blocked \/ why = "operator"]
  BY <1>v, <1>p, <1>w DEF Hold, MemType
<1>5. u \in MemType
  BY <1>3, <1>4 DEF MemType
<1>6. /\ v.st = "held" /\ v.recheck = r.recheck
      /\ v.parts = r.parts /\ v.next = r.next /\ v.reread = r.reread
      /\ v.unbased = r.unbased /\ v.pos = r.pos /\ v.base = r.base /\ v.buf = r.buf
      /\ v.batch = r.batch /\ v.seen = r.seen /\ v.marked = r.marked /\ v.carried = r.carried
  BY <1>v DEF MemType
<1>7. /\ w.st = v.st /\ w.paused = ps /\ w.recheck = v.recheck
      /\ w.parts = v.parts /\ w.next = v.next /\ w.reread = v.reread
      /\ w.unbased = v.unbased /\ w.pos = v.pos /\ w.base = v.base /\ w.buf = v.buf
      /\ w.batch = v.batch /\ w.seen = v.seen /\ w.marked = v.marked /\ w.carried = v.carried
  BY <1>1, <1>w DEF MemType
<1>8. /\ u.st = w.st /\ u.paused = w.paused /\ u.recheck = w.recheck
      /\ u.parts = w.parts /\ u.next = w.next /\ u.reread = w.reread
      /\ u.unbased = w.unbased /\ u.pos = w.pos /\ u.base = w.base /\ u.buf = w.buf
      /\ u.batch = w.batch /\ u.seen = w.seen /\ u.marked = w.marked /\ u.carried = w.carried
  BY <1>3, <1>4 DEF MemType
<1> QED
  BY <1>p, <1>5, <1>6, <1>7, <1>8

\* A batch may be held, or dropped with its partitions in a flush.
LEMMA HoldOK ==
    ASSUME target \in Seq(Commit), NEW r \in MemType, MemOK(r), r.st \in {"try", "flush"},
           NEW why \in {"retry", "operator"}, NEW u, u = Hold(r, why)
    PROVE  u \in MemType /\ MemOK(u)
<1>1. CASE r.st = "flush"
  BY <1>1, UnassignedOK DEF Hold, MemOK
<1>2. CASE r.st = "try"
  <2>5. /\ u \in MemType
        /\ u.st = "held" /\ u.paused = r.paused \cup Owned(r) /\ u.recheck = r.recheck
        /\ u.parts = r.parts /\ u.next = r.next /\ u.reread = r.reread
        /\ u.unbased = r.unbased /\ u.pos = r.pos /\ u.base = r.base /\ u.buf = r.buf
        /\ u.batch = r.batch /\ u.seen = r.seen /\ u.marked = r.marked /\ u.carried = r.carried
    BY <1>2, HeldFields
  <2>6. Owned(u) = Owned(r) /\ Ready(u) = Ready(r)
    BY <2>5 DEF Owned, Ready
  <2>7. HandleOK(u) /\ FenceOK(u)
    BY <2>5, <2>6 DEF MemOK, HandleOK, FenceOK
  <2>8. PositionOK(u)
    BY <2>5, <2>6 DEF MemOK, PositionOK
  <2>9. PollOK(u) /\ BaselineOK(u)
    BY <2>5 DEF PollOK, BaselineOK
  <2>10. BatchOK(u)
    BY <1>2, <2>5, <2>6 DEF MemOK, BatchOK, AtRest
  <2>11. WaitOK(u)
    BY <1>2, <2>5, <2>6 DEF MemOK, WaitOK
  <2> QED
    BY <2>5, <2>7, <2>8, <2>9, <2>10, <2>11 DEF MemOK
<1> QED
  BY <1>1, <1>2

\* The invariant survives ReadFails.
LEMMA ReadFailsKeeps ==
    ASSUME "id" \notin FailsAt, IInv, NEW m \in Member, ReadFails(m), faults' \in 0 .. MaxFaults
    PROVE  IInv'
<1>r. PICK r : r = mem[m]
  OBVIOUS
<1>0. target \in Seq(Commit) /\ r \in MemType /\ MemOK(r) /\ r.st \in {"poll", "try", "held"}
  BY <1>r, MemFacts DEF ReadFails
<1>1. PICK y \in FailedResets(r) : Put(m, IF y.st = "try" THEN Hold(y, "retry") ELSE y)
  BY <1>r DEF ReadFails
<1>2. y \in MemType /\ MemOK(y)
  BY <1>0, <1>1, MisreadOK
<1>3. CASE y.st = "try"
  <2>1. PICK u : u = Hold(y, "retry")
    OBVIOUS
  <2>2. u \in MemType /\ MemOK(u)
    BY <1>0, <1>2, <1>3, <2>1, HoldOK
  <2>3. Put(m, u)
    BY <1>1, <1>3, <2>1
  <2> QED
    BY <2>2, <2>3, MemStep DEF ReadFails
<1>4. CASE y.st # "try"
  BY <1>1, <1>2, <1>4, MemStep DEF ReadFails
<1> QED
  BY <1>3, <1>4

\* The invariant survives Retry.
LEMMA RetryKeeps ==
    ASSUME IInv, NEW m \in Member, Retry(m), faults' \in 0 .. MaxFaults
    PROVE  IInv'
<1>r. PICK r : r = mem[m]
  OBVIOUS
<1>u. PICK u : u = [r EXCEPT !.st = "try"]
  OBVIOUS
<1>0. target \in Seq(Commit) /\ r \in MemType /\ MemOK(r) /\ r.st = "held"
  BY <1>r, MemFacts DEF Retry
<1>1. u \in MemType
  BY <1>0, <1>u, ExceptSt
<1>2. /\ u.st = "try" /\ u.paused = r.paused /\ u.blocked = r.blocked /\ u.recheck = r.recheck
      /\ u.parts = r.parts /\ u.next = r.next /\ u.reread = r.reread
      /\ u.unbased = r.unbased /\ u.pos = r.pos /\ u.base = r.base /\ u.buf = r.buf
      /\ u.batch = r.batch /\ u.seen = r.seen /\ u.marked = r.marked /\ u.carried = r.carried
  BY <1>0, <1>u DEF MemType
<1>3. Owned(u) = Owned(r) /\ Ready(u) = Ready(r)
  BY <1>2 DEF Owned, Ready
<1>4. HandleOK(u) /\ FenceOK(u)
  BY <1>0, <1>2, <1>3 DEF MemOK, HandleOK, FenceOK
<1>5. PositionOK(u)
  BY <1>0, <1>2, <1>3 DEF MemOK, PositionOK
<1>6. PollOK(u) /\ BaselineOK(u)
  BY <1>2 DEF PollOK, BaselineOK
<1>7. BatchOK(u)
  BY <1>0, <1>2, <1>3 DEF MemOK, BatchOK, AtRest
<1>8. WaitOK(u)
  BY <1>0, <1>2, <1>3 DEF MemOK, WaitOK
<1>9. Put(m, u)
  BY <1>r, <1>u DEF Retry
<1> QED
  BY <1>1, <1>4, <1>5, <1>6, <1>7, <1>8, <1>9, MemStep DEF Retry, MemOK

\* Past the fence's check, every partition of the batch is carried.
LEMMA VerifiedOK ==
    ASSUME target \in Seq(Commit), NEW r \in MemType, MemOK(r), r.st \in {"try", "flush"},
           ~Moved(r), ~Fenced(r), NEW v, v = Verified(r)
    PROVE  /\ v \in MemType /\ MemOK(v) /\ v.st = r.st /\ v.batch = r.batch
           /\ v.seen = r.seen /\ v.base = r.base /\ v.carried = r.carried \cup Ranges(r.batch)
           /\ v.marked = IF r.marked = None THEN r.seen ELSE r.marked
<1>1. PICK cs : cs = r.carried \cup Ranges(r.batch)
  OBVIOUS
<1>2. PICK mk : mk = IF r.marked = None THEN r.seen ELSE r.marked
  OBVIOUS
<1>3. v = [r EXCEPT !.carried = cs, !.marked = mk]
  BY <1>1, <1>2 DEF Verified, MemType
<1>4. cs \in SUBSET Partition /\ mk \in Nat
  BY <1>1, <1>2 DEF MemType, Ranges, None
<1>5. v \in MemType
  BY ZenonT(30), <1>3, <1>4 DEF MemType
<1>6. /\ v.st = r.st /\ v.paused = r.paused /\ v.blocked = r.blocked /\ v.recheck = r.recheck
      /\ v.parts = r.parts /\ v.next = r.next /\ v.reread = r.reread
      /\ v.unbased = r.unbased /\ v.pos = r.pos /\ v.base = r.base /\ v.buf = r.buf
      /\ v.batch = r.batch /\ v.seen = r.seen /\ v.carried = cs /\ v.marked = mk
  BY <1>3 DEF MemType
<1>7. Owned(v) = Owned(r) /\ Ready(v) = Ready(r)
  BY <1>6 DEF Owned, Ready
<1>8. HandleOK(v)
  BY <1>2, <1>6 DEF MemOK, HandleOK
<1>9. FenceOK(v)
  <2>1. \A p \in Ranges(r.batch) : p \in Owned(r)
    BY DEF Moved, Owned, Ranges
  <2>2. \A p \in Ranges(r.batch) : p \notin r.carried => r.base[p] = Txn(r.seen, p)
    BY DEF Fenced
  <2> QED
    BY <1>1, <1>6, <1>7, <2>1, <2>2 DEF MemOK, FenceOK
<1>10. PositionOK(v)
  BY <1>6, <1>7 DEF MemOK, PositionOK
<1>11. PollOK(v) /\ BaselineOK(v)
  BY <1>6 DEF PollOK, BaselineOK
<1>12. BatchOK(v)
  BY <1>6, <1>7 DEF MemOK, BatchOK, AtRest
<1>13. WaitOK(v)
  BY <1>6, <1>7 DEF MemOK, WaitOK
<1> QED
  BY <1>1, <1>2, <1>5, <1>6, <1>8, <1>9, <1>10, <1>11, <1>12, <1>13 DEF MemOK

\* The invariant survives CommitBlocked.
LEMMA CommitBlockedKeeps ==
    ASSUME IInv, NEW m \in Member, CommitBlocked(m), faults' \in 0 .. MaxFaults
    PROVE  IInv'
<1>r. PICK r : r = mem[m]
  OBVIOUS
<1>0. target \in Seq(Commit) /\ r \in MemType /\ MemOK(r) /\ r.st \in {"try", "flush"}
  BY <1>r, MemFacts DEF CommitBlocked
<1>1. CASE Put(m, Hold(r, "operator"))
  <2>1. PICK u : u = Hold(r, "operator")
    OBVIOUS
  <2>2. u \in MemType /\ MemOK(u)
    BY <1>0, <2>1, HoldOK
  <2> QED
    BY <1>1, <2>1, <2>2, MemStep DEF CommitBlocked
<1>2. CASE ~Fenced(r) /\ Put(m, Hold(Verified(r), "operator"))
  <2>1. PICK v : v = Verified(r)
    OBVIOUS
  <2>2. v \in MemType /\ MemOK(v) /\ v.st = r.st
    <3>1. ~Moved(r)
      BY <1>r DEF CommitBlocked
    <3> QED
      BY <1>0, <1>2, <2>1, <3>1, VerifiedOK
  <2>3. PICK u : u = Hold(v, "operator")
    OBVIOUS
  <2>4. u \in MemType /\ MemOK(u)
    BY <1>0, <2>2, <2>3, HoldOK
  <2> QED
    BY <1>2, <2>1, <2>3, <2>4, MemStep DEF CommitBlocked
<1> QED
  BY <1>r, <1>1, <1>2 DEF CommitBlocked

-----------------------------------------------------------------------------
(* The steps that write.                                                   *)

\* What a member may commit goes on from the target as it is now.
LEMMA CommitAdmissible ==
    ASSUME target \in Seq(Commit), NEW r \in MemType, MemOK(r), r.st \in {"try", "flush"},
           ~Replan(r), NEW c, c = KafkaCommit(r), NEW v, v = Verified(r)
    PROVE  /\ Admissible(c) /\ c.txn = AssertMap(r)
           /\ c.marker = ~HasMarker(v.marked)
           /\ \A p \in Partition : c.txn[p] # None =>
                 Stored(p) = r.base[p] /\ c.txn[p] >= Stored(p) /\ p \in Owned(r)
<1>0. ~Moved(r) /\ ~Fenced(r) /\ ~Conflicts(r.seen, c)
  BY DEF Replan
<1>1. /\ v \in MemType /\ MemOK(v) /\ v.seen = r.seen /\ v.base = r.base
      /\ v.carried = r.carried \cup Ranges(r.batch)
      /\ v.marked = IF r.marked = None THEN r.seen ELSE r.marked
      /\ v.parts = r.parts
  <2>1. v.parts = r.parts
    BY DEF Verified, MemType
  <2> QED
    BY <1>0, <2>1, VerifiedOK
<1>2. /\ c.by = "batch" /\ c.txn = AssertMap(r) /\ c.rows = r.batch.rows
      /\ c.marker = ~HasMarker(v.marked)
  BY DEF KafkaCommit
<1>3. /\ r.batch.last \in [Partition -> Nat \cup {None}] /\ r.base \in [Partition -> Nat \cup {None}]
      /\ r.batch.rows \in [Partition -> SUBSET Nat] /\ r.seen \in Nat
      /\ r.batch.bases \in [Partition -> Nat \cup {None}]
  BY DEF MemType
<1>4. \A p \in Partition : c.txn[p] = IF p \in Ranges(r.batch) THEN r.batch.last[p]
                                      ELSE IF p \in r.carried THEN r.base[p] ELSE None
  BY <1>2 DEF AssertMap
<1>5. c \in Commit
  <2>1. AssertMap(r) \in [Partition -> Nat \cup {None}]
    BY <1>3 DEF AssertMap
  <2>2. (~HasMarker(v.marked)) \in BOOLEAN
    OBVIOUS
  <2>3. c = [by |-> "batch", txn |-> AssertMap(r), rows |-> r.batch.rows,
             marker |-> ~HasMarker(v.marked)]
    BY DEF KafkaCommit
  <2> QED
    BY <1>3, <2>1, <2>2, <2>3 DEF Commit
<1>6. r.seen \in 0 .. Len(target) /\ Len(target) \in Nat
  BY <1>3 DEF MemOK, HandleOK
<1>7. ASSUME NEW p \in Partition, c.txn[p] # None
      PROVE  Stored(p) = r.base[p] /\ p \in Owned(r) /\ Stored(p) \in Nat \cup {None}
  <2>1. p \in v.carried
    BY <1>1, <1>4, <1>7
  <2>2. v.base[p] = Txn(v.seen, p) /\ p \in Owned(v)
    BY <1>1, <2>1 DEF MemOK, FenceOK
  <2>3. \A i \in r.seen + 1 .. Len(target) : target[i].txn[p] = None
    BY <1>0, <1>7 DEF Conflicts
  <2>4. Stored(p) = Txn(r.seen, p)
    BY <1>6, <2>3, NothingSince
  <2> QED
    BY <1>1, <2>2, <2>4, StoredType DEF Owned
<1>8. BatchOK(r)
  BY DEF MemOK
<1>9. ASSUME NEW p \in Partition, p \in Ranges(r.batch)
      PROVE  /\ r.batch.last[p] \in Nat /\ c.txn[p] = r.batch.last[p] /\ r.base[p] = r.batch.bases[p]
             /\ Stored(p) = r.batch.bases[p] /\ c.txn[p] # None
             /\ c.txn[p] >= After(p, Stored(p))
             /\ c.rows[p] = Messages(p, After(p, Stored(p)), c.txn[p])
  <2>1. r.batch.last[p] # None /\ r.batch.last[p] \in Nat /\ c.txn[p] = r.batch.last[p]
    BY <1>3, <1>4, <1>9 DEF Ranges
  <2>2. r.base[p] = r.batch.bases[p]
    BY <1>0, <1>9 DEF Moved
  <2>3. Stored(p) = r.batch.bases[p]
    BY <1>7, <2>1, <2>2
  <2>4. /\ r.batch.last[p] >= After(p, r.batch.bases[p])
        /\ r.batch.rows[p] = Messages(p, After(p, r.batch.bases[p]), r.batch.last[p])
    BY <1>8, <2>1 DEF BatchOK
  <2> QED
    BY <1>2, <2>1, <2>2, <2>3, <2>4
<1>10. ASSUME NEW p \in Partition, p \notin Ranges(r.batch)
       PROVE  c.rows[p] = {} /\ (c.txn[p] # None => c.txn[p] = Stored(p) /\ Stored(p) \in Nat)
  <2>1. c.rows[p] = {}
    BY <1>2, <1>8, <1>10 DEF BatchOK, Ranges
  <2>2. c.txn[p] # None => c.txn[p] = r.base[p] /\ c.txn[p] \in Nat
    BY <1>3, <1>4, <1>10
  <2> QED
    BY <1>7, <2>1, <2>2
<1>11. \A p \in Partition : c.txn[p] # None => c.txn[p] >= Stored(p)
  <2> SUFFICES ASSUME NEW p \in Partition, c.txn[p] # None
               PROVE  c.txn[p] >= Stored(p)
    OBVIOUS
  <2>1. CASE p \in Ranges(r.batch)
    <3>1. Stored(p) \in Nat \cup {None} /\ c.txn[p] \in Nat /\ c.txn[p] >= After(p, Stored(p))
      BY <1>7, <1>9, <2>1
    <3> QED
      BY <3>1 DEF After, None
  <2>2. CASE p \notin Ranges(r.batch)
    BY <1>10, <2>2
  <2> QED
    BY <2>1, <2>2
<1>12. Continues(c)
  <2> SUFFICES ASSUME NEW p \in Partition
               PROVE  IF c.txn[p] = None THEN c.rows[p] = {}
                      ELSE /\ c.txn[p] >= After(p, Stored(p)) - 1
                           /\ c.rows[p] = Messages(p, After(p, Stored(p)), c.txn[p])
    BY DEF Continues
  <2>1. CASE p \in Ranges(r.batch)
    <3>1. Stored(p) \in Nat \cup {None}
      BY <1>7, <1>9, <2>1
    <3>2. After(p, Stored(p)) \in Nat
      BY <3>1, WantedType
    <3> QED
      BY <1>9, <2>1, <3>2
  <2>2. CASE p \notin Ranges(r.batch) /\ c.txn[p] # None
    <3>1. c.txn[p] = Stored(p) /\ Stored(p) \in Nat /\ c.rows[p] = {}
      BY <1>10, <2>2
    <3>2. After(p, Stored(p)) = c.txn[p] + 1
      BY <3>1 DEF After, None
    <3>3. Messages(p, c.txn[p] + 1, c.txn[p]) = {}
      BY <3>1 DEF Messages
    <3> QED
      BY <3>1, <3>2, <3>3
  <2>3. CASE p \notin Ranges(r.batch) /\ c.txn[p] = None
    BY <1>10, <2>3
  <2> QED
    BY <2>1, <2>2, <2>3
<1>13. c.marker => ~HasMarker(Len(target))
  <2> SUFFICES ASSUME c.marker, HasMarker(Len(target))
               PROVE  FALSE
    OBVIOUS
  <2>1. ~HasMarker(v.marked)
    BY <1>2
  <2>2. v.marked = r.seen
    <3>1. v.marked # None
      BY <1>1, <1>3 DEF None
    <3> QED
      BY <1>1, <2>1, <3>1 DEF MemOK, HandleOK
  <2>3. PICK i \in 1 .. Len(target) : target[i].marker
    BY DEF HasMarker
  <2>4. i \in r.seen + 1 .. Len(target)
    BY <1>6, <2>1, <2>2, <2>3 DEF HasMarker
  <2> QED
    BY <1>0, <2>3, <2>4 DEF Conflicts
<1> QED
  BY <1>2, <1>5, <1>7, <1>11, <1>12, <1>13 DEF Admissible

\* A step that writes c, whoever it is by.
LEMMA WriteStep ==
    ASSUME IInv, NEW c \in Commit, target' = Append(target, c),
           c.by = "batch" => Continues(c), c.marker => ~HasMarker(Len(target)),
           \A p \in Partition : c.txn[p] # None => c.txn[p] >= Stored(p),
           late' = late \/ late' = NoLate, UNCHANGED <<low, high>>, faults' \in 0 .. MaxFaults,
           mem' \in [Member -> MemType],
           \A m \in Member : mem'[m] = mem[m] \/ MemOK(mem[m])'
    PROVE  IInv'
<1>0. /\ target \in Seq(Commit) /\ low \in [Partition -> Nat] /\ late \in [at : Nat, commit : Commit]
      /\ \A p \in Partition : low[p] \in Nat /\ low[p] =< low'[p] /\ low' \in [Partition -> Nat]
  BY DEF IInv, TypeOK
<1>1. TypeOK'
  <2>1. NoLate \in [at : Nat, commit : Commit]
    BY NowhereType DEF NoLate, Commit
  <2> QED
    BY <1>0, <2>1 DEF IInv, TypeOK
<1>2. EveryCommitContinues' /\ OneMarker' /\ LateOK'
  BY LogGrown
<1>3. ASSUME NEW m \in Member PROVE MemOK(mem[m])'
  <2>1. CASE mem'[m] = mem[m]
    <3>1. PICK r : r = mem[m]
      OBVIOUS
    <3>2. r \in MemType /\ MemOK(r)
      BY <3>1, MemFacts
    <3>3. Grows
      BY DEF Grows
    <3>4. MemOK(r)'
      BY <1>0, <3>2, <3>3, MemKept
    <3> QED
      BY <2>1, <3>1, <3>4
  <2>2. CASE MemOK(mem[m])'
    BY <2>2
  <2> QED
    BY <2>1, <2>2
<1> QED
  BY <1>1, <1>2, <1>3 DEF IInv

\* A member that owns nothing, after the step.
LEMMA IdleAfter ==
    ASSUME \A p \in Partition : Stored(p)' \in Nat \cup {None},
           NEW r \in MemType, HandleOK(r)',
           r.st \in {"down", "poll"}, r.carried = {}, r.base = Nowhere, r.buf = Nothing,
           ~r.blocked, Owned(r) = {}
    PROVE  MemOK(r)'
<1>1. Ready(r) = {}
  BY DEF Owned, Ready
<1>2. FenceOK(r)'
  BY NowhereType DEF FenceOK, None
<1>3. PositionOK(r)' /\ PollOK(r)' /\ BatchOK(r)' /\ BaselineOK(r)' /\ WaitOK(r)'
  BY <1>1, NowhereType DEF PositionOK, PollOK, BatchOK, BaselineOK, WaitOK, Owned, Ready
<1> QED
  BY <1>2, <1>3 DEF MemOK

\* A member that has read the log up to a commit stays a member.
LEMMA ExceptSeen ==
    ASSUME NEW r \in MemType, NEW n \in Nat
    PROVE  [r EXCEPT !.st = "poll", !.seen = n] \in MemType
  BY DEF MemType

\* The members after a step that changes one of them.
LEMMA PutAfter ==
    ASSUME IInv, NEW m \in Member, NEW u \in MemType, MemOK(u)', Put(m, u)
    PROVE  /\ mem' \in [Member -> MemType]
           /\ \A x \in Member : mem'[x] = mem[x] \/ MemOK(mem[x])'
<1>1. mem \in [Member -> MemType]
  BY DEF IInv, TypeOK
<1>2. mem' \in [Member -> MemType] /\ mem'[m] = u
  BY <1>1 DEF Put
<1>3. ASSUME NEW x \in Member, x # m PROVE mem'[x] = mem[x]
  BY <1>1, <1>3 DEF Put
<1>4. MemOK(mem[m])'
  BY <1>2
<1> QED
  BY <1>2, <1>3, <1>4

\* A baseline nobody was in front of takes every offset on, and the marker is its own.
LEMMA BaselineForward ==
    ASSUME target \in Seq(Commit), NEW r \in MemType, MemOK(r), r.st = "baseline",
           NEW c, c = BaselineCommit(r), ~Conflicts(r.seen, c)
    PROVE  /\ c \in Commit /\ c.by = "baseline" /\ ~HasMarker(Len(target))
           /\ \A p \in Partition : c.txn[p] # None => c.txn[p] >= Stored(p)
<1>l. PICK l : l = Len(target)
  OBVIOUS
<1>0. l \in Nat
  BY <1>l
<1>1. /\ c \in Commit /\ c.by = "baseline" /\ c.marker /\ c.txn = r.batch.last
      /\ r.batch.last \in [Partition -> Nat \cup {None}]
  BY NowhereType DEF BaselineCommit, Commit, MemType
<1>2. r.seen \in 0 .. l
  BY <1>0, <1>l DEF MemOK, HandleOK, MemType
<1>3. ~HasMarker(l)
  <2>1. ~HasMarker(r.seen)
    BY DEF MemOK, BaselineOK
  <2>2. \A i \in r.seen + 1 .. l : ~target[i].marker
    BY <1>1, <1>l DEF Conflicts
  <2> QED
    BY <1>2, <2>1, <2>2 DEF HasMarker
<1>4. ASSUME NEW p \in Partition, c.txn[p] # None
      PROVE  c.txn[p] >= Stored(p)
  <2>1. \A i \in r.seen + 1 .. l : target[i].txn[p] = None
    BY <1>4, <1>l DEF Conflicts
  <2>2. Stored(p) = Txn(r.seen, p)
    BY <1>2, <1>l, <2>1, NothingSince
  <2> QED
    BY <1>1, <1>4, <2>2 DEF MemOK, BaselineOK
<1> QED
  BY <1>1, <1>3, <1>4, <1>l

\* The invariant survives CommitBaseline.
LEMMA CommitBaselineKeeps ==
    ASSUME IInv, NEW m \in Member, CommitBaseline(m), faults' \in 0 .. MaxFaults
    PROVE  IInv'
<1>r. PICK r : r = mem[m]
  OBVIOUS
<1>c. PICK c : c = BaselineCommit(r)
  OBVIOUS
<1>l. PICK l : l = Len(target)
  OBVIOUS
<1>u. PICK u : u = [Down EXCEPT !.st = "poll", !.seen = l + 1]
  OBVIOUS
<1>0. /\ target \in Seq(Commit) /\ l \in Nat /\ r \in MemType /\ MemOK(r) /\ r.st = "baseline"
      /\ ~Conflicts(r.seen, c) /\ target' = Append(target, c) /\ Put(m, u)
  BY <1>r, <1>c, <1>l, <1>u, MemFacts DEF CommitBaseline
<1>1. /\ c \in Commit /\ c.by = "baseline" /\ ~HasMarker(Len(target))
      /\ \A p \in Partition : c.txn[p] # None => c.txn[p] >= Stored(p)
  BY <1>0, <1>c, BaselineForward
<1>5. u \in MemType
  <2>1. l + 1 \in Nat
    BY <1>0
  <2> QED
    BY <1>u, <2>1, DownType, ExceptSeen
<1>6. /\ u.st = "poll" /\ u.seen = l + 1 /\ u.marked = None /\ u.carried = {} /\ u.base = Nowhere
      /\ u.buf = Nothing /\ ~u.blocked /\ Owned(u) = {}
  BY <1>u DEF Down, Owned
<1>7. Len(target') = l + 1
  BY <1>0, <1>1, <1>l
<1>8. \A p \in Partition : Stored(p)' \in Nat \cup {None}
  BY <1>0, <1>1, GrownLog DEF Grows
<1>9. MemOK(u)'
  <2>1. HandleOK(u)'
    BY <1>0, <1>6, <1>7 DEF HandleOK
  <2> QED
    BY <1>5, <1>6, <1>8, <2>1, IdleAfter
<1>10. /\ mem' \in [Member -> MemType]
       /\ \A x \in Member : mem'[x] = mem[x] \/ MemOK(mem[x])'
  BY <1>0, <1>5, <1>9, PutAfter
<1> QED
  BY <1>0, <1>1, <1>10, WriteStep DEF CommitBaseline

\* The invariant survives BaselineConflict.
LEMMA BaselineConflictKeeps ==
    ASSUME IInv, NEW m \in Member, BaselineConflict(m), faults' \in 0 .. MaxFaults
    PROVE  IInv'
  BY ForgetKeeps DEF BaselineConflict

\* An admissible commit takes every offset it writes on.
LEMMA AdmissibleForward ==
    ASSUME target \in Seq(Commit), NEW c, Admissible(c), NEW p \in Partition, c.txn[p] # None
    PROVE  c.txn[p] >= Stored(p)
<1>1. c.txn[p] \in Nat /\ c.txn[p] >= After(p, Stored(p)) - 1
  BY DEF Admissible, Continues, Commit
<1>2. Stored(p) \in Nat \cup {None} /\ After(p, Stored(p)) \in Nat
  BY StoredType, WantedType
<1>3. After(p, Stored(p)) - 1 >= Stored(p)
  BY <1>2 DEF After, None
<1> QED
  BY <1>1, <1>2, <1>3 DEF None

\* The invariant survives LateLands.
LEMMA LateLandsKeeps ==
    ASSUME IInv, LateLands, faults' \in 0 .. MaxFaults
    PROVE  IInv'
<1>c. PICK c : c = late.commit
  OBVIOUS
<1>0. /\ target \in Seq(Commit) /\ mem \in [Member -> MemType] /\ mem' = mem
  BY DEF IInv, TypeOK, LateLands
<1>1. Admissible(c)
  BY <1>c DEF IInv, LateOK, LateLands
<1>2. \A p \in Partition : c.txn[p] # None => c.txn[p] >= Stored(p)
  BY <1>0, <1>1, AdmissibleForward
<1> QED
  BY <1>0, <1>1, <1>2, <1>c, WriteStep DEF LateLands, Admissible

\* The commit of a set-offsets.
OverrideCommit(p, next) ==
    [by |-> "override", txn |-> [Nowhere EXCEPT ![p] = next - 1], rows |-> Nothing, marker |-> FALSE]

\* Without --allow-replay a set-offsets takes its offset on.
LEMMA OverrideForward ==
    ASSUME ~AllowReplay, target \in Seq(Commit), NEW p \in Partition, NEW next \in 1 .. MaxHigh,
           SetOffsets(p, next), NEW c, c = OverrideCommit(p, next)
    PROVE  /\ c \in Commit /\ c.by = "override" /\ ~c.marker /\ target' = Append(target, c)
           /\ c.rows = Nothing
           /\ \A q \in Partition : c.txn[q] # None => c.txn[q] >= Stored(q)
<1>0. Stored(p) \in Nat \cup {None} /\ next \in Nat \ {0}
  BY StoredType, ConstantsAssumption
<1>1. [Nowhere EXCEPT ![p] = next - 1] \in [Partition -> Nat \cup {None}]
  BY <1>0, NowhereType
<1>2. /\ c \in Commit /\ c.by = "override" /\ ~c.marker /\ c.rows = Nothing
      /\ c.txn = [Nowhere EXCEPT ![p] = next - 1]
  BY <1>1, NowhereType DEF Commit, OverrideCommit
<1>3. next - 1 >= Stored(p)
  BY <1>0 DEF SetOffsets, None
<1>4. \A q \in Partition : c.txn[q] # None => c.txn[q] >= Stored(q)
  BY <1>2, <1>3, NowhereType
<1> QED
  BY <1>2, <1>4 DEF SetOffsets, OverrideCommit

\* The invariant survives SetOffsets.
LEMMA SetOffsetsKeeps ==
    ASSUME ~AllowReplay, IInv, NEW p \in Partition, NEW next \in 1 .. MaxHigh, SetOffsets(p, next),
           faults' \in 0 .. MaxFaults
    PROVE  IInv'
<1>c. PICK c : c = OverrideCommit(p, next)
  OBVIOUS
<1>0. target \in Seq(Commit) /\ mem \in [Member -> MemType] /\ mem' = mem
  BY DEF IInv, TypeOK, SetOffsets
<1>1. /\ c \in Commit /\ c.by = "override" /\ ~c.marker /\ target' = Append(target, c)
      /\ \A q \in Partition : c.txn[q] # None => c.txn[q] >= Stored(q)
  BY <1>0, <1>c, OverrideForward
<1> QED
  BY <1>0, <1>1, WriteStep DEF SetOffsets

\* A member whose commit landed stays a member.
LEMMA ExceptCommitted ==
    ASSUME NEW r \in MemType, NEW n \in Nat, NEW mk \in Nat \cup {None},
           NEW b \in [Partition -> Nat \cup {None}], NEW cs \in SUBSET Partition
    PROVE  [r EXCEPT !.seen = n, !.marked = mk, !.base = b, !.carried = cs] \in MemType
  BY DEF MemType

\* A member that is done with a batch stays a member.
LEMMA ExceptCleared ==
    ASSUME NEW r \in MemType
    PROVE  [r EXCEPT !.batch = NoBatch, !.blocked = FALSE, !.st = "poll", !.aged = FALSE] \in MemType
  BY NowhereType DEF MemType, NoBatch

\* What a member knows once its commit c landed after the l commits there were.
Landed(l, r, c, v, u) ==
    /\ u.seen = l + 1 /\ u.marked = (IF c.marker THEN l + 1 ELSE v.marked)
    /\ u.base = [p \in Partition |-> IF c.txn[p] # None THEN c.txn[p] ELSE r.base[p]]
    /\ u.carried = {p \in Partition : c.txn[p] # None}
    /\ u.st = "poll" /\ ~u.blocked
    /\ u.parts = r.parts /\ u.next = r.next /\ u.reread = r.reread /\ u.unbased = r.unbased
    /\ u.pos = r.pos /\ u.paused = r.paused /\ u.buf = r.buf /\ u.recheck = r.recheck

\* Committed does what Landed says.
LEMMA CommittedFields ==
    ASSUME target \in Seq(Commit), NEW r \in MemType, NEW c, c = KafkaCommit(r), c \in Commit,
           NEW v, v = Verified(r), v \in MemType, NEW u, u = Committed(r), NEW l, l = Len(target)
    PROVE  u \in MemType /\ Landed(l, r, c, v, u)
<1>m. PICK mk : mk = IF c.marker THEN l + 1 ELSE v.marked
  OBVIOUS
<1>b. PICK b : b = [p \in Partition |-> IF c.txn[p] # None THEN c.txn[p] ELSE r.base[p]]
  OBVIOUS
<1>s. PICK cs : cs = {p \in Partition : c.txn[p] # None}
  OBVIOUS
<1>w. PICK w : w = [r EXCEPT !.seen = l + 1, !.marked = mk, !.base = b, !.carried = cs]
  OBVIOUS
<1>1. u = [w EXCEPT !.batch = NoBatch, !.blocked = FALSE, !.st = "poll", !.aged = FALSE]
  <2>1. u = [r EXCEPT !.seen = l + 1, !.marked = mk, !.base = b, !.carried = cs,
                      !.batch = NoBatch, !.blocked = FALSE, !.st = "poll", !.aged = FALSE]
    BY <1>m, <1>b, <1>s DEF Committed, MemType
  <2> QED
    BY <1>w, <2>1
<1>2. l + 1 \in Nat /\ cs \in SUBSET Partition
  BY <1>s
<1>3. mk \in Nat \cup {None}
  BY <1>2, <1>m DEF MemType
<1>4. b \in [Partition -> Nat \cup {None}]
  <2>1. \A p \in Partition : c.txn[p] \in Nat \cup {None} /\ r.base[p] \in Nat \cup {None}
    BY DEF Commit, MemType
  <2> QED
    BY <1>b, <2>1
<1>5. w \in MemType
  BY <1>2, <1>3, <1>4, <1>w, ExceptCommitted
<1>6. u \in MemType
  BY <1>1, <1>5, ExceptCleared
<1>7. /\ w.seen = l + 1 /\ w.marked = mk /\ w.base = b /\ w.carried = cs
      /\ w.parts = r.parts /\ w.next = r.next /\ w.reread = r.reread /\ w.unbased = r.unbased
      /\ w.pos = r.pos /\ w.paused = r.paused /\ w.buf = r.buf /\ w.recheck = r.recheck
  BY <1>w DEF MemType
<1>8. /\ u.seen = w.seen /\ u.marked = w.marked /\ u.base = w.base /\ u.carried = w.carried
      /\ u.st = "poll" /\ ~u.blocked
      /\ u.parts = w.parts /\ u.next = w.next /\ u.reread = w.reread /\ u.unbased = w.unbased
      /\ u.pos = w.pos /\ u.paused = w.paused /\ u.buf = w.buf /\ u.recheck = w.recheck
  BY <1>1, <1>5 DEF MemType
<1> QED
  BY <1>m, <1>b, <1>s, <1>6, <1>7, <1>8 DEF Landed

\* The invariant survives CommitBatch.
LEMMA CommitBatchKeeps ==
    ASSUME IInv, NEW m \in Member, CommitBatch(m), faults' \in 0 .. MaxFaults
    PROVE  IInv'
<1>r. PICK r : r = mem[m]
  OBVIOUS
<1>c. PICK c : c = KafkaCommit(r)
  OBVIOUS
<1>v. PICK v : v = Verified(r)
  OBVIOUS
<1>u. PICK u : u = Committed(r)
  OBVIOUS
<1>l. PICK l : l = Len(target)
  OBVIOUS
<1>0. /\ target \in Seq(Commit) /\ l \in Nat /\ r \in MemType /\ MemOK(r) /\ r.st \in {"try", "flush"}
      /\ ~Replan(r) /\ target' = Append(target, c)
      /\ Put(m, IF r.st = "flush" THEN Unassigned(u) ELSE u)
  BY <1>r, <1>c, <1>u, <1>l, MemFacts DEF CommitBatch
<1>1. /\ Admissible(c) /\ c.txn = AssertMap(r) /\ c.marker = ~HasMarker(v.marked)
      /\ \A p \in Partition : c.txn[p] # None =>
            Stored(p) = r.base[p] /\ c.txn[p] >= Stored(p) /\ p \in Owned(r)
  BY <1>0, <1>c, <1>v, CommitAdmissible
<1>2. /\ v \in MemType /\ MemOK(v)
  BY <1>0, <1>v, VerifiedOK DEF Replan
<1>3. c \in Commit /\ c.by = "batch" /\ Continues(c) /\ (c.marker => ~HasMarker(Len(target)))
  BY <1>1 DEF Admissible
<1>4. /\ u \in MemType
      /\ u.seen = l + 1 /\ u.marked = (IF c.marker THEN l + 1 ELSE v.marked)
      /\ u.base = [p \in Partition |-> IF c.txn[p] # None THEN c.txn[p] ELSE r.base[p]]
      /\ u.carried = {p \in Partition : c.txn[p] # None}
      /\ u.st = "poll" /\ ~u.blocked
      /\ u.parts = r.parts /\ u.next = r.next /\ u.reread = r.reread /\ u.unbased = r.unbased
      /\ u.pos = r.pos /\ u.paused = r.paused /\ u.buf = r.buf /\ u.recheck = r.recheck
  <2>1. u \in MemType /\ Landed(l, r, c, v, u)
    BY <1>0, <1>2, <1>3, <1>c, <1>v, <1>u, <1>l, CommittedFields
  <2> QED
    BY <2>1 DEF Landed
<1>5. Owned(u) = Owned(r) /\ Ready(u) = Ready(r)
  BY <1>4 DEF Owned, Ready
<1>6. /\ Len(target') = l + 1
      /\ \A n \in 0 .. l : HasMarker(n)' <=> HasMarker(n)
  BY <1>0, <1>3, <1>l, PrefixStays
<1>7. \A p \in Partition : Stored(p)' = IF c.txn[p] # None THEN c.txn[p] ELSE Stored(p)
  BY <1>0, <1>3, StoredAppended
<1>8. \A p \in Partition : /\ r.base[p] \in Nat \cup {None} /\ c.txn[p] \in Nat \cup {None}
                           /\ Stored(p) \in Nat \cup {None} /\ r.base[p] =< Stored(p)
                           /\ r.batch.last[p] \in Nat \cup {None}
  BY <1>0, <1>3, StoredType DEF MemOK, FenceOK, MemType, Commit
<1>9. HandleOK(u)'
  <2>1. CASE c.marker
    BY <1>0, <1>4, <1>6, <2>1 DEF HandleOK
  <2>2. CASE ~c.marker
    <3>1. HasMarker(v.marked) /\ u.marked = v.marked
      BY <1>1, <1>4, <2>2
    <3>2. v.marked # None
      BY <3>1 DEF HasMarker, None
    <3>3. v.marked \in 0 .. l
      BY <1>0, <1>2, <1>l, <3>2 DEF MemOK, HandleOK, MemType
    <3>4. HasMarker(v.marked)'
      BY <1>6, <3>1, <3>3
    <3> QED
      BY <1>0, <1>4, <1>6, <3>1, <3>3, <3>4 DEF HandleOK
  <2> QED
    BY <2>1, <2>2
<1>10. FenceOK(u)'
  <2>1. u.carried \subseteq Owned(u)
    BY <1>1, <1>4, <1>5
  <2>2. ASSUME NEW p \in u.carried PROVE u.base[p] = Txn(u.seen, p)'
    <3>1. p \in Partition /\ c.txn[p] # None
      BY <1>4, <2>2
    <3>2. u.base[p] = Stored(p)'
      BY <1>4, <1>7, <3>1
    <3> QED
      BY <1>4, <1>6, <3>2 DEF Stored
  <2>3. \A p \in Partition : u.base[p] =< Stored(p)'
    BY <1>4, <1>7, <1>8 DEF None
  <2> QED
    BY <2>1, <2>2, <2>3 DEF FenceOK, Owned
<1>11. PositionOK(u)
  <2>1. \A p \in Partition : u.base[p] = None => r.base[p] = None
    BY <1>4
  <2>2. Ready(r) \subseteq Partition
    BY DEF Ready
  <2> QED
    BY <1>0, <1>4, <1>5, <2>1, <2>2 DEF MemOK, PositionOK
<1>12. r.buf = Nothing /\ BatchOK(r)
  BY <1>0 DEF MemOK, BatchOK
<1>13. ASSUME NEW p \in Ready(u) PROVE AtRest(u, p)
  <2>0. p \in Partition /\ p \in Ready(r)
    BY <1>5, <1>13 DEF Ready
  <2>1. u.base[p] = IF c.txn[p] # None THEN c.txn[p] ELSE r.base[p]
    BY <1>4, <2>0
  <2>2. CASE r.batch.last[p] # None
    <3>1. c.txn[p] = r.batch.last[p] /\ r.base[p] = r.batch.bases[p]
      BY <1>0, <1>1, <2>0, <2>2 DEF AssertMap, Ranges, Replan, Moved
    <3>2. ~r.reread[p] /\ r.next[p] = r.batch.last[p] + 1
      BY <1>0, <1>12, <2>0, <2>2, <3>1 DEF BatchOK
    <3> QED
      BY <1>4, <2>1, <2>2, <3>1, <3>2 DEF AtRest, After
  <2>3. CASE r.batch.last[p] = None
    <3>1. AtRest(r, p)
      BY <1>0, <1>12, <2>0, <2>3 DEF BatchOK
    <3>2. c.txn[p] # None => c.txn[p] = r.base[p]
      BY <1>1, <2>0, <2>3 DEF AssertMap, Ranges
    <3>3. u.base[p] = r.base[p]
      BY <2>1, <3>2
    <3> QED
      BY <1>4, <3>1, <3>3 DEF AtRest
  <2> QED
    BY <2>2, <2>3
<1>14. PollOK(u) /\ BatchOK(u) /\ BaselineOK(u)
  BY <1>4, <1>12, <1>13, NowhereType DEF PollOK, BatchOK, BaselineOK
<1>15. WaitOK(u)
  BY <1>0, <1>4, <1>5 DEF MemOK, WaitOK
<1>16. MemOK(u)'
  <2>1. PositionOK(u)' /\ BatchOK(u)' /\ WaitOK(u)'
    BY <1>11, <1>14, <1>15, <1>4 DEF PositionOK, BatchOK, WaitOK, Owned, Ready, Wanted
  <2>2. PollOK(u)'
    BY <1>4, <1>12, <1>13, NowhereType DEF PollOK, AtRest, Ready, After, Wanted
  <2>3. BaselineOK(u)'
    BY <1>4 DEF BaselineOK
  <2> QED
    BY <1>9, <1>10, <2>1, <2>2, <2>3 DEF MemOK
<1>17. Unassigned(u) \in MemType /\ MemOK(Unassigned(u))'
  <2>1. PICK d : d = Unassigned(u)
    OBVIOUS
  <2>2. d \in MemType
    BY <1>4, <2>1, DownType DEF Unassigned, MemType
  <2>3. /\ d.st = "poll" /\ d.seen = u.seen /\ d.marked = u.marked /\ d.carried = {}
        /\ d.base = Nowhere /\ d.buf = Nothing /\ ~d.blocked /\ Owned(d) = {}
    BY <2>1 DEF Unassigned, Down, Owned
  <2>4. HandleOK(d)'
    BY <1>9, <2>3 DEF HandleOK
  <2>5. \A p \in Partition : Stored(p)' \in Nat \cup {None}
    BY <1>7, <1>8
  <2>6. MemOK(d)'
    BY <2>2, <2>3, <2>4, <2>5, IdleAfter
  <2> QED
    BY <2>1, <2>2, <2>6
<1>18. /\ mem' \in [Member -> MemType]
       /\ \A x \in Member : mem'[x] = mem[x] \/ MemOK(mem[x])'
  <2>1. PICK w : w = IF r.st = "flush" THEN Unassigned(u) ELSE u
    OBVIOUS
  <2>2. w \in MemType /\ MemOK(w)'
    BY <1>4, <1>16, <1>17, <2>1
  <2> QED
    BY <1>0, <2>1, <2>2, PutAfter
<1> QED
  BY <1>0, <1>1, <1>3, <1>18, WriteStep DEF CommitBatch

\* The invariant survives CommitLost.
LEMMA CommitLostKeeps ==
    ASSUME IInv, NEW m \in Member, CommitLost(m), faults' \in 0 .. MaxFaults
    PROVE  IInv'
<1>r. PICK r : r = mem[m]
  OBVIOUS
<1>c. PICK c : c = KafkaCommit(r)
  OBVIOUS
<1>v. PICK v : v = Verified(r)
  OBVIOUS
<1>u. PICK u : u = Hold(v, "retry")
  OBVIOUS
<1>0. /\ target \in Seq(Commit) /\ r \in MemType /\ MemOK(r) /\ r.st \in {"try", "flush"}
      /\ ~Replan(r) /\ late' = [at |-> Len(target) + 1, commit |-> c] /\ Put(m, u)
      /\ target' = target /\ low' = low /\ high' = high /\ low \in [Partition -> Nat]
  BY <1>r, <1>c, <1>v, <1>u, MemFacts DEF CommitLost
<1>1. Admissible(c) /\ c \in Commit
  BY <1>0, <1>c, <1>v, CommitAdmissible DEF Admissible
<1>2. v \in MemType /\ MemOK(v) /\ v.st = r.st
  BY <1>0, <1>v, VerifiedOK DEF Replan
<1>3. u \in MemType /\ MemOK(u)
  BY <1>0, <1>2, <1>u, HoldOK
<1>4. EveryCommitContinues' /\ OneMarker' /\ Admissible(c)'
  BY <1>0, <1>1, LogSame
<1>5. LateOK'
  BY <1>0, <1>4 DEF LateOK
<1>6. TypeOK'
  <2>1. Len(target) + 1 \in Nat
    BY <1>0
  <2>2. late' \in [at : Nat, commit : Commit]
    BY <1>0, <1>1, <2>1
  <2> QED
    BY <1>0, <1>3, <2>2 DEF IInv, TypeOK, Put
<1>7. ASSUME NEW x \in Member PROVE MemOK(mem[x])'
  <2>1. PICK s : s = mem'[x]
    OBVIOUS
  <2>2. s \in MemType /\ MemOK(s)
    BY <1>0, <1>3, <2>1 DEF IInv, TypeOK, Put
  <2>3. Grows /\ \A p \in Partition : low[p] =< low'[p]
    BY <1>0 DEF Grows
  <2>4. MemOK(s)'
    BY <1>0, <2>2, <2>3, MemKept
  <2> QED
    BY <2>1, <2>4
<1> QED
  BY <1>4, <1>5, <1>6, <1>7 DEF IInv

-----------------------------------------------------------------------------
(* The invariant holds.                                                    *)

\* The topic moves, a late put fails, or nothing happens.
LEMMA TopicStep ==
    ASSUME IInv, target' = target, mem' = mem, late' = late \/ late' = NoLate,
           low' \in [Partition -> Nat], high' \in [Partition -> Nat], faults' \in 0 .. MaxFaults,
           \A p \in Partition : low[p] =< low'[p] /\ low'[p] =< high'[p]
    PROVE  IInv'
<1>0. /\ target \in Seq(Commit) /\ low \in [Partition -> Nat]
      /\ late \in [at : Nat, commit : Commit]
  BY DEF IInv, TypeOK
<1>1. NoLate \in [at : Nat, commit : Commit]
  BY NowhereType DEF NoLate, Commit
<1>2. TypeOK'
  BY <1>0, <1>1 DEF IInv, TypeOK
<1>3. EveryCommitContinues' /\ OneMarker' /\ \A c : Admissible(c)' <=> Admissible(c)
  BY LogSame
<1>4. LateOK'
  <2>1. CASE late' = late
    BY <1>3, <2>1 DEF IInv, LateOK
  <2>2. CASE late' = NoLate
    <3>1. late'.at = 0 /\ Len(target) \in Nat
      BY <1>0, <2>2 DEF NoLate
    <3> QED
      BY <3>1 DEF LateOK
  <2> QED
    BY <2>1, <2>2
<1>5. ASSUME NEW m \in Member PROVE MemOK(mem[m])'
  <2>1. PICK r : r = mem[m]
    OBVIOUS
  <2>2. r \in MemType /\ MemOK(r) /\ Grows
    BY <2>1, MemFacts DEF Grows
  <2>3. MemOK(r)'
    BY <1>0, <2>2, MemKept
  <2> QED
    BY <2>1, <2>3
<1> QED
  BY <1>2, <1>3, <1>4, <1>5 DEF IInv

\* The invariant survives Produce.
LEMMA ProduceKeeps ==
    ASSUME IInv, NEW p \in Partition, Produce(p), faults' \in 0 .. MaxFaults
    PROVE  IInv'
<1>1. /\ low \in [Partition -> Nat] /\ high \in [Partition -> Nat]
      /\ \A q \in Partition : low[q] =< high[q]
  BY DEF IInv, TypeOK
<1>2. high' = [high EXCEPT ![p] = @ + 1] /\ low' = low
  BY DEF Produce
<1>3. high' \in [Partition -> Nat] /\ \A q \in Partition : low'[q] =< high'[q]
  BY <1>1, <1>2
<1>4. \A q \in Partition : low[q] =< low'[q]
  BY <1>1, <1>2
<1> QED
  BY <1>1, <1>2, <1>3, <1>4, TopicStep DEF Produce

\* The invariant survives Trim.
LEMMA TrimKeeps ==
    ASSUME IInv, NEW p \in Partition, Trim(p), faults' \in 0 .. MaxFaults
    PROVE  IInv'
<1>1. /\ low \in [Partition -> Nat] /\ high \in [Partition -> Nat]
      /\ \A q \in Partition : low[q] =< high[q]
  BY DEF IInv, TypeOK
<1>2. low' = [low EXCEPT ![p] = @ + 1] /\ high' = high /\ low[p] < high[p]
  BY DEF Trim
<1>3. low' \in [Partition -> Nat] /\ \A q \in Partition : low[q] =< low'[q] /\ low'[q] =< high'[q]
  BY <1>1, <1>2
<1> QED
  BY <1>1, <1>2, <1>3, TopicStep DEF Trim

\* The invariant survives a step that changes nothing.
LEMMA StutterKeeps ==
    ASSUME IInv, UNCHANGED <<low, high, target, late, mem>>, faults' \in 0 .. MaxFaults
    PROVE  IInv'
<1>1. /\ low \in [Partition -> Nat] /\ high \in [Partition -> Nat]
      /\ \A q \in Partition : low[q] =< high[q]
  BY DEF IInv, TypeOK
<1>2. \A q \in Partition : low[q] =< low'[q] /\ low'[q] =< high'[q]
  BY <1>1
<1> QED
  BY <1>1, <1>2, TopicStep

\* The invariant survives LateFails.
LEMMA LateFailsKeeps ==
    ASSUME IInv, LateFails, faults' \in 0 .. MaxFaults
    PROVE  IInv'
<1>1. /\ low \in [Partition -> Nat] /\ high \in [Partition -> Nat]
      /\ \A q \in Partition : low[q] =< high[q]
  BY DEF IInv, TypeOK
<1>2. \A q \in Partition : low[q] =< low'[q] /\ low'[q] =< high'[q]
  BY <1>1 DEF LateFails
<1> QED
  BY <1>1, <1>2, TopicStep DEF LateFails

\* What holds before ddi has done anything.
LEMMA InitHolds == Init => IInv
<1> SUFFICES ASSUME Init
             PROVE  IInv
  OBVIOUS
<1>0. target \in Seq(Commit) /\ Len(target) \in Nat
  BY ConstantsAssumption DEF Init
<1>1. TypeOK
  <2>1. NoLate \in [at : Nat, commit : Commit]
    BY NowhereType DEF NoLate, Commit
  <2>2. mem \in [Member -> MemType]
    BY DownType DEF Init
  <2>3. /\ low \in [Partition -> Nat] /\ high \in [Partition -> Nat]
        /\ \A p \in Partition : low[p] =< high[p]
    BY ConstantsAssumption DEF Init
  <2> QED
    BY <1>0, <2>1, <2>2, <2>3, ConstantsAssumption DEF Init, TypeOK
<1>2. EveryCommitContinues /\ OneMarker
  <2>1. \A i \in 1 .. Len(target) : target[i].by = "kdi" /\ ~target[i].marker
    BY ConstantsAssumption DEF Init
  <2> QED
    BY <2>1 DEF EveryCommitContinues, OneMarker
<1>3. LateOK
  BY <1>0 DEF Init, NoLate, LateOK
<1>4. \A m \in Member : MemOK(mem[m])
  BY <1>0, DownOK DEF Init
<1> QED
  BY <1>1, <1>2, <1>3, <1>4 DEF IInv

\* The invariant survives every step of a member.
LEMMA StepKeeps ==
    ASSUME IInv, NEW m \in Member, Step(m), faults' \in 0 .. MaxFaults
    PROVE  IInv'
<1>1. CASE OpenRead(m)
  BY <1>1, OpenReadKeeps
<1>2. CASE OpenRefused(m) \/ Waiting(m)
  BY <1>2, StutterKeeps DEF OpenRefused, Waiting, vars
<1>3. CASE CommitBaseline(m)
  BY <1>3, CommitBaselineKeeps
<1>4. CASE BaselineConflict(m)
  BY <1>4, BaselineConflictKeeps
<1>5. CASE \E ps \in SUBSET Partition : Assign(m, ps)
  BY <1>5, AssignKeeps
<1>6. CASE Lost(m)
  BY <1>6, ForgetKeeps DEF Lost
<1>7. CASE \E p \in Partition : DropMessage(m, p) \/ Take(m, p)
  BY <1>7, DropMessageKeeps, TakeKeeps
<1>8. CASE FeedStalled(m)
  BY <1>8, FeedStalledKeeps
<1>9. CASE Release(m)
  BY <1>9, ReleaseKeeps
<1>10. CASE OutOfRange(m)
  BY <1>10, OutOfRangeKeeps
<1>11. CASE RecheckBlocked(m)
  BY <1>11, RecheckBlockedKeeps
<1>12. CASE CloseBatch(m)
  BY <1>12, CloseBatchKeeps
<1>13. CASE RefreshAged(m)
  BY <1>13, RefreshAgedKeeps
<1>14. CASE CommitBatch(m)
  BY <1>14, CommitBatchKeeps
<1>15. CASE ResetInPlace(m)
  BY <1>15, ResetInPlaceKeeps
<1>16. CASE Retry(m)
  BY <1>16, RetryKeeps
<1>17. CASE RecheckForBatch(m)
  BY <1>17, RecheckForBatchKeeps
<1> QED
  BY <1>1, <1>2, <1>3, <1>4, <1>5, <1>6, <1>7, <1>8, <1>9, <1>10, <1>11, <1>12, <1>13, <1>14,
     <1>15, <1>16, <1>17 DEF Step

\* The invariant survives every fault.
LEMMA FaultKeeps ==
    ASSUME "id" \notin FailsAt, IInv, NEW m \in Member, Fault(m), faults' \in 0 .. MaxFaults
    PROVE  IInv'
<1>1. CASE \E ps \in SUBSET Partition : AssignUnresolved(m, ps)
  BY <1>1, AssignUnresolvedKeeps
<1>2. CASE Revoke(m)
  BY <1>2, RevokeKeeps
<1>3. CASE Evict(m)
  BY <1>3, EvictKeeps
<1>4. CASE Crash(m)
  BY <1>4, ForgetKeeps DEF Crash
<1>5. CASE \E p \in Partition : Stall(m, p)
  BY <1>5, StallKeeps
<1>6. CASE CommitLost(m)
  BY <1>6, CommitLostKeeps
<1>7. CASE CommitBlocked(m)
  BY <1>7, CommitBlockedKeeps
<1>8. CASE ReadFails(m)
  BY <1>8, ReadFailsKeeps
<1>9. CASE WatermarksFail(m)
  BY <1>9, WatermarksFailKeeps
<1> QED
  BY <1>1, <1>2, <1>3, <1>4, <1>5, <1>6, <1>7, <1>8, <1>9 DEF Fault

\* The invariant survives every step.
LEMMA NextKeeps ==
    ASSUME "id" \notin FailsAt, ~AllowReplay, IInv, [Next]_vars
    PROVE  IInv'
<1>0. faults \in 0 .. MaxFaults /\ MaxFaults \in Nat
  BY ConstantsAssumption DEF IInv, TypeOK
<1>1. CASE (Topic \/ LateLands \/ LateFails) /\ UNCHANGED faults
  BY <1>0, <1>1, ProduceKeeps, TrimKeeps, LateLandsKeeps, LateFailsKeeps DEF Topic
<1>2. CASE \E m \in Member : Step(m) /\ UNCHANGED faults
  BY <1>0, <1>2, StepKeeps
<1>3. CASE /\ faults < MaxFaults /\ faults' = faults + 1
           /\ Operator \/ \E m \in Member : Fault(m)
  <2>1. faults' \in 0 .. MaxFaults
    BY <1>0, <1>3
  <2> QED
    BY <1>3, <2>1, SetOffsetsKeeps, FaultKeeps DEF Operator
<1>4. CASE UNCHANGED vars
  BY <1>0, <1>4, StutterKeeps DEF vars
<1> QED
  BY <1>1, <1>2, <1>3, <1>4 DEF Next

-----------------------------------------------------------------------------
(* What a step adds to the log.                                            *)

\* At most one commit, whose rows lie between the offsets it goes on from and its own.
Extends ==
    \/ target' = target
    \/ \E c \in Commit :
          /\ target' = Append(target, c)
          /\ \A p \in Partition :
                /\ c.txn[p] # None => c.txn[p] >= Stored(p)
                /\ \A o \in c.rows[p] : c.txn[p] # None /\ Stored(p) < o /\ o =< c.txn[p]

\* An admissible commit adds rows behind its offsets and past the stored ones.
LEMMA AdmissibleExtends ==
    ASSUME target \in Seq(Commit), NEW c, Admissible(c), target' = Append(target, c)
    PROVE  Extends
<1>1. ASSUME NEW p \in Partition, NEW o \in c.rows[p]
      PROVE  c.txn[p] # None /\ Stored(p) < o /\ o =< c.txn[p]
  <2>1. /\ c.txn[p] # None /\ c.rows[p] = Messages(p, After(p, Stored(p)), c.txn[p])
        /\ c.txn[p] \in Nat
    BY <1>1 DEF Admissible, Continues, Commit
  <2>2. Stored(p) \in Nat \cup {None} /\ After(p, Stored(p)) \in Nat
    BY StoredType, WantedType
  <2>3. o \in After(p, Stored(p)) .. c.txn[p]
    BY <1>1, <2>1 DEF Messages
  <2>4. Stored(p) < After(p, Stored(p))
    BY <2>2 DEF After, None
  <2> QED
    BY <2>1, <2>2, <2>3, <2>4 DEF None
<1>2. c \in Commit /\ \A p \in Partition : c.txn[p] # None => c.txn[p] >= Stored(p)
  BY AdmissibleForward DEF Admissible
<1> QED
  BY <1>1, <1>2 DEF Extends

\* Every step adds at most one such commit.
LEMMA NextExtends ==
    ASSUME ~AllowReplay, IInv, [Next]_vars
    PROVE  Extends
<1>0. target \in Seq(Commit)
  BY DEF IInv, TypeOK
<1>1. CASE \E m \in Member : CommitBatch(m)
  <2>1. PICK m \in Member : CommitBatch(m)
    BY <1>1
  <2>2. PICK r : r = mem[m]
    OBVIOUS
  <2>3. PICK c : c = KafkaCommit(r)
    OBVIOUS
  <2>4. PICK v : v = Verified(r)
    OBVIOUS
  <2>5. /\ r \in MemType /\ MemOK(r) /\ r.st \in {"try", "flush"} /\ ~Replan(r)
        /\ target' = Append(target, c)
    BY <2>1, <2>2, <2>3, MemFacts DEF CommitBatch
  <2>6. Admissible(c)
    BY <1>0, <2>3, <2>4, <2>5, CommitAdmissible
  <2> QED
    BY <1>0, <2>5, <2>6, AdmissibleExtends
<1>2. CASE \E m \in Member : CommitBaseline(m)
  <2>1. PICK m \in Member : CommitBaseline(m)
    BY <1>2
  <2>2. PICK r : r = mem[m]
    OBVIOUS
  <2>3. PICK c : c = BaselineCommit(r)
    OBVIOUS
  <2>4. /\ r \in MemType /\ MemOK(r) /\ r.st = "baseline" /\ ~Conflicts(r.seen, c)
        /\ target' = Append(target, c)
    BY <2>1, <2>2, <2>3, MemFacts DEF CommitBaseline
  <2>5. c \in Commit /\ \A p \in Partition : c.txn[p] # None => c.txn[p] >= Stored(p)
    BY <1>0, <2>3, <2>4, BaselineForward
  <2>6. c.rows = Nothing
    BY <2>3 DEF BaselineCommit
  <2> QED
    BY <2>4, <2>5, <2>6, NowhereType DEF Extends
<1>3. CASE LateLands
  <2>1. PICK c : c = late.commit
    OBVIOUS
  <2>2. Admissible(c) /\ target' = Append(target, c)
    BY <1>3, <2>1 DEF LateLands, IInv, LateOK
  <2> QED
    BY <1>0, <2>2, AdmissibleExtends
<1>4. CASE Operator
  <2>1. PICK p \in Partition, next \in 1 .. MaxHigh : SetOffsets(p, next)
    BY <1>4 DEF Operator
  <2>2. PICK c : c = OverrideCommit(p, next)
    OBVIOUS
  <2>3. /\ c \in Commit /\ target' = Append(target, c) /\ c.rows = Nothing
        /\ \A q \in Partition : c.txn[q] # None => c.txn[q] >= Stored(q)
    BY <1>0, <2>1, <2>2, OverrideForward
  <2> QED
    BY <2>3, NowhereType DEF Extends
<1>5. CASE /\ ~LateLands /\ ~Operator
           /\ \A m \in Member : ~CommitBatch(m) /\ ~CommitBaseline(m)
  <2>1. target' = target
    <3>1. CASE (Topic \/ LateLands \/ LateFails) /\ UNCHANGED faults
      BY <1>5, <3>1 DEF Topic, Produce, Trim, LateFails
    <3>2. CASE \E m \in Member : Step(m) /\ UNCHANGED faults
      <4>1. PICK m \in Member : Step(m)
        BY <3>2
      <4>2. OpenRead(m) \/ OpenRefused(m) \/ BaselineConflict(m) \/ Waiting(m) => target' = target
        BY DEF OpenRead, OpenRefused, BaselineConflict, Waiting, vars
      <4>3. (\E ps \in SUBSET Partition : Assign(m, ps)) \/ Lost(m) => target' = target
        BY DEF Assign, Lost
      <4>4. (\E p \in Partition : DropMessage(m, p) \/ Take(m, p)) => target' = target
        BY DEF DropMessage, Take
      <4>5. FeedStalled(m) \/ Release(m) \/ OutOfRange(m) \/ CloseBatch(m) => target' = target
        BY DEF FeedStalled, Release, OutOfRange, CloseBatch
      <4>6. RecheckBlocked(m) \/ RecheckForBatch(m) \/ Retry(m) => target' = target
        BY DEF RecheckBlocked, RecheckForBatch, Retry
      <4>7. RefreshAged(m) \/ ResetInPlace(m) => target' = target
        BY DEF RefreshAged, ResetInPlace
      <4> QED
        BY <1>5, <4>1, <4>2, <4>3, <4>4, <4>5, <4>6, <4>7 DEF Step
    <3>3. CASE Operator \/ \E m \in Member : Fault(m)
      BY <1>5, <3>3 DEF Fault, AssignUnresolved, Revoke, Evict, Crash, Stall, CommitLost,
         CommitBlocked, ReadFails, WatermarksFail
    <3>4. CASE UNCHANGED vars
      BY <3>4 DEF vars
    <3> QED
      BY <3>1, <3>2, <3>3, <3>4 DEF Next
  <2> QED
    BY <2>1 DEF Extends
<1> QED
  BY <1>1, <1>2, <1>3, <1>4, <1>5

\* Its rows are new ones, and behind the offsets stored with them.
LEMMA ExtendsOnce ==
    ASSUME target \in Seq(Commit), Extends, RowsBehind, RowsOnce
    PROVE  RowsBehind' /\ RowsOnce'
<1>1. CASE target' = target
  BY SMTT(20), <1>1 DEF RowsBehind, RowsOnce, Stored, Txn, Newest
<1>2. CASE target' # target
  <2>1. PICK c \in Commit :
          /\ target' = Append(target, c)
          /\ \A p \in Partition :
                /\ c.txn[p] # None => c.txn[p] >= Stored(p)
                /\ \A o \in c.rows[p] : c.txn[p] # None /\ Stored(p) < o /\ o =< c.txn[p]
    BY <1>2 DEF Extends
  <2>2. PICK l : l = Len(target)
    OBVIOUS
  <2>3. /\ l \in Nat /\ Len(target') = l + 1 /\ target'[l + 1] = c
        /\ \A i \in 1 .. l : target'[i] = target[i]
    BY <2>1, <2>2, PrefixStays
  <2>4. \A p \in Partition : Stored(p)' = IF c.txn[p] # None THEN c.txn[p] ELSE Stored(p)
    BY <2>1, StoredAppended
  <2>5. \A p \in Partition : Stored(p) \in Nat \cup {None} /\ c.txn[p] \in Nat \cup {None}
    BY StoredType DEF Commit
  <2>6. /\ c.rows \in [Partition -> SUBSET Nat]
        /\ \A i \in 1 .. l : target[i].rows \in [Partition -> SUBSET Nat]
    <3>1. \A i \in 1 .. l : target[i] \in Commit
      BY <2>2
    <3> QED
      BY <3>1 DEF Commit
  <2>7. \A i \in 1 .. l, p \in Partition : \A o \in target[i].rows[p] : o \in Nat /\ o =< Stored(p)
    BY <2>2, <2>6 DEF RowsBehind
  <2>8. \A p \in Partition : \A o \in c.rows[p] :
           o \in Nat /\ Stored(p) < o /\ o =< Stored(p)'
    BY <2>1, <2>4, <2>6
  <2>9. RowsBehind'
    <3> SUFFICES ASSUME NEW i \in 1 .. l + 1, NEW p \in Partition, NEW o \in target'[i].rows[p]
                 PROVE  o =< Stored(p)'
      BY <2>3 DEF RowsBehind
    <3>1. CASE i = l + 1
      BY <2>3, <2>8, <3>1
    <3>2. CASE i \in 1 .. l
      <4>1. o \in Nat /\ o =< Stored(p)
        BY <2>3, <2>7, <3>2
      <4>2. Stored(p) =< Stored(p)'
        BY <2>1, <2>4, <2>5 DEF None
      <4> QED
        BY <2>4, <2>5, <4>1, <4>2 DEF None
    <3> QED
      BY <2>3, <3>1, <3>2
  <2>10. RowsOnce'
    <3>1. \A i, j \in 1 .. l, p \in Partition :
             i # j => target'[i].rows[p] \cap target'[j].rows[p] = {}
      BY <2>2, <2>3 DEF RowsOnce
    <3>2. \A i \in 1 .. l, p \in Partition :
             /\ target'[i].rows[p] \cap target'[l + 1].rows[p] = {}
             /\ target'[l + 1].rows[p] \cap target'[i].rows[p] = {}
      <4> SUFFICES ASSUME NEW i \in 1 .. l, NEW p \in Partition, NEW o,
                          o \in target[i].rows[p], o \in c.rows[p]
                   PROVE  FALSE
        BY <2>3
      <4>1. o \in Nat /\ o =< Stored(p) /\ Stored(p) < o
        BY <2>7, <2>8
      <4> QED
        BY <2>5, <4>1 DEF None
    <3>3. \A i \in 1 .. l + 1 : i \in 1 .. l \/ i = l + 1
      BY <2>3
    <3> QED
      BY <2>3, <3>1, <3>2, <3>3 DEF RowsOnce
  <2> QED
    BY <2>9, <2>10
<1> QED
  BY <1>1, <1>2

-----------------------------------------------------------------------------
(* The theorems.                                                           *)

\* The inductive invariant holds in every reachable state.
THEOREM Invariance ==
    ASSUME "id" \notin FailsAt, ~AllowReplay
    PROVE  Spec => []IInv
<1>1. IInv /\ [Next]_vars => IInv'
  BY NextKeeps
<1> QED
  BY <1>1, InitHolds, PTL DEF Spec

\* Every variable keeps its type, for any number of members and partitions.
THEOREM TypeIsOK ==
    ASSUME "id" \notin FailsAt, ~AllowReplay
    PROVE  Spec => []TypeOK
<1>1. IInv => TypeOK
  BY DEF IInv
<1> QED
  BY <1>1, Invariance, PTL

\* docs/kafka-design.md, I2, for every group and every rebalance: each commit of a
\* member holds, of each partition whose txn it writes, exactly the messages from the
\* offset stored before it to the one it writes, however partitions moved, puts were
\* lost and landed late, and reads of the target failed in between.
THEOREM CommitsContinue ==
    ASSUME "id" \notin FailsAt, ~AllowReplay
    PROVE  Spec => []EveryCommitContinues
<1>1. IInv => EveryCommitContinues
  BY DEF IInv
<1> QED
  BY <1>1, Invariance, PTL

\* At most one commit of the log carries the takeover marker, however many members
\* open the target at once.
THEOREM MarkerIsOne ==
    ASSUME "id" \notin FailsAt, ~AllowReplay
    PROVE  Spec => []OneMarker
<1>1. IInv => OneMarker
  BY DEF IInv
<1> QED
  BY <1>1, Invariance, PTL

\* A member that is blocked without a batch to retry, and one with a blocked
\* partition, has a recheck due (reset_in_place, recheck_blocked).
THEOREM NobodyIsStuck ==
    ASSUME "id" \notin FailsAt, ~AllowReplay
    PROVE  Spec => []NeverStuck
<1>1. IInv => NeverStuck
  <2> SUFFICES ASSUME IInv, NEW m \in Member
               PROVE  /\ mem[m].blocked => mem[m].st # "poll" \/ mem[m].recheck
                      /\ \A p \in Owned(mem[m]) :
                            mem[m].parts[p] = "blocked" => mem[m].recheck
    BY DEF NeverStuck
  <2>1. WaitOK(mem[m])
    BY MemFacts DEF MemOK
  <2> QED
    BY <2>1 DEF WaitOK
<1> QED
  BY <1>1, Invariance, PTL

\* No step of a member, no late put and no baseline moves a stored offset back.
THEOREM OffsetsGoForward ==
    ASSUME "id" \notin FailsAt, ~AllowReplay
    PROVE  Spec => OffsetsForward
<1>1. IInv /\ [Next]_vars =>
         [\A p \in Partition :
             Stored(p)' >= Stored(p) \/ target'[Len(target')].by = "override"]_vars
  <2> SUFFICES ASSUME IInv, [Next]_vars
               PROVE  \A p \in Partition : Stored(p)' >= Stored(p)
    OBVIOUS
  <2>1. Extends /\ target \in Seq(Commit)
    BY NextExtends DEF IInv, TypeOK
  <2>2. Grows
    BY <2>1 DEF Extends, Grows
  <2> QED
    BY <2>1, <2>2, GrownLog
<1> QED
  BY <1>1, Invariance, PTL DEF Spec, OffsetsForward

\* What kafka-delta-ingest left: no message twice, and every row behind the txn
\* the log still holds of its partition.
InheritedOnce ==
    /\ \A i, j \in 1 .. Len(Inherited) : \A p \in Partition :
          i # j => Inherited[i].rows[p] \cap Inherited[j].rows[p] = {}
    /\ \A i \in 1 .. Len(Inherited) : \A p \in Partition : \A o \in Inherited[i].rows[p] :
          \E k \in 1 .. Len(Inherited) :
             /\ Inherited[k].txn[p] # None /\ o =< Inherited[k].txn[p]
             /\ \A j \in k + 1 .. Len(Inherited) : Inherited[j].txn[p] = None

\* No message is in the target twice, those kafka-delta-ingest wrote included.
THEOREM EveryRowIsOnce ==
    ASSUME "id" \notin FailsAt, ~AllowReplay, InheritedOnce
    PROVE  Spec => []RowsOnce
<1>1. Init => RowsBehind /\ RowsOnce
  <2> SUFFICES ASSUME Init PROVE RowsBehind /\ RowsOnce
    OBVIOUS
  <2>1. target = Inherited /\ target \in Seq(Commit) /\ Len(target) \in Nat
    BY ConstantsAssumption DEF Init
  <2>2. RowsOnce
    BY <2>1 DEF InheritedOnce, RowsOnce
  <2>3. ASSUME NEW i \in 1 .. Len(target), NEW p \in Partition, NEW o \in target[i].rows[p]
        PROVE  o =< Stored(p)
    <3>1. PICK k \in 1 .. Len(target) : o =< target[k].txn[p] /\ Newest(Len(target), p, k)
      BY <2>1, <2>3 DEF InheritedOnce, Newest
    <3>2. Len(target) \in 0 .. Len(target)
      BY <2>1
    <3>3. Stored(p) = target[k].txn[p]
      BY <2>1, <3>1, <3>2, NewestIsTxn DEF Stored
    <3> QED
      BY <3>1, <3>3
  <2> QED
    BY <2>2, <2>3 DEF RowsBehind
<1>2. IInv /\ RowsBehind /\ RowsOnce /\ [Next]_vars => RowsBehind' /\ RowsOnce'
  <2>1. IInv => target \in Seq(Commit)
    BY DEF IInv, TypeOK
  <2> QED
    BY <2>1, NextExtends, ExtendsOnce
<1> QED
  BY <1>1, <1>2, Invariance, PTL DEF Spec
=============================================================================
