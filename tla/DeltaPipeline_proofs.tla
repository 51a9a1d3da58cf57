------------------------ MODULE DeltaPipeline_proofs ------------------------
(***************************************************************************)
(* Proofs about DeltaPipeline, for every set of daemons, every source and  *)
(* every bound: type correctness, the inductive invariant IInv, from it    *)
(* the exactly-once properties of the target and of the rejects, and that  *)
(* the daemons implement ExactlyOnce.                                      *)
(***************************************************************************)
EXTENDS DeltaPipeline, FiniteSetTheorems, SequenceTheorems, TLAPS

-----------------------------------------------------------------------------
(* Delta logs.                                                             *)

\* A txn version read from a handle is that of some commit the handle covers.
LEMMA TxnVersionFound ==
    ASSUME NEW t \in Seq(TableCommit), NEW n \in 0 .. Len(t)
    PROVE  \/ TxnVersion(t, n) = None /\ \A i \in 1 .. n : ~NewestTxn(t, n, i)
           \/ \E i \in 1 .. n : NewestTxn(t, n, i) /\ TxnVersion(t, n) = t[i].txn
BY DEF TxnVersion

\* A log has one newest txn.
LEMMA NewestTxnUnique ==
    ASSUME NEW t \in Seq(TableCommit), NEW n \in 0 .. Len(t),
           NEW i \in 1 .. n, NewestTxn(t, n, i)
    PROVE  TxnVersion(t, n) = t[i].txn
<1>1. \A j \in 1 .. n : NewestTxn(t, n, j) => j = i
  BY DEF NewestTxn
<1>2. (CHOOSE j \in 1 .. n : NewestTxn(t, n, j)) = i
  BY <1>1
<1> QED
  BY <1>2 DEF TxnVersion

\* What an append does to a log.
LEMMA Appended ==
    ASSUME NEW S, NEW t \in Seq(S), NEW c \in S
    PROVE  /\ Append(t, c) \in Seq(S)
           /\ Len(Append(t, c)) = Len(t) + 1
           /\ \A i \in 1 .. Len(t) : Append(t, c)[i] = t[i]
           /\ Append(t, c)[Len(t) + 1] = c
OBVIOUS

\* An append with a txn action moves the offset to it; one without leaves the
\* offset where it was.
LEMMA TxnVersionAppend ==
    ASSUME NEW t \in Seq(TableCommit), NEW c \in TableCommit
    PROVE  TxnVersion(Append(t, c), Len(t) + 1) =
               IF c.txn = None THEN TxnVersion(t, Len(t)) ELSE c.txn
<1> DEFINE u == Append(t, c)
<1> DEFINE n == Len(t)
<1>1. /\ u \in Seq(TableCommit) /\ Len(u) = n + 1 /\ n \in Nat
      /\ \A i \in 1 .. n : u[i] = t[i]
      /\ u[n + 1] = c
  BY Appended
<1> HIDE DEF u, n
<1>2. CASE c.txn # None
  <2>1. NewestTxn(u, n + 1, n + 1)
    BY <1>1, <1>2 DEF NewestTxn
  <2>2. TxnVersion(u, n + 1) = u[n + 1].txn
    BY <1>1, <2>1, NewestTxnUnique
  <2> QED
    BY <1>1, <1>2, <2>2 DEF u, n
<1>3. CASE c.txn = None
  <2>1. \A i \in 1 .. n : NewestTxn(u, n + 1, i) <=> NewestTxn(t, n, i)
    BY <1>1, <1>3 DEF NewestTxn
  <2>2. ~NewestTxn(u, n + 1, n + 1)
    BY <1>1, <1>3 DEF NewestTxn
  <2>3. CASE \E i \in 1 .. n : NewestTxn(t, n, i)
    <3>1. PICK i \in 1 .. n : NewestTxn(t, n, i)
      BY <2>3
    <3>2. TxnVersion(t, n) = t[i].txn
      BY <1>1, <3>1, NewestTxnUnique DEF n
    <3>3. TxnVersion(u, n + 1) = u[i].txn
      BY <1>1, <2>1, <3>1, NewestTxnUnique
    <3> QED
      BY <1>1, <1>3, <3>2, <3>3 DEF u, n
  <2>4. CASE ~ \E i \in 1 .. n : NewestTxn(t, n, i)
    <3>1. TxnVersion(t, n) = None
      BY <2>4 DEF TxnVersion
    <3>2. ~ \E i \in 1 .. n + 1 : NewestTxn(u, n + 1, i)
      BY <1>1, <2>1, <2>2, <2>4
    <3>3. TxnVersion(u, n + 1) = None
      BY <3>2 DEF TxnVersion
    <3> QED
      BY <1>3, <3>1, <3>3 DEF u, n
  <2> QED
    BY <2>3, <2>4
<1> QED
  BY <1>2, <1>3

-----------------------------------------------------------------------------
(* Type correctness.                                                       *)

\* The offset read from a well-typed log is None or a version.
LEMMA TxnVersionType ==
    ASSUME NEW t \in Seq(TableCommit), NEW n \in 0 .. Len(t)
    PROVE  TxnVersion(t, n) \in {None} \cup Nat
<1>0. \A i \in 1 .. n : t[i] \in TableCommit
  OBVIOUS
<1>1. \A i \in 1 .. n : t[i].txn \in {None} \cup Nat
  BY <1>0 DEF TableCommit
<1> QED
  BY <1>1, TxnVersionFound

\* A daemon never resumes below its starting version's range: the cursor is a
\* version.
LEMMA ResumeType ==
    ASSUME TypeOK
    PROVE  /\ Stored \in {None} \cup Nat
           /\ ResumeCursor(Stored) \in Nat
<1>1. target \in Seq(TableCommit) /\ Len(target) \in 0 .. Len(target)
  BY DEF TypeOK
<1>2. Stored \in {None} \cup Nat
  BY <1>1, TxnVersionType DEF Stored
<1> QED
  BY <1>2, ConstantsAssumption DEF ResumeCursor, None

\* A source commit read in range is one of Commits.
LEMMA CommitTyped ==
    ASSUME TypeOK, NEW v \in Nat, v < Len(source)
    PROVE  Commit(v) \in Commits /\ Commit(v) \in CommitType /\ Commit(v).files \in Nat
<1>1. v + 1 \in 1 .. Len(source)
  BY DEF TypeOK
<1>2. source[v + 1] \in Commits
  BY <1>1 DEF TypeOK
<1> QED
  BY <1>2, ConstantsAssumption DEF Commit, CommitType

\* TypeOK is inductive together with BatchEnds: a batch in hand ends past a
\* version, so its txn is a version.
LEMMA TypeInit == Init => TypeOK /\ BatchEnds
<1> SUFFICES ASSUME Init PROVE TypeOK /\ BatchEnds
  OBVIOUS
<1>1. source \in Seq(Commits) /\ target \in Seq(TableCommit) /\ dq \in Seq(TableCommit)
  BY DEF Init
<1>2. 0 \in 0 .. MaxFiles /\ 0 \in 0 .. MaxFaults
  BY ConstantsAssumption
<1> QED
  BY <1>1, <1>2 DEF Init, TypeOK, BatchEnds, Running, None, LatestVersion

\* Losing what is in memory leaves the daemon's variables well typed.
LEMMA LoseType ==
    ASSUME TypeOK, BatchEnds, NEW p \in Proc, Lose(p), source' = source
    PROVE  /\ pc' \in [Proc -> Running \cup {"down"}]
           /\ cursor' \in [Proc -> Nat]
           /\ readable' \in [Proc -> Nat]
           /\ scan' \in [Proc -> Nat]
           /\ files' \in [Proc -> SUBSET Nat]
           /\ nfiles' \in [Proc -> 0 .. MaxFiles]
           /\ seenT' \in [Proc -> Nat]
           /\ seenD' \in [Proc -> Nat \cup {None}]
           /\ BatchEnds'
<1>1. 0 \in 0 .. MaxFiles
  BY ConstantsAssumption
<1> QED
  BY <1>1 DEF TypeOK, BatchEnds, Lose, DropLocals

\* TypeOK and BatchEnds together are inductive.
LEMMA TypeNext ==
    ASSUME TypeOK, BatchEnds, [Next]_vars
    PROVE  TypeOK' /\ BatchEnds'
<1> USE DEF TypeOK
<1>0. Stored \in {None} \cup Nat /\ ResumeCursor(Stored) \in Nat
  BY ResumeType
<1>1. CASE Produce /\ UNCHANGED faults
  <2>1. PICK c \in Commits : source' = Append(source, c)
    BY <1>1 DEF Produce
  <2>2. source' \in Seq(Commits) /\ Len(source') = Len(source) + 1
    BY <2>1, Appended
  <2> QED
    BY <1>1, <2>2 DEF Produce, daemon, BatchEnds, LatestVersion
<1>2. CASE Reclaim /\ UNCHANGED faults
  BY <1>2 DEF Reclaim, daemon, BatchEnds, LatestVersion
<1>3. CASE ForeignCommit /\ UNCHANGED faults
  <2>1. [txn |-> None, rows |-> {}] \in TableCommit
    BY DEF TableCommit
  <2>2. target' \in Seq(TableCommit)
    BY <1>3, <2>1, Appended DEF ForeignCommit
  <2> QED
    BY <1>3, <2>2 DEF ForeignCommit, daemon, BatchEnds, LatestVersion
<1>4. ASSUME NEW p \in Proc, Step(p), UNCHANGED faults PROVE TypeOK' /\ BatchEnds'
  <2>1. CASE OpenRefused(p) \/ CaughtUp(p)
    BY <1>4, <2>1 DEF OpenRefused, CaughtUp, vars, BatchEnds, LatestVersion
  <2>2. CASE OpenTarget(p)
    BY SMTT(20), <1>0, <2>2, <1>4 DEF OpenTarget, tables, BatchEnds, LatestVersion, Running
  <2>3. CASE OpenDq(p)
    BY SMTT(20), <2>3, <1>4 DEF OpenDq, tables, BatchEnds, LatestVersion, Running
  <2>4. CASE Poll(p)
    <3>1. LatestVersion \in Nat /\ LatestVersion < Len(source)
      BY <2>4 DEF Poll, LatestVersion
    <3> QED
      BY <3>1, <2>4, <1>4 DEF Poll, tables, BatchEnds, LatestVersion, Running
  <2>5. CASE SkipCommit(p)
    <3>1. scan' \in [Proc -> Nat] /\ scan'[p] = scan[p] + 1 /\ scan[p] \in Nat
      BY <2>5 DEF SkipCommit
    <3>2. TypeOK'
      BY <3>1, <2>5, <1>4 DEF SkipCommit, tables, LatestVersion
    <3>3. BatchEnds'
      BY SMTT(20), <3>1, <2>5 DEF SkipCommit, AtCommit, tables, BatchEnds
    <3> QED
      BY <3>2, <3>3
  <2>6. CASE TakeCommit(p)
    <3>0. scan[p] \in Nat /\ readable[p] \in Nat /\ scan[p] < Len(source)
      BY <2>6 DEF TakeCommit, AtCommit, BatchEnds
    <3>1. Commit(scan[p]).files \in Nat
      BY <3>0, CommitTyped
    <3>2. nfiles[p] + Commit(scan[p]).files \in 0 .. MaxFiles
      BY <2>6, <3>1, ConstantsAssumption DEF TakeCommit, Fits
    <3>3. /\ scan' \in [Proc -> Nat] /\ scan'[p] = scan[p] + 1
          /\ nfiles' \in [Proc -> 0 .. MaxFiles]
          /\ files' \in [Proc -> SUBSET Nat]
      BY SMTT(20), <3>0, <3>2, <2>6 DEF TakeCommit
    <3>4. TypeOK'
      BY <3>3, <2>6, <1>4 DEF TakeCommit, tables, LatestVersion
    <3>5. /\ pc[p] = "scan" /\ readable[p] < Len(source) /\ scan'[p] > 0
          /\ UNCHANGED <<pc, readable, cursor, source>>
          /\ \A q \in Proc \ {p} : scan'[q] = scan[q] /\ files'[q] = files[q]
      BY <3>0, <3>3, <2>6 DEF TakeCommit, AtCommit, tables, BatchEnds
    <3>6. BatchEnds'
      BY <3>5 DEF BatchEnds
    <3> QED
      BY <3>4, <3>6
  <2>7. CASE EndBatch(p) \/ EndEmpty(p)
    <3>1. 0 \in 0 .. MaxFiles
      BY ConstantsAssumption
    <3>a. scan[p] \in Nat /\ "batch" \in Running \cup {"down"} /\ "idle" \in Running \cup {"down"}
      BY DEF Running
    <3>b. cursor' \in [Proc -> Nat] /\ pc' \in [Proc -> Running \cup {"down"}]
      BY ZenonT(30), <3>a, <2>7 DEF EndBatch, EndEmpty
    <3>c. DropLocals(p) /\ UNCHANGED <<source, tail, target, dq, files, seenT, seenD>>
      BY <2>7 DEF EndBatch, EndEmpty, tables
    <3>d. /\ readable' \in [Proc -> Nat] /\ scan' \in [Proc -> Nat]
          /\ nfiles' \in [Proc -> 0 .. MaxFiles]
      BY <3>1, <3>c DEF DropLocals
    <3>2. TypeOK'
      BY <3>b, <3>c, <3>d, <1>4 DEF LatestVersion
    <3>3. CASE EndBatch(p)
      BY <3>2, <3>3 DEF EndBatch, DropLocals, tables, BatchEnds
    <3>4. CASE EndEmpty(p)
      BY <3>2, <3>4 DEF EndEmpty, DropLocals, tables, BatchEnds
    <3> QED
      BY <2>7, <3>3, <3>4
  <2>8. CASE StreamError(p) \/ RejectsFail(p) \/ CommitConflict(p)
    BY <2>8, <1>4, LoseType DEF StreamError, RejectsFail, CommitConflict, tables, LatestVersion
  <2>9. CASE SkipRejects(p)
    BY <2>9, <1>4 DEF SkipRejects, tables, BatchEnds, LatestVersion, Running
  <2>10. CASE WriteRejects(p)
    <3>1. RejectCommit(p) \in TableCommit
      BY <2>10 DEF WriteRejects, MustWriteRejects, BatchEnds, RejectCommit, TableCommit, TxnVersionFor, Bad
    <3>2. dq' \in Seq(TableCommit) /\ Len(dq) + 1 \in Nat
      BY <3>1, <2>10, Appended DEF WriteRejects
    <3> QED
      BY <3>2, <2>10, <1>4 DEF WriteRejects, MustWriteRejects, BatchEnds, LatestVersion, Running
  <2>11. CASE CommitBatch(p)
    <3>1. BatchCommit(p) \in TableCommit
      BY <2>11 DEF CommitBatch, BatchEnds, BatchCommit, TableCommit, TxnVersionFor, Good
    <3>2. target' \in Seq(TableCommit) /\ Len(target) + 1 \in Nat
      BY <3>1, <2>11, Appended DEF CommitBatch
    <3> QED
      BY <3>2, <2>11, <1>4 DEF CommitBatch, BatchEnds, LatestVersion, Running
  <2> QED
    BY <1>4, <2>1, <2>2, <2>3, <2>4, <2>5, <2>6, <2>7, <2>8, <2>9, <2>10, <2>11 DEF Step
<1>5. ASSUME NEW p \in Proc, Fault(p) PROVE TypeOK' /\ BatchEnds'
  <2>0. faults' \in 0 .. MaxFaults
    BY <1>5, ConstantsAssumption DEF Fault
  <2>1. CASE Crash(p)
    BY <2>0, <2>1, LoseType DEF Crash, tables, LatestVersion
  <2>2. CASE OpenDqUnreadable(p)
    BY <2>0, <2>2 DEF OpenDqUnreadable, tables, BatchEnds, LatestVersion, Running
  <2>3. CASE WriteRejectsUnacked(p)
    <3>1. RejectCommit(p) \in TableCommit
      BY <2>3 DEF WriteRejectsUnacked, MustWriteRejects, BatchEnds, RejectCommit, TableCommit, TxnVersionFor, Bad
    <3>2. dq' \in Seq(TableCommit)
      BY <3>1, <2>3, Appended DEF WriteRejectsUnacked
    <3> QED
      BY <2>0, <3>2, <2>3, LoseType DEF WriteRejectsUnacked, LatestVersion
  <2>4. CASE CommitUnacked(p)
    <3>1. BatchCommit(p) \in TableCommit
      BY <2>4 DEF CommitUnacked, BatchEnds, BatchCommit, TableCommit, TxnVersionFor, Good
    <3>2. target' \in Seq(TableCommit)
      BY <3>1, <2>4, Appended DEF CommitUnacked
    <3> QED
      BY <2>0, <3>2, <2>4, LoseType DEF CommitUnacked, LatestVersion
  <2> QED
    BY <1>5, <2>1, <2>2, <2>3, <2>4 DEF Fault
<1>6. CASE UNCHANGED vars
  BY <1>6 DEF vars, BatchEnds, LatestVersion
<1> QED
  BY <1>1, <1>2, <1>3, <1>4, <1>5, <1>6 DEF Next

\* Every variable keeps its type in every reachable state, for any number of
\* daemons and any source.
THEOREM TypeCorrect == Spec => []TypeOK
<1>1. Init => TypeOK /\ BatchEnds
  BY TypeInit
<1>2. TypeOK /\ BatchEnds /\ [Next]_vars => TypeOK' /\ BatchEnds'
  BY TypeNext
<1> QED
  BY <1>1, <1>2, PTL DEF Spec

-----------------------------------------------------------------------------
(* The inductive invariant.                                                *)

\* The stored offset is None or the txn of some commit, so it lies between the
\* starting version and the head.
LEMMA StoredInLog ==
    ASSUME TypeOK, TxnsInLog
    PROVE  /\ Stored = None \/ Stored \in StartingVersion .. LatestVersion
           /\ ResumeCursor(Stored) \in Nat
           /\ ResumeCursor(Stored) >= StartingVersion
           /\ ResumeCursor(Stored) =< Len(source) \/ ResumeCursor(Stored) = StartingVersion
<1>1. target \in Seq(TableCommit) /\ Len(target) \in 0 .. Len(target) /\ Len(source) \in Nat
  BY DEF TypeOK
<1>2. Stored = None \/ \E i \in 1 .. Len(target) : target[i].txn # None /\ Stored = target[i].txn
  BY <1>1, TxnVersionFound DEF Stored, NewestTxn
<1>3. Stored = None \/ Stored \in StartingVersion .. LatestVersion
  BY <1>2 DEF TxnsInLog
<1> QED
  BY <1>1, <1>3, ResumeType, ConstantsAssumption DEF ResumeCursor, LatestVersion, None

\* GapFreePrefix, version by version.
Delivered(v) == \E i \in 1 .. Len(target) : v \in target[i].rows

Due(v) ==
    /\ v \in StartingVersion .. ResumeCursor(Stored) - 1
    /\ v < Len(source) /\ Emits(Commit(v))

\* GapFreePrefix, version by version: delivered exactly when due.
LEMMA GapFreeByVersion ==
    /\ GapFreePrefix <=> \A v : Delivered(v) <=> Due(v) /\ Commit(v).good
    /\ GapFreePrefix' <=> \A v : Delivered(v)' <=> Due(v)' /\ Commit(v)'.good
BY DEF GapFreePrefix, Delivered, Due, Good, Emitting, Consumed

\* RejectsNeverLost, version by version.
LEMMA RejectsByVersion ==
    /\ RejectsNeverLost <=> \A v : Due(v) /\ Commit(v).bad => IsRecorded(v)
    /\ RejectsNeverLost' <=> \A v : Due(v)' /\ Commit(v)'.bad => IsRecorded(v)'
BY DEF RejectsNeverLost, Due, Bad, Emitting, Consumed, IsRecorded

\* What a step of one daemon leaves alone in the others.
OnlyDaemon(p) ==
    \A q \in Proc \ {p} :
        /\ pc'[q] = pc[q] /\ cursor'[q] = cursor[q] /\ readable'[q] = readable[q]
        /\ scan'[q] = scan[q] /\ files'[q] = files[q]
        /\ seenT'[q] = seenT[q] /\ seenD'[q] = seenD[q]

\* A step that touches no table needs only the stepping daemon's facts.
LEMMA LocalStep ==
    ASSUME IInv, TypeOK', BatchEnds', UNCHANGED <<source, target, dq>>,
           NEW p \in Proc, OnlyDaemon(p),
           pc'[p] # "down" => Complete(p)',
           pc'[p] = "commit" /\ Fresh(p)' => \A v \in files'[p] : Commit(v).bad => IsRecorded(v),
           seenT'[p] =< Len(target),
           seenD'[p] # None => seenD'[p] =< Len(dq)
    PROVE  IInv'
<1>1. /\ Stored' = Stored /\ LatestVersion' = LatestVersion
      /\ \A v : Commit(v)' = Commit(v) /\ IsRecorded(v)' = IsRecorded(v)
  BY DEF Stored, LatestVersion, Commit, IsRecorded
<1>2. \A q \in Proc \ {p} : Fresh(q)' = Fresh(q) /\ End(q)' = End(q)
  BY DEF OnlyDaemon, Fresh, ConcurrentTransaction, End
<1>3. \A q \in Proc \ {p} : Complete(q) => Complete(q)'
  BY <1>1, <1>2 DEF OnlyDaemon, Complete
<1>4. HandlesInLog'
  BY DEF IInv, HandlesInLog, OnlyDaemon
<1>5. TxnsInLog'
  BY <1>1 DEF IInv, TxnsInLog
<1>6. BatchComplete'
  BY <1>3 DEF IInv, BatchComplete, OnlyDaemon
<1>7. DqCovers'
  BY <1>1 DEF IInv, DqCovers
<1>8. RejectsFirst'
  BY <1>1, <1>2 DEF IInv, RejectsFirst, OnlyDaemon
<1>9. GapFreePrefix' /\ NoDoubleApply' /\ RejectsNeverLost'
  BY <1>1 DEF IInv, GapFreePrefix, NoDoubleApply, RejectsNeverLost, Good, Bad, Emitting, Consumed
<1> QED
  BY <1>4, <1>5, <1>6, <1>7, <1>8, <1>9 DEF IInv

\* Losing what is in memory disturbs nothing durable.
LEMMA LoseLocal ==
    ASSUME TypeOK, NEW p \in Proc, Lose(p)
    PROVE  OnlyDaemon(p) /\ pc'[p] = "down" /\ seenT'[p] = 0 /\ seenD'[p] = 0
BY DEF TypeOK, Lose, DropLocals, OnlyDaemon

\* A new source commit is past every batch, every txn and the offset.
LEMMA ProduceInv ==
    ASSUME IInv, TypeOK', BatchEnds', Produce
    PROVE  IInv'
<1>1. PICK c \in Commits : source' = Append(source, c)
  BY DEF Produce
<1>2. source \in Seq(Commits) /\ Len(source) \in Nat
  BY DEF IInv, TypeOK
<1>3. Len(source') = Len(source) + 1 /\ \A i \in 1 .. Len(source) : source'[i] = source[i]
  BY <1>1, <1>2, Appended
<1>4. \A v \in Nat : v < Len(source) => Commit(v)' = Commit(v)
  BY <1>2, <1>3 DEF Commit
<1>5. UNCHANGED <<target, dq, pc, cursor, readable, scan, files, nfiles, seenT, seenD>>
  BY DEF Produce, daemon
<1>6. /\ Stored' = Stored /\ \A v : IsRecorded(v)' = IsRecorded(v)
      /\ \A p \in Proc : Fresh(p)' = Fresh(p) /\ End(p)' = End(p)
  BY <1>5 DEF Stored, IsRecorded, Fresh, ConcurrentTransaction, End
<1>7. /\ ResumeCursor(Stored) \in Nat /\ ResumeCursor(Stored) >= StartingVersion
      /\ ResumeCursor(Stored) =< Len(source) \/ ResumeCursor(Stored) = StartingVersion
      /\ StartingVersion \in Nat
  BY StoredInLog, ConstantsAssumption DEF IInv
<1>8. \A v : Due(v)' <=> Due(v)
  <2> SUFFICES ASSUME NEW v, v \in StartingVersion .. ResumeCursor(Stored) - 1
               PROVE  Due(v)' <=> Due(v)
    BY <1>6 DEF Due
  <2>1. v \in Nat /\ v < Len(source)
    BY <1>2, <1>7
  <2> QED
    BY <1>2, <1>3, <1>4, <1>6, <2>1 DEF Due
<1>9. \A v : Due(v) => Commit(v)' = Commit(v)
  BY <1>4, <1>7 DEF Due
<1>10. GapFreePrefix'
  <2>1. \A v : Delivered(v)' <=> Delivered(v)
    BY <1>5 DEF Delivered
  <2> QED
    BY <1>8, <1>9, <2>1, GapFreeByVersion DEF IInv
<1>11. RejectsNeverLost'
  BY <1>6, <1>8, <1>9, RejectsByVersion DEF IInv
<1>12. NoDoubleApply' /\ HandlesInLog'
  BY <1>5 DEF IInv, NoDoubleApply, HandlesInLog
<1>13. TxnsInLog'
  <2>1. LatestVersion' = LatestVersion + 1 /\ LatestVersion \in Int
    BY <1>2, <1>3 DEF LatestVersion
  <2> QED
    BY <1>5, <1>7, <2>1 DEF IInv, TxnsInLog
<1>14. DqCovers'
  <2> SUFFICES ASSUME NEW k \in 1 .. Len(dq), NEW v \in ResumeCursor(Stored) .. dq[k].txn,
                      v < Len(source'), Emits(Commit(v)'), Commit(v)'.bad
               PROVE  v \in dq[k].rows
    BY <1>5, <1>6 DEF DqCovers
  <2>1. dq[k].txn \in Nat /\ dq[k].txn < Len(source)
    BY <1>2, <1>7 DEF IInv, TxnsInLog, LatestVersion
  <2>2. v \in Nat /\ v < Len(source)
    BY <1>2, <1>7, <2>1
  <2> QED
    BY <1>4, <2>2 DEF IInv, DqCovers
<1>15. RejectsFirst'
  <2> SUFFICES ASSUME NEW p \in Proc, pc[p] = "commit", Fresh(p), NEW v \in files[p], Commit(v)'.bad
               PROVE  IsRecorded(v)
    BY <1>5, <1>6 DEF RejectsFirst
  <2>1. v \in Nat /\ v < Len(source)
    BY <1>2, <1>7 DEF IInv, TypeOK, BatchComplete, Complete
  <2> QED
    BY <1>4, <2>1 DEF IInv, RejectsFirst
<1>16. BatchComplete'
  <2> SUFFICES ASSUME NEW p \in Proc, pc[p] # "down" PROVE Complete(p)'
    BY <1>5 DEF BatchComplete
  <2>1. Complete(p) /\ End(p) \in Nat /\ files[p] \subseteq Nat
    BY DEF IInv, BatchComplete, TypeOK, End
  <2>2. \A v \in files[p] : /\ v \in StartingVersion .. End(p) - 1
                            /\ v < Len(source') /\ Emits(Commit(v)')
    BY <1>2, <1>3, <1>4, <2>1 DEF Complete
  <2>3. ASSUME NEW v \in ResumeCursor(Stored) .. End(p) - 1, Emits(Commit(v)')
        PROVE  v \in files[p]
    <3>1. v \in Nat /\ v < Len(source)
      BY <1>2, <1>7, <2>1 DEF Complete
    <3> QED
      BY <1>4, <2>1, <2>3, <3>1 DEF Complete
  <2> QED
    BY <1>2, <1>3, <1>5, <1>6, <1>7, <2>1, <2>2, <2>3 DEF Complete
<1> QED
  BY <1>10, <1>11, <1>12, <1>13, <1>14, <1>15, <1>16 DEF IInv

\* A commit without a txn action moves no offset and makes no handle stale.
LEMMA ForeignInv ==
    ASSUME IInv, TypeOK', BatchEnds', ForeignCommit
    PROVE  IInv'
<1> DEFINE c == [txn |-> None, rows |-> {}]
<1>1. target \in Seq(TableCommit) /\ Len(target) \in Nat /\ c \in TableCommit
  BY DEF IInv, TypeOK, TableCommit
<1>2. /\ target' = Append(target, c) /\ Len(target') = Len(target) + 1
      /\ \A i \in 1 .. Len(target) : target'[i] = target[i]
      /\ target'[Len(target) + 1] = c
  BY <1>1, Appended DEF ForeignCommit
<1>3. target'[Len(target) + 1].txn = None /\ target'[Len(target) + 1].rows = {}
  BY <1>2
<1>4. Stored' = Stored
  BY <1>1, <1>2, TxnVersionAppend DEF Stored
<1> HIDE DEF c
<1>5. UNCHANGED <<source, dq, pc, cursor, readable, scan, files, nfiles, seenT, seenD>>
  BY DEF ForeignCommit, daemon
<1>6. /\ LatestVersion' = LatestVersion
      /\ \A v : Commit(v)' = Commit(v) /\ IsRecorded(v)' = IsRecorded(v)
      /\ \A p \in Proc : End(p)' = End(p)
  BY <1>5 DEF LatestVersion, Commit, IsRecorded, End
<1>7. \A p \in Proc : Fresh(p)' = Fresh(p)
  <2> SUFFICES ASSUME NEW p \in Proc PROVE Fresh(p)' = Fresh(p)
    OBVIOUS
  <2>1. seenT[p] \in Nat /\ seenT[p] =< Len(target)
    BY DEF IInv, TypeOK, HandlesInLog
  <2> QED
    BY <1>1, <1>2, <1>3, <1>5, <2>1 DEF Fresh, ConcurrentTransaction
<1>8. HandlesInLog'
  BY <1>1, <1>2, <1>5 DEF IInv, HandlesInLog, TypeOK
<1>9. TxnsInLog'
  BY <1>1, <1>2, <1>3, <1>5, <1>6 DEF IInv, TxnsInLog
<1>10. BatchComplete'
  BY <1>4, <1>5, <1>6, <1>7 DEF IInv, BatchComplete, Complete
<1>11. DqCovers' /\ RejectsFirst'
  BY <1>4, <1>5, <1>6, <1>7 DEF IInv, DqCovers, RejectsFirst
<1>12. \A v : Due(v)' = Due(v)
  BY <1>4, <1>5, <1>6 DEF Due
<1>13. GapFreePrefix' /\ RejectsNeverLost'
  <2>1. \A v : Delivered(v)' <=> Delivered(v)
    BY <1>1, <1>2, <1>3 DEF Delivered
  <2> QED
    BY <1>6, <1>12, <2>1, GapFreeByVersion, RejectsByVersion DEF IInv
<1>14. NoDoubleApply'
  BY <1>1, <1>2, <1>3 DEF IInv, NoDoubleApply
<1> QED
  BY <1>8, <1>9, <1>10, <1>11, <1>13, <1>14 DEF IInv

\* A reject commit covers the rejects from the offset to its txn.
LEMMA RejectCommitInv ==
    ASSUME IInv, TypeOK', BatchEnds', NEW p \in Proc, pc[p] = "batch",
           dq' = Append(dq, RejectCommit(p)), UNCHANGED <<source, target>>,
           OnlyDaemon(p),
           \/ pc'[p] = "down" /\ seenT'[p] = 0 /\ seenD'[p] = 0
           \/ /\ pc'[p] = "commit" /\ seenT'[p] = seenT[p] /\ seenD'[p] = Len(dq) + 1
              /\ cursor'[p] = cursor[p] /\ files'[p] = files[p]
    PROVE  IInv'
<1> DEFINE c == RejectCommit(p)
<1>0. /\ Complete(p) /\ End(p) = cursor[p] /\ cursor[p] \in Nat /\ files[p] # {}
      /\ files[p] \subseteq Nat /\ Len(source) \in Nat /\ Len(target) \in Nat
      /\ StartingVersion \in Nat
  <2>1. Complete(p)
    BY DEF IInv, BatchComplete
  <2>2. /\ cursor[p] \in Nat /\ files[p] \subseteq Nat /\ Len(source) \in Nat
        /\ Len(target) \in Nat
    BY SMTT(20) DEF IInv, TypeOK
  <2> QED
    BY <2>1, <2>2, ConstantsAssumption DEF Complete, End
<1>a. \A v \in files[p] : v \in StartingVersion .. cursor[p] - 1 /\ v < Len(source) /\ Emits(Commit(v))
  BY <1>0 DEF Complete
<1>b. c.txn = cursor[p] - 1 /\ c.txn \in StartingVersion .. LatestVersion /\ c.txn \in Nat
  BY <1>0, <1>a DEF Complete, RejectCommit, TxnVersionFor, LatestVersion
<1>c. c.rows = {v \in files[p] : Commit(v).bad}
  BY DEF RejectCommit, Bad
<1>1. dq \in Seq(TableCommit) /\ Len(dq) \in Nat /\ c \in TableCommit
  <2>1. TxnVersionFor(cursor[p]) \in Nat
    BY <1>b DEF RejectCommit
  <2>2. Bad(files[p]) \in SUBSET Nat
    BY <1>0 DEF Bad
  <2>3. c \in TableCommit
    BY <2>1, <2>2 DEF RejectCommit, TableCommit
  <2> QED
    BY <2>3 DEF IInv, TypeOK
<1>2. /\ Len(dq') = Len(dq) + 1
      /\ \A i \in 1 .. Len(dq) : dq'[i] = dq[i]
      /\ dq'[Len(dq) + 1] = c
  BY <1>1, Appended
<1> HIDE DEF c
<1>3. /\ Stored' = Stored /\ LatestVersion' = LatestVersion
      /\ \A v : Commit(v)' = Commit(v) /\ Due(v)' = Due(v) /\ Delivered(v)' = Delivered(v)
  BY DEF Stored, LatestVersion, Commit, Due, Delivered
<1>4. \A v : IsRecorded(v) => IsRecorded(v)'
  BY <1>1, <1>2 DEF IsRecorded
<1>5. \A v \in files[p] : Commit(v).bad => IsRecorded(v)'
  BY <1>1, <1>2, <1>c DEF IsRecorded
<1>6. \A q \in Proc \ {p} : Fresh(q)' = Fresh(q) /\ End(q)' = End(q)
  BY DEF OnlyDaemon, Fresh, ConcurrentTransaction, End
<1>7. HandlesInLog'
  <2>1. \A q \in Proc : /\ seenT[q] =< Len(target)
                        /\ seenD[q] # None => seenD[q] \in Nat /\ seenD[q] =< Len(dq)
    BY DEF IInv, TypeOK, HandlesInLog
  <2>2. seenT'[p] =< Len(target) /\ (seenD'[p] # None => seenD'[p] =< Len(dq'))
    BY <1>0, <1>1, <1>2, <2>1
  <2>3. \A q \in Proc \ {p} : /\ seenT'[q] =< Len(target)
                              /\ seenD'[q] # None => seenD'[q] =< Len(dq')
    BY <1>1, <1>2, <2>1 DEF OnlyDaemon
  <2> QED
    BY <2>2, <2>3 DEF HandlesInLog
<1>8. TxnsInLog'
  BY <1>1, <1>2, <1>3, <1>b DEF IInv, TxnsInLog
<1>9. BatchComplete'
  <2>1. \A q \in Proc \ {p} : Complete(q) => Complete(q)'
    BY <1>3, <1>6 DEF OnlyDaemon, Complete
  <2>2. pc'[p] = "commit" => Complete(p)'
    <3> SUFFICES ASSUME pc'[p] = "commit" PROVE Complete(p)'
      OBVIOUS
    <3>1. cursor'[p] = cursor[p] /\ files'[p] = files[p] /\ seenT'[p] = seenT[p]
      OBVIOUS
    <3>2. End(p)' = End(p) /\ Fresh(p)' = Fresh(p)
      BY <1>0, <3>1 DEF End, Fresh, ConcurrentTransaction
    <3> QED
      BY <1>0, <1>3, <3>1, <3>2 DEF Complete
  <2> QED
    BY <2>1, <2>2 DEF IInv, BatchComplete, OnlyDaemon
<1>10. DqCovers'
  <2>1. \A v \in ResumeCursor(Stored) .. c.txn :
          v < Len(source) /\ Emits(Commit(v)) /\ Commit(v).bad => v \in c.rows
    BY <1>0, <1>b, <1>c DEF Complete
  <2> QED
    BY <1>1, <1>2, <1>3, <2>1 DEF IInv, DqCovers
<1>11. RejectsFirst'
  BY <1>3, <1>4, <1>5, <1>6 DEF IInv, RejectsFirst, OnlyDaemon
<1>12. GapFreePrefix' /\ RejectsNeverLost'
  BY <1>3, <1>4, GapFreeByVersion, RejectsByVersion DEF IInv
<1>13. NoDoubleApply'
  BY DEF IInv, NoDoubleApply
<1> QED
  BY <1>7, <1>8, <1>9, <1>10, <1>11, <1>12, <1>13 DEF IInv

\* A batch commit from a fresh handle delivers exactly the emitting versions
\* between the old offset and the new one, and makes every other handle stale.
LEMMA BatchCommitInv ==
    ASSUME IInv, TypeOK', BatchEnds', NEW p \in Proc, pc[p] = "commit", Fresh(p),
           target' = Append(target, BatchCommit(p)), UNCHANGED <<source, dq>>,
           OnlyDaemon(p),
           \/ pc'[p] = "down" /\ seenT'[p] = 0 /\ seenD'[p] = 0
           \/ /\ pc'[p] = "idle" /\ seenT'[p] = Len(target) + 1 /\ seenD'[p] = seenD[p]
              /\ cursor'[p] = cursor[p] /\ files'[p] = {}
    PROVE  IInv' /\ Stored' >= Stored
<1> DEFINE c == BatchCommit(p)
<1> DEFINE R == ResumeCursor(Stored)
<1>0. /\ Complete(p) /\ End(p) = cursor[p] /\ files[p] # {}
      /\ cursor[p] \in Nat /\ files[p] \subseteq Nat
      /\ Len(source) \in Nat /\ Len(target) \in Nat /\ Len(dq) \in Nat /\ StartingVersion \in Nat
  <2>1. Complete(p)
    BY DEF IInv, BatchComplete
  <2>2. /\ cursor[p] \in Nat /\ files[p] \subseteq Nat
        /\ Len(source) \in Nat /\ Len(target) \in Nat /\ Len(dq) \in Nat
    <3>1. TypeOK
      BY DEF IInv
    <3>2. source \in Seq(Commits) /\ target \in Seq(TableCommit) /\ dq \in Seq(TableCommit)
      BY <3>1 DEF TypeOK
    <3>3. cursor[p] \in Nat /\ files[p] \subseteq Nat
      BY <3>1 DEF TypeOK
    <3> QED
      BY <3>2, <3>3
  <2> QED
    BY <2>1, <2>2, ConstantsAssumption DEF Complete, End
<1>a. R \in Nat /\ R >= StartingVersion /\ (Stored = None \/ R = Stored + 1)
  BY StoredInLog DEF IInv, ResumeCursor
<1>b. \A v : v \in files[p] <=> /\ v \in R .. cursor[p] - 1
                                /\ v < Len(source) /\ Emits(Commit(v))
  BY <1>0, <1>a DEF Complete
<1>c. R < cursor[p] /\ cursor[p] =< Len(source)
  <2>1. PICK v : v \in files[p]
    BY <1>0
  <2> QED
    BY <1>0, <1>a, <1>b, <2>1 DEF Complete
<1>d. /\ c.txn = cursor[p] - 1 /\ c.txn \in Nat /\ c.txn # None
      /\ c.txn \in StartingVersion .. LatestVersion
      /\ c.rows = {v \in files[p] : Commit(v).good}
  BY <1>0, <1>a, <1>c DEF BatchCommit, TxnVersionFor, Good, LatestVersion, None
<1>1. target \in Seq(TableCommit) /\ c \in TableCommit
  <2>1. TxnVersionFor(cursor[p]) \in Nat
    BY <1>d DEF BatchCommit
  <2>2. Good(files[p]) \in SUBSET Nat
    BY <1>0 DEF Good
  <2>3. c \in TableCommit
    BY <2>1, <2>2 DEF BatchCommit, TableCommit
  <2> QED
    BY <2>3 DEF IInv, TypeOK
<1>2. /\ Len(target') = Len(target) + 1
      /\ \A i \in 1 .. Len(target) : target'[i] = target[i]
      /\ target'[Len(target) + 1] = c
  BY <1>1, Appended
<1>3. Stored' = cursor[p] - 1 /\ ResumeCursor(Stored)' = cursor[p] /\ Stored' >= Stored
  <2>1. Stored' = c.txn
    BY <1>1, <1>2, <1>d, TxnVersionAppend DEF Stored
  <2>2. Stored \in Int
    BY <1>0, StoredInLog DEF IInv, LatestVersion, None
  <2> QED
    BY <1>0, <1>a, <1>c, <1>d, <2>1, <2>2 DEF ResumeCursor, None
<1> HIDE DEF c, R
<1>4. /\ LatestVersion' = LatestVersion
      /\ \A v : Commit(v)' = Commit(v) /\ IsRecorded(v)' = IsRecorded(v)
  BY DEF LatestVersion, Commit, IsRecorded
<1>5. \A v : Due(v)' <=> Due(v) \/ v \in files[p]
  BY <1>0, <1>3, <1>4, <1>a, <1>b, <1>c DEF Due, R
<1>6. \A v : Delivered(v)' <=> Delivered(v) \/ (v \in files[p] /\ Commit(v).good)
  BY <1>0, <1>2, <1>d DEF Delivered
<1>7. GapFreePrefix'
  BY <1>4, <1>5, <1>6, GapFreeByVersion DEF IInv
<1>8. RejectsNeverLost'
  BY <1>4, <1>5, RejectsByVersion DEF IInv, RejectsFirst
<1>9. NoDoubleApply'
  <2>1. \A v : Delivered(v) => v \notin files[p]
    BY <1>0, <1>a, <1>b, GapFreeByVersion DEF IInv, Due, R
  <2>2. \A i \in 1 .. Len(target) : target'[i].rows \cap c.rows = {}
    BY <1>2, <1>d, <2>1 DEF Delivered
  <2> QED
    BY <1>0, <1>2, <2>2 DEF IInv, NoDoubleApply
<1>10. HandlesInLog'
  <2>1. \A q \in Proc : /\ seenT[q] \in Nat /\ seenT[q] =< Len(target)
                        /\ seenD[q] # None => seenD[q] =< Len(dq)
    BY DEF IInv, TypeOK, HandlesInLog
  <2>2. seenT'[p] =< Len(target') /\ (seenD'[p] # None => seenD'[p] =< Len(dq))
    BY <1>0, <1>2, <2>1
  <2>3. \A q \in Proc \ {p} : /\ seenT'[q] =< Len(target')
                              /\ seenD'[q] # None => seenD'[q] =< Len(dq)
    BY <1>0, <1>2, <2>1 DEF OnlyDaemon
  <2> QED
    BY <2>2, <2>3 DEF HandlesInLog
<1>11. TxnsInLog'
  BY <1>0, <1>2, <1>4, <1>d DEF IInv, TxnsInLog
<1>12. DqCovers'
  <2>1. \A k \in 1 .. Len(dq) : dq[k].txn \in Int
    BY <1>0 DEF IInv, TxnsInLog, LatestVersion
  <2> QED
    BY <1>0, <1>3, <1>4, <1>a, <1>c, <2>1 DEF IInv, DqCovers, R
<1>13. \A q \in Proc \ {p} : ~Fresh(q)' /\ End(q)' = End(q) /\ End(q) \in Nat
  <2> SUFFICES ASSUME NEW q \in Proc \ {p}
               PROVE  ~Fresh(q)' /\ End(q)' = End(q) /\ End(q) \in Nat
    OBVIOUS
  <2>1. seenT[q] \in Nat /\ seenT[q] =< Len(target) /\ seenT'[q] = seenT[q]
    BY DEF IInv, TypeOK, HandlesInLog, OnlyDaemon
  <2>2. ~Fresh(q)'
    BY <1>0, <1>2, <1>d, <2>1 DEF Fresh, ConcurrentTransaction
  <2>3. End(q)' = End(q) /\ End(q) \in Nat
    BY DEF End, OnlyDaemon, IInv, TypeOK
  <2> QED
    BY <2>2, <2>3
<1>14. RejectsFirst'
  BY <1>13 DEF RejectsFirst, OnlyDaemon
<1>15. BatchComplete'
  <2>1. ASSUME NEW q \in Proc \ {p}, Complete(q) PROVE Complete(q)'
    <3>1. \A v \in ResumeCursor(Stored)' .. End(q) - 1 : v \in R .. End(q) - 1
      BY <1>0, <1>3, <1>a, <1>c, <1>13
    <3> QED
      BY <1>4, <1>13, <2>1, <3>1 DEF Complete, OnlyDaemon, R
  <2>2. pc'[p] = "idle" => Complete(p)'
    <3> SUFFICES ASSUME pc'[p] = "idle" PROVE Complete(p)'
      OBVIOUS
    <3>1. cursor'[p] = cursor[p] /\ files'[p] = {} /\ End(p)' = cursor[p]
      BY DEF End
    <3> QED
      BY <1>0, <1>3, <1>c, <3>1 DEF Complete
  <2> QED
    BY <2>1, <2>2 DEF IInv, BatchComplete, OnlyDaemon
<1> QED
  BY <1>3, <1>7, <1>8, <1>9, <1>10, <1>11, <1>12, <1>14, <1>15 DEF IInv

\* The stored offset and the source, as seen across a step that leaves the
\* tables alone.
LEMMA TablesSame ==
    ASSUME UNCHANGED <<source, target, dq>>
    PROVE  /\ Stored' = Stored /\ Len(source') = Len(source)
           /\ \A v : Commit(v)' = Commit(v)
BY DEF Stored, Commit

\* Facts about one daemon that the local steps share.
LEMMA DaemonFacts ==
    ASSUME IInv, NEW p \in Proc
    PROVE  /\ cursor[p] \in Nat /\ scan[p] \in Nat /\ readable[p] \in Nat
           /\ files[p] \subseteq Nat /\ seenT[p] \in Nat
           /\ Len(source) \in Nat /\ Len(target) \in Nat /\ Len(dq) \in Nat
           /\ StartingVersion \in Nat /\ tail \in Nat
           /\ seenT[p] =< Len(target)
           /\ seenD[p] # None => seenD[p] \in Nat /\ seenD[p] =< Len(dq)
           /\ pc[p] # "down" => Complete(p)
           /\ pc[p] = "scan" => readable[p] < Len(source)
           /\ pc[p] \in {"down", "opening", "idle"} => files[p] = {}
           /\ ResumeCursor(Stored) \in Nat /\ ResumeCursor(Stored) >= StartingVersion
           /\ ResumeCursor(Stored) =< Len(source) \/ ResumeCursor(Stored) = StartingVersion
<1>1. /\ cursor[p] \in Nat /\ scan[p] \in Nat /\ readable[p] \in Nat
      /\ files[p] \subseteq Nat /\ seenT[p] \in Nat /\ seenD[p] \in Nat \cup {None}
      /\ Len(source) \in Nat /\ Len(target) \in Nat /\ Len(dq) \in Nat /\ tail \in Nat
  BY DEF IInv, TypeOK
<1>2. /\ seenT[p] =< Len(target) /\ (seenD[p] # None => seenD[p] =< Len(dq))
  BY DEF IInv, HandlesInLog
<1>3. /\ pc[p] # "down" => Complete(p)
      /\ pc[p] = "scan" => readable[p] < Len(source)
      /\ pc[p] \in {"down", "opening", "idle"} => files[p] = {}
  BY DEF IInv, BatchComplete, BatchEnds
<1> QED
  BY <1>1, <1>2, <1>3, StoredInLog, ConstantsAssumption DEF IInv

\* Opening: the cursor is where the offset in a fresh handle puts it.
LEMMA OpenInv ==
    ASSUME IInv, TypeOK', BatchEnds', NEW p \in Proc,
           OpenTarget(p) \/ OpenDq(p) \/ OpenDqUnreadable(p)
    PROVE  IInv'
<1> USE DaemonFacts
<1>1. UNCHANGED <<source, target, dq>> /\ OnlyDaemon(p)
  BY ZenonT(30) DEF OpenTarget, OpenDq, OpenDqUnreadable, tables, OnlyDaemon, IInv, TypeOK
<1>2. CASE OpenTarget(p)
  <2>1. /\ pc'[p] = "opening" /\ cursor'[p] = ResumeCursor(Stored)
        /\ seenT'[p] = Len(target) /\ files'[p] = {} /\ seenD'[p] = seenD[p]
    BY <1>2 DEF OpenTarget, IInv, TypeOK
  <2>2. Complete(p)'
    BY <1>1, <2>1, TablesSame DEF Complete, End
  <2> QED
    BY <1>1, <2>1, <2>2, LocalStep
<1>3. CASE OpenDq(p) \/ OpenDqUnreadable(p)
  <2>1. /\ pc[p] = "opening" /\ pc'[p] = "idle" /\ cursor'[p] = cursor[p]
        /\ seenT'[p] = seenT[p] /\ files'[p] = files[p]
        /\ seenD'[p] = Len(dq) \/ seenD'[p] = None
    BY <1>3 DEF OpenDq, OpenDqUnreadable, IInv, TypeOK
  <2>2. Complete(p)'
    BY <1>1, <2>1, TablesSame DEF Complete, End, Fresh, ConcurrentTransaction
  <2> QED
    BY <1>1, <2>1, <2>2, LocalStep
<1> QED
  BY <1>2, <1>3

\* The scan: skipping leaves nothing out, taking leaves nothing behind.
LEMMA ScanInv ==
    ASSUME IInv, TypeOK', BatchEnds', NEW p \in Proc,
           Poll(p) \/ SkipCommit(p) \/ TakeCommit(p) \/ EndBatch(p) \/ EndEmpty(p)
    PROVE  IInv'
<1> USE DaemonFacts
<1>1. UNCHANGED <<source, target, dq>> /\ OnlyDaemon(p) /\ seenT'[p] = seenT[p] /\ seenD'[p] = seenD[p]
  <2>1. CASE Poll(p)
    BY <2>1 DEF Poll, tables, OnlyDaemon, IInv, TypeOK
  <2>2. CASE SkipCommit(p)
    BY <2>2 DEF SkipCommit, tables, OnlyDaemon, IInv, TypeOK
  <2>3. CASE TakeCommit(p)
    BY <2>3 DEF TakeCommit, tables, OnlyDaemon, IInv, TypeOK
  <2>4. CASE EndBatch(p) \/ EndEmpty(p)
    BY ZenonT(30), <2>4 DEF EndBatch, EndEmpty, DropLocals, tables, OnlyDaemon, IInv, TypeOK
  <2> QED
    BY <2>1, <2>2, <2>3, <2>4
<1>2. Fresh(p)' = Fresh(p)
  BY <1>1 DEF Fresh, ConcurrentTransaction
<1>3. CASE Poll(p)
  <2>1. /\ pc[p] = "idle" /\ pc'[p] = "scan" /\ cursor'[p] = cursor[p] /\ files'[p] = files[p]
        /\ scan'[p] = cursor[p] /\ readable'[p] = LatestVersion /\ cursor[p] =< LatestVersion
    BY <1>3 DEF Poll, IInv, TypeOK
  <2>2. Complete(p)'
    BY <1>1, <1>2, <2>1, TablesSame DEF Complete, End, LatestVersion
  <2> QED
    BY <1>1, <2>1, <2>2, LocalStep
<1>4. CASE SkipCommit(p)
  <2>1. /\ pc[p] = "scan" /\ pc'[p] = "scan" /\ cursor'[p] = cursor[p] /\ files'[p] = files[p]
        /\ scan'[p] = scan[p] + 1 /\ readable'[p] = readable[p] /\ scan[p] =< readable[p]
        /\ ~Emits(Commit(scan[p]))
    BY <1>4 DEF SkipCommit, AtCommit, Skipped, IInv, TypeOK
  <2>2. Complete(p)'
    <3>1. /\ End(p) = scan[p] /\ End(p)' = scan[p] + 1 /\ scan[p] < Len(source)
          /\ Complete(p) /\ StartingVersion =< scan[p]
      BY SMTT(20), <2>1 DEF End, Complete
    <3>2. \A v \in files'[p] : /\ v \in StartingVersion .. scan[p]
                               /\ v < Len(source) /\ Emits(Commit(v))
      BY <2>1, <3>1 DEF Complete
    <3>3. \A v \in ResumeCursor(Stored) .. scan[p] :
            v < Len(source) /\ Emits(Commit(v)) => v \in files'[p]
      BY <2>1, <3>1 DEF Complete
    <3>4. Fresh(p) => /\ ResumeCursor(Stored) =< cursor[p]
                      /\ \A v \in files'[p] : ResumeCursor(Stored) =< v
      BY <2>1, <3>1 DEF Complete
    <3> QED
      BY SMTT(20), <1>1, <1>2, <2>1, <3>1, <3>2, <3>3, <3>4, TablesSame DEF Complete
  <2> QED
    BY <1>1, <2>1, <2>2, LocalStep
<1>5. CASE TakeCommit(p)
  <2>1. /\ pc[p] = "scan" /\ pc'[p] = "scan" /\ cursor'[p] = cursor[p]
        /\ files'[p] = files[p] \cup {scan[p]}
        /\ scan'[p] = scan[p] + 1 /\ readable'[p] = readable[p] /\ scan[p] =< readable[p]
        /\ Emits(Commit(scan[p]))
    BY <1>5 DEF TakeCommit, AtCommit, IInv, TypeOK
  <2>2. Complete(p)'
    <3>1. /\ End(p) = scan[p] /\ End(p)' = scan[p] + 1 /\ scan[p] < Len(source)
          /\ Complete(p) /\ StartingVersion =< scan[p]
      BY SMTT(20), <2>1 DEF End, Complete
    <3>2. \A v \in files'[p] : /\ v \in StartingVersion .. scan[p]
                               /\ v < Len(source) /\ Emits(Commit(v))
      BY <2>1, <3>1 DEF Complete
    <3>3. \A v \in ResumeCursor(Stored) .. scan[p] :
            v < Len(source) /\ Emits(Commit(v)) => v \in files'[p]
      BY <2>1, <3>1 DEF Complete
    <3>4. Fresh(p) => /\ ResumeCursor(Stored) =< cursor[p]
                      /\ \A v \in files'[p] : ResumeCursor(Stored) =< v
      BY <2>1, <3>1 DEF Complete
    <3> QED
      BY SMTT(20), <1>1, <1>2, <2>1, <3>1, <3>2, <3>3, <3>4, TablesSame DEF Complete
  <2> QED
    BY <1>1, <2>1, <2>2, LocalStep
<1>6. CASE EndBatch(p) \/ EndEmpty(p)
  <2>1. /\ pc[p] = "scan" /\ cursor'[p] = scan[p] /\ files'[p] = files[p]
        /\ \/ pc'[p] = "batch" /\ files[p] # {}
           \/ pc'[p] = "idle"
    BY <1>6 DEF EndBatch, EndEmpty, IInv, TypeOK
  <2>2. Complete(p)'
    BY <1>1, <1>2, <2>1, TablesSame DEF Complete, End
  <2> QED
    BY <1>1, <2>1, <2>2, LocalStep
<1> QED
  BY <1>3, <1>4, <1>5, <1>6

\* Skipping the reject write is sound: a txn equal to the batch's belongs to a
\* reject commit that covers every version a fresh batch can hold.
LEMMA SkipRejectsInv ==
    ASSUME IInv, TypeOK', BatchEnds', NEW p \in Proc, SkipRejects(p)
    PROVE  IInv'
<1> USE DaemonFacts
<1>1. /\ UNCHANGED <<source, target, dq>> /\ OnlyDaemon(p)
      /\ seenT'[p] = seenT[p] /\ seenD'[p] = seenD[p]
      /\ pc[p] = "batch" /\ pc'[p] = "commit" /\ cursor'[p] = cursor[p] /\ files'[p] = files[p]
  BY DEF SkipRejects, tables, OnlyDaemon, IInv, TypeOK
<1>2. Fresh(p)' = Fresh(p) /\ End(p) = cursor[p] /\ End(p)' = cursor[p]
  BY <1>1 DEF Fresh, ConcurrentTransaction, End
<1>3. Complete(p)'
  BY <1>1, <1>2, TablesSame DEF Complete
<1>4. ASSUME Fresh(p), NEW v \in files[p], Commit(v).bad PROVE IsRecorded(v)
  <2>1. seenD[p] # None /\ AlreadyRecorded(p)
    BY <1>4 DEF SkipRejects, Bad
  <2>2. /\ v \in ResumeCursor(Stored) .. cursor[p] - 1
        /\ v < Len(source) /\ Emits(Commit(v)) /\ cursor[p] - 1 # None
    BY <1>1, <1>2, <1>4 DEF Complete, None
  <2>a. dq \in Seq(TableCommit)
    BY DEF IInv, TypeOK
  <2>3. dq \in Seq(TableCommit) /\ seenD[p] \in 0 .. Len(dq)
    BY <2>1, <2>a
  <2>4. \E k \in 1 .. seenD[p] : TxnVersion(dq, seenD[p]) = dq[k].txn
    BY <2>1, <2>2, <2>3, TxnVersionFound DEF AlreadyRecorded, TxnVersionFor
  <2>5. PICK k \in 1 .. Len(dq) : dq[k].txn = cursor[p] - 1
    BY SMTT(20), <2>1, <2>3, <2>4 DEF AlreadyRecorded, TxnVersionFor
  <2>6. v \in dq[k].rows
    BY <1>4, <2>2, <2>5 DEF IInv, DqCovers
  <2> QED
    BY <2>5, <2>6 DEF IsRecorded
<1> QED
  BY <1>1, <1>2, <1>3, <1>4, LocalStep

\* Retention, and steps that change nothing.
LEMMA UnchangedInv ==
    ASSUME IInv, TypeOK', BatchEnds', UNCHANGED <<source, target, dq>>, UNCHANGED daemon
    PROVE  IInv'
<1>1. /\ Stored' = Stored /\ LatestVersion' = LatestVersion
      /\ \A v : Commit(v)' = Commit(v) /\ IsRecorded(v)' = IsRecorded(v)
  BY DEF Stored, LatestVersion, Commit, IsRecorded
<1>2. UNCHANGED <<pc, cursor, readable, scan, files, seenT, seenD>>
  BY DEF daemon
<1>3. \A q \in Proc : Fresh(q)' = Fresh(q) /\ End(q)' = End(q)
  BY <1>2 DEF Fresh, ConcurrentTransaction, End
<1>4. HandlesInLog' /\ TxnsInLog' /\ DqCovers'
  BY <1>1, <1>2 DEF IInv, HandlesInLog, TxnsInLog, DqCovers
<1>5. BatchComplete' /\ RejectsFirst'
  BY <1>1, <1>2, <1>3 DEF IInv, BatchComplete, Complete, RejectsFirst
<1>6. GapFreePrefix' /\ NoDoubleApply' /\ RejectsNeverLost'
  BY <1>1 DEF IInv, GapFreePrefix, NoDoubleApply, RejectsNeverLost, Good, Bad, Emitting, Consumed
<1> QED
  BY <1>4, <1>5, <1>6 DEF IInv

\* An error or a crash that leaves the tables alone.
LEMMA LoseInv ==
    ASSUME IInv, TypeOK', BatchEnds', NEW p \in Proc, Lose(p), UNCHANGED <<source, target, dq>>
    PROVE  IInv'
<1>1. OnlyDaemon(p) /\ pc'[p] = "down" /\ seenT'[p] = 0 /\ seenD'[p] = 0
  BY LoseLocal DEF IInv
<1>2. Len(target) \in Nat /\ Len(dq) \in Nat
  BY SMTT(20) DEF IInv, TypeOK
<1> QED
  BY <1>1, <1>2, LocalStep

\* The reject write and the batch commit, acknowledged or not.
LEMMA CommitsInv ==
    ASSUME IInv, TypeOK', BatchEnds', NEW p \in Proc,
           \/ WriteRejects(p) \/ WriteRejectsUnacked(p)
           \/ CommitBatch(p) \/ CommitUnacked(p)
    PROVE  IInv' /\ Stored' >= Stored
<1>0. Stored \in Int /\ (UNCHANGED target => Stored' = Stored)
  BY ResumeType DEF IInv, Stored, None
<1>1. CASE WriteRejects(p)
  <2>1. /\ pc[p] = "batch" /\ UNCHANGED <<source, target>> /\ OnlyDaemon(p)
        /\ pc'[p] = "commit" /\ seenT'[p] = seenT[p] /\ seenD'[p] = Len(dq) + 1
        /\ cursor'[p] = cursor[p] /\ files'[p] = files[p]
        /\ dq' = Append(dq, RejectCommit(p))
    BY <1>1 DEF WriteRejects, MustWriteRejects, OnlyDaemon, IInv, TypeOK
  <2> QED
    BY <1>0, <2>1, RejectCommitInv
<1>2. CASE WriteRejectsUnacked(p)
  <2>1. /\ pc[p] = "batch" /\ UNCHANGED <<source, target>> /\ Lose(p)
        /\ dq' = Append(dq, RejectCommit(p))
    BY <1>2 DEF WriteRejectsUnacked, MustWriteRejects
  <2>2. OnlyDaemon(p) /\ pc'[p] = "down" /\ seenT'[p] = 0 /\ seenD'[p] = 0
    BY <2>1, LoseLocal DEF IInv
  <2> QED
    BY <1>0, <2>1, <2>2, RejectCommitInv
<1>3. CASE CommitBatch(p)
  <2>1. /\ pc[p] = "commit" /\ Fresh(p) /\ UNCHANGED <<source, dq>> /\ OnlyDaemon(p)
        /\ pc'[p] = "idle" /\ seenT'[p] = Len(target) + 1 /\ seenD'[p] = seenD[p]
        /\ cursor'[p] = cursor[p] /\ files'[p] = {}
        /\ target' = Append(target, BatchCommit(p))
    BY <1>3 DEF CommitBatch, Fresh, OnlyDaemon, IInv, TypeOK
  <2> QED
    BY <2>1, BatchCommitInv
<1>4. CASE CommitUnacked(p)
  <2>1. /\ pc[p] = "commit" /\ Fresh(p) /\ UNCHANGED <<source, dq>> /\ Lose(p)
        /\ target' = Append(target, BatchCommit(p))
    BY <1>4 DEF CommitUnacked, Fresh
  <2>2. OnlyDaemon(p) /\ pc'[p] = "down" /\ seenT'[p] = 0 /\ seenD'[p] = 0
    BY <2>1, LoseLocal DEF IInv
  <2> QED
    BY <2>1, <2>2, BatchCommitInv
<1> QED
  BY <1>1, <1>2, <1>3, <1>4

\* IInv is inductive, and no step moves the offset back.
LEMMA InvNext ==
    ASSUME IInv, [Next]_vars
    PROVE  IInv' /\ Stored' >= Stored
<1>0. TypeOK' /\ BatchEnds'
  BY TypeNext DEF IInv
<1>a. Stored \in Int /\ (UNCHANGED target => Stored' = Stored)
  BY ResumeType DEF IInv, Stored, None
<1>1. CASE Produce
  BY <1>0, <1>1, <1>a, ProduceInv DEF Produce
<1>2. CASE Reclaim
  BY <1>0, <1>2, <1>a, UnchangedInv DEF Reclaim
<1>3. CASE ForeignCommit
  <2>1. target \in Seq(TableCommit) /\ [txn |-> None, rows |-> {}] \in TableCommit
    BY DEF IInv, TypeOK, TableCommit
  <2>2. Stored' = Stored
    BY <1>3, <2>1, TxnVersionAppend, Appended DEF ForeignCommit, Stored
  <2> QED
    BY <1>0, <1>3, <1>a, <2>2, ForeignInv
<1>4. ASSUME NEW p \in Proc, Step(p) \/ Fault(p) PROVE IInv' /\ Stored' >= Stored
  <2>1. CASE OpenRefused(p) \/ CaughtUp(p)
    BY <1>0, <1>a, <2>1, UnchangedInv DEF OpenRefused, CaughtUp, vars, daemon
  <2>2. CASE OpenTarget(p) \/ OpenDq(p) \/ OpenDqUnreadable(p)
    BY <1>0, <1>a, <2>2, OpenInv DEF OpenTarget, OpenDq, OpenDqUnreadable, tables
  <2>3. CASE Poll(p) \/ SkipCommit(p) \/ TakeCommit(p) \/ EndBatch(p) \/ EndEmpty(p)
    BY <1>0, <1>a, <2>3, ScanInv DEF Poll, SkipCommit, TakeCommit, EndBatch, EndEmpty, tables
  <2>4. CASE SkipRejects(p)
    <3>1. UNCHANGED target
      BY <2>4 DEF SkipRejects, tables
    <3>2. IInv'
      BY <1>0, <2>4, SkipRejectsInv
    <3> QED
      BY <1>a, <3>1, <3>2
  <2>5. CASE StreamError(p) \/ RejectsFail(p) \/ CommitConflict(p) \/ Crash(p)
    <3>1. Lose(p) /\ UNCHANGED tables
      BY <2>5 DEF StreamError, RejectsFail, CommitConflict, Crash
    <3> QED
      BY <1>0, <1>a, <3>1, LoseInv DEF tables
  <2>6. CASE WriteRejects(p) \/ WriteRejectsUnacked(p) \/ CommitBatch(p) \/ CommitUnacked(p)
    BY <1>0, <2>6, CommitsInv
  <2> QED
    BY <1>4, <2>1, <2>2, <2>3, <2>4, <2>5, <2>6 DEF Step, Fault
<1>5. CASE UNCHANGED vars
  BY <1>0, <1>a, <1>5, UnchangedInv DEF vars, daemon
<1> QED
  BY <1>1, <1>2, <1>3, <1>4, <1>5 DEF Next

\* Empty tables and stopped daemons satisfy IInv.
LEMMA InvInit == Init => IInv
<1> SUFFICES ASSUME Init PROVE IInv
  OBVIOUS
<1>1. TypeOK /\ BatchEnds
  BY TypeInit
<1>2. /\ Len(target) = 0 /\ Len(dq) = 0 /\ Len(source) = 0
      /\ \A p \in Proc : pc[p] = "down" /\ seenT[p] = 0 /\ seenD[p] = 0
  BY DEF Init
<1>3. Stored = None
  BY <1>2 DEF Stored, TxnVersion
<1>4. HandlesInLog /\ TxnsInLog /\ BatchComplete /\ DqCovers /\ RejectsFirst /\ NoDoubleApply
  BY <1>2 DEF HandlesInLog, TxnsInLog, BatchComplete, DqCovers, RejectsFirst, NoDoubleApply
<1>5. \A v : ~Delivered(v) /\ ~Due(v)
  BY <1>2, <1>3, ConstantsAssumption DEF Delivered, Due, ResumeCursor
<1> QED
  BY <1>1, <1>4, <1>5, GapFreeByVersion, RejectsByVersion DEF IInv

\* The inductive invariant holds in every reachable state.
THEOREM Invariant == Spec => []IInv
<1>1. IInv /\ [Next]_vars => IInv'
  BY InvNext
<1> QED
  BY InvInit, <1>1, PTL DEF Spec

\* The target is a gap-free prefix of the source: it holds the rows of exactly
\* the versions its offset covers, for any number of daemons on the app_id,
\* any source, and any crashes and lost acknowledgements.
THEOREM TargetIsPrefix == Spec => []GapFreePrefix
<1>1. IInv => GapFreePrefix
  BY DEF IInv
<1> QED
  BY Invariant, <1>1, PTL

\* No source version is applied twice.
THEOREM AppliedOnce == Spec => []NoDoubleApply
<1>1. IInv => NoDoubleApply
  BY DEF IInv
<1> QED
  BY Invariant, <1>1, PTL

\* Once the offset covers a version, its rejects are in the data-quality table.
THEOREM RejectsKept == Spec => []RejectsNeverLost
<1>1. IInv => RejectsNeverLost
  BY DEF IInv
<1> QED
  BY Invariant, <1>1, PTL

\* No step of any daemon moves the stored offset back.
THEOREM OffsetNeverBack == Spec => OffsetMonotone
<1>1. IInv /\ [Next]_vars => [Stored' >= Stored]_vars
  BY InvNext
<1> QED
  BY Invariant, <1>1, PTL DEF Spec, OffsetMonotone

-----------------------------------------------------------------------------
(* The daemons implement the abstract pipeline of ExactlyOnce.             *)

\* The commits of log t that hold rows of source version v.
Holders(t, v) == {k \in 1 .. Len(t) : v \in t[k].rows}

\* A log of commits has finitely many holders of a version, and a commit that
\* is appended is one more exactly when it holds the version's rows.
LEMMA HoldersAppend ==
    ASSUME NEW t \in Seq(TableCommit), NEW c \in TableCommit, NEW v
    PROVE  /\ Cardinality(Holders(t, v)) \in Nat
           /\ Cardinality(Holders(Append(t, c), v)) =
                IF v \in c.rows THEN Cardinality(Holders(t, v)) + 1 ELSE Cardinality(Holders(t, v))
<1>1. /\ Len(t) \in Nat /\ Len(Append(t, c)) = Len(t) + 1
      /\ \A i \in 1 .. Len(t) : Append(t, c)[i] = t[i]
      /\ Append(t, c)[Len(t) + 1] = c
  BY Appended
<1>2. IsFiniteSet(Holders(t, v))
  <2>1. IsFiniteSet(1 .. Len(t))
    BY <1>1, FS_Interval
  <2> QED
    BY <2>1, FS_Subset DEF Holders
<1>3. Len(t) + 1 \notin Holders(t, v)
  BY <1>1 DEF Holders
<1>4. CASE v \in c.rows
  <2>1. Holders(Append(t, c), v) = Holders(t, v) \cup {Len(t) + 1}
    BY <1>1, <1>4 DEF Holders
  <2> QED
    BY <1>2, <1>3, <1>4, <2>1, FS_AddElement, FS_CardinalityType
<1>5. CASE v \notin c.rows
  <2>1. Holders(Append(t, c), v) = Holders(t, v)
    BY <1>1, <1>5 DEF Holders
  <2> QED
    BY <1>2, <1>5, <2>1, FS_CardinalityType
<1> QED
  BY <1>4, <1>5

\* Copies, version by version: it is a sequence as long as the source.
LEMMA CopiesIsSeq ==
    ASSUME TypeOK
    PROVE  /\ Copies \in Seq(Nat) /\ Len(Copies) = Len(source)
           /\ \A i \in 1 .. Len(source) : Copies[i] = Cardinality(Holders(target, i - 1))
<1>1. Len(source) \in Nat /\ target \in Seq(TableCommit)
  BY DEF TypeOK
<1>2. [txn |-> None, rows |-> {}] \in TableCommit
  BY DEF TableCommit
<1>3. \A v : Cardinality(Holders(target, v)) \in Nat
  BY <1>1, <1>2, HoldersAppend
<1>4. Copies = [i \in 1 .. Len(source) |-> Cardinality(Holders(target, i - 1))]
  BY DEF Copies, Holders
<1>5. Copies \in [1 .. Len(source) -> Nat]
  BY <1>3, <1>4
<1> QED
  BY <1>1, <1>4, <1>5

\* The same in the next state.
LEMMA CopiesIsSeqNext ==
    ASSUME TypeOK'
    PROVE  /\ Copies' \in Seq(Nat) /\ Len(Copies') = Len(source')
           /\ \A i \in 1 .. Len(source') : Copies'[i] = Cardinality(Holders(target', i - 1))
<1>1. Len(source') \in Nat /\ target' \in Seq(TableCommit)
  BY DEF TypeOK
<1>2. [txn |-> None, rows |-> {}] \in TableCommit
  BY DEF TableCommit
<1>3. \A v : Cardinality(Holders(target', v)) \in Nat
  BY <1>1, <1>2, HoldersAppend
<1>4. Copies' = [i \in 1 .. Len(source') |-> Cardinality(Holders(target', i - 1))]
  BY DEF Copies, Holders
<1>5. Copies' \in [1 .. Len(source') -> Nat]
  BY <1>3, <1>4
<1> QED
  BY <1>1, <1>4, <1>5

\* What ExactlyOnce sees of the data-quality table.
Rejects == UNION {dq[k].rows : k \in 1 .. Len(dq)}

\* Nothing published, nothing delivered.
LEMMA RefinesInit == Init => EO!Init
<1> SUFFICES ASSUME Init PROVE EO!Init
  OBVIOUS
<1>1. TypeOK
  BY TypeInit
<1>2. Len(target) = 0 /\ Len(dq) = 0 /\ Len(source) = 0 /\ source = << >>
  BY DEF Init
<1>3. Stored = None
  BY <1>2 DEF Stored, TxnVersion
<1>4. ResumeCursor(Stored) = StartingVersion
  BY <1>3 DEF ResumeCursor
<1>5. Copies = << >>
  BY <1>1, <1>2, CopiesIsSeq, EmptySeq
<1>6. Rejects = {}
  BY <1>2 DEF Rejects
<1> QED
  BY <1>2, <1>4, <1>5, <1>6 DEF EO!Init, Rejects

\* A source commit is published; no commit of the target can hold its rows yet.
LEMMA RefinesPublish ==
    ASSUME IInv, TypeOK', Produce
    PROVE  EO!Next
<1>1. PICK c \in Commits : source' = Append(source, c)
  BY DEF Produce
<1>2. UNCHANGED <<target, dq>> /\ Stored' = Stored
  BY DEF Produce, Stored
<1>3. /\ source \in Seq(Commits) /\ Len(source) \in Nat /\ Len(source') = Len(source) + 1
  BY <1>1 DEF IInv, TypeOK
<1>4. Cardinality(Holders(target, Len(source))) = 0
  <2>1. ~Delivered(Len(source))
    BY <1>3, GapFreeByVersion DEF IInv, Due
  <2>2. Holders(target, Len(source)) = {}
    BY <2>1 DEF Delivered, Holders
  <2> QED
    BY <2>2, FS_EmptySet
<1>5. Copies' = Append(Copies, 0)
  <2>1. /\ Copies \in Seq(Nat) /\ Len(Copies) = Len(source)
        /\ \A i \in 1 .. Len(source) : Copies[i] = Cardinality(Holders(target, i - 1))
    BY CopiesIsSeq DEF IInv
  <2>2. /\ Copies' \in Seq(Nat) /\ Len(Copies') = Len(source) + 1
        /\ \A i \in 1 .. Len(source) + 1 : Copies'[i] = Cardinality(Holders(target, i - 1))
    BY <1>2, <1>3, CopiesIsSeqNext
  <2>3. /\ Append(Copies, 0) \in Seq(Nat) /\ Len(Append(Copies, 0)) = Len(source) + 1
        /\ \A i \in 1 .. Len(source) : Append(Copies, 0)[i] = Copies[i]
        /\ Append(Copies, 0)[Len(source) + 1] = 0
    BY <2>1
  <2>4. \A i \in 1 .. Len(source) + 1 : Copies'[i] = Append(Copies, 0)[i]
    BY <1>3, <1>4, <2>1, <2>2, <2>3
  <2> QED
    BY <2>2, <2>3, <2>4, SeqEqual
<1>6. EO!Publish(c)
  BY <1>1, <1>2, <1>5 DEF EO!Publish, ResumeCursor
<1> QED
  BY <1>6 DEF EO!Next

\* Rejects reach the data-quality table.
LEMMA RefinesRecord ==
    ASSUME IInv, NEW p \in Proc, pc[p] = "batch",
           dq' = Append(dq, RejectCommit(p)), UNCHANGED <<source, target>>
    PROVE  EO!Next
<1>1. UNCHANGED <<Stored, Copies>>
  BY DEF Stored, Copies
<1>2. /\ dq \in Seq(TableCommit) /\ Len(dq) \in Nat /\ Len(source) \in Nat
      /\ cursor[p] \in Nat /\ files[p] \subseteq Nat
  BY DEF IInv, TypeOK
<1>3. Bad(files[p]) \in SUBSET (0 .. Len(source) - 1)
  <2>1. \A v \in files[p] : v < Len(source)
    BY DEF IInv, BatchComplete, Complete
  <2> QED
    BY <1>2, <2>1 DEF Bad
<1>4. RejectCommit(p) \in TableCommit
  <2>1. cursor[p] > 0
    BY DEF IInv, BatchEnds
  <2> QED
    BY <1>2, <1>3, <2>1 DEF RejectCommit, TxnVersionFor, TableCommit
<1>5. Rejects' = Rejects \cup Bad(files[p])
  <2>1. /\ Len(dq') = Len(dq) + 1
        /\ \A i \in 1 .. Len(dq) : dq'[i] = dq[i]
        /\ dq'[Len(dq) + 1].rows = Bad(files[p])
    BY <1>2, <1>4, Appended DEF RejectCommit
  <2>2. \A v : v \in Rejects' <=> \E k \in 1 .. Len(dq) + 1 : v \in dq'[k].rows
    BY <2>1 DEF Rejects
  <2>3. \A v : v \in Rejects <=> \E k \in 1 .. Len(dq) : v \in dq[k].rows
    BY DEF Rejects
  <2> QED
    BY <1>2, <2>1, <2>2, <2>3
<1>6. PICK vs : vs = Bad(files[p])
  OBVIOUS
<1>7. EO!Record(vs)
  BY <1>1, <1>5, <1>6 DEF EO!Record, Rejects, ResumeCursor
<1> QED
  BY <1>3, <1>6, <1>7 DEF EO!Next

\* A batch commits: its versions are delivered, one copy each, and the offset
\* with them.  The rejects among them are recorded already.
LEMMA RefinesDeliver ==
    ASSUME IInv, TypeOK', NEW p \in Proc, pc[p] = "commit", Fresh(p),
           target' = Append(target, BatchCommit(p)), UNCHANGED <<source, dq>>
    PROVE  EO!Next
<1> DEFINE c == BatchCommit(p)
<1> DEFINE R == ResumeCursor(Stored)
<1> DEFINE e == cursor[p] - 1
<1> DEFINE TakesRow == {x \in Commits : Emits(x) /\ x.good}
<1> DEFINE HasReject == {x \in Commits : Emits(x) /\ x.bad}
<1>0. /\ Complete(p) /\ End(p) = cursor[p] /\ files[p] # {}
      /\ cursor[p] \in Nat /\ files[p] \subseteq Nat
      /\ Len(source) \in Nat /\ source \in Seq(Commits) /\ target \in Seq(TableCommit)
      /\ StartingVersion \in Nat
  <2>1. Complete(p)
    BY DEF IInv, BatchComplete
  <2>2. /\ cursor[p] \in Nat /\ files[p] \subseteq Nat
        /\ source \in Seq(Commits) /\ target \in Seq(TableCommit)
    BY DEF IInv, TypeOK
  <2> QED
    BY <2>1, <2>2, ConstantsAssumption DEF Complete, End
<1>a. R \in Nat /\ R >= StartingVersion
  BY StoredInLog DEF IInv, ResumeCursor
<1>b. \A v : v \in files[p] <=> /\ v \in R .. e
                                /\ v < Len(source) /\ Emits(Commit(v))
  BY <1>0, <1>a DEF Complete
<1>c. R =< e /\ e =< Len(source) - 1
  <2>1. PICK v : v \in files[p]
    BY <1>0
  <2> QED
    BY <1>0, <1>a, <1>b, <2>1 DEF Complete
<1>d. c \in TableCommit /\ c.txn = e /\ c.txn # None /\ c.rows = {v \in files[p] : Commit(v).good}
  BY <1>0, <1>a, <1>c DEF BatchCommit, TxnVersionFor, Good, TableCommit, None
<1>1. ResumeCursor(Stored)' = e + 1
  <2>1. Len(target') = Len(target) + 1 /\ Stored' = c.txn
    BY <1>0, <1>d, TxnVersionAppend, Appended DEF Stored
  <2> QED
    BY <1>d, <2>1 DEF ResumeCursor
<1>2. {v \in R .. e : source[v + 1] \in HasReject} \subseteq Rejects
  <2> SUFFICES ASSUME NEW v \in R .. e, source[v + 1] \in HasReject PROVE v \in Rejects
    OBVIOUS
  <2>0. v < Len(source) /\ Emits(Commit(v)) /\ Commit(v).bad
    BY <1>0, <1>a, <1>c DEF Commit
  <2>1. v \in files[p] /\ Commit(v).bad
    BY <1>b, <2>0
  <2>2. IsRecorded(v)
    BY <2>1 DEF IInv, RejectsFirst
  <2> QED
    BY <2>2 DEF IsRecorded, Rejects
<1>3. \A i \in 1 .. Len(source) :
         i - 1 \in c.rows <=> i - 1 \in R .. e /\ source[i] \in TakesRow
  <2> SUFFICES ASSUME NEW i \in 1 .. Len(source)
               PROVE  i - 1 \in c.rows <=> i - 1 \in R .. e /\ source[i] \in TakesRow
    OBVIOUS
  <2>1. Commit(i - 1) = source[i] /\ source[i] \in Commits
    BY <1>0 DEF Commit
  <2>2. i - 1 \in c.rows <=> i - 1 \in files[p] /\ source[i].good
    BY <1>d, <2>1
  <2>3. i - 1 \in files[p] <=> i - 1 \in R .. e /\ Emits(source[i])
    <3> HIDE DEF c, R, e, TakesRow
    <3> QED
      BY <1>0, <1>b, <2>1
  <2>4. source[i] \in TakesRow <=> Emits(source[i]) /\ source[i].good
    BY <2>1
  <2> HIDE DEF c, R, e, TakesRow
  <2> QED
    BY <2>2, <2>3, <2>4
<1>4. Copies' = [i \in 1 .. Len(source) |->
                   IF i - 1 \in R .. e /\ source[i] \in TakesRow THEN Copies[i] + 1 ELSE Copies[i]]
  <2>1. \A i \in 1 .. Len(source) : Copies[i] = Cardinality(Holders(target, i - 1))
    BY CopiesIsSeq DEF IInv
  <2>2. \A i \in 1 .. Len(source) : Cardinality(Holders(target', i - 1)) =
           IF i - 1 \in c.rows THEN Copies[i] + 1 ELSE Copies[i]
    BY SMTT(20), <1>0, <1>d, <2>1, HoldersAppend
  <2>3. Copies' = [i \in 1 .. Len(source) |-> Cardinality(Holders(target', i - 1))]
    BY DEF Copies, Holders
  <2> HIDE DEF c, R, e, TakesRow
  <2> QED
    BY <1>3, <2>2, <2>3
<1>5. EO!Deliver(e)
  BY <1>1, <1>2, <1>4 DEF EO!Deliver, Rejects
<1>6. e \in R .. Len(source) - 1
  BY <1>0, <1>a, <1>c
<1> QED
  BY <1>5, <1>6 DEF EO!Next

\* A step that writes no table, and another writer's commit, are stutters.
LEMMA RefinesStutter ==
    ASSUME UNCHANGED <<source, target, dq>>
    PROVE  UNCHANGED EO!vars
BY DEF EO!vars, Copies, Stored

\* Another writer's commit to the target is one too: it has none of our rows.
LEMMA RefinesForeign ==
    ASSUME IInv, TypeOK', ForeignCommit
    PROVE  UNCHANGED EO!vars
<1> DEFINE c == [txn |-> None, rows |-> {}]
<1>1. target \in Seq(TableCommit) /\ c \in TableCommit
  BY DEF IInv, TypeOK, TableCommit
<1>2. target' = Append(target, c) /\ UNCHANGED <<source, dq>>
  BY DEF ForeignCommit
<1>3. Stored' = Stored
  BY <1>1, <1>2, TxnVersionAppend, Appended DEF Stored
<1>4. Copies' = Copies
  <2>1. \A v : Cardinality(Holders(target', v)) = Cardinality(Holders(target, v))
    BY <1>1, <1>2, HoldersAppend
  <2>2. /\ Copies' = [i \in 1 .. Len(source) |-> Cardinality(Holders(target', i - 1))]
        /\ Copies = [i \in 1 .. Len(source) |-> Cardinality(Holders(target, i - 1))]
    BY <1>2 DEF Copies, Holders
  <2> QED
    BY <2>1, <2>2
<1> QED
  BY <1>2, <1>3, <1>4 DEF EO!vars, ResumeCursor

\* Every step of the daemons is a step or a stutter of the abstract pipeline.
LEMMA RefinesNext ==
    ASSUME IInv, [Next]_vars
    PROVE  [EO!Next]_(EO!vars)
<1>0. TypeOK'
  BY TypeNext DEF IInv
<1>1. CASE Produce
  BY <1>0, <1>1, RefinesPublish
<1>2. CASE ForeignCommit
  BY <1>0, <1>2, RefinesForeign
<1>3. ASSUME NEW p \in Proc, WriteRejects(p) \/ WriteRejectsUnacked(p) PROVE EO!Next
  BY <1>3, RefinesRecord DEF WriteRejects, WriteRejectsUnacked, MustWriteRejects
<1>4. ASSUME NEW p \in Proc, CommitBatch(p) \/ CommitUnacked(p) PROVE EO!Next
  BY <1>0, <1>4, RefinesDeliver DEF CommitBatch, CommitUnacked, Fresh
<1>5. ASSUME NEW p \in Proc, Step(p) \/ Fault(p),
             ~(WriteRejects(p) \/ WriteRejectsUnacked(p) \/ CommitBatch(p) \/ CommitUnacked(p))
      PROVE  UNCHANGED <<source, target, dq>>
  BY <1>5 DEF Step, Fault, OpenRefused, OpenTarget, OpenDq, CaughtUp, Poll, SkipCommit, TakeCommit,
     EndBatch, EndEmpty, StreamError, SkipRejects, RejectsFail, CommitConflict, Crash,
     OpenDqUnreadable, tables, vars
<1>6. CASE Reclaim \/ UNCHANGED vars
  <2>1. UNCHANGED <<source, target, dq>>
    BY <1>6 DEF Reclaim, vars
  <2> QED
    BY <2>1, RefinesStutter
<1> QED
  BY <1>1, <1>2, <1>3, <1>4, <1>5, <1>6, RefinesStutter DEF Next

\* The daemons, with every crash, conflict and lost acknowledgement, implement
\* the abstract exactly-once pipeline: rows and offset move in one step, each
\* version once, and never before its rejects are recorded.
THEOREM DaemonsAreExactlyOnce == Spec => Implements
<1>1. IInv /\ [Next]_vars => [EO!Next]_(EO!vars)
  BY RefinesNext
<1> QED
  BY RefinesInit, Invariant, <1>1, PTL DEF Spec, Implements, EO!Spec
=============================================================================
