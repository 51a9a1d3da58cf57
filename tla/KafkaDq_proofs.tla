--------------------------- MODULE KafkaDq_proofs ---------------------------
(***************************************************************************)
(* Proofs about the tables a pipeline writes beside others: KafkaDq, and   *)
(* with it TargetGuard, TableOpen and Compaction, which share lemmas about *)
(* logs and are instantiated below it.                                     *)
(*                                                                         *)
(* KafkaDq, for any group, any number of batches, retries, faults and      *)
(* commits of other engines: a reject the target has passed is in the      *)
(* data-quality table, and a snapshot reader sees it once unless the       *)
(* duplicate is announced.                                                 *)
(***************************************************************************)
EXTENDS KafkaDq, FiniteSetTheorems, NaturalsInduction, WellFoundedInduction, TLAPS

\* The files writers add, and what a compaction turns one into.
Base == Members \X Nat \X Nat \X Nat
Again(f) == Append(f, "again")
Files == Base \cup {Again(f) : f \in Base}

Entry == [kind : {"append", "change", "compact"}, id : {<<>>} \cup (Members \X Nat),
          add : SUBSET Files, remove : SUBSET Files]

-----------------------------------------------------------------------------
(* The inductive invariant.                                                *)

\* Each variable has its type.
Typed ==
    /\ log \in Seq(Entry) /\ floor \in Nat
    /\ pc \in [Members -> {"ready", "write", "lost", "conflict", "ambiguous", "search", "recorded"}]
    /\ why \in [Members -> {"conflict", "ambiguous"}]
    /\ batch \in [Members -> Nat] /\ call \in [Members -> Nat] /\ retries \in [Members -> 0 .. Retries]
    /\ handle \in [Members -> Nat] /\ read \in [Members -> Nat]
    /\ excused \subseteq Members \X Nat

\* A commit is one of a writer, which adds the file its id is of; a compaction of one
\* file; or none of either.
IsWrite(e, f) == f \in Base /\ e.id = <<f[1], f[3]>> /\ e.add = {f} /\ e.remove = {}
IsCompaction(e, f) == f \in Base /\ e.id = <<>> /\ e.add = {Again(f)} /\ e.remove = {f}
IsChange(e) == e.id = <<>> /\ e.add = {} /\ e.remove = {}

CommitsOK ==
    \A v \in DOMAIN log :
      \/ \E f \in Base : IsWrite(log[v], f) \/ IsCompaction(log[v], f)
      \/ IsChange(log[v])

\* The commit v of the log l is the last one about the file f.
IsLast(l, v, f) ==
    /\ v \in DOMAIN l /\ f \in l[v].add \cup l[v].remove
    /\ \A w \in DOMAIN l : w > v => f \notin l[w].add \cup l[w].remove

\* There is one for each file a commit is about.
HasLasts(l) ==
    \A v \in DOMAIN l : \A f \in l[v].add \cup l[v].remove : \E w \in DOMAIN l : IsLast(l, w, f)

\* The commit v of a writer added f.
Wrote(v, f) == v \in DOMAIN log /\ f \in Base /\ f \in log[v].add

\* What a compaction wrote again was written before.
AgainOK == \A v \in DOMAIN log : \A f \in Base : Again(f) \in log[v].add => \E w \in DOMAIN log : Wrote(w, f)

\* A batch of which a file was ever added has rows.
Kept == \A v \in DOMAIN log : \A f \in log[v].add : \E g \in Active(log) : g[1] = f[1] /\ g[2] = f[2]

LogOK == CommitsOK /\ HasLasts(log) /\ AgainOK /\ Kept

\* A file was written of the batch b of m.
Written(m, b) == \E v \in DOMAIN log : \E f \in log[v].add : f[1] = m /\ f[2] = b

\* The write id of a call is on files of its batch only, and a call that has not tried
\* yet has none.
CallsOK(m) ==
    /\ \A v \in DOMAIN log : \A f \in Base : Wrote(v, f) /\ f[1] = m =>
         /\ f[3] <= call[m] /\ f[2] <= batch[m]
         /\ pc[m] # "ready" /\ f[3] = call[m] => f[2] = batch[m]
         /\ pc[m] = "write" /\ retries[m] = 0 => f[3] # call[m]
    /\ pc[m] # "ready" => call[m] >= 1

\* What the target has passed was written.
Passed(m) ==
    \A b \in Nat : 1 <= b /\ (b < batch[m] \/ (b = batch[m] /\ pc[m] = "recorded")) => Written(m, b)

\* Of a batch whose duplicate is not announced nothing was written before the attempt
\* under way, which is looked for where it would be.
Fresh(m) ==
    <<m, batch[m]>> \notin excused =>
      \A v \in DOMAIN log : \A f \in Base : Wrote(v, f) /\ f[1] = m /\ f[2] = batch[m] =>
        /\ pc[m] \notin {"ready", "write"}
        /\ f = File(m)
        /\ pc[m] # "recorded" => v > read[m]

Looking(m) ==
    /\ pc[m] = "lost" => read[m] = handle[m]
    /\ handle[m] <= Len(log) /\ read[m] <= Len(log)
    /\ pc[m] = "search" =>
         \A v \in DOMAIN log : \A f \in Base : Wrote(v, f) /\ f[1] = m => v <= handle[m]

MemberOK(m) == CallsOK(m) /\ Passed(m) /\ Fresh(m) /\ Looking(m)

\* One file was written of a batch whose duplicate is not announced, and it is in the
\* snapshot as it was written or as a compaction left it.
OneFile ==
    \A v, w \in DOMAIN log : \A f, g \in Base :
      Wrote(v, f) /\ Wrote(w, g) /\ f[1] = g[1] /\ f[2] = g[2] /\ <<f[1], f[2]>> \notin excused => f = g

OneForm ==
    \A f \in Base : <<f[1], f[2]>> \notin excused => f \notin Active(log) \/ Again(f) \notin Active(log)

\* The inductive invariant.
IInv ==
    /\ Typed /\ LogOK
    /\ \A m \in Members : MemberOK(m)
    /\ OneFile /\ OneForm

-----------------------------------------------------------------------------
(* Files and the log.                                                      *)

\* A sequence with one more element.
LEMMA OneMore ==
    ASSUME NEW S, NEW s \in Seq(S), NEW e \in S
    PROVE  Len(Append(s, e)) = Len(s) + 1 /\ \A i \in 1 .. Len(s) : Append(s, e)[i] = s[i]
OBVIOUS

\* A file written again is of the batch it was of, and another.
LEMMA AgainIs ==
    ASSUME NEW f \in Base
    PROVE  /\ f = <<f[1], f[2], f[3], f[4]>>
           /\ f[1] \in Members /\ f[2] \in Nat /\ f[3] \in Nat /\ f[4] \in Nat
           /\ Again(f)[1] = f[1] /\ Again(f)[2] = f[2] /\ Again(f)[3] = f[3] /\ Again(f)[4] = f[4]
           /\ Len(f) = 4 /\ Len(Again(f)) = 5 /\ Again(f) \notin Base
<1> DEFINE S == Members \cup Nat \cup {"again"}
<1>1. /\ f = <<f[1], f[2], f[3], f[4]>>
      /\ f[1] \in Members /\ f[2] \in Nat /\ f[3] \in Nat /\ f[4] \in Nat
  BY DEF Base
<1>2. \A a, b, c, d \in S : <<a, b, c, d>> \in Seq(S) /\ Len(<<a, b, c, d>>) = 4
  OBVIOUS
<1>3. f \in Seq(S) /\ Len(f) = 4
  BY <1>1, <1>2
<1>4. "again" \in S
  OBVIOUS
<1> HIDE DEF S
<1>5. /\ \A i \in 1 .. 4 : Again(f)[i] = f[i]
      /\ Len(Again(f)) = 5
  <2>1. Len(Again(f)) = Len(f) + 1 /\ \A i \in 1 .. Len(f) : Again(f)[i] = f[i]
    BY <1>3, <1>4, OneMore DEF Again
  <2> QED
    BY <1>3, <2>1
<1>6. \A g \in Base : Len(g) = 4
  <2> SUFFICES ASSUME NEW g \in Base PROVE Len(g) = 4
    OBVIOUS
  <2>1. /\ g = <<g[1], g[2], g[3], g[4]>>
        /\ g[1] \in Members /\ g[2] \in Nat /\ g[3] \in Nat /\ g[4] \in Nat
    BY DEF Base
  <2> QED
    BY <1>2, <2>1 DEF S
<1>7. Again(f)[1] = f[1] /\ Again(f)[2] = f[2] /\ Again(f)[3] = f[3] /\ Again(f)[4] = f[4]
  BY <1>5
<1>8. Again(f) \notin Base
  BY <1>5, <1>6
<1> QED
  BY <1>1, <1>3, <1>5, <1>7, <1>8

\* Only one file becomes the one a compaction wrote.
LEMMA AgainIsOfOne ==
    ASSUME NEW f \in Base, NEW g \in Base, Again(f) = Again(g)
    PROVE  f = g
BY AgainIs

\* A log with one more commit.
LEMMA Longer ==
    ASSUME NEW l \in Seq(Entry), NEW e \in Entry
    PROVE  /\ Append(l, e) \in Seq(Entry) /\ Len(l) \in Nat
           /\ DOMAIN l = 1 .. Len(l) /\ DOMAIN Append(l, e) = 1 .. Len(l) + 1
           /\ Len(Append(l, e)) = Len(l) + 1
           /\ \A v \in DOMAIN Append(l, e) : v \in DOMAIN l \/ v = Len(l) + 1
           /\ Append(l, e)[Len(l) + 1] = e
           /\ \A v \in DOMAIN l : /\ v \in DOMAIN Append(l, e) /\ Append(l, e)[v] = l[v]
                                  /\ v \in Nat /\ v < Len(l) + 1
           /\ Len(l) + 1 \in DOMAIN Append(l, e)
<1>1. /\ Append(l, e) \in Seq(Entry) /\ Len(l) \in Nat /\ Len(Append(l, e)) = Len(l) + 1
      /\ Append(l, e)[Len(l) + 1] = e /\ \A v \in 1 .. Len(l) : Append(l, e)[v] = l[v]
  OBVIOUS
<1>2. DOMAIN l = 1 .. Len(l) /\ DOMAIN Append(l, e) = 1 .. Len(l) + 1
  BY <1>1
<1> QED
  BY <1>1, <1>2

\* A file is in the snapshot if the last commit about it added it.
LEMMA ActiveIs ==
    ASSUME NEW l \in Seq(Entry), HasLasts(l), NEW f
    PROVE  f \in Active(l) <=> \E v \in DOMAIN l : IsLast(l, v, f) /\ f \in l[v].add
<1> DEFINE P(v) == /\ v \in DOMAIN l
                   /\ f \in l[v].add \cup l[v].remove
                   /\ \A w \in DOMAIN l : w > v => f \notin l[w].add \cup l[w].remove
<1> DEFINE last == CHOOSE v \in DOMAIN l :
                     /\ f \in l[v].add \cup l[v].remove
                     /\ \A w \in DOMAIN l : w > v => f \notin l[w].add \cup l[w].remove
<1>0. DOMAIN l = 1 .. Len(l) /\ Len(l) \in Nat
  OBVIOUS
<1>1. \A v : IsLast(l, v, f) <=> P(v)
  BY DEF IsLast
<1>2. \A v, w : P(v) /\ P(w) => v = w
  BY <1>0
<1>3. \A v : P(v) => last = v
  <2> SUFFICES ASSUME NEW v, P(v) PROVE last = v
    OBVIOUS
  <2>1. P(last)
    OBVIOUS
  <2> QED
    BY <1>2, <2>1
<1>4. f \in Active(l) <=> (\E u \in DOMAIN l : f \in l[u].add) /\ f \in l[last].add
  BY DEF Active
<1>5. ASSUME NEW u \in DOMAIN l, f \in l[u].add
      PROVE  \E v \in DOMAIN l : P(v)
  BY <1>1, <1>5 DEF HasLasts
<1> HIDE DEF last
<1>6. ASSUME f \in Active(l)
      PROVE  \E v \in DOMAIN l : P(v) /\ f \in l[v].add
  BY <1>3, <1>4, <1>5, <1>6
<1>7. ASSUME NEW v \in DOMAIN l, P(v), f \in l[v].add
      PROVE  f \in Active(l)
  BY <1>3, <1>4, <1>7
<1> QED
  BY <1>1, <1>6, <1>7

\* What one more commit does to the snapshot.
LEMMA ActiveAfter ==
    ASSUME NEW l \in Seq(Entry), HasLasts(l), NEW e \in Entry
    PROVE  /\ HasLasts(Append(l, e))
           /\ Active(Append(l, e)) = (Active(l) \ e.remove) \cup e.add
<1> DEFINE m == Append(l, e)  n == Len(l) + 1
<1>1. /\ m \in Seq(Entry) /\ n \in DOMAIN m /\ m[n] = e
      /\ \A v \in DOMAIN m : v \in DOMAIN l \/ v = n
      /\ \A v \in DOMAIN l : v \in DOMAIN m /\ m[v] = l[v] /\ v \in Nat /\ v < n
      /\ n \in Nat
  BY Longer
<1> HIDE DEF m, n
<1>2. \A f \in e.add \cup e.remove : IsLast(m, n, f)
  BY <1>1 DEF IsLast
<1>3. ASSUME NEW f, f \notin e.add \cup e.remove, NEW v
      PROVE  IsLast(m, v, f) <=> IsLast(l, v, f)
  BY <1>1, <1>3 DEF IsLast
<1>4. HasLasts(m)
  <2> SUFFICES ASSUME NEW v \in DOMAIN m, NEW f \in m[v].add \cup m[v].remove
               PROVE  \E w \in DOMAIN m : IsLast(m, w, f)
    BY DEF HasLasts
  <2>1. CASE f \in e.add \cup e.remove
    BY <1>1, <1>2, <2>1
  <2>2. CASE f \notin e.add \cup e.remove
    <3>1. v \in DOMAIN l /\ f \in l[v].add \cup l[v].remove
      BY <1>1, <2>2
    <3>2. PICK w \in DOMAIN l : IsLast(l, w, f)
      BY <3>1 DEF HasLasts
    <3> QED
      BY <1>1, <1>3, <2>2, <3>2
  <2> QED
    BY <2>1, <2>2
<1>5. ASSUME NEW f
      PROVE  f \in Active(m) <=> f \in (Active(l) \ e.remove) \cup e.add
  <2>1. CASE f \in e.add
    BY <1>1, <1>2, <1>4, <2>1, ActiveIs
  <2>2. CASE f \in e.remove /\ f \notin e.add
    <3>1. \A v \in DOMAIN m : IsLast(m, v, f) => v = n
      <4> SUFFICES ASSUME NEW v \in DOMAIN m, IsLast(m, v, f), v # n PROVE FALSE
        OBVIOUS
      <4>1. v < n /\ v \in Nat
        BY <1>1
      <4> QED
        BY <1>1, <2>2, <4>1 DEF IsLast
    <3> QED
      BY <1>1, <1>4, <2>2, <3>1, ActiveIs
  <2>3. CASE f \notin e.add \cup e.remove
    <3>1. (\E v \in DOMAIN m : IsLast(m, v, f) /\ f \in m[v].add)
            <=> (\E v \in DOMAIN l : IsLast(l, v, f) /\ f \in l[v].add)
      BY <1>1, <1>3, <2>3
    <3> QED
      BY <1>1, <1>4, <2>3, <3>1, ActiveIs
  <2> QED
    BY <2>1, <2>2, <2>3
<1>6. Active(m) = (Active(l) \ e.remove) \cup e.add
  BY <1>5
<1> QED
  BY <1>4, <1>6 DEF m

-----------------------------------------------------------------------------
(* What a commit changes.                                                  *)

\* A commit of a writer, of a compaction of a file that is there, or of a change.
IsCommit(e) ==
    /\ e \in Entry
    /\ \/ \E f \in Base : IsWrite(e, f)
       \/ \E f \in Base : IsCompaction(e, f) /\ f \in Active(log)
       \/ IsChange(e)

\* The log after a commit.
LEMMA LogAfter ==
    ASSUME Typed, LogOK, NEW e, IsCommit(e), log' = Append(log, e)
    PROVE  /\ LogOK' /\ log' \in Seq(Entry) /\ Len(log') = Len(log) + 1
           /\ Active(log') = (Active(log) \ e.remove) \cup e.add
           /\ \A v \in DOMAIN log : v \in DOMAIN log' /\ log'[v] = log[v]
           /\ Len(log) + 1 \in DOMAIN log' /\ log'[Len(log) + 1] = e
           /\ \A v : \A g \in Base : Wrote(v, g)' <=> Wrote(v, g) \/ (v = Len(log) + 1 /\ IsWrite(e, g))
<1>1. log \in Seq(Entry) /\ e \in Entry /\ HasLasts(log)
  BY DEF Typed, IsCommit, LogOK
<1>2. /\ log' \in Seq(Entry) /\ Len(log') = Len(log) + 1 /\ Len(log) + 1 \in DOMAIN log'
      /\ log'[Len(log) + 1] = e
      /\ \A v \in DOMAIN log' : v \in DOMAIN log \/ v = Len(log) + 1
      /\ \A v \in DOMAIN log : /\ v \in DOMAIN log' /\ log'[v] = log[v]
                               /\ v \in Nat /\ v < Len(log) + 1
  BY <1>1, Longer
<1>3. HasLasts(log') /\ Active(log') = (Active(log) \ e.remove) \cup e.add
  BY <1>1, ActiveAfter
<1>4. \A g \in Base : g \in e.add <=> IsWrite(e, g)
  <2>1. ASSUME NEW f \in Base, IsCompaction(e, f), NEW g \in Base
        PROVE  g \notin e.add /\ ~IsWrite(e, g)
    <3>1. e.add = {Again(f)} /\ Again(f) \notin Base
      BY <2>1, AgainIs DEF IsCompaction
    <3> QED
      BY <3>1 DEF IsWrite
  <2>2. ASSUME NEW f \in Base, IsWrite(e, f), NEW g \in Base
        PROVE  g \in e.add <=> IsWrite(e, g)
    BY <2>2 DEF IsWrite
  <2>3. IsChange(e) => \A g \in Base : g \notin e.add /\ ~IsWrite(e, g)
    BY DEF IsChange, IsWrite
  <2> QED
    BY <2>1, <2>2, <2>3 DEF IsCommit
<1>5. \A v : \A g \in Base : Wrote(v, g)' <=> Wrote(v, g) \/ (v = Len(log) + 1 /\ IsWrite(e, g))
  BY <1>2, <1>4 DEF Wrote
<1>6. CommitsOK'
  <2>1. \/ \E f \in Base : IsWrite(e, f) \/ IsCompaction(e, f)
        \/ IsChange(e)
    BY DEF IsCommit
  <2> QED
    BY <1>2, <2>1 DEF CommitsOK, LogOK
<1>7. AgainOK'
  <2> SUFFICES ASSUME NEW v \in DOMAIN log', NEW f \in Base, Again(f) \in log'[v].add
               PROVE  \E w \in DOMAIN log' : Wrote(w, f)'
    BY DEF AgainOK
  <2>1. CASE v \in DOMAIN log
    <3>1. PICK w \in DOMAIN log : Wrote(w, f)
      BY <1>2, <2>1 DEF LogOK, AgainOK
    <3> QED
      BY <1>2, <1>5, <3>1
  <2>2. CASE v = Len(log) + 1
    <3>1. Again(f) \in e.add
      BY <1>2, <2>2
    <3>2. PICK h \in Base : IsCompaction(e, h) /\ h \in Active(log)
      BY <3>1, AgainIs DEF IsCommit, IsWrite, IsChange
    <3>3. h = f
      BY <3>1, <3>2, AgainIsOfOne DEF IsCompaction
    <3>4. PICK w \in DOMAIN log : f \in log[w].add
      BY <1>1, <3>2, <3>3, ActiveIs
    <3> QED
      BY <1>2, <1>5, <3>4 DEF Wrote
  <2> QED
    BY <1>2, <2>1, <2>2
<1>8. Kept'
  <2> SUFFICES ASSUME NEW v \in DOMAIN log', NEW f \in log'[v].add
               PROVE  \E g \in Active(log') : g[1] = f[1] /\ g[2] = f[2]
    BY DEF Kept
  <2>1. CASE v \in DOMAIN log
    <3>1. PICK g \in Active(log) : g[1] = f[1] /\ g[2] = f[2]
      BY <1>2, <2>1 DEF LogOK, Kept
    <3>2. CASE g \notin e.remove
      BY <1>3, <3>1, <3>2
    <3>3. CASE g \in e.remove
      <4>1. g \in Base /\ IsCompaction(e, g)
        BY <3>3 DEF IsCommit, IsWrite, IsCompaction, IsChange
      <4>2. Again(g) \in Active(log')
        BY <1>3, <4>1 DEF IsCompaction
      <4>3. Again(g)[1] = g[1] /\ Again(g)[2] = g[2]
        BY <4>1, AgainIs
      <4> QED
        BY <3>1, <4>2, <4>3
    <3> QED
      BY <3>2, <3>3
  <2>2. CASE v = Len(log) + 1
    BY <1>2, <1>3, <2>2
  <2> QED
    BY <1>2, <2>1, <2>2
<1> QED
  BY <1>2, <1>3, <1>5, <1>6, <1>7, <1>8 DEF LogOK

\* Nothing is written of d, and what was is still there.
NothingOf(d) ==
    /\ \A v : \A g \in Base : Wrote(v, g)' /\ g[1] = d => Wrote(v, g)
    /\ \A b : Written(d, b) => Written(d, b)'
    /\ Len(log) <= Len(log')

\* A step of another member or engine, as the member d sees it.
Apart(d) ==
    /\ NothingOf(d)
    /\ pc'[d] = pc[d] /\ batch'[d] = batch[d] /\ call'[d] = call[d] /\ retries'[d] = retries[d]
    /\ handle'[d] = handle[d] /\ read'[d] = read[d]
    /\ \A b : <<d, b>> \in excused => <<d, b>> \in excused'

\* Such a step keeps what holds of the member.
LEMMA ApartKeeps ==
    ASSUME Typed, Typed', NEW d \in Members, MemberOK(d), Apart(d)
    PROVE  MemberOK(d)'
<1>1. \A v : \A g \in Base : Wrote(v, g)' /\ g[1] = d => Wrote(v, g) /\ v \in DOMAIN log
  BY DEF Apart, NothingOf, Wrote
<1>2. CallsOK(d)'
  BY <1>1 DEF Apart, MemberOK, CallsOK
<1>3. Passed(d)'
  BY DEF Apart, NothingOf, MemberOK, Passed
<1>4. Fresh(d)'
  BY <1>1 DEF Apart, MemberOK, Fresh, File
<1>5. Looking(d)'
  <2>1. Len(log) \in Nat /\ Len(log') \in Nat /\ handle[d] \in Nat /\ read[d] \in Nat
    BY DEF Typed
  <2> QED
    BY <1>1, <2>1 DEF Apart, NothingOf, MemberOK, Looking
<1> QED
  BY <1>2, <1>3, <1>4, <1>5 DEF MemberOK

\* With the log as it was nothing is written of anybody.
LEMMA SameLog ==
    ASSUME Typed, log' = log
    PROVE  /\ \A v : \A g \in Base : Wrote(v, g)' <=> Wrote(v, g)
           /\ \A d : NothingOf(d)
           /\ LogOK => LogOK'
<1>1. \A v : \A g \in Base : Wrote(v, g)' <=> Wrote(v, g)
  BY DEF Wrote
<1>2. Len(log) <= Len(log') /\ \A d, b : Written(d, b) => Written(d, b)'
  <2>1. Len(log) \in Nat
    BY DEF Typed
  <2> QED
    BY <2>1 DEF Written
<1>3. LogOK => LogOK'
  BY DEF LogOK, CommitsOK, HasLasts, IsLast, AgainOK, Kept, Wrote
<1> QED
  BY <1>1, <1>2, <1>3 DEF NothingOf

\* A commit writes of nobody but the writer whose file it adds.
LEMMA OthersLog ==
    ASSUME Typed, LogOK, NEW e, IsCommit(e), log' = Append(log, e), NEW d,
           \A f \in Base : IsWrite(e, f) => f[1] # d
    PROVE  NothingOf(d)
<1>1. \A v : \A g \in Base : Wrote(v, g)' <=> Wrote(v, g) \/ (v = Len(log) + 1 /\ IsWrite(e, g))
  BY LogAfter
<1>2. Len(log) <= Len(log')
  BY LogAfter DEF Typed
<1>3. \A b : Written(d, b) => Written(d, b)'
  BY LogAfter DEF Written
<1> QED
  BY <1>1, <1>2, <1>3 DEF NothingOf

\* More batches are excused, and the log is as it was.
LEMMA OneStays ==
    ASSUME Typed, OneFile, OneForm, log' = log, excused \subseteq excused'
    PROVE  OneFile' /\ OneForm'
BY DEF OneFile, OneForm, Wrote

\* Another engine's commit.
LEMMA OneForeign ==
    ASSUME Typed, LogOK, OneFile, OneForm, NEW e, IsCommit(e), \A f \in Base : ~IsWrite(e, f),
           log' = Append(log, e), excused' = excused
    PROVE  OneFile' /\ OneForm'
<1>1. \A v : \A g \in Base : Wrote(v, g)' <=> Wrote(v, g)
  BY LogAfter
<1>2. OneFile'
  BY ZenonT(30), <1>1 DEF OneFile, Wrote
<1>3. Active(log') = (Active(log) \ e.remove) \cup e.add
  BY LogAfter
<1>4. OneForm'
  <2> SUFFICES ASSUME NEW f \in Base, <<f[1], f[2]>> \notin excused, f \in Active(log'), Again(f) \in Active(log')
               PROVE  FALSE
    BY DEF OneForm
  <2>1. CASE IsChange(e)
    BY <1>3, <2>1 DEF OneForm, IsChange
  <2>2. ASSUME NEW h \in Base, IsCompaction(e, h)
        PROVE  FALSE
    <3>1. f # Again(h)
      BY AgainIs
    <3>2. f \in Active(log) /\ f # h
      BY <1>3, <2>2, <3>1 DEF IsCompaction
    <3>3. Again(f) # Again(h)
      BY <3>2, AgainIsOfOne
    <3>4. Again(f) \in Active(log)
      BY <1>3, <2>2, <3>3 DEF IsCompaction
    <3> QED
      BY <3>2, <3>4 DEF OneForm
  <2> QED
    BY <2>1, <2>2 DEF IsCommit
<1> QED
  BY <1>2, <1>4

\* A writer's own.
LEMMA OneWritten ==
    ASSUME Typed, LogOK, OneFile, OneForm, NEW e, NEW f \in Base, e \in Entry, IsWrite(e, f),
           log' = Append(log, e), excused \subseteq excused',
           <<f[1], f[2]>> \notin excused' =>
             /\ \A v : \A g \in Base : Wrote(v, g) /\ g[1] = f[1] /\ g[2] = f[2] => g = f
             /\ f \in Active(log) \/ \A v : ~Wrote(v, f)
    PROVE  OneFile' /\ OneForm'
<1>0. IsCommit(e)
  BY DEF IsCommit
<1>1. \A g \in Base : IsWrite(e, g) => g = f
  BY DEF IsWrite
<1>2. \A v : \A g \in Base : Wrote(v, g)' => Wrote(v, g) \/ g = f
  BY <1>0, <1>1, LogAfter
<1>3. OneFile'
  <2> SUFFICES ASSUME NEW v, NEW w, NEW g \in Base, NEW h \in Base, Wrote(v, g)', Wrote(w, h)',
                      g[1] = h[1], g[2] = h[2], <<g[1], g[2]>> \notin excused'
               PROVE  g = h
    BY DEF OneFile
  <2>1. CASE Wrote(v, g) /\ Wrote(w, h)
    BY <2>1 DEF OneFile, Wrote
  <2>2. CASE g = f
    BY <1>2, <2>2
  <2>3. CASE h = f
    BY <1>2, <2>3
  <2> QED
    BY <1>2, <2>1, <2>2, <2>3
<1>4. Active(log') = Active(log) \cup {f}
  BY <1>0, LogAfter DEF IsWrite
<1>5. OneForm'
  <2> SUFFICES ASSUME NEW g \in Base, <<g[1], g[2]>> \notin excused', g \in Active(log'), Again(g) \in Active(log')
               PROVE  FALSE
    BY DEF OneForm
  <2>1. Again(g) \in Active(log)
    BY <1>4, AgainIs
  <2>2. CASE g \in Active(log)
    BY <2>1, <2>2 DEF OneForm
  <2>3. CASE g = f /\ g \notin Active(log)
    <3>1. PICK v \in DOMAIN log : Again(g) \in log[v].add
      BY <2>1, ActiveIs DEF Typed, LogOK
    <3>2. PICK w \in DOMAIN log : Wrote(w, g)
      BY <3>1 DEF LogOK, AgainOK
    <3> QED
      BY <2>3, <3>2
  <2> QED
    BY <1>4, <2>2, <2>3
<1> QED
  BY <1>3, <1>5

-----------------------------------------------------------------------------
(* Other engines.                                                          *)

\* A step that leaves the members alone.
LEMMA OthersKeep ==
    ASSUME IInv, Typed', LogOK', OneFile', OneForm', \A d \in Members : NothingOf(d),
           UNCHANGED <<pc, batch, call, retries, handle, read, excused>>
    PROVE  IInv'
<1>1. \A d \in Members : Apart(d)
  BY DEF Apart
<1>2. \A d \in Members : MemberOK(d)'
  BY <1>1, ApartKeeps DEF IInv
<1> QED
  BY <1>2 DEF IInv

\* A commit of theirs.
LEMMA ForeignCommit ==
    ASSUME IInv, NEW e, IsCommit(e), \A f \in Base : ~IsWrite(e, f), log' = Append(log, e),
           UNCHANGED <<floor, pc, why, batch, call, retries, handle, read, excused>>
    PROVE  IInv'
<1>1. Typed /\ LogOK /\ OneFile /\ OneForm
  BY DEF IInv
<1>2. LogOK' /\ log' \in Seq(Entry)
  BY <1>1, LogAfter
<1>3. Typed'
  BY <1>1, <1>2 DEF Typed
<1>4. OneFile' /\ OneForm'
  BY <1>1, OneForeign
<1>5. \A d \in Members : NothingOf(d)
  BY <1>1, OthersLog
<1> QED
  BY <1>2, <1>3, <1>4, <1>5, OthersKeep

\* A file of four parts in the snapshot is one a writer added.
LEMMA ShortIsBase ==
    ASSUME Typed, LogOK, NEW f \in Active(log), Len(f) = 4
    PROVE  f \in Base
<1>1. PICK v \in DOMAIN log : f \in log[v].add
  BY ActiveIs DEF Typed, LogOK
<1>2. log[v] \in Entry
  BY <1>1 DEF Typed
<1>3. f \in Files
  BY <1>1, <1>2 DEF Entry
<1> QED
  BY <1>3, AgainIs DEF Files

\* A commit of another engine that adds and removes no file.
LEMMA ChangeKeeps ==
    ASSUME IInv, Change
    PROVE  IInv'
<1> DEFINE e == [kind |-> "change", id |-> <<>>, add |-> {}, remove |-> {}]
<1>1. log' = Append(log, e) /\ UNCHANGED <<floor, pc, why, batch, call, retries, handle, read, excused>>
  BY DEF Change
<1>2. e \in Entry /\ IsChange(e) /\ \A f \in Base : ~IsWrite(e, f)
  BY DEF Entry, IsChange, IsWrite
<1> HIDE DEF e
<1>3. IsCommit(e)
  BY <1>2 DEF IsCommit
<1> QED
  BY <1>1, <1>2, <1>3, ForeignCommit

\* A compaction writes one file of the snapshot again.
LEMMA CompactKeeps ==
    ASSUME IInv, NEW f \in Active(log), Compact(f)
    PROVE  IInv'
<1> DEFINE e == [kind |-> "compact", id |-> <<>>, add |-> {Again(f)}, remove |-> {f}]
<1>1. log' = Append(log, e) /\ UNCHANGED <<floor, pc, why, batch, call, retries, handle, read, excused>>
  BY DEF Compact, Again
<1>2. f \in Base
  BY ShortIsBase DEF Compact, IInv
<1>3. e \in Entry
  BY <1>2 DEF Entry, Files
<1>4. IsCompaction(e, f)
  BY <1>2 DEF IsCompaction
<1>5. \A g \in Base : ~IsWrite(e, g)
  BY <1>2, AgainIs DEF IsWrite
<1> HIDE DEF e
<1>6. IsCommit(e)
  BY <1>2, <1>3, <1>4 DEF IsCommit
<1> QED
  BY <1>1, <1>5, <1>6, ForeignCommit

\* The table's protocol changes, or its log is cleaned up.
LEMMA ProtocolKeeps ==
    ASSUME IInv, Protocol \/ Cleanup
    PROVE  IInv'
<1>1. Typed /\ LogOK /\ OneFile /\ OneForm /\ Len(log) \in Nat
  BY DEF IInv, Typed
<1>2. UNCHANGED <<log, pc, why, batch, call, retries, handle, read, excused>> /\ floor' \in Nat
  BY <1>1 DEF Protocol, Cleanup, Typed
<1>3. Typed'
  BY <1>1, <1>2 DEF Typed
<1>4. OneFile' /\ OneForm'
  BY <1>1, <1>2, OneStays
<1>5. LogOK' /\ \A d \in Members : NothingOf(d)
  BY <1>1, <1>2, SameLog
<1> QED
  BY <1>2, <1>3, <1>4, <1>5, OthersKeep

-----------------------------------------------------------------------------
(* What a member finds.                                                    *)

\* A commit that added a writer's file has its id.
LEMMA WroteId ==
    ASSUME LogOK, NEW v, NEW f \in Base, Wrote(v, f)
    PROVE  v \in DOMAIN log /\ IsWrite(log[v], f)
<1>1. v \in DOMAIN log /\ f \in log[v].add
  BY DEF Wrote
<1>2. ASSUME NEW g \in Base, IsCompaction(log[v], g)
      PROVE  FALSE
  BY <1>1, <1>2, AgainIs DEF IsCompaction
<1>3. ~IsChange(log[v])
  BY <1>1 DEF IsChange
<1>4. PICK g \in Base : IsWrite(log[v], g)
  BY <1>1, <1>2, <1>3 DEF LogOK, CommitsOK
<1> QED
  BY <1>1, <1>4 DEF IsWrite

\* A commit with the id of the call under way added a file of the batch.
LEMMA IdIsWrote ==
    ASSUME LogOK, NEW m \in Members, MemberOK(m), pc[m] # "ready", NEW v \in DOMAIN log,
           log[v].id = WriteId(m)
    PROVE  Written(m, batch[m])
<1>1. WriteId(m) # <<>>
  <2>1. WriteId(m)[1] = m /\ Len(WriteId(m)) = 2 /\ Len(<<>>) = 0
    BY DEF WriteId
  <2> QED
    BY <2>1
<1>2. PICK f \in Base : IsWrite(log[v], f)
  BY <1>1 DEF LogOK, CommitsOK, IsChange, IsCompaction
<1>3. f[1] = m /\ f[3] = call[m] /\ Wrote(v, f)
  BY <1>2 DEF IsWrite, WriteId, Wrote
<1>4. f[2] = batch[m]
  BY <1>3 DEF MemberOK, CallsOK
<1> QED
  BY <1>3, <1>4 DEF Written, Wrote

\* With nothing landed and nothing announced nothing was written of the batch.
LEMMA NotLanded ==
    ASSUME Typed, LogOK, NEW m \in Members, MemberOK(m), ~Landed(m), <<m, batch[m]>> \notin excused
    PROVE  \A v : \A f \in Base : ~(Wrote(v, f) /\ f[1] = m /\ f[2] = batch[m])
<1> SUFFICES ASSUME NEW v, NEW f \in Base, Wrote(v, f), f[1] = m, f[2] = batch[m] PROVE FALSE
  OBVIOUS
<1>1. v \in DOMAIN log /\ IsWrite(log[v], f)
  BY WroteId
<1>2. f = File(m)
  BY <1>1 DEF MemberOK, Fresh
<1>3. f[3] = call[m]
  BY <1>2 DEF File
<1> QED
  BY <1>1, <1>3 DEF IsWrite, Landed, WriteId

\* A step of the member c that writes nothing.
LEMMA Quiet ==
    ASSUME IInv, Typed', log' = log, NEW c \in Members, MemberOK(c)', excused \subseteq excused',
           \A d \in Members \ {c} :
             /\ pc'[d] = pc[d] /\ batch'[d] = batch[d] /\ call'[d] = call[d]
             /\ retries'[d] = retries[d] /\ handle'[d] = handle[d] /\ read'[d] = read[d]
    PROVE  IInv'
<1>1. Typed /\ LogOK /\ OneFile /\ OneForm
  BY DEF IInv
<1>2. OneFile' /\ OneForm'
  BY <1>1, OneStays
<1>3. LogOK' /\ \A d \in Members : NothingOf(d)
  BY <1>1, SameLog
<1>4. \A d \in Members \ {c} : Apart(d)
  BY <1>3 DEF Apart
<1>5. \A d \in Members : MemberOK(d)'
  BY <1>1, <1>4, ApartKeeps DEF IInv
<1> QED
  BY <1>2, <1>3, <1>5 DEF IInv

\* The file the member c adds.
LEMMA FileIs ==
    ASSUME Typed, Retries \in Nat, NEW c \in Members
    PROVE  /\ File(c) \in Base /\ File(c)[1] = c /\ File(c)[2] = batch[c] /\ File(c)[3] = call[c]
<1>1. c \in Members /\ batch[c] \in Nat /\ call[c] \in Nat /\ retries[c] \in Nat
  BY DEF Typed
<1> QED
  BY <1>1 DEF File, Base

\* A step of c that adds its file.
LEMMA Writing ==
    ASSUME IInv, Retries \in Nat, NEW c \in Members, AppendRejects(c)
    PROVE  /\ LogOK' /\ log' \in Seq(Entry) /\ Len(log') = Len(log) + 1
           /\ \A b : b = batch[c] \/ Written(c, b) => Written(c, b)'
           /\ \A v : \A g \in Base : Wrote(v, g)' => Wrote(v, g) \/ (v = Len(log) + 1 /\ g = File(c))
           /\ \A d \in Members \ {c} : NothingOf(d)
           /\ (/\ excused \subseteq excused'
               /\ <<c, batch[c]>> \notin excused' =>
                    /\ \A v : \A g \in Base : Wrote(v, g) /\ g[1] = c /\ g[2] = batch[c] => g = File(c)
                    /\ File(c) \in Active(log) \/ \A v : ~Wrote(v, File(c)))
              => OneFile' /\ OneForm'
<1> DEFINE e == [kind |-> "append", id |-> WriteId(c), add |-> {File(c)}, remove |-> {}]
<1>1. Typed /\ LogOK /\ OneFile /\ OneForm
  BY DEF IInv
<1>2. /\ File(c) \in Base /\ File(c)[1] = c /\ File(c)[2] = batch[c] /\ File(c)[3] = call[c]
  BY <1>1, FileIs
<1>3. call[c] \in Nat
  BY <1>1 DEF Typed
<1>4. e \in Entry /\ IsWrite(e, File(c)) /\ e.add = {File(c)}
  BY <1>2, <1>3 DEF Entry, Files, IsWrite, WriteId
<1>5. log' = Append(log, e)
  BY DEF AppendRejects
<1> HIDE DEF e
<1>6. IsCommit(e)
  BY <1>2, <1>4 DEF IsCommit
<1>7. \A g \in Base : IsWrite(e, g) => g = File(c)
  BY <1>4 DEF IsWrite
<1>8. /\ LogOK' /\ log' \in Seq(Entry) /\ Len(log') = Len(log) + 1
      /\ \A v \in DOMAIN log : v \in DOMAIN log' /\ log'[v] = log[v]
      /\ Len(log) + 1 \in DOMAIN log' /\ log'[Len(log) + 1] = e
      /\ \A v : \A g \in Base : Wrote(v, g)' <=> Wrote(v, g) \/ (v = Len(log) + 1 /\ IsWrite(e, g))
  BY <1>1, <1>5, <1>6, LogAfter
<1>9. \A b : b = batch[c] \/ Written(c, b) => Written(c, b)'
  <2>1. \E f \in log'[Len(log) + 1].add : f[1] = c /\ f[2] = batch[c]
    BY <1>2, <1>4, <1>8
  <2>2. \E v \in DOMAIN log' : \E f \in log'[v].add : f[1] = c /\ f[2] = batch[c]
    BY <1>8, <2>1
  <2>3. \A b : Written(c, b) => Written(c, b)'
    BY <1>8 DEF Written
  <2>4. \A b : b = batch[c] => Written(c, b)'
    BY <2>2 DEF Written
  <2> QED
    BY <2>3, <2>4
<1>10. \A d \in Members \ {c} : NothingOf(d)
  BY <1>1, <1>2, <1>5, <1>6, <1>7, OthersLog
<1>11. ASSUME excused \subseteq excused',
              <<c, batch[c]>> \notin excused' =>
                /\ \A v : \A g \in Base : Wrote(v, g) /\ g[1] = c /\ g[2] = batch[c] => g = File(c)
                /\ File(c) \in Active(log) \/ \A v : ~Wrote(v, File(c))
       PROVE  OneFile' /\ OneForm'
  BY <1>1, <1>2, <1>4, <1>5, <1>11, OneWritten
<1> QED
  BY <1>7, <1>8, <1>9, <1>10, <1>11

-----------------------------------------------------------------------------
(* The steps of a member.                                                  *)

\* The parts of the invariant, for one member.
LEMMA Parts ==
    ASSUME IInv, NEW c \in Members
    PROVE  /\ Typed /\ LogOK /\ OneFile /\ OneForm /\ MemberOK(c)
           /\ Len(log) \in Nat /\ batch[c] \in Nat /\ call[c] \in Nat
           /\ handle[c] \in Nat /\ read[c] \in Nat /\ retries[c] \in 0 .. Retries
<1>1. Typed /\ LogOK /\ OneFile /\ OneForm /\ MemberOK(c)
  BY DEF IInv
<1>2. log \in Seq(Entry)
  BY <1>1 DEF Typed
<1>3. Len(log) \in Nat
  BY <1>2
<1>4. /\ batch[c] \in Nat /\ call[c] \in Nat /\ handle[c] \in Nat /\ read[c] \in Nat
      /\ retries[c] \in 0 .. Retries
  BY <1>1 DEF Typed
<1> QED
  BY <1>1, <1>3, <1>4

\* What only the place of a member decides: from one of these places to another, with
\* nothing else changed but what it follows and what is excused.
LEMMA Moves ==
    ASSUME IInv, NEW c \in Members,
           NEW to \in {"ready", "conflict", "ambiguous", "search"}, At(c, to), pc[c] # "ready",
           log' = log, floor' = floor, batch' = batch, call' = call, retries' = retries,
           read' = read, why' \in [Members -> {"conflict", "ambiguous"}],
           handle' = handle \/ handle' = [handle EXCEPT ![c] = Len(log)],
           to = "search" => handle'[c] = Len(log),
           to # "ready" => pc[c] \notin {"write", "recorded"},
           excused' = excused \/ excused' = excused \cup {<<c, batch[c]>>},
           to = "ready" /\ <<c, batch[c]>> \notin excused' =>
             \A v : \A f \in Base : ~(Wrote(v, f) /\ f[1] = c /\ f[2] = batch[c])
    PROVE  IInv'
<1>1. Typed /\ MemberOK(c) /\ Len(log) \in Nat /\ batch[c] \in Nat
  BY Parts
<1>2. pc'[c] = to /\ pc' = [pc EXCEPT ![c] = to]
  BY <1>1 DEF At, Typed
<1>3. Typed'
  <2>0. <<c, batch[c]>> \in Members \X Nat
    BY <1>1
  <2>1. handle' \in [Members -> Nat] /\ excused' \subseteq Members \X Nat
    BY ZenonT(30), <1>1, <2>0 DEF Typed
  <2>2. pc' \in [Members -> {"ready", "write", "lost", "conflict", "ambiguous", "search", "recorded"}]
    BY <1>1, <1>2 DEF Typed
  <2> QED
    BY <1>1, <2>1, <2>2 DEF Typed
<1>4. \A v : \A g \in Base : Wrote(v, g)' <=> Wrote(v, g)
  BY <1>1, SameLog
<1>5. CallsOK(c)'
  BY <1>1, <1>2, <1>4 DEF MemberOK, CallsOK
<1>6. Passed(c)'
  BY <1>1, <1>2 DEF MemberOK, Passed, Written
<1>7. Fresh(c)'
  BY <1>1, <1>2, <1>4 DEF MemberOK, Fresh, File
<1>8. Looking(c)'
  <2>1. handle'[c] = handle[c] \/ handle'[c] = Len(log)
    BY <1>1 DEF Typed
  <2>2. handle'[c] <= Len(log') /\ read'[c] <= Len(log')
    BY <1>1, <2>1 DEF MemberOK, Looking
  <2>3. \A v : \A g \in Base : Wrote(v, g) => v \in 1 .. Len(log)
    BY <1>1 DEF Typed, Wrote
  <2>4. to = "search" => \A v : \A g \in Base : Wrote(v, g)' => v <= handle'[c]
    BY <1>1, <1>4, <2>3
  <2> QED
    BY <1>2, <2>2, <2>4 DEF Looking
<1>9. MemberOK(c)'
  BY <1>5, <1>6, <1>7, <1>8 DEF MemberOK
<1>10. \A d \in Members \ {c} :
         /\ pc'[d] = pc[d] /\ batch'[d] = batch[d] /\ call'[d] = call[d]
         /\ retries'[d] = retries[d] /\ handle'[d] = handle[d] /\ read'[d] = read[d]
  BY <1>1, <1>2 DEF Typed
<1> QED
  BY <1>3, <1>9, <1>10, Quiet

\* A store error, the reopening, a search that cannot be made, and a process that starts
\* again.
LEMMA MovesKeep ==
    ASSUME IInv, NEW c \in Members,
           StoreError(c) \/ Reopen(c) \/ CannotLook(c) \/ Restart(c)
    PROVE  IInv'
<1>1. Typed /\ LogOK /\ MemberOK(c) /\ Len(log) \in Nat
  BY Parts
<1>2. CASE StoreError(c)
  BY <1>1, <1>2, Moves DEF StoreError, table, Typed
<1>3. CASE Reopen(c)
  <2>1. why' \in [Members -> {"conflict", "ambiguous"}] /\ handle'[c] = Len(log)
    BY <1>1, <1>3 DEF Reopen, Typed
  <2> QED
    BY <1>1, <1>3, <2>1, Moves DEF Reopen, table
<1>4. CASE CannotLook(c) \/ Restart(c)
  <2>1. /\ pc[c] # "ready" /\ At(c, "ready")
        /\ log' = log /\ floor' = floor /\ batch' = batch /\ call' = call /\ retries' = retries
        /\ read' = read /\ why' = why
        /\ handle' = handle \/ handle' = [handle EXCEPT ![c] = Len(log)]
        /\ excused' = IF Landed(c) THEN excused \cup {<<c, batch[c]>>} ELSE excused
    BY <1>4 DEF CannotLook, Restart, Return, table
  <2>2. <<c, batch[c]>> \notin excused' => ~Landed(c) /\ <<c, batch[c]>> \notin excused
    BY <2>1
  <2>3. <<c, batch[c]>> \notin excused' =>
          \A v : \A f \in Base : ~(Wrote(v, f) /\ f[1] = c /\ f[2] = batch[c])
    BY <1>1, <2>2, NotLanded
  <2>4. why' \in [Members -> {"conflict", "ambiguous"}]
    BY <1>1, <2>1 DEF Typed
  <2> QED
    BY <2>1, <2>3, <2>4, Moves
<1> QED
  BY <1>2, <1>3, <1>4

\* A conflict delta-rs gives up on, or a failure before anything landed: what landed is
\* looked for from the handle on.
LEMMA GiveUpKeeps ==
    ASSUME IInv, NEW c \in Members, GiveUp(c) \/ (FailWrite(c) /\ log' = log)
    PROVE  IInv'
<1>1. Typed /\ MemberOK(c) /\ Len(log) \in Nat
  BY Parts
<1>2. PICK to \in {"conflict", "ambiguous"} :
        /\ pc[c] \in {"write", "lost"} /\ read' = [read EXCEPT ![c] = handle[c]]
        /\ pc' = [pc EXCEPT ![c] = to]
        /\ UNCHANGED <<log, floor, why, batch, call, retries, handle, excused>>
  BY DEF GiveUp, FailWrite, At, table
<1>3. pc'[c] = to /\ read'[c] = handle[c] /\ handle[c] \in Nat
  BY <1>1, <1>2 DEF Typed
<1>4. Typed'
  <2>1. pc' \in [Members -> {"ready", "write", "lost", "conflict", "ambiguous", "search", "recorded"}]
    BY <1>1, <1>2 DEF Typed
  <2>2. read' \in [Members -> Nat]
    BY <1>1, <1>2 DEF Typed
  <2> QED
    BY <1>1, <1>2, <2>1, <2>2 DEF Typed
<1>5. \A v : \A g \in Base : Wrote(v, g)' <=> Wrote(v, g)
  BY <1>1, <1>2, SameLog
<1>6. CallsOK(c)'
  BY <1>1, <1>2, <1>3, <1>5 DEF MemberOK, CallsOK
<1>7. Passed(c)'
  BY <1>1, <1>2, <1>3 DEF MemberOK, Passed, Written
<1>8. Fresh(c)'
  <2>1. pc[c] = "lost" => read[c] = handle[c]
    BY <1>1 DEF MemberOK, Looking
  <2> QED
    BY <1>1, <1>2, <1>3, <1>5, <2>1 DEF MemberOK, Fresh, File
<1>9. Looking(c)'
  BY <1>1, <1>2, <1>3 DEF MemberOK, Looking
<1>10. \A d \in Members \ {c} :
         /\ pc'[d] = pc[d] /\ batch'[d] = batch[d] /\ call'[d] = call[d]
         /\ retries'[d] = retries[d] /\ handle'[d] = handle[d] /\ read'[d] = read[d]
  BY <1>1, <1>2 DEF Typed
<1> QED
  BY <1>2, <1>4, <1>6, <1>7, <1>8, <1>9, <1>10, Quiet DEF MemberOK

\* A call begins, with an id nothing was written under.
LEMMA BeginKeeps ==
    ASSUME ConstantsAssumption, IInv, NEW c \in Members, Begin(c)
    PROVE  IInv'
<1>1. Typed /\ MemberOK(c) /\ Len(log) \in Nat /\ call[c] \in Nat /\ Retries \in Nat
  BY Parts DEF ConstantsAssumption
<1>2. /\ pc[c] = "ready" /\ call' = [call EXCEPT ![c] = @ + 1] /\ retries' = [retries EXCEPT ![c] = 0]
      /\ pc' = [pc EXCEPT ![c] = "write"]
      /\ UNCHANGED <<log, floor, why, batch, handle, read, excused>>
  BY DEF Begin, At, table
<1>3. pc'[c] = "write" /\ call'[c] = call[c] + 1 /\ retries'[c] = 0
  BY <1>1, <1>2 DEF Typed
<1>4. Typed'
  <2>1. pc' \in [Members -> {"ready", "write", "lost", "conflict", "ambiguous", "search", "recorded"}]
    BY <1>1, <1>2 DEF Typed
  <2>2. call' \in [Members -> Nat] /\ retries' \in [Members -> 0 .. Retries]
    BY <1>1, <1>2 DEF Typed
  <2> QED
    BY <1>1, <1>2, <2>1, <2>2 DEF Typed
<1>5. \A v : \A g \in Base : Wrote(v, g)' <=> Wrote(v, g)
  BY <1>1, <1>2, SameLog
<1>6. CallsOK(c)'
  <2>1. \A v \in DOMAIN log : \A f \in Base : Wrote(v, f) /\ f[1] = c =>
          f[3] <= call[c] /\ f[2] <= batch[c] /\ f[3] \in Nat
    BY <1>1, AgainIs DEF MemberOK, CallsOK
  <2> QED
    BY <1>1, <1>2, <1>3, <1>5, <2>1 DEF CallsOK
<1>7. Passed(c)'
  BY <1>1, <1>2, <1>3 DEF MemberOK, Passed, Written
<1>8. Fresh(c)'
  BY <1>1, <1>2, <1>3, <1>5 DEF MemberOK, Fresh
<1>9. Looking(c)'
  BY <1>1, <1>2, <1>3 DEF MemberOK, Looking
<1>10. \A d \in Members \ {c} :
         /\ pc'[d] = pc[d] /\ batch'[d] = batch[d] /\ call'[d] = call[d]
         /\ retries'[d] = retries[d] /\ handle'[d] = handle[d] /\ read'[d] = read[d]
  BY <1>1, <1>2 DEF Typed
<1> QED
  BY <1>2, <1>4, <1>6, <1>7, <1>8, <1>9, <1>10, Quiet DEF MemberOK

\* A table that cannot be written is refused; the id goes to the next call if this one
\* has not tried.
LEMMA RefuseKeeps ==
    ASSUME IInv, NEW c \in Members, Refuse(c)
    PROVE  IInv'
<1>1. Typed /\ MemberOK(c) /\ Len(log) \in Nat /\ call[c] \in Nat
  BY Parts
<1>2. /\ pc[c] = "write" /\ handle' = [handle EXCEPT ![c] = Len(log)]
      /\ call' = IF retries[c] = 0 THEN [call EXCEPT ![c] = @ - 1] ELSE call
      /\ pc' = [pc EXCEPT ![c] = "ready"]
      /\ UNCHANGED <<log, floor, why, batch, retries, read, excused>>
  BY DEF Refuse, At, table
<1>3. call[c] >= 1
  BY <1>1, <1>2 DEF MemberOK, CallsOK
<1>4. pc'[c] = "ready" /\ call'[c] = (IF retries[c] = 0 THEN call[c] - 1 ELSE call[c])
      /\ handle'[c] = Len(log)
  BY <1>1, <1>2 DEF Typed
<1>5. Typed'
  <2>1. pc' \in [Members -> {"ready", "write", "lost", "conflict", "ambiguous", "search", "recorded"}]
    BY <1>1, <1>2 DEF Typed
  <2>2. call' \in [Members -> Nat] /\ handle' \in [Members -> Nat]
    BY <1>1, <1>2, <1>3 DEF Typed
  <2> QED
    BY <1>1, <1>2, <2>1, <2>2 DEF Typed
<1>6. \A v : \A g \in Base : Wrote(v, g)' <=> Wrote(v, g)
  BY <1>1, <1>2, SameLog
<1>7. CallsOK(c)'
  <2>1. \A v \in DOMAIN log : \A f \in Base : Wrote(v, f) /\ f[1] = c =>
          /\ f[3] <= call[c] /\ f[2] <= batch[c] /\ f[3] \in Nat
          /\ retries[c] = 0 => f[3] # call[c]
    BY <1>1, <1>2, AgainIs DEF MemberOK, CallsOK
  <2>2. \A v \in DOMAIN log : \A f \in Base : Wrote(v, f) /\ f[1] = c => f[3] <= call'[c]
    BY <1>1, <1>4, <2>1
  <2> QED
    BY <1>2, <1>4, <1>6, <2>1, <2>2 DEF CallsOK
<1>8. Passed(c)'
  BY <1>1, <1>2, <1>4 DEF MemberOK, Passed, Written
<1>9. Fresh(c)'
  BY <1>1, <1>2, <1>4, <1>6 DEF MemberOK, Fresh
<1>10. Looking(c)'
  BY <1>1, <1>2, <1>4 DEF MemberOK, Looking
<1>11. \A d \in Members \ {c} :
         /\ pc'[d] = pc[d] /\ batch'[d] = batch[d] /\ call'[d] = call[d]
         /\ retries'[d] = retries[d] /\ handle'[d] = handle[d] /\ read'[d] = read[d]
  BY <1>1, <1>2 DEF Typed
<1> QED
  BY <1>2, <1>5, <1>7, <1>8, <1>9, <1>10, <1>11, Quiet DEF MemberOK

\* Another attempt: what landed and was not found is announced.
LEMMA RetryKeeps ==
    ASSUME ConstantsAssumption, IInv, NEW c \in Members, Retry(c)
    PROVE  IInv'
<1>1. Typed /\ LogOK /\ MemberOK(c) /\ Len(log) \in Nat /\ Retries \in Nat /\ retries[c] \in 0 .. Retries
      /\ batch[c] \in Nat
  BY Parts DEF ConstantsAssumption
<1>2. /\ pc[c] = "search" /\ retries[c] < Retries /\ retries' = [retries EXCEPT ![c] = @ + 1]
      /\ excused' = IF Landed(c) THEN excused \cup {<<c, batch[c]>>} ELSE excused
      /\ pc' = [pc EXCEPT ![c] = "write"]
      /\ UNCHANGED <<log, floor, why, batch, call, handle, read>>
  BY DEF Retry, At, table
<1>3. pc'[c] = "write" /\ retries'[c] = retries[c] + 1 /\ retries'[c] # 0
  BY <1>1, <1>2 DEF Typed
<1>4. Typed'
  <2>1. pc' \in [Members -> {"ready", "write", "lost", "conflict", "ambiguous", "search", "recorded"}]
    BY <1>1, <1>2 DEF Typed
  <2>2. retries' \in [Members -> 0 .. Retries]
    BY <1>1, <1>2 DEF Typed
  <2>3. <<c, batch[c]>> \in Members \X Nat
    BY <1>1
  <2>4. excused' \subseteq Members \X Nat
    BY <1>1, <1>2, <2>3 DEF Typed
  <2> QED
    BY <1>1, <1>2, <2>1, <2>2, <2>4 DEF Typed
<1>5. \A v : \A g \in Base : Wrote(v, g)' <=> Wrote(v, g)
  BY <1>1, <1>2, SameLog
<1>6. CallsOK(c)'
  BY <1>1, <1>2, <1>3, <1>5 DEF MemberOK, CallsOK
<1>7. Passed(c)'
  BY <1>1, <1>2, <1>3 DEF MemberOK, Passed, Written
<1>8. Fresh(c)'
  <2>1. <<c, batch[c]>> \notin excused' => ~Landed(c) /\ <<c, batch[c]>> \notin excused
    BY <1>2
  <2>2. <<c, batch[c]>> \notin excused' =>
          \A v : \A f \in Base : ~(Wrote(v, f) /\ f[1] = c /\ f[2] = batch[c])
    BY <1>1, <2>1, NotLanded
  <2> QED
    BY <1>2, <1>5, <2>2 DEF Fresh
<1>9. Looking(c)'
  BY <1>1, <1>2, <1>3 DEF MemberOK, Looking
<1>10. \A d \in Members \ {c} :
         /\ pc'[d] = pc[d] /\ batch'[d] = batch[d] /\ call'[d] = call[d]
         /\ retries'[d] = retries[d] /\ handle'[d] = handle[d] /\ read'[d] = read[d]
  BY <1>1, <1>2 DEF Typed
<1> QED
  BY <1>2, <1>4, <1>6, <1>7, <1>8, <1>9, <1>10, Quiet DEF MemberOK

\* A search that found nothing and met no gap: nothing has landed.
LEMMA ReturnErrorKeeps ==
    ASSUME IInv, NEW c \in Members, ReturnError(c)
    PROVE  IInv'
<1>1. Typed /\ LogOK /\ MemberOK(c) /\ Len(log) \in Nat /\ read[c] \in Nat /\ handle[c] \in Nat
  BY Parts
<1>2. /\ pc[c] = "search" /\ ~Found(c) /\ At(c, "ready")
      /\ UNCHANGED <<table, faults, why, batch, call, retries, handle, read>>
  BY DEF ReturnError, Return
<1>3. CASE floor > read[c] + 1
  <2>1. excused' = IF Landed(c) THEN excused \cup {<<c, batch[c]>>} ELSE excused
    BY <1>3 DEF ReturnError, Return
  <2>2. <<c, batch[c]>> \notin excused' => ~Landed(c) /\ <<c, batch[c]>> \notin excused
    BY <2>1
  <2>3. <<c, batch[c]>> \notin excused' =>
          \A v : \A f \in Base : ~(Wrote(v, f) /\ f[1] = c /\ f[2] = batch[c])
    BY <1>1, <2>2, NotLanded
  <2>4. why' \in [Members -> {"conflict", "ambiguous"}]
    BY <1>1, <1>2 DEF Typed
  <2> QED
    BY <1>2, <2>1, <2>3, <2>4, Moves DEF table
<1>4. CASE floor <= read[c] + 1
  <2>1. excused' = excused
    BY <1>1, <1>4 DEF ReturnError, Typed
  <2>2. ASSUME <<c, batch[c]>> \notin excused, NEW v, NEW f \in Base,
               Wrote(v, f), f[1] = c, f[2] = batch[c]
        PROVE  FALSE
    <3>1. v \in DOMAIN log /\ IsWrite(log[v], f)
      BY <1>1, <2>2, WroteId
    <3>2. f = File(c) /\ v > read[c]
      BY <1>1, <1>2, <2>2, <3>1 DEF MemberOK, Fresh
    <3>3. v <= handle[c] /\ v \in Nat
      BY <1>1, <1>2, <2>2, <3>1 DEF MemberOK, Looking, Typed
    <3>4. v \in read[c] + 1 .. handle[c] /\ \A w \in v .. handle[c] : w >= floor
      BY <1>1, <1>4, <3>2, <3>3 DEF Typed
    <3>5. log[v].id = WriteId(c)
      BY <3>1, <3>2 DEF IsWrite, File, WriteId
    <3> QED
      BY <1>2, <3>4, <3>5 DEF Found
  <2>3. why' \in [Members -> {"conflict", "ambiguous"}]
    BY <1>1, <1>2 DEF Typed
  <2> QED
    BY <1>2, <2>1, <2>2, <2>3, Moves DEF table
<1>5. floor > read[c] + 1 \/ floor <= read[c] + 1
  BY <1>1 DEF Typed
<1> QED
  BY <1>3, <1>4, <1>5

\* The own commit is found.
LEMMA SearchKeeps ==
    ASSUME IInv, NEW c \in Members, Search(c)
    PROVE  IInv'
<1>1. Typed /\ LogOK /\ MemberOK(c) /\ Len(log) \in Nat /\ batch[c] \in Nat
      /\ read[c] \in Nat /\ handle[c] \in Nat
  BY Parts
<1>2. /\ pc[c] = "search" /\ Found(c) /\ pc' = [pc EXCEPT ![c] = "recorded"]
      /\ UNCHANGED <<log, floor, why, batch, call, retries, handle, read, excused>>
  BY DEF Search, At, table
<1>3. pc'[c] = "recorded"
  BY <1>1, <1>2 DEF Typed
<1>4. Typed'
  <2>1. pc' \in [Members -> {"ready", "write", "lost", "conflict", "ambiguous", "search", "recorded"}]
    BY <1>1, <1>2 DEF Typed
  <2> QED
    BY <1>1, <1>2, <2>1 DEF Typed
<1>5. \A v : \A g \in Base : Wrote(v, g)' <=> Wrote(v, g)
  BY <1>1, <1>2, SameLog
<1>6. Written(c, batch[c])
  <2>1. PICK v \in read[c] + 1 .. handle[c] : log[v].id = WriteId(c)
    BY <1>2 DEF Found
  <2>2. v \in DOMAIN log
    BY <1>1, <2>1 DEF Typed, MemberOK, Looking
  <2> QED
    BY <1>1, <1>2, <2>1, <2>2, IdIsWrote
<1>7. Passed(c)'
  BY <1>1, <1>2, <1>3, <1>6 DEF MemberOK, Passed, Written
<1>8. CallsOK(c)'
  BY <1>1, <1>2, <1>3, <1>5 DEF MemberOK, CallsOK
<1>9. Fresh(c)'
  BY <1>1, <1>2, <1>3, <1>5 DEF MemberOK, Fresh, File
<1>10. Looking(c)'
  BY <1>1, <1>2, <1>3 DEF MemberOK, Looking
<1>11. \A d \in Members \ {c} :
         /\ pc'[d] = pc[d] /\ batch'[d] = batch[d] /\ call'[d] = call[d]
         /\ retries'[d] = retries[d] /\ handle'[d] = handle[d] /\ read'[d] = read[d]
  BY <1>1, <1>2 DEF Typed
<1> QED
  BY <1>2, <1>4, <1>7, <1>8, <1>9, <1>10, <1>11, Quiet DEF MemberOK

\* The target is committed, and the next batch has nothing written.
LEMMA CommitTargetKeeps ==
    ASSUME IInv, NEW c \in Members, CommitTarget(c)
    PROVE  IInv'
<1>1. Typed /\ LogOK /\ MemberOK(c) /\ Len(log) \in Nat /\ batch[c] \in Nat
  BY Parts
<1>2. /\ pc[c] = "recorded" /\ pc' = [pc EXCEPT ![c] = "ready"] /\ batch' = [batch EXCEPT ![c] = @ + 1]
      /\ UNCHANGED <<log, floor, why, call, retries, handle, read, excused>>
  BY DEF CommitTarget, At, table
<1>3. pc'[c] = "ready" /\ batch'[c] = batch[c] + 1
  BY <1>1, <1>2 DEF Typed
<1>4. Typed'
  <2>1. pc' \in [Members -> {"ready", "write", "lost", "conflict", "ambiguous", "search", "recorded"}]
    BY <1>1, <1>2 DEF Typed
  <2>2. batch' \in [Members -> Nat]
    BY <1>1, <1>2 DEF Typed
  <2> QED
    BY <1>1, <1>2, <2>1, <2>2 DEF Typed
<1>5. \A v : \A g \in Base : Wrote(v, g)' <=> Wrote(v, g)
  BY <1>1, <1>2, SameLog
<1>6. \A v \in DOMAIN log : \A f \in Base : Wrote(v, f) /\ f[1] = c =>
        f[3] <= call[c] /\ f[2] <= batch[c] /\ f[2] \in Nat
  BY <1>1, AgainIs DEF MemberOK, CallsOK
<1>7. CallsOK(c)'
  BY <1>1, <1>2, <1>3, <1>5, <1>6 DEF CallsOK
<1>8. Passed(c)'
  <2> SUFFICES ASSUME NEW b \in Nat, 1 <= b, b < batch'[c]
               PROVE  Written(c, b)'
    BY <1>3 DEF Passed
  <2>1. b < batch[c] \/ b = batch[c]
    BY <1>1, <1>3
  <2>2. Written(c, b)
    BY <1>1, <1>2, <2>1 DEF MemberOK, Passed
  <2> QED
    BY <1>2, <2>2 DEF Written
<1>9. Fresh(c)'
  <2>1. \A v : \A f \in Base : ~(Wrote(v, f)' /\ f[1] = c /\ f[2] = batch'[c])
    <3>1. \A v : \A f \in Base : Wrote(v, f) => v \in DOMAIN log
      BY DEF Wrote
    <3> QED
      BY <1>1, <1>3, <1>5, <1>6, <3>1
  <2> QED
    BY <2>1 DEF Fresh
<1>10. Looking(c)'
  BY <1>1, <1>2, <1>3 DEF MemberOK, Looking
<1>11. \A d \in Members \ {c} :
         /\ pc'[d] = pc[d] /\ batch'[d] = batch[d] /\ call'[d] = call[d]
         /\ retries'[d] = retries[d] /\ handle'[d] = handle[d] /\ read'[d] = read[d]
  BY <1>1, <1>2 DEF Typed
<1> QED
  BY <1>2, <1>4, <1>7, <1>8, <1>9, <1>10, <1>11, Quiet DEF MemberOK

\* A commit that lands, acknowledged or not; where it is the same file again the one
\* before is still there, or the duplicate is announced.
LEMMA Writes ==
    ASSUME ConstantsAssumption, IInv, NEW c \in Members, pc[c] \in {"write", "lost"}, AppendRejects(c),
           NEW to \in {"recorded", "lost", "ambiguous"}, At(c, to),
           UNCHANGED <<floor, why, batch, call, retries>>,
           read' = read \/ read' = [read EXCEPT ![c] = handle[c]],
           handle' = handle \/ handle' = [handle EXCEPT ![c] = Len(log) + 1],
           to # "recorded" => pc[c] = "write" /\ handle' = handle,
           pc[c] = "write" => read' = [read EXCEPT ![c] = handle[c]],
           excused' = excused \/ excused' = excused \cup {<<c, batch[c]>>},
           pc[c] = "lost" /\ <<c, batch[c]>> \notin excused' => File(c) \in Active(log)
    PROVE  IInv'
<1>1. /\ Typed /\ MemberOK(c) /\ Len(log) \in Nat /\ Retries \in Nat /\ batch[c] \in Nat
      /\ handle[c] \in Nat /\ read[c] \in Nat
  BY Parts DEF ConstantsAssumption
<1>2. pc' = [pc EXCEPT ![c] = to] /\ pc'[c] = to
  BY <1>1 DEF At, Typed
<1>3. /\ LogOK' /\ log' \in Seq(Entry) /\ Len(log') = Len(log) + 1
      /\ \A b : b = batch[c] \/ Written(c, b) => Written(c, b)'
      /\ \A v : \A g \in Base : Wrote(v, g)' => Wrote(v, g) \/ (v = Len(log) + 1 /\ g = File(c))
      /\ \A d \in Members \ {c} : NothingOf(d)
  BY <1>1, Writing
<1>4. File(c) \in Base /\ File(c)[1] = c /\ File(c)[2] = batch[c] /\ File(c)[3] = call[c]
  BY <1>1, FileIs
<1>5. <<c, batch[c]>> \notin excused =>
        \A v : \A g \in Base : Wrote(v, g) /\ g[1] = c /\ g[2] = batch[c] => pc[c] = "lost" /\ g = File(c)
  <2>1. \A v : \A g \in Base : Wrote(v, g) => v \in DOMAIN log
    BY DEF Wrote
  <2> QED
    BY <1>1, <2>1 DEF MemberOK, Fresh
<1>6. OneFile' /\ OneForm'
  <2>1. excused \subseteq excused'
    OBVIOUS
  <2>2. ASSUME <<c, batch[c]>> \notin excused'
        PROVE  /\ \A v : \A g \in Base : Wrote(v, g) /\ g[1] = c /\ g[2] = batch[c] => g = File(c)
               /\ File(c) \in Active(log) \/ \A v : ~Wrote(v, File(c))
    BY <1>4, <1>5, <2>1, <2>2
  <2> QED
    BY <1>1, <2>1, <2>2, Writing
<1>7. Typed'
  <2>1. pc' \in [Members -> {"ready", "write", "lost", "conflict", "ambiguous", "search", "recorded"}]
    BY <1>1, <1>2 DEF Typed
  <2>2. handle' \in [Members -> Nat] /\ read' \in [Members -> Nat]
    <3>1. Len(log) \in Nat /\ Len(log) + 1 \in Nat
      BY <1>1 DEF Typed
    <3>2. handle \in [Members -> Nat] /\ read \in [Members -> Nat]
      BY <1>1 DEF Typed
    <3> QED
      BY <1>1, <3>1, <3>2
  <2>3. <<c, batch[c]>> \in Members \X Nat
    BY <1>1
  <2>4. excused' \subseteq Members \X Nat
    BY <1>1, <2>3 DEF Typed
  <2> QED
    BY <1>1, <1>3, <2>1, <2>2, <2>4 DEF Typed
<1>8. CallsOK(c)'
  <2>1. \A v : \A g \in Base : Wrote(v, g) => v \in DOMAIN log
    BY DEF Wrote
  <2>2. ASSUME NEW v, NEW g \in Base, Wrote(v, g)', g[1] = c
        PROVE  g[3] <= call[c] /\ g[2] <= batch[c] /\ (g[3] = call[c] => g[2] = batch[c])
    <3>1. CASE Wrote(v, g)
      BY <1>1, <2>1, <2>2, <3>1 DEF MemberOK, CallsOK
    <3>2. CASE g = File(c)
      BY <1>1, <1>4, <3>2, Parts
    <3> QED
      BY <1>3, <2>2, <3>1, <3>2
  <2>3. call[c] >= 1
    BY <1>1 DEF MemberOK, CallsOK
  <2> QED
    BY <1>2, <2>2, <2>3 DEF CallsOK
<1>9. Passed(c)'
  BY <1>1, <1>2, <1>3 DEF MemberOK, Passed
<1>10. Fresh(c)'
  <2> SUFFICES ASSUME <<c, batch[c]>> \notin excused', NEW v, NEW g \in Base,
                      Wrote(v, g)', g[1] = c, g[2] = batch[c]
               PROVE  g = File(c) /\ (to # "recorded" => v > read'[c])
    BY <1>2 DEF Fresh, File
  <2>1. CASE Wrote(v, g)
    BY <1>5, <2>1
  <2>2. CASE v = Len(log) + 1 /\ g = File(c)
    <3>1. to # "recorded" => read'[c] = handle[c]
      BY <1>1 DEF Typed
    <3>2. handle[c] <= Len(log)
      BY <1>1 DEF MemberOK, Looking
    <3> QED
      BY <1>1, <2>2, <3>1, <3>2
  <2> QED
    BY <1>3, <2>1, <2>2
<1>11. Looking(c)'
  <2>1. handle'[c] \in {handle[c], Len(log) + 1} /\ read'[c] \in {read[c], handle[c]}
    BY <1>1 DEF Typed
  <2>2. to = "lost" => read'[c] = handle'[c]
    BY <1>1 DEF Typed
  <2>3. handle[c] <= Len(log) /\ read[c] <= Len(log)
    BY <1>1 DEF MemberOK, Looking
  <2>4. handle'[c] <= Len(log') /\ read'[c] <= Len(log')
    BY <1>1, <1>3, <2>1, <2>3
  <2> QED
    BY <1>2, <2>2, <2>4 DEF Looking
<1>12. \A d \in Members \ {c} : MemberOK(d)'
  <2> SUFFICES ASSUME NEW d \in Members \ {c} PROVE MemberOK(d)'
    OBVIOUS
  <2>1. /\ pc'[d] = pc[d] /\ batch'[d] = batch[d] /\ call'[d] = call[d]
        /\ retries'[d] = retries[d] /\ handle'[d] = handle[d] /\ read'[d] = read[d]
    BY <1>1, <1>2 DEF Typed
  <2>2. Apart(d)
    BY <1>3, <2>1 DEF Apart
  <2> QED
    BY <1>7, <2>2, Parts, ApartKeeps
<1> QED
  BY <1>3, <1>6, <1>7, <1>8, <1>9, <1>10, <1>11, <1>12 DEF IInv, MemberOK

\* The ways a commit lands.
LEMMA WritesKeep ==
    ASSUME ConstantsAssumption, IInv, NEW c \in Members,
           Write(c) \/ LoseAnswer(c) \/ (FailWrite(c) /\ AppendRejects(c)) \/ Recommit(c)
    PROVE  IInv'
<1>1. CASE Write(c)
  BY <1>1, Writes DEF Write
<1>2. CASE LoseAnswer(c)
  BY <1>2, Writes DEF LoseAnswer
<1>3. CASE FailWrite(c) /\ AppendRejects(c)
  BY <1>3, Writes DEF FailWrite
<1>4. CASE Recommit(c)
  BY <1>4, Writes DEF Recommit
<1> QED
  BY <1>1, <1>2, <1>3, <1>4

-----------------------------------------------------------------------------
(* The theorems.                                                           *)

\* The invariant holds at first.
LEMMA Initially ==
    ASSUME ConstantsAssumption, Init
    PROVE  IInv
<1>1. Typed
  <2>1. <<>> \in Seq(Entry) /\ Retries \in Nat
    BY DEF ConstantsAssumption
  <2> QED
    BY <2>1 DEF Init, Typed
<1>2. DOMAIN log = {} /\ Len(log) = 0
  BY DEF Init
<1>3. LogOK
  BY <1>2 DEF LogOK, CommitsOK, HasLasts, AgainOK, Kept
<1>4. \A v, f : ~Wrote(v, f)
  BY <1>2 DEF Wrote
<1>5. ASSUME NEW m \in Members
      PROVE  MemberOK(m)
  <2>1. pc[m] = "ready" /\ batch[m] = 1 /\ handle[m] = 0 /\ read[m] = 0
    BY DEF Init
  <2>2. CallsOK(m) /\ Fresh(m)
    BY <1>4, <2>1 DEF CallsOK, Fresh
  <2>3. Passed(m)
    BY <2>1 DEF Passed
  <2>4. Looking(m)
    BY <1>2, <2>1 DEF Looking
  <2> QED
    BY <2>2, <2>3, <2>4 DEF MemberOK
<1>6. OneFile
  BY <1>2 DEF OneFile
<1>7. OneForm
  <2>1. log \in Seq(Entry) /\ HasLasts(log)
    BY <1>1, <1>3 DEF Typed, LogOK
  <2>2. \A f : f \notin Active(log)
    BY <1>2, <2>1, ActiveIs
  <2> QED
    BY <2>2 DEF OneForm
<1> QED
  BY <1>1, <1>3, <1>5, <1>6, <1>7 DEF IInv

\* Every step keeps it.
LEMMA NextKeeps ==
    ASSUME ConstantsAssumption, IInv, [Next]_vars
    PROVE  IInv'
<1>1. ASSUME NEW c \in Members, Do(c)
      PROVE  IInv'
  BY <1>1, BeginKeeps, RefuseKeeps, WritesKeep, GiveUpKeeps, MovesKeep, SearchKeeps, RetryKeeps,
     ReturnErrorKeeps, CommitTargetKeeps DEF Do
<1>2. ASSUME NEW c \in Members, Break(c)
      PROVE  IInv'
  <2>1. FailWrite(c) => log' = log \/ AppendRejects(c)
    BY DEF FailWrite
  <2> QED
    BY <1>2, <2>1, WritesKeep, GiveUpKeeps, MovesKeep DEF Break
<1>3. CASE Change \/ Protocol \/ Cleanup
  BY <1>3, ChangeKeeps, ProtocolKeeps
<1>4. ASSUME NEW f \in Active(log), Compact(f)
      PROVE  IInv'
  BY <1>4, CompactKeeps
<1>5. CASE UNCHANGED vars
  <2>1. Typed /\ LogOK /\ OneFile /\ OneForm
    BY DEF IInv
  <2>2. UNCHANGED <<log, floor, pc, why, batch, call, retries, handle, read, excused>>
    BY <1>5 DEF vars
  <2>3. Typed'
    BY <2>1, <2>2 DEF Typed
  <2>4. OneFile' /\ OneForm' /\ LogOK' /\ \A d \in Members : NothingOf(d)
    BY <2>1, <2>2, OneStays, SameLog
  <2> QED
    BY <2>2, <2>3, <2>4, OthersKeep
<1> QED
  BY <1>1, <1>2, <1>3, <1>4, <1>5 DEF Next

\* The invariant holds throughout.
THEOREM Invariance ==
    ASSUME ConstantsAssumption
    PROVE  Spec => []IInv
<1>1. Init => IInv
  BY Initially
<1>2. IInv /\ [Next]_vars => IInv'
  BY NextKeeps
<1> QED
  BY <1>1, <1>2, PTL DEF Spec

\* The type invariant of the data-quality writers.
THEOREM TypesHold ==
    ASSUME ConstantsAssumption
    PROVE  Spec => []TypeOK
<1>1. IInv => TypeOK
  <2> SUFFICES ASSUME IInv PROVE TypeOK
    OBVIOUS
  <2>1. \A m \in Members : read[m] <= Len(log) /\ handle[m] <= Len(log)
    BY DEF IInv, MemberOK, Looking
  <2> QED
    BY <2>1 DEF IInv, Typed, TypeOK
<1> QED
  BY <1>1, Invariance, PTL

\* No reject is lost: once the target has passed a batch, or is about to, rows of it are
\* in the table, whatever landed unacknowledged, was compacted or conflicted (write_kafka
\* of dq.rs).
THEOREM RejectsAreKept ==
    ASSUME ConstantsAssumption
    PROVE  Spec => []NeverLost
<1>1. IInv => NeverLost
  <2> SUFFICES ASSUME IInv, NEW m \in Members, NEW b \in 1 .. Batches,
                      b < batch[m] \/ (b = batch[m] /\ pc[m] = "recorded")
               PROVE  Rows(m, b) # {}
    BY DEF NeverLost
  <2>1. b \in Nat /\ 1 <= b
    BY DEF ConstantsAssumption
  <2>2. Written(m, b)
    BY <2>1 DEF IInv, MemberOK, Passed
  <2>3. \E g \in Active(log) : g[1] = m /\ g[2] = b
    BY <2>2 DEF Written, IInv, LogOK, Kept
  <2> QED
    BY <2>3 DEF Rows
<1> QED
  BY <1>1, Invariance, PTL

\* A snapshot reader sees a reject once, unless its duplicate was announced or came from
\* the race of a compaction with delta-rs's own retry: a search that meets no gap finds
\* what landed (landed of dq.rs).
THEOREM RejectsAreOnce ==
    ASSUME ConstantsAssumption
    PROVE  Spec => []OnceUnlessAnnounced
<1>1. IInv => OnceUnlessAnnounced
  <2> SUFFICES ASSUME IInv, NEW m \in Members, NEW b \in 1 .. Batches, <<m, b>> \notin excused
               PROVE  Cardinality(Rows(m, b)) <= 1
    BY DEF OnceUnlessAnnounced
  <2>1. Typed /\ LogOK /\ OneFile /\ OneForm
    BY DEF IInv
  <2>2. ASSUME NEW g \in Rows(m, b)
        PROVE  \E f \in Base : f[1] = m /\ f[2] = b /\ (g = f \/ g = Again(f)) /\ \E v : Wrote(v, f)
    <3>1. g \in Active(log) /\ g[1] = m /\ g[2] = b
      BY DEF Rows
    <3>2. PICK v \in DOMAIN log : g \in log[v].add
      BY <2>1, <3>1, ActiveIs DEF Typed, LogOK
    <3>3. g \in Files
      <4>1. log[v] \in Entry
        BY <2>1, <3>2 DEF Typed
      <4> QED
        BY <3>2, <4>1 DEF Entry
    <3>4. CASE g \in Base
      BY <3>1, <3>2, <3>4 DEF Wrote
    <3>5. CASE \E f \in Base : g = Again(f)
      <4>1. PICK f \in Base : g = Again(f)
        BY <3>5
      <4>2. f[1] = m /\ f[2] = b
        BY <3>1, <4>1, AgainIs
      <4>3. \E w : Wrote(w, f)
        BY <2>1, <3>2, <4>1 DEF LogOK, AgainOK
      <4> QED
        BY <4>1, <4>2, <4>3
    <3> QED
      BY <3>3, <3>4, <3>5 DEF Files
  <2>3. ASSUME NEW g \in Rows(m, b), NEW h \in Rows(m, b)
        PROVE  g = h
    <3>1. PICK f \in Base : f[1] = m /\ f[2] = b /\ (g = f \/ g = Again(f)) /\ \E v : Wrote(v, f)
      BY <2>2
    <3>2. PICK k \in Base : k[1] = m /\ k[2] = b /\ (h = k \/ h = Again(k)) /\ \E v : Wrote(v, k)
      BY <2>2
    <3>3. f = k
      BY <2>1, <3>1, <3>2 DEF OneFile, Wrote
    <3>4. g \in Active(log) /\ h \in Active(log)
      BY DEF Rows
    <3> QED
      BY <2>1, <3>1, <3>2, <3>3, <3>4 DEF OneForm
  <2>4. CASE Rows(m, b) = {}
    BY <2>4, FS_EmptySet
  <2>5. CASE Rows(m, b) # {}
    <3>1. PICK g \in Rows(m, b) : TRUE
      BY <2>5
    <3>2. Rows(m, b) = {g}
      BY <2>3, <3>1
    <3>3. Cardinality({g}) = 1
      BY FS_Singleton
    <3> QED
      BY <3>2, <3>3
  <2> QED
    BY <2>4, <2>5
<1> QED
  BY <1>1, Invariance, PTL

-----------------------------------------------------------------------------
\* TargetGuard, for any number of tables that follow one another at the location, any
\* number of versions and any age: a commit lands only in the table the pipeline opened
\* and over no upgrade its read could have met, a table is taken for replaced only where
\* it was, and no protected log is cleaned up. Two hypotheses: a recreated table has
\* fewer versions than the handle (~Overtakes), and no partition waits for an operator
\* while the others go on (~PartitionBlocked). Without either one the code does commit
\* to a recreated table (README.md, section 5).
CONSTANTS MaxVersion, MaxTables, MaxAge, Interval, Overtakes, Reopens, PartitionBlocked,
  Rebases
VARIABLES id, present, checkpoints, upgraded, protected, writerHandle, age, since, phase,
  held, clean, seenUpgrade, landed

Guard == INSTANCE TargetGuard WITH handle <- writerHandle, seen <- seenUpgrade


WriterHandle == [id : 1 .. MaxTables, ver : 0 .. MaxVersion, up : BOOLEAN, prot : BOOLEAN]

-----------------------------------------------------------------------------
(* The inductive invariant.                                                *)

\* What the log holds: its commits or a checkpoint tell the table's id, and all that
\* is marked in it is below its head.
GuardedLogOK ==
    /\ 0 \in present \/ checkpoints # {}
    /\ \A c \in checkpoints : c <= Guard!Head
    /\ upgraded <= Guard!Head /\ protected <= Guard!Head

\* A recreated table has held the pipeline, or is shorter than the handle.
Replaced ==
    id # Guard!Opened => held = "replaced" \/ (Guard!Head < writerHandle.ver /\ phase \in {"idle", "refresh"})

\* Of the table that was opened the handle knows all up to its version.
Upgrades ==
    id = Guard!Opened =>
        /\ writerHandle.ver <= Guard!Head
        /\ upgraded # Guard!None /\ upgraded <= writerHandle.ver => writerHandle.up
        /\ protected # Guard!None /\ protected <= writerHandle.ver => writerHandle.prot

\* A pipeline is held between attempts only, and one that is not can write.
Holding ==
    /\ writerHandle.id <= id
    /\ held # "none" => phase = "idle"
    /\ held = "none" /\ phase # "post" => ~writerHandle.up

\* An upgrade seen by the read before the commit lies behind a commit that is gone.
SeenIsBlocked ==
    phase = "commit" /\ seenUpgrade => \E v \in writerHandle.ver + 1 .. Guard!Head : v \notin present

\* A commit that cleans up leaves a protected log alone.
CleanIsAllowed ==
    /\ phase = "commit" /\ clean => ~writerHandle.prot
    /\ phase = "post" /\ clean => protected = Guard!None \/ protected > writerHandle.ver

\* The inductive invariant.
GuardInv ==
    /\ Guard!TypeOK
    /\ GuardedLogOK /\ Replaced /\ Upgrades /\ Holding /\ SeenIsBlocked /\ CleanIsAllowed
    /\ Guard!TargetGuarded

-----------------------------------------------------------------------------
(* Greatest elements.                                                      *)

\* Every set of naturals has a least element.
LEMMA LeastNatural ==
    ASSUME NEW T \in SUBSET Nat, T # {}
    PROVE  \E x \in T : \A y \in T : x =< y
<1> PICK R : R = {ss \in Nat \X Nat : ss[1] < ss[2]}
  OBVIOUS
<1>1. IsWellFoundedOn(R, Nat)
  BY NatLessThanWellFounded DEF OpToRel
<1>2. PICK x \in T : \A y \in T : ~(<<y, x>> \in R)
  BY <1>1, WFMin
<1>3. ASSUME NEW y \in T PROVE x =< y
  <2> PICK z : z = <<y, x>>
    OBVIOUS
  <2>1. z \in Nat \X Nat /\ z[1] = y /\ z[2] = x /\ z \notin R
    BY <1>2
  <2>2. ~(y < x)
    BY <2>1
  <2> QED
    BY <2>2
<1> QED
  BY <1>3

\* A bounded set of naturals has a greatest element.
LEMMA MaxIn ==
    ASSUME NEW n \in Nat, NEW S \in SUBSET (0 .. n), S # {}
    PROVE  Guard!Max(S) \in S /\ \A y \in S : Guard!Max(S) >= y
<1> PICK T : T = {n - y : y \in S}
  OBVIOUS
<1>1. \A y \in S : n - y \in Nat
  OBVIOUS
<1>5. T \in SUBSET Nat /\ T # {}
  BY <1>1
<1>2. PICK x \in T : \A y \in T : x =< y
  BY <1>5, LeastNatural
<1>3. PICK m \in S : x = n - m
  BY <1>2
<1>4. ASSUME NEW y \in S PROVE m >= y
  <2>1. n - y \in T
    OBVIOUS
  <2>2. n - m =< n - y
    BY <1>2, <1>3, <2>1
  <2> QED
    BY <2>2
<1> QED
  BY <1>4 DEF Guard!Max

\* What an element of a set that none exceeds is.
LEMMA MaxIs ==
    ASSUME NEW n \in Nat, NEW S \in SUBSET (0 .. n), NEW x \in S, \A y \in S : x >= y
    PROVE  Guard!Max(S) = x
<1> PICK m : m = Guard!Max(S)
  OBVIOUS
<1>1. m \in S /\ m >= x
  BY MaxIn
<1>2. m \in Int /\ x \in Int /\ x >= m
  BY <1>1
<1>3. m = x
  BY <1>1, <1>2
<1> QED
  BY <1>3

\* The head of a log, and the version a handle has once it has read it.
LEMMA HeadIs ==
    ASSUME Guard!ConstantsAssumption, Guard!TypeOK
    PROVE  /\ MaxVersion \in Nat /\ writerHandle \in WriterHandle
           /\ present \in SUBSET (0 .. MaxVersion)
           /\ Guard!Head \in present /\ Guard!Head \in 0 .. MaxVersion
           /\ \A v \in present : v <= Guard!Head
           /\ Guard!Max(present \cup {writerHandle.ver}) = IF writerHandle.ver > Guard!Head THEN writerHandle.ver ELSE Guard!Head
<1>1. MaxVersion \in Nat
  BY DEF Guard!ConstantsAssumption
<1>2. writerHandle \in WriterHandle /\ writerHandle.ver \in 0 .. MaxVersion
  BY DEF Guard!TypeOK, WriterHandle
<1>3. present \in SUBSET (0 .. MaxVersion) /\ present # {}
  BY DEF Guard!TypeOK
<1>4. Guard!Head \in present /\ \A y \in present : Guard!Head >= y
  BY <1>1, <1>3, MaxIn DEF Guard!Head
<1> PICK S : S = present \cup {writerHandle.ver}
  OBVIOUS
<1>5. S \in SUBSET (0 .. MaxVersion)
  BY <1>2, <1>3
<1>6. CASE writerHandle.ver > Guard!Head
  <2>1. writerHandle.ver \in S /\ \A y \in S : writerHandle.ver >= y
    BY <1>2, <1>3, <1>4, <1>6
  <2>2. Guard!Max(S) = writerHandle.ver
    BY <1>1, <1>5, <2>1, MaxIs
  <2> QED
    BY <1>1, <1>2, <1>3, <1>4, <1>6, <2>2
<1>7. CASE ~(writerHandle.ver > Guard!Head)
  <2>1. Guard!Head \in S /\ \A y \in S : Guard!Head >= y
    BY <1>2, <1>3, <1>4, <1>7
  <2>2. Guard!Max(S) = Guard!Head
    BY <1>1, <1>5, <2>1, MaxIs
  <2> QED
    BY <1>1, <1>2, <1>3, <1>4, <1>7, <2>2
<1> QED
  BY <1>6, <1>7

\* The head of the next state's log, where x is in it and none exceeds x.
LEMMA NextHead ==
    ASSUME Guard!ConstantsAssumption, NEW P, present' = P, P \in SUBSET (0 .. MaxVersion),
           NEW x \in P, \A y \in P : x >= y
    PROVE  Guard!Head' = x
<1>1. MaxVersion \in Nat
  BY DEF Guard!ConstantsAssumption
<1>2. Guard!Max(P) = x
  BY <1>1, MaxIs
<1> QED
  BY <1>2 DEF Guard!Head

-----------------------------------------------------------------------------
(* The writer's own steps.                                                 *)

\* What the type invariant says of each variable.
LEMMA GuardTypes ==
    ASSUME Guard!ConstantsAssumption, Guard!TypeOK
    PROVE  /\ MaxVersion \in Nat /\ MaxTables \in Nat /\ MaxAge \in Nat
           /\ id \in 1 .. MaxTables /\ checkpoints \in SUBSET (0 .. MaxVersion)
           /\ upgraded \in -1 .. MaxVersion /\ protected \in -1 .. MaxVersion
           /\ writerHandle.id \in Nat /\ writerHandle.ver \in 0 .. MaxVersion
           /\ writerHandle.up \in BOOLEAN /\ writerHandle.prot \in BOOLEAN
           /\ age \in 0 .. MaxAge /\ since \in 0 .. MaxAge + 1
BY DEF Guard!ConstantsAssumption, Guard!TypeOK, Guard!None

\* The log alone decides what is in it.
LEMMA LogStays ==
    ASSUME UNCHANGED Guard!table
    PROVE  /\ Guard!Head' = Guard!Head /\ GuardedLogOK' = GuardedLogOK
           /\ present' = present /\ id' = id /\ checkpoints' = checkpoints
           /\ upgraded' = upgraded /\ protected' = protected
BY DEF Guard!table, Guard!Head, GuardedLogOK

\* The invariant survives TryCommit: a handle whose commit is gone is refreshed.
LEMMA TryCommitKeeps ==
    ASSUME Guard!ConstantsAssumption, GuardInv, Guard!TryCommit
    PROVE  GuardInv'
<1>1. /\ UNCHANGED Guard!table /\ writerHandle' = writerHandle /\ age' = age /\ since' = since /\ held' = held
      /\ clean' = clean /\ seenUpgrade' = seenUpgrade /\ landed' = landed
      /\ phase = "idle" /\ held = "none" /\ phase' \in {"refresh", "proto"}
      /\ phase' = "proto" => writerHandle.ver \in present
  BY DEF Guard!TryCommit, Guard!CommitExists
<1>2. Guard!TypeOK /\ GuardedLogOK /\ Replaced /\ Upgrades /\ Holding /\ CleanIsAllowed /\ Guard!TargetGuarded
  BY DEF GuardInv
<1>3. Guard!TypeOK'
  BY <1>1, <1>2, LogStays DEF Guard!TypeOK
<1>4. GuardedLogOK'
  BY <1>1, <1>2, LogStays
<1>5. Replaced'
  <2>1. id # Guard!Opened => Guard!Head < writerHandle.ver
    BY <1>1, <1>2 DEF Replaced
  <2>2. \A v \in present : v <= Guard!Head
    BY <1>2, HeadIs
  <2>3. writerHandle.ver \in Nat /\ Guard!Head \in Nat
    BY <1>2, HeadIs, GuardTypes
  <2>4. id # Guard!Opened => phase' = "refresh"
    BY <1>1, <2>1, <2>2, <2>3
  <2> QED
    BY <1>1, <2>1, <2>4, LogStays DEF Replaced
<1>6. Upgrades'
  BY <1>1, <1>2, LogStays DEF Upgrades
<1>7. Holding'
  BY <1>1, <1>2, LogStays DEF Holding
<1>8. SeenIsBlocked' /\ CleanIsAllowed'
  BY <1>1 DEF SeenIsBlocked, CleanIsAllowed
<1>9. Guard!TargetGuarded'
  BY <1>1, <1>2, LogStays DEF Guard!TargetGuarded, Guard!InOwnTable, Guard!UpgradeHeeded, Guard!NoFalseAlarm
<1> QED
  BY <1>3, <1>4, <1>5, <1>6, <1>7, <1>8, <1>9 DEF GuardInv

\* What a refresh finds and what it leaves of the handle.
LEMMA Refreshed ==
    ASSUME Guard!ConstantsAssumption, GuardInv, NEW r \in BOOLEAN
    PROVE  /\ Guard!Handle(r) \in WriterHandle /\ Guard!Handle(r).id <= id
           /\ id = Guard!Opened <=> Guard!Found(r) = Guard!Opened
           /\ id = Guard!Opened =>
                 /\ Guard!Handle(r).ver <= Guard!Head
                 /\ upgraded # Guard!None /\ upgraded <= Guard!Handle(r).ver => Guard!Handle(r).up
                 /\ protected # Guard!None /\ protected <= Guard!Handle(r).ver => Guard!Handle(r).prot
<1>1. Guard!TypeOK /\ GuardedLogOK /\ Upgrades /\ Holding
  BY DEF GuardInv
<1>2. /\ MaxVersion \in Nat /\ MaxTables \in Nat /\ id \in 1 .. MaxTables
      /\ upgraded \in -1 .. MaxVersion /\ protected \in -1 .. MaxVersion
      /\ writerHandle.id \in Nat /\ writerHandle.ver \in 0 .. MaxVersion
      /\ writerHandle.up \in BOOLEAN /\ writerHandle.prot \in BOOLEAN
  BY <1>1, GuardTypes
<1>3. writerHandle \in WriterHandle /\ Guard!Head \in 0 .. MaxVersion
  BY <1>1, HeadIs
<1>4. writerHandle.id \in 1 .. id
  BY <1>1, <1>2, <1>3 DEF Holding, WriterHandle
<1>5. upgraded <= Guard!Head /\ protected <= Guard!Head /\ (0 \in present \/ checkpoints # {})
  BY <1>1 DEF GuardedLogOK
<1> PICK newest : newest = Guard!Max(present \cup {writerHandle.ver})
  OBVIOUS
<1>6. newest = IF writerHandle.ver > Guard!Head THEN writerHandle.ver ELSE Guard!Head
  BY <1>1, HeadIs
<1>7. CASE r = TRUE
  <2>1. Guard!Handle(r) = [id |-> id, ver |-> Guard!Head, up |-> upgraded # Guard!None, prot |-> protected # Guard!None]
    BY <1>7 DEF Guard!Handle, Guard!Reopened
  <2>2. Guard!Handle(r) \in WriterHandle /\ Guard!Handle(r).id = id /\ Guard!Handle(r).ver = Guard!Head
        /\ Guard!Handle(r).up = (upgraded # Guard!None) /\ Guard!Handle(r).prot = (protected # Guard!None)
    BY <1>2, <1>3, <2>1 DEF WriterHandle
  <2>3. Guard!Found(r) = id
    BY <1>7 DEF Guard!Found
  <2>4. Guard!Handle(r).ver <= Guard!Head /\ Guard!Handle(r).id <= id
    BY <1>2, <1>3, <2>2
  <2>5. (upgraded # Guard!None => Guard!Handle(r).up) /\ (protected # Guard!None => Guard!Handle(r).prot)
    BY <2>2, Zenon
  <2> QED
    BY <2>2, <2>3, <2>4, <2>5
<1>8. CASE r = FALSE
  <2>1. Guard!Handle(r) = [writerHandle EXCEPT !.ver = newest, !.up = writerHandle.up \/ upgraded > writerHandle.ver,
                                   !.prot = writerHandle.prot \/ protected > writerHandle.ver]
    BY <1>8 DEF Guard!Handle, Guard!Incremental
  <2>2. /\ Guard!Handle(r) \in WriterHandle /\ Guard!Handle(r).id = writerHandle.id /\ Guard!Handle(r).ver = newest
        /\ Guard!Handle(r).up = (writerHandle.up \/ upgraded > writerHandle.ver)
        /\ Guard!Handle(r).prot = (writerHandle.prot \/ protected > writerHandle.ver)
    BY <1>2, <1>3, <1>6, <2>1 DEF WriterHandle
  <2>3. Guard!Found(r) = id
    BY <1>5, <1>8 DEF Guard!Found, Guard!StoredTableId
  <2>4. Guard!Handle(r).id <= id
    BY <1>2, <1>4, <2>2
  <2>5. ASSUME id = Guard!Opened
        PROVE  /\ newest <= Guard!Head
               /\ upgraded # Guard!None /\ upgraded <= newest => writerHandle.up \/ upgraded > writerHandle.ver
               /\ protected # Guard!None /\ protected <= newest => writerHandle.prot \/ protected > writerHandle.ver
    <3>1. /\ writerHandle.ver <= Guard!Head
          /\ upgraded # Guard!None /\ upgraded <= writerHandle.ver => writerHandle.up
          /\ protected # Guard!None /\ protected <= writerHandle.ver => writerHandle.prot
      BY <1>1, <2>5 DEF Upgrades
    <3> QED
      BY <1>2, <1>3, <1>6, <3>1
  <2> QED
    BY <2>2, <2>3, <2>4, <2>5
<1> QED
  BY <1>7, <1>8

\* The invariant survives a refresh of the handle, after which the pipeline is held
\* or not by what was found.
LEMMA RefreshKeeps ==
    ASSUME Guard!ConstantsAssumption, GuardInv, NEW r \in BOOLEAN,
           UNCHANGED <<Guard!table, since, clean, seenUpgrade, landed>>,
           writerHandle' = Guard!Handle(r), held' = Guard!RefreshError(r), age' \in 0 .. MaxAge,
           phase' \in {"idle", "proto"}, held' # "none" => phase' = "idle"
    PROVE  GuardInv'
<1>1. UNCHANGED Guard!table /\ since' = since /\ clean' = clean /\ seenUpgrade' = seenUpgrade /\ landed' = landed
  OBVIOUS
<1>2. Guard!TypeOK /\ GuardedLogOK /\ Guard!TargetGuarded
  BY DEF GuardInv
<1>3. held' \in {"none", "replaced", "unwritable"}
  BY DEF Guard!RefreshError
<1>4. writerHandle' \in WriterHandle /\ writerHandle'.id <= id
  BY Refreshed
<1>5. Guard!TypeOK'
  BY <1>1, <1>2, <1>3, <1>4, LogStays DEF Guard!TypeOK, WriterHandle
<1>6. GuardedLogOK'
  BY <1>1, <1>2, LogStays
<1>7. (held' = "replaced" <=> id # Guard!Opened) /\ (held' = "none" => ~writerHandle'.up)
  BY Refreshed DEF Guard!RefreshError
<1>8. Replaced'
  BY <1>1, <1>7, LogStays DEF Replaced
<1>9. Upgrades'
  BY <1>1, Refreshed, LogStays DEF Upgrades
<1>10. Holding'
  BY <1>1, <1>4, <1>7, LogStays DEF Holding
<1>11. SeenIsBlocked' /\ CleanIsAllowed'
  BY DEF SeenIsBlocked, CleanIsAllowed
<1>12. Guard!TargetGuarded'
  BY <1>1, <1>2, <1>7, LogStays DEF Guard!TargetGuarded, Guard!InOwnTable, Guard!UpgradeHeeded, Guard!NoFalseAlarm
<1> QED
  BY <1>5, <1>6, <1>8, <1>9, <1>10, <1>11, <1>12 DEF GuardInv

\* The invariant survives RefreshTarget.
LEMMA RefreshTargetKeeps ==
    ASSUME Guard!ConstantsAssumption, GuardInv, NEW r \in BOOLEAN, Guard!RefreshTarget(r)
    PROVE  GuardInv'
<1>1. age \in 0 .. MaxAge /\ MaxAge \in Nat
  BY GuardTypes DEF GuardInv
<1>2. /\ UNCHANGED <<Guard!table, since, clean, seenUpgrade, landed>>
      /\ writerHandle' = Guard!Handle(r) /\ held' = Guard!RefreshError(r) /\ age' \in 0 .. MaxAge
      /\ phase' \in {"idle", "proto"} /\ (held' # "none" => phase' = "idle")
  BY <1>1 DEF Guard!RefreshTarget
<1> QED
  BY <1>2, RefreshKeeps

\* The invariant survives RecheckHeld.
LEMMA RecheckHeldKeeps ==
    ASSUME Guard!ConstantsAssumption, GuardInv, NEW r \in BOOLEAN, Guard!RecheckHeld(r)
    PROVE  GuardInv'
<1>1. age \in 0 .. MaxAge /\ MaxAge \in Nat
  BY GuardTypes DEF GuardInv
<1>2. /\ UNCHANGED <<Guard!table, since, clean, seenUpgrade, landed>>
      /\ writerHandle' = Guard!Handle(r) /\ held' = Guard!RefreshError(r) /\ age' \in 0 .. MaxAge
      /\ phase' \in {"idle", "proto"} /\ (held' # "none" => phase' = "idle")
  BY <1>1 DEF Guard!RecheckHeld
<1> QED
  BY <1>2, RefreshKeeps

\* The invariant survives CheckProtocol: an upgrade met by the read that is no reason
\* to reset is behind a commit that is gone.
LEMMA CheckProtocolKeeps ==
    ASSUME Guard!ConstantsAssumption, GuardInv, Guard!CheckProtocol
    PROVE  GuardInv'
<1>1. /\ UNCHANGED Guard!table /\ writerHandle' = writerHandle /\ age' = age /\ since' = since /\ held' = held
      /\ landed' = landed /\ phase = "proto" /\ phase' \in {"reset", "commit"}
      /\ phase' = "commit" => ~Guard!ProtocolChanged
      /\ clean' = Guard!CleansUp /\ seenUpgrade' = (upgraded # Guard!None)
  BY DEF Guard!CheckProtocol
<1>2. Guard!TypeOK /\ GuardedLogOK /\ Replaced /\ Upgrades /\ Holding /\ Guard!TargetGuarded
  BY DEF GuardInv
<1>3. clean' \in BOOLEAN /\ (clean' => ~writerHandle.prot)
  BY <1>1 DEF Guard!CleansUp, Guard!ProtectsCheckpoints
<1>4. Guard!TypeOK'
  BY <1>1, <1>2, <1>3, LogStays DEF Guard!TypeOK
<1>5. held = "none" /\ ~writerHandle.up /\ id = Guard!Opened
  BY <1>1, <1>2 DEF Holding, Replaced
<1>6. Replaced' /\ GuardedLogOK'
  BY <1>1, <1>2, <1>5, LogStays DEF Replaced
<1>7. Upgrades'
  BY <1>1, <1>2, LogStays DEF Upgrades
<1>8. Holding'
  BY <1>1, <1>2, <1>5, LogStays DEF Holding
<1>9. SeenIsBlocked'
  <2>1. SUFFICES ASSUME phase' = "commit", seenUpgrade'
                 PROVE  \E v \in writerHandle.ver + 1 .. Guard!Head : v \notin present
    BY <1>1, LogStays DEF SeenIsBlocked
  <2>2. upgraded # Guard!None /\ ~Guard!ProtocolChanged
    BY <1>1, <2>1
  <2>3. upgraded \in -1 .. MaxVersion /\ MaxVersion \in Nat /\ writerHandle.ver \in 0 .. MaxVersion
        /\ Guard!Head \in 0 .. MaxVersion
    BY <1>2, GuardTypes, HeadIs
  <2>4. ~(upgraded <= writerHandle.ver)
    BY <1>2, <1>5, <2>2 DEF Upgrades
  <2>5. upgraded > writerHandle.ver
    BY <2>3, <2>4
  <2>6. \E v \in writerHandle.ver + 1 .. upgraded : v \notin present
    BY <2>2, <2>5 DEF Guard!ProtocolChanged
  <2>7. upgraded <= Guard!Head
    BY <1>2 DEF GuardedLogOK
  <2> QED
    BY <2>3, <2>6, <2>7
<1>10. CleanIsAllowed'
  BY <1>1, <1>3 DEF CleanIsAllowed
<1>11. Guard!TargetGuarded'
  BY <1>1, <1>2, LogStays DEF Guard!TargetGuarded, Guard!InOwnTable, Guard!UpgradeHeeded, Guard!NoFalseAlarm
<1> QED
  BY <1>4, <1>6, <1>7, <1>8, <1>9, <1>10, <1>11 DEF GuardInv

\* The invariant survives CommitConflicts.
LEMMA CommitConflictsKeeps ==
    ASSUME Guard!ConstantsAssumption, GuardInv, Guard!CommitConflicts
    PROVE  GuardInv'
<1>1. /\ UNCHANGED Guard!table /\ writerHandle' = writerHandle /\ age' = age /\ since' = since /\ held' = held
      /\ clean' = clean /\ seenUpgrade' = seenUpgrade /\ landed' = landed
      /\ phase = "commit" /\ phase' = "reset"
  BY DEF Guard!CommitConflicts
<1>2. Guard!TypeOK /\ GuardedLogOK /\ Replaced /\ Upgrades /\ Holding /\ Guard!TargetGuarded
  BY DEF GuardInv
<1>3. Guard!TypeOK'
  BY <1>1, <1>2, LogStays DEF Guard!TypeOK
<1>4. held = "none" /\ id = Guard!Opened
  BY <1>1, <1>2 DEF Holding, Replaced
<1>5. Replaced' /\ GuardedLogOK' /\ SeenIsBlocked' /\ CleanIsAllowed'
  BY <1>1, <1>2, <1>4, LogStays DEF Replaced, SeenIsBlocked, CleanIsAllowed
<1>6. Upgrades' /\ Holding'
  BY <1>1, <1>2, LogStays DEF Upgrades, Holding
<1>7. Guard!TargetGuarded'
  BY <1>1, <1>2, LogStays DEF Guard!TargetGuarded, Guard!InOwnTable, Guard!UpgradeHeeded, Guard!NoFalseAlarm
<1> QED
  BY <1>3, <1>5, <1>6, <1>7 DEF GuardInv

\* The invariant survives CommitLands: it lands in the opened table, and over no
\* upgrade its read met.
LEMMA CommitLandsKeeps ==
    ASSUME Guard!ConstantsAssumption, GuardInv, Guard!CommitLands
    PROVE  GuardInv'
<1>1. Guard!TypeOK /\ GuardedLogOK /\ Replaced /\ Upgrades /\ Holding /\ SeenIsBlocked /\ CleanIsAllowed
      /\ Guard!TargetGuarded
  BY DEF GuardInv
<1>2. phase = "commit" /\ ~Guard!Conflicts
  BY DEF Guard!CommitLands
<1>3. held = "none" /\ id = Guard!Opened
  BY <1>1, <1>2 DEF Holding, Replaced
<1>4. /\ MaxVersion \in Nat /\ MaxAge \in Nat /\ writerHandle \in WriterHandle /\ writerHandle.ver \in 0 .. MaxVersion
      /\ present \in SUBSET (0 .. MaxVersion) /\ Guard!Head \in 0 .. MaxVersion
      /\ \A v \in present : v <= Guard!Head
      /\ upgraded \in -1 .. MaxVersion /\ protected \in -1 .. MaxVersion
      /\ writerHandle.up \in BOOLEAN /\ writerHandle.prot \in BOOLEAN
  BY <1>1, HeadIs, GuardTypes
<1>5. writerHandle.ver <= Guard!Head
  BY <1>1, <1>3 DEF Upgrades
<1>6. Guard!Max(present \cup {writerHandle.ver}) = Guard!Head
  <2>1. ~(writerHandle.ver > Guard!Head)
    BY <1>4, <1>5
  <2> QED
    BY <1>1, <2>1, HeadIs
<1> PICK at : at = Guard!Head + 1
  OBVIOUS
<1>7. /\ at <= MaxVersion /\ present' = present \cup {at}
      /\ writerHandle' = [writerHandle EXCEPT !.ver = at, !.up = writerHandle.up \/ upgraded > writerHandle.ver,
                                  !.prot = writerHandle.prot \/ protected > writerHandle.ver]
      /\ landed' = landed \cup {[table |-> id, at |-> at, over |-> upgraded # Guard!None,
                                 seen |-> seenUpgrade, since |-> since]}
  <2>1. /\ Guard!Head + 1 <= MaxVersion /\ present' = present \cup {Guard!Head + 1}
        /\ writerHandle' = [Guard!Incremental EXCEPT !.ver = Guard!Head + 1]
        /\ landed' = landed \cup {[table |-> id, at |-> Guard!Head + 1, over |-> upgraded # Guard!None,
                                   seen |-> seenUpgrade, since |-> since]}
    BY <1>6 DEF Guard!CommitLands
  <2>2. Guard!Incremental = [writerHandle EXCEPT !.ver = Guard!Head, !.up = writerHandle.up \/ upgraded > writerHandle.ver,
                                     !.prot = writerHandle.prot \/ protected > writerHandle.ver]
    BY <1>6 DEF Guard!Incremental
  <2>3. writerHandle' = [writerHandle EXCEPT !.ver = at, !.up = writerHandle.up \/ upgraded > writerHandle.ver,
                                 !.prot = writerHandle.prot \/ protected > writerHandle.ver]
    BY <1>4, <2>1, <2>2 DEF WriterHandle
  <2> QED
    BY <2>1, <2>3
<1>8. /\ age' = 0 /\ phase' = "post"
      /\ UNCHANGED <<id, checkpoints, upgraded, protected, since, held, clean, seenUpgrade>>
  BY DEF Guard!CommitLands
<1>9. /\ writerHandle' \in WriterHandle /\ writerHandle'.id = writerHandle.id /\ writerHandle'.ver = at
      /\ writerHandle'.up = (writerHandle.up \/ upgraded > writerHandle.ver)
      /\ writerHandle'.prot = (writerHandle.prot \/ protected > writerHandle.ver)
  <2>1. at \in 0 .. MaxVersion
    BY <1>4, <1>7
  <2> QED
    BY <1>4, <1>7, <2>1 DEF WriterHandle
<1>10. present' \in SUBSET (0 .. MaxVersion) /\ at \in present' /\ \A v \in present' : at >= v
  BY <1>4, <1>7
<1>11. Guard!Head' = at
  BY <1>10, NextHead
<1>12. Guard!TypeOK'
  BY <1>1, <1>4, <1>8, <1>9, <1>10 DEF Guard!TypeOK, WriterHandle
<1>13. GuardedLogOK'
  <2>1. 0 \in present' \/ checkpoints' # {}
    BY <1>1, <1>7, <1>8 DEF GuardedLogOK
  <2>2. \A x \in -1 .. MaxVersion : x <= Guard!Head => x <= at
    BY <1>4
  <2>3. checkpoints \in SUBSET (0 .. MaxVersion)
    BY <1>1, GuardTypes
  <2>4. \A c \in checkpoints : c <= Guard!Head
    BY <1>1 DEF GuardedLogOK
  <2>5. \A c \in checkpoints' : c <= at
    BY <1>4, <1>8, <2>3, <2>4
  <2>6. upgraded <= at /\ protected <= at
    BY <1>1, <1>4, <2>2 DEF GuardedLogOK
  <2> QED
    BY <1>8, <1>11, <2>1, <2>5, <2>6 DEF GuardedLogOK
<1>14. Replaced'
  BY <1>3, <1>8 DEF Replaced
<1>15. Upgrades'
  <2>1. /\ upgraded # Guard!None /\ upgraded <= writerHandle.ver => writerHandle.up
        /\ protected # Guard!None /\ protected <= writerHandle.ver => writerHandle.prot
    BY <1>1, <1>3 DEF Upgrades
  <2>2. writerHandle'.ver <= at
    BY <1>4, <1>9
  <2>3. ASSUME upgraded # Guard!None PROVE writerHandle'.up
    <3>1. upgraded <= writerHandle.ver \/ upgraded > writerHandle.ver
      BY <1>4
    <3>2. writerHandle.up \/ upgraded > writerHandle.ver
      BY <2>1, <2>3, <3>1
    <3> QED
      BY <1>9, <3>2, Zenon
  <2>4. ASSUME protected # Guard!None PROVE writerHandle'.prot
    <3>1. protected <= writerHandle.ver \/ protected > writerHandle.ver
      BY <1>4
    <3>2. writerHandle.prot \/ protected > writerHandle.ver
      BY <2>1, <2>4, <3>1
    <3> QED
      BY <1>9, <3>2, Zenon
  <2> QED
    BY <1>8, <1>11, <2>2, <2>3, <2>4 DEF Upgrades
<1>16. Holding'
  BY <1>1, <1>3, <1>8, <1>9 DEF Holding
<1>17. SeenIsBlocked'
  BY <1>8 DEF SeenIsBlocked
<1>18. (writerHandle.ver + 1 .. Guard!Head) \subseteq present /\ protected \notin writerHandle.ver + 1 .. Guard!Head
  BY <1>2, <1>6 DEF Guard!Conflicts, Guard!Winners
<1>19. CleanIsAllowed'
  <2>1. SUFFICES ASSUME clean PROVE protected = Guard!None
    BY <1>8 DEF CleanIsAllowed
  <2>2. ~writerHandle.prot
    BY <1>1, <1>2, <2>1 DEF CleanIsAllowed
  <2>3. protected # Guard!None => ~(protected <= writerHandle.ver)
    BY <1>1, <1>3, <2>2 DEF Upgrades
  <2>4. protected <= Guard!Head
    BY <1>1 DEF GuardedLogOK
  <2> QED
    BY <1>4, <1>18, <2>3, <2>4
<1>20. ~seenUpgrade
  BY <1>1, <1>2, <1>18 DEF SeenIsBlocked
<1>21. Guard!TargetGuarded'
  <2> PICK c : c = [table |-> id, at |-> at, over |-> upgraded # Guard!None, seen |-> seenUpgrade, since |-> since]
    OBVIOUS
  <2>1. c.table = Guard!Opened /\ c.seen = seenUpgrade
    BY <1>3
  <2>2. landed' = landed \cup {c}
    BY <1>7
  <2>3. /\ \A d \in landed : d.table = Guard!Opened
        /\ \A d \in landed : d.seen => ~d.over
    BY <1>1 DEF Guard!TargetGuarded, Guard!InOwnTable, Guard!UpgradeHeeded
  <2>4. (\A d \in landed' : d.table = Guard!Opened) /\ (\A d \in landed' : d.seen => ~d.over)
    BY <1>20, <2>1, <2>2, <2>3
  <2>5. Guard!NoFalseAlarm'
    BY <1>3, <1>8 DEF Guard!NoFalseAlarm
  <2> QED
    BY <2>4, <2>5 DEF Guard!TargetGuarded, Guard!InOwnTable, Guard!UpgradeHeeded
<1> QED
  BY <1>12, <1>13, <1>14, <1>15, <1>16, <1>17, <1>19, <1>21 DEF GuardInv

\* What the checkpoint and the cleanup after a commit leave, and that they leave a
\* protected log as it is.
LEMMA PostCommitKeeps ==
    ASSUME Guard!ConstantsAssumption, GuardInv, Guard!PostCommit
    PROVE  GuardInv' /\ Guard!ProtectedKept
<1>1. Guard!TypeOK /\ GuardedLogOK /\ Replaced /\ Upgrades /\ Holding /\ CleanIsAllowed /\ Guard!TargetGuarded
  BY DEF GuardInv
<1>2. /\ phase = "post" /\ phase' = "idle"
      /\ UNCHANGED <<id, upgraded, protected, writerHandle, age, since, clean, seenUpgrade, landed>>
      /\ held' = Guard!AfterCommit
  BY DEF Guard!PostCommit
<1>3. held = "none" /\ id = Guard!Opened
  BY <1>1, <1>2 DEF Holding, Replaced
<1>4. /\ MaxVersion \in Nat /\ writerHandle.ver \in 0 .. MaxVersion /\ writerHandle.up \in BOOLEAN
      /\ present \in SUBSET (0 .. MaxVersion) /\ Guard!Head \in 0 .. MaxVersion /\ Guard!Head \in present
      /\ \A v \in present : v <= Guard!Head
      /\ checkpoints \in SUBSET (0 .. MaxVersion)
  BY <1>1, HeadIs, GuardTypes
<1>5. writerHandle.ver <= Guard!Head /\ \A c \in checkpoints : c <= Guard!Head
  BY <1>1, <1>3 DEF Upgrades, GuardedLogOK
<1> PICK made : made = IF (writerHandle.ver + 1) % Interval = 0 THEN checkpoints \cup {writerHandle.ver}
                       ELSE checkpoints
  OBVIOUS
<1> PICK kept : kept = IF made = {} THEN 0 ELSE Guard!Max(made)
  OBVIOUS
<1>6. /\ checkpoints' = IF clean THEN {c \in made : c >= kept} ELSE made
      /\ present' = IF clean THEN {v \in present : v >= kept} ELSE present
  BY DEF Guard!PostCommit
<1>7. /\ checkpoints \subseteq made /\ made \in SUBSET (0 .. MaxVersion)
      /\ \A c \in made : c <= Guard!Head
  BY <1>4, <1>5
<1>8. /\ kept \in 0 .. MaxVersion /\ kept <= Guard!Head
      /\ made = {} => kept = 0
      /\ made # {} => kept \in made
  <2>1. CASE made = {}
    <3>1. kept = 0
      BY <2>1
    <3>2. 0 \in 0 .. MaxVersion /\ 0 <= Guard!Head
      BY <1>4
    <3>3. made # {} => kept \in made
      BY <2>1, Zenon
    <3> QED
      BY <3>1, <3>2, <3>3
  <2>2. CASE made # {}
    <3>1. Guard!Max(made) \in made
      BY <1>4, <1>7, <2>2, MaxIn
    <3>2. kept = Guard!Max(made)
      BY <2>2
    <3>3. kept \in made
      BY <3>1, <3>2
    <3> QED
      BY <1>7, <2>2, <3>3
  <2> QED
    BY <2>1, <2>2
<1>9. /\ present' \in SUBSET (0 .. MaxVersion) /\ Guard!Head \in present' /\ \A v \in present' : Guard!Head >= v
      /\ checkpoints' \subseteq made
  BY <1>4, <1>6, <1>8
<1>10. Guard!Head' = Guard!Head
  BY <1>9, NextHead
<1>11. 0 \in present' \/ checkpoints' # {}
  <2>1. CASE made = {}
    <3>1. 0 \in present
      BY <1>1, <1>7, <2>1 DEF GuardedLogOK
    <3> QED
      BY <1>6, <1>8, <2>1, <3>1
  <2>2. CASE made # {}
    <3>1. kept \in made /\ kept >= kept
      BY <1>4, <1>8, <2>2
    <3> QED
      BY <1>6, <3>1
  <2> QED
    BY <2>1, <2>2
<1>12. GuardedLogOK'
  BY <1>1, <1>2, <1>7, <1>9, <1>10, <1>11 DEF GuardedLogOK
<1>13. held' \in {"none", "unwritable"} /\ (held' = "none" => ~writerHandle.up)
  BY <1>2 DEF Guard!AfterCommit
<1>14. Guard!TypeOK'
  BY <1>1, <1>2, <1>7, <1>9, <1>13 DEF Guard!TypeOK
<1>15. Replaced' /\ Upgrades'
  BY <1>1, <1>2, <1>3, <1>10 DEF Replaced, Upgrades
<1>16. Holding'
  BY <1>1, <1>2, <1>13 DEF Holding
<1>17. SeenIsBlocked' /\ CleanIsAllowed'
  BY <1>2 DEF SeenIsBlocked, CleanIsAllowed
<1>18. Guard!TargetGuarded'
  BY <1>1, <1>2, <1>13 DEF Guard!TargetGuarded, Guard!InOwnTable, Guard!UpgradeHeeded, Guard!NoFalseAlarm
<1>19. Guard!ProtectedKept
  <2>1. ~clean => present' = present /\ checkpoints \subseteq checkpoints'
    BY <1>6, <1>7
  <2>2. clean => protected = Guard!None \/ protected > writerHandle.ver
    BY <1>1, <1>2 DEF CleanIsAllowed
  <2> QED
    BY <2>1, <2>2 DEF Guard!ProtectedKept
<1> QED
  BY <1>12, <1>14, <1>15, <1>16, <1>17, <1>18, <1>19 DEF GuardInv

-----------------------------------------------------------------------------
(* Other engines, and time.                                                *)

\* The invariant survives ForeignCommit: what it upgrades or protects is above every
\* handle, and a recreated table does not catch up with the handle.
LEMMA OtherCommitKeeps ==
    ASSUME Guard!ConstantsAssumption, ~Overtakes, GuardInv, Guard!ForeignCommit
    PROVE  GuardInv'
<1>1. Guard!TypeOK /\ GuardedLogOK /\ Replaced /\ Upgrades /\ Holding /\ SeenIsBlocked /\ CleanIsAllowed
      /\ Guard!TargetGuarded
  BY DEF GuardInv
<1>2. /\ MaxVersion \in Nat /\ writerHandle.ver \in 0 .. MaxVersion
      /\ present \in SUBSET (0 .. MaxVersion) /\ Guard!Head \in 0 .. MaxVersion /\ Guard!Head \in present
      /\ \A v \in present : v <= Guard!Head
      /\ checkpoints \in SUBSET (0 .. MaxVersion)
      /\ upgraded \in -1 .. MaxVersion /\ protected \in -1 .. MaxVersion
  BY <1>1, HeadIs, GuardTypes
<1> PICK at : at = Guard!Head + 1
  OBVIOUS
<1>3. /\ Guard!Head < MaxVersion /\ present' = present \cup {at}
      /\ id # Guard!Opened => at < writerHandle.ver
  BY DEF Guard!ForeignCommit, Guard!Grows
<1>4. /\ upgraded' = upgraded \/ (upgraded = Guard!None /\ upgraded' = at)
      /\ protected' = protected \/ (protected = Guard!None /\ protected' = at)
      /\ UNCHANGED <<id, checkpoints, Guard!writer, age, since>>
  BY DEF Guard!ForeignCommit
<1>5. /\ writerHandle' = writerHandle /\ phase' = phase /\ held' = held /\ clean' = clean /\ seenUpgrade' = seenUpgrade
      /\ landed' = landed /\ id' = id /\ checkpoints' = checkpoints
  BY <1>4 DEF Guard!writer
<1>6. /\ present' \in SUBSET (0 .. MaxVersion) /\ at \in present' /\ \A v \in present' : at >= v
      /\ at \in 0 .. MaxVersion /\ Guard!Head < at
  BY <1>2, <1>3
<1>7. Guard!Head' = at
  BY <1>6, NextHead
<1>8. Guard!TypeOK'
  BY <1>1, <1>2, <1>4, <1>5, <1>6 DEF Guard!TypeOK, Guard!None
<1>9. GuardedLogOK'
  <2>1. 0 \in present' \/ checkpoints' # {}
    BY <1>1, <1>3, <1>5 DEF GuardedLogOK
  <2>2. \A c \in checkpoints' : c <= at
    <3>1. \A c \in checkpoints : c <= Guard!Head
      BY <1>1 DEF GuardedLogOK
    <3> QED
      BY <1>2, <1>5, <1>6, <3>1
  <2>3. upgraded <= Guard!Head /\ protected <= Guard!Head
    BY <1>1 DEF GuardedLogOK
  <2>4. upgraded' <= at
    BY <1>2, <1>4, <1>6, <2>3
  <2>5. protected' <= at
    BY <1>2, <1>4, <1>6, <2>3
  <2> QED
    BY <1>7, <2>1, <2>2, <2>4, <2>5 DEF GuardedLogOK
<1>10. Replaced'
  BY <1>1, <1>3, <1>5, <1>7 DEF Replaced
<1>11. Upgrades'
  <2>1. SUFFICES ASSUME id = Guard!Opened
                 PROVE  /\ writerHandle.ver <= at
                        /\ upgraded' # Guard!None /\ upgraded' <= writerHandle.ver => writerHandle.up
                        /\ protected' # Guard!None /\ protected' <= writerHandle.ver => writerHandle.prot
    BY <1>5, <1>7 DEF Upgrades
  <2>2. /\ writerHandle.ver <= Guard!Head
        /\ upgraded # Guard!None /\ upgraded <= writerHandle.ver => writerHandle.up
        /\ protected # Guard!None /\ protected <= writerHandle.ver => writerHandle.prot
    BY <1>1, <2>1 DEF Upgrades
  <2>3. writerHandle.ver <= at /\ ~(at <= writerHandle.ver)
    BY <1>2, <1>6, <2>2
  <2> QED
    BY <1>4, <2>2, <2>3
<1>12. Holding'
  BY <1>1, <1>5 DEF Holding
<1>13. SeenIsBlocked'
  <2>1. SUFFICES ASSUME phase = "commit", seenUpgrade
                 PROVE  \E v \in writerHandle.ver + 1 .. at : v \notin present'
    BY <1>5, <1>7 DEF SeenIsBlocked
  <2>2. PICK v \in writerHandle.ver + 1 .. Guard!Head : v \notin present
    BY <1>1, <2>1 DEF SeenIsBlocked
  <2>3. v \in writerHandle.ver + 1 .. at /\ v # at
    BY <1>2, <1>6, <2>2
  <2> QED
    BY <1>3, <2>2, <2>3
<1>14. CleanIsAllowed'
  <2>1. phase = "commit" /\ clean => ~writerHandle.prot
    BY <1>1 DEF CleanIsAllowed
  <2>2. ASSUME phase = "post", clean PROVE protected' = Guard!None \/ protected' > writerHandle.ver
    <3>1. protected = Guard!None \/ protected > writerHandle.ver
      BY <1>1, <2>2 DEF CleanIsAllowed
    <3>2. id = Guard!Opened
      BY <1>1, <2>2 DEF Holding, Replaced
    <3>3. writerHandle.ver <= Guard!Head
      BY <1>1, <3>2 DEF Upgrades
    <3>4. at > writerHandle.ver
      BY <1>2, <1>6, <3>3
    <3> QED
      BY <1>4, <3>1, <3>4
  <2> QED
    BY <1>5, <2>1, <2>2 DEF CleanIsAllowed
<1>15. Guard!TargetGuarded'
  BY <1>1, <1>5 DEF Guard!TargetGuarded, Guard!InOwnTable, Guard!UpgradeHeeded, Guard!NoFalseAlarm
<1> QED
  BY <1>8, <1>9, <1>10, <1>11, <1>12, <1>13, <1>14, <1>15 DEF GuardInv

\* The invariant survives ForeignCleanup: the head stays, and what is gone is gone.
LEMMA ForeignCleanupKeeps ==
    ASSUME Guard!ConstantsAssumption, GuardInv, Guard!ForeignCleanup
    PROVE  GuardInv'
<1>1. Guard!TypeOK /\ GuardedLogOK /\ Replaced /\ Upgrades /\ Holding /\ SeenIsBlocked /\ CleanIsAllowed
      /\ Guard!TargetGuarded
  BY DEF GuardInv
<1>2. /\ MaxVersion \in Nat /\ writerHandle.ver \in 0 .. MaxVersion
      /\ present \in SUBSET (0 .. MaxVersion) /\ Guard!Head \in 0 .. MaxVersion /\ Guard!Head \in present
      /\ \A v \in present : v <= Guard!Head
  BY <1>1, HeadIs, GuardTypes
<1>3. PICK c \in present : checkpoints' = {c} /\ present' = {v \in present : v >= c}
  BY DEF Guard!ForeignCleanup
<1>4. /\ writerHandle' = writerHandle /\ phase' = phase /\ held' = held /\ clean' = clean /\ seenUpgrade' = seenUpgrade
      /\ landed' = landed /\ id' = id /\ upgraded' = upgraded /\ protected' = protected
      /\ age' = age /\ since' = since
  BY DEF Guard!ForeignCleanup, Guard!writer
<1>5. /\ present' \in SUBSET (0 .. MaxVersion) /\ Guard!Head \in present' /\ \A v \in present' : Guard!Head >= v
      /\ c \in 0 .. MaxVersion /\ c <= Guard!Head
  BY <1>2, <1>3
<1>6. Guard!Head' = Guard!Head
  BY <1>5, NextHead
<1>7. Guard!TypeOK'
  BY <1>1, <1>3, <1>4, <1>5 DEF Guard!TypeOK
<1>8. GuardedLogOK'
  BY <1>1, <1>3, <1>4, <1>5, <1>6 DEF GuardedLogOK
<1>9. Replaced' /\ Upgrades' /\ Holding' /\ CleanIsAllowed'
  BY <1>1, <1>4, <1>6 DEF Replaced, Upgrades, Holding, CleanIsAllowed
<1>10. SeenIsBlocked'
  <2>1. SUFFICES ASSUME phase = "commit", seenUpgrade
                 PROVE  \E v \in writerHandle.ver + 1 .. Guard!Head : v \notin present'
    BY <1>4, <1>6 DEF SeenIsBlocked
  <2>2. PICK v \in writerHandle.ver + 1 .. Guard!Head : v \notin present
    BY <1>1, <2>1 DEF SeenIsBlocked
  <2> QED
    BY <1>3, <2>2
<1>11. Guard!TargetGuarded'
  BY <1>1, <1>4 DEF Guard!TargetGuarded, Guard!InOwnTable, Guard!UpgradeHeeded, Guard!NoFalseAlarm
<1> QED
  BY <1>7, <1>8, <1>9, <1>10, <1>11 DEF GuardInv

\* The invariant survives Recreate: the new table is shorter than the handle.
LEMMA RecreateKeeps ==
    ASSUME Guard!ConstantsAssumption, ~Overtakes, GuardInv, Guard!Recreate
    PROVE  GuardInv'
<1>1. Guard!TypeOK /\ Replaced /\ Holding /\ Guard!TargetGuarded
  BY DEF GuardInv
<1>2. /\ MaxVersion \in Nat /\ MaxTables \in Nat /\ id \in 1 .. MaxTables
      /\ writerHandle.ver \in 0 .. MaxVersion /\ writerHandle.id \in Nat
  BY <1>1, GuardTypes
<1>3. phase = "idle" /\ id < MaxTables
  BY DEF Guard!Recreate
<1>4. PICK k \in 0 .. MaxVersion : k < writerHandle.ver /\ present' = 0 .. k
  BY DEF Guard!Recreate
<1>5. /\ id' = id + 1 /\ checkpoints' = {} /\ upgraded' = Guard!None /\ protected' = Guard!None /\ since' = 0
      /\ age' = age /\ writerHandle' = writerHandle /\ phase' = phase /\ held' = held /\ clean' = clean
      /\ seenUpgrade' = seenUpgrade /\ landed' = landed
  BY DEF Guard!Recreate, Guard!writer
<1>6. /\ present' \in SUBSET (0 .. MaxVersion) /\ k \in present' /\ \A v \in present' : k >= v
      /\ 0 \in present'
  BY <1>2, <1>4
<1>7. Guard!Head' = k
  BY <1>6, NextHead
<1>8. Guard!TypeOK'
  <2>1. id' \in 1 .. MaxTables /\ since' \in 0 .. MaxAge + 1 /\ upgraded' \in Guard!None .. MaxVersion
        /\ protected' \in Guard!None .. MaxVersion
    BY <1>2, <1>3, <1>5, GuardTypes DEF Guard!None, Guard!ConstantsAssumption
  <2> QED
    BY <1>1, <1>5, <1>6, <2>1 DEF Guard!TypeOK
<1>9. GuardedLogOK'
  <2>1. upgraded' <= k /\ protected' <= k
    BY <1>4, <1>5 DEF Guard!None
  <2> QED
    BY <1>5, <1>6, <1>7, <2>1 DEF GuardedLogOK
<1>10. id' # Guard!Opened
  BY <1>2, <1>5 DEF Guard!Opened
<1>11. Replaced' /\ Upgrades'
  BY <1>3, <1>4, <1>5, <1>7, <1>10 DEF Replaced, Upgrades
<1>12. Holding'
  <2>1. writerHandle.id <= id
    BY <1>1 DEF Holding
  <2>2. writerHandle'.id <= id'
    BY <1>2, <1>5, <2>1
  <2> QED
    BY <1>1, <1>5, <2>2 DEF Holding
<1>13. SeenIsBlocked' /\ CleanIsAllowed'
  BY <1>3, <1>5 DEF SeenIsBlocked, CleanIsAllowed
<1>14. Guard!TargetGuarded'
  BY <1>1, <1>5, <1>10 DEF Guard!TargetGuarded, Guard!InOwnTable, Guard!UpgradeHeeded, Guard!NoFalseAlarm
<1> QED
  BY <1>8, <1>9, <1>11, <1>12, <1>13, <1>14 DEF GuardInv

\* The invariant says nothing of time.
LEMMA TickKeeps ==
    ASSUME Guard!ConstantsAssumption, GuardInv, UNCHANGED <<Guard!table, Guard!writer>>,
           age' \in 0 .. MaxAge, since' \in 0 .. MaxAge + 1
    PROVE  GuardInv'
<1>1. /\ UNCHANGED Guard!table /\ writerHandle' = writerHandle /\ phase' = phase /\ held' = held
      /\ clean' = clean /\ seenUpgrade' = seenUpgrade /\ landed' = landed
  BY DEF Guard!writer
<1>2. Guard!TypeOK'
  BY <1>1, LogStays DEF GuardInv, Guard!TypeOK
<1>3. GuardedLogOK' /\ Replaced' /\ Upgrades' /\ Holding'
  BY <1>1, LogStays DEF GuardInv, Replaced, Upgrades, Holding
<1>4. SeenIsBlocked' /\ CleanIsAllowed' /\ Guard!TargetGuarded'
  BY <1>1, LogStays DEF GuardInv, SeenIsBlocked, CleanIsAllowed, Guard!TargetGuarded, Guard!InOwnTable,
     Guard!UpgradeHeeded, Guard!NoFalseAlarm
<1> QED
  BY <1>2, <1>3, <1>4 DEF GuardInv

-----------------------------------------------------------------------------
(* The theorems.                                                           *)

\* The invariant holds at first.
LEMMA GuardStarts ==
    ASSUME Guard!ConstantsAssumption, Guard!Init
    PROVE  GuardInv
<1>1. MaxVersion \in Nat /\ MaxVersion >= 1 /\ MaxTables \in Nat /\ MaxTables >= 1 /\ MaxAge \in Nat
  BY DEF Guard!ConstantsAssumption
<1>2. /\ id = Guard!Opened /\ present = {0, 1} /\ checkpoints = {} /\ upgraded = Guard!None /\ protected = Guard!None
      /\ writerHandle = [id |-> Guard!Opened, ver |-> 1, up |-> FALSE, prot |-> FALSE]
      /\ age = 0 /\ since = 0 /\ phase = "idle" /\ held = "none"
      /\ clean = FALSE /\ seenUpgrade = FALSE /\ landed = {}
  BY DEF Guard!Init
<1>3. writerHandle \in WriterHandle /\ writerHandle.id = 1 /\ writerHandle.ver = 1 /\ writerHandle.up = FALSE
  BY <1>1, <1>2 DEF WriterHandle, Guard!Opened
<1>4. Guard!TypeOK
  <2>1. id \in 1 .. MaxTables /\ age \in 0 .. MaxAge /\ since \in 0 .. MaxAge + 1
    BY <1>1, <1>2 DEF Guard!Opened
  <2>2. present \subseteq 0 .. MaxVersion /\ present # {} /\ checkpoints \subseteq 0 .. MaxVersion
    BY <1>1, <1>2
  <2>3. upgraded \in Guard!None .. MaxVersion /\ protected \in Guard!None .. MaxVersion
    BY <1>1, <1>2 DEF Guard!None
  <2> QED
    BY <1>2, <1>3, <2>1, <2>2, <2>3 DEF Guard!TypeOK, WriterHandle
<1>5. Guard!Head = 1
  <2>1. present \in SUBSET (0 .. MaxVersion) /\ 1 \in present /\ \A v \in present : 1 >= v
    BY <1>1, <1>2
  <2>2. Guard!Max(present) = 1
    BY <1>1, <2>1, MaxIs
  <2> QED
    BY <2>2 DEF Guard!Head
<1>6. GuardedLogOK /\ Replaced /\ Upgrades /\ Holding
  BY <1>2, <1>3, <1>5 DEF GuardedLogOK, Replaced, Upgrades, Holding, Guard!None, Guard!Opened
<1>7. SeenIsBlocked /\ CleanIsAllowed
  BY <1>2 DEF SeenIsBlocked, CleanIsAllowed
<1>8. Guard!TargetGuarded
  BY <1>2 DEF Guard!TargetGuarded, Guard!InOwnTable, Guard!UpgradeHeeded, Guard!NoFalseAlarm
<1> QED
  BY <1>4, <1>6, <1>7, <1>8 DEF GuardInv

\* Every step keeps the invariant, and cleans up no protected log.
LEMMA GuardSteps ==
    ASSUME Guard!ConstantsAssumption, ~Overtakes, ~PartitionBlocked, GuardInv, [Guard!Next]_(Guard!vars)
    PROVE  GuardInv' /\ [Guard!ProtectedKept]_(Guard!vars)
<1>1. CASE Guard!PostCommit
  BY <1>1, PostCommitKeeps
<1>2. CASE Guard!TryCommit \/ Guard!CheckProtocol \/ Guard!CommitConflicts \/ Guard!CommitLands
  <2>1. GuardInv'
    BY <1>2, TryCommitKeeps, CheckProtocolKeeps, CommitConflictsKeeps, CommitLandsKeeps
  <2>2. phase # "post"
    BY <1>2 DEF Guard!TryCommit, Guard!CheckProtocol, Guard!CommitConflicts, Guard!CommitLands
  <2> QED
    BY <2>1, <2>2 DEF Guard!ProtectedKept
<1>3. ASSUME NEW r \in BOOLEAN, Guard!RefreshTarget(r) \/ Guard!RecheckHeld(r)
      PROVE  GuardInv' /\ [Guard!ProtectedKept]_(Guard!vars)
  <2>1. GuardInv'
    BY <1>3, RefreshTargetKeeps, RecheckHeldKeeps
  <2>2. phase # "post"
    BY <1>3 DEF Guard!RefreshTarget, Guard!RecheckHeld
  <2> QED
    BY <2>1, <2>2 DEF Guard!ProtectedKept
<1>4. CASE Guard!ForeignCommit \/ Guard!ForeignCleanup \/ Guard!Recreate
  <2>1. GuardInv'
    BY <1>4, OtherCommitKeeps, ForeignCleanupKeeps, RecreateKeeps
  <2>2. phase' = phase
    BY <1>4 DEF Guard!ForeignCommit, Guard!ForeignCleanup, Guard!Recreate, Guard!writer
  <2> QED
    BY <2>1, <2>2 DEF Guard!ProtectedKept
<1>5. CASE Guard!Tick \/ UNCHANGED Guard!vars
  <2>1. age \in 0 .. MaxAge /\ since \in 0 .. MaxAge + 1 /\ MaxAge \in Nat
    BY GuardTypes DEF GuardInv
  <2>2. /\ UNCHANGED <<Guard!table, Guard!writer>>
        /\ age' = age \/ (age < MaxAge /\ age' = age + 1)
        /\ since' = since \/ (since <= MaxAge /\ since' = since + 1)
    BY <1>5 DEF Guard!Tick, Guard!vars
  <2>3. age' \in 0 .. MaxAge /\ since' \in 0 .. MaxAge + 1
    BY <2>1, <2>2
  <2>4. GuardInv'
    BY <2>2, <2>3, TickKeeps
  <2>5. phase' = phase
    BY <2>2 DEF Guard!writer
  <2> QED
    BY <2>4, <2>5 DEF Guard!ProtectedKept
<1> QED
  BY <1>1, <1>2, <1>3, <1>4, <1>5 DEF Guard!Next, Guard!Write, Guard!RecheckBlocked

\* The invariant holds throughout.
THEOREM GuardInvariance ==
    ASSUME Guard!ConstantsAssumption, ~Overtakes, ~PartitionBlocked
    PROVE  Guard!Spec => []GuardInv
<1>1. Guard!Init => GuardInv
  BY GuardStarts
<1>2. GuardInv /\ [Guard!Next]_(Guard!vars) => GuardInv'
  BY GuardSteps
<1> QED
  BY <1>1, <1>2, PTL DEF Guard!Spec

\* The type invariant of the guarded target.
THEOREM GuardTypesHold ==
    ASSUME Guard!ConstantsAssumption, ~Overtakes, ~PartitionBlocked
    PROVE  Guard!Spec => []Guard!TypeOK
<1>1. GuardInv => Guard!TypeOK
  BY DEF GuardInv
<1> QED
  BY <1>1, GuardInvariance, PTL

\* A commit of try_commit lands in the table the pipeline opened, over no upgrade its
\* own read of the log could have met, and the pipeline takes its target for replaced
\* only where it was: however other engines recreate, upgrade and clean it up.
THEOREM CommitsAreGuarded ==
    ASSUME Guard!ConstantsAssumption, ~Overtakes, ~PartitionBlocked
    PROVE  Guard!Spec => []Guard!TargetGuarded
<1>1. GuardInv => Guard!TargetGuarded
  BY DEF GuardInv
<1> QED
  BY <1>1, GuardInvariance, PTL

\* No cleanup after a commit of ours touches a log whose protection landed before the
\* commit (cleans_up and protects_checkpoints of fence.rs).
THEOREM ProtectionIsKept ==
    ASSUME Guard!ConstantsAssumption, ~Overtakes, ~PartitionBlocked
    PROVE  Guard!Spec => [][Guard!ProtectedKept]_(Guard!vars)
<1>1. GuardInv /\ [Guard!Next]_(Guard!vars) => [Guard!ProtectedKept]_(Guard!vars)
  BY GuardSteps
<1> QED
  BY <1>1, GuardInvariance, PTL DEF Guard!Spec

-----------------------------------------------------------------------------
\* TableOpen, for any number of versions, any interval and any number of checkpoints of
\* other engines: a table that opens has all its rows, so have the checkpoints written
\* from it, and the commit that writes one completes.
CONSTANTS MaxForeignCheckpoints, CleanupRaces, CleanupPartial
VARIABLES head, logFiles, checkpointed, foreignCheckpoints, opening, want, opened, hook

Opening == INSTANCE TableOpen WITH
  there <- logFiles, cps <- checkpointed, foreign <- foreignCheckpoints, pc <- opening, handle <- opened,
  MaxForeign <- MaxForeignCheckpoints

\* A bounded set of naturals has a greatest element.
LEMMA NewestOf ==
    ASSUME NEW n \in Nat, NEW S \in SUBSET (0 .. n), S # {}
    PROVE  Opening!Max(S) \in S /\ \A y \in S : Opening!Max(S) >= y
<1> PICK T : T = {n - y : y \in S}
  OBVIOUS
<1>1. \A y \in S : n - y \in Nat
  OBVIOUS
<1>5. T \in SUBSET Nat /\ T # {}
  BY <1>1
<1>2. PICK x \in T : \A y \in T : x =< y
  BY <1>5, LeastNatural
<1>3. PICK m \in S : x = n - m
  BY <1>2
<1>4. ASSUME NEW y \in S PROVE m >= y
  <2>1. n - y \in T
    OBVIOUS
  <2>2. n - m =< n - y
    BY <1>2, <1>3, <2>1
  <2> QED
    BY <2>2
<1> QED
  BY <1>4 DEF Opening!Max

-----------------------------------------------------------------------------
(* TableOpen.                                                              *)

\* No cleanup comes between the look at commit 0 and a load that rests on it, and a
\* cleanup leaves no commit below the newest checkpoint.
CleanupIsOrderly == ~CleanupRaces /\ ~CleanupPartial

\* The commits that are there reach up to the newest; unless they begin at version
\* 0, they begin at a checkpoint, and no checkpoint is older.
OpenableLog ==
    \E lo \in 0 .. head :
       /\ logFiles = lo .. head
       /\ lo = 0 \/ lo \in DOMAIN checkpointed
       /\ DOMAIN checkpointed \subseteq lo .. head

\* Where the handle is, and that a load which trusts in commit 0 may do so.
OpenedOK ==
    /\ opened.version \in 0 .. head /\ opened.filtered \in BOOLEAN
    /\ opened.ours \subseteq 0 .. head
    /\ opening = "travelled" => opened.version = want
    /\ want \in {-1} \cup 0 .. head
    /\ Opening!Trusting => 0 \in logFiles

\* The inductive invariant of TableOpen.
OpenInv ==
    /\ head \in Opening!Versions
    /\ opening \in {"closed", "plain", "zero", "replay", "open", "travelled"}
    /\ OpenableLog /\ OpenedOK
    /\ Opening!SnapshotWhole /\ Opening!CheckpointsWhole /\ Opening!CommitCompletes

\* The base of a load is the newest checkpoint below it, if there is one.
LEMMA BaseIs ==
    ASSUME head \in Nat, NEW seen \in SUBSET (0 .. head), NEW v \in Nat
    PROVE  \/ Opening!Base(seen, v) = -1 /\ \A k \in seen : k > v
           \/ /\ Opening!Base(seen, v) \in seen /\ Opening!Base(seen, v) \in 0 .. head
              /\ Opening!Base(seen, v) <= v
              /\ \A k \in seen : k <= v => k <= Opening!Base(seen, v)
<1> PICK below : below = {k \in seen : k <= v}
  OBVIOUS
<1>1. Opening!Base(seen, v) = IF below = {} THEN -1 ELSE Opening!Max(below)
  BY DEF Opening!Base
<1>2. CASE below = {}
  <2>1. \A k \in seen : k \in Int /\ ~(k <= v)
    BY <1>2
  <2>2. \A k \in seen : k > v
    BY <2>1
  <2> QED
    BY <1>1, <1>2, <2>2
<1>3. CASE below # {}
  <2>1. below \in SUBSET (0 .. head)
    OBVIOUS
  <2>2. Opening!Max(below) \in below /\ \A y \in below : Opening!Max(below) >= y
    BY <1>3, <2>1, NewestOf
  <2>3. Opening!Max(below) \in seen /\ Opening!Max(below) <= v /\ Opening!Max(below) \in 0 .. head
    BY <2>1, <2>2
  <2>4. \A k \in seen : k <= v => Opening!Max(below) >= k
    BY <2>2
  <2>5. \A k \in seen : k \in Int
    OBVIOUS
  <2> QED
    BY <1>1, <1>3, <2>3, <2>4, <2>5
<1> QED
  BY <1>2, <1>3

\* What loads from a seen checkpoint, or from commit 0, is whole.
LEMMA LoadsWhole ==
    ASSUME OpenInv, MaxVersion \in Nat, NEW seen \in SUBSET DOMAIN checkpointed, NEW v \in 0 .. head,
           Opening!Contiguous(seen, v), 0 \in logFiles \/ seen = DOMAIN checkpointed
    PROVE  Opening!Holds(seen, v) = 0 .. v
<1>1. head \in Nat
  BY DEF OpenInv, Opening!Versions
<1> PICK lo \in 0 .. head : logFiles = lo .. head /\ (lo = 0 \/ lo \in DOMAIN checkpointed) /\ DOMAIN checkpointed \subseteq lo .. head
  BY DEF OpenInv, OpenableLog
<1> PICK b : b = Opening!Base(seen, v)
  OBVIOUS
<1> PICK listed : listed = Opening!Listed(seen, v)
  OBVIOUS
<1>2. seen \in SUBSET (0 .. head) /\ v \in Nat
  BY <1>1
<1>3. listed = {w \in logFiles : b < w /\ w <= v}
  BY DEF Opening!Listed
<1>6. \/ b = -1 /\ \A k \in seen : k > v
      \/ b \in seen /\ b \in 0 .. head /\ b <= v /\ \A k \in seen : k <= v => k <= b
  BY <1>1, <1>2, BaseIs
<1>4. CASE b = -1
  <2>1. \A k \in seen : k > v
    BY <1>2, <1>4, <1>6
  <2>2. listed # {}
    BY <1>4 DEF Opening!Contiguous
  <2>3. lo = 0
    <3>1. PICK w \in listed : TRUE
      BY <2>2
    <3>2. lo <= v
      BY <1>1, <1>3, <3>1
    <3>3. CASE 0 \in logFiles
      BY <1>1, <3>3
    <3>4. CASE seen = DOMAIN checkpointed
      BY <1>1, <2>1, <3>2, <3>4
    <3> QED
      BY <3>3, <3>4
  <2>4. listed = 0 .. v
    BY <1>1, <1>3, <1>4, <2>3
  <2> QED
    BY <1>4, <2>4 DEF Opening!Holds
<1>5. CASE b # -1
  <2>1. b \in seen /\ b \in 0 .. head /\ b <= v
    BY <1>5, <1>6
  <2>2. listed = b + 1 .. v
    BY <1>5 DEF Opening!Contiguous
  <2>3. checkpointed[b].holds = 0 .. b
    BY <2>1 DEF OpenInv, Opening!CheckpointsWhole
  <2>4. (b + 1 .. v) \cup (0 .. b) = 0 .. v
    BY <1>1, <2>1
  <2> QED
    BY <1>5, <2>2, <2>3, <2>4 DEF Opening!Holds
<1> QED
  BY <1>4, <1>5

\* A load that no checkpoint helps, of a log that begins at version 0.
LEMMA ReplayWhole ==
    ASSUME OpenInv, MaxVersion \in Nat, 0 \in logFiles, Opening!Contiguous({}, head)
    PROVE  Opening!Holds({}, head) = 0 .. head
<1>1. head \in Nat /\ head \in 0 .. head
  BY DEF OpenInv, Opening!Versions
<1> QED
  BY <1>1, LoadsWhole

\* What the snapshot of an open handle is brought up to, with the commit after it.
LEMMA RebasedWhole ==
    ASSUME OpenInv, MaxVersion \in Nat, opening = "open",
           (Opening!Base(Opening!Newer, head) + 1 .. head) \ (0 .. opened.version) \subseteq logFiles
    PROVE  Opening!Rebased = 0 .. head + 1
<1>1. head \in Nat /\ opened.version \in 0 .. head
  BY DEF OpenInv, Opening!Versions, OpenedOK
<1>2. opened.holds = 0 .. opened.version
  BY DEF OpenInv, Opening!SnapshotWhole
<1> PICK lo \in 0 .. head : logFiles = lo .. head /\ (lo = 0 \/ lo \in DOMAIN checkpointed) /\ DOMAIN checkpointed \subseteq lo .. head
  BY DEF OpenInv, OpenableLog
<1> PICK newer : newer = Opening!Newer
  OBVIOUS
<1>3. newer \in SUBSET DOMAIN checkpointed /\ newer \in SUBSET (0 .. head) /\ \A k \in newer : k > opened.version
  BY <1>1 DEF Opening!Newer, Opening!Seen
<1>4. CASE newer = {}
  <2>1. Opening!Rebased = {head + 1} \cup (0 .. opened.version) \cup (opened.version + 1 .. head)
    BY <1>2, <1>4 DEF Opening!Rebased
  <2> QED
    BY <1>1, <2>1
<1>5. CASE newer # {}
  <2> PICK b : b = Opening!Base(newer, head)
    OBVIOUS
  <2>1. b \in newer /\ b \in 0 .. head
    <3>1. \/ b = -1 /\ \A k \in newer : k > head
          \/ b \in newer /\ b \in 0 .. head /\ b <= head /\ \A k \in newer : k <= head => k <= b
      BY <1>1, <1>3, BaseIs
    <3>2. PICK k \in newer : k \in 0 .. head
      BY <1>3, <1>5
    <3> QED
      BY <1>1, <3>1, <3>2
  <2>2. b > opened.version
    BY <1>3, <2>1
  <2>3. b + 1 .. head \subseteq logFiles
    BY <1>1, <2>1, <2>2
  <2>4. Opening!Listed(newer, head) = b + 1 .. head
    BY <1>1, <2>1, <2>3 DEF Opening!Listed
  <2>5. checkpointed[b].holds = 0 .. b
    BY <1>3, <2>1 DEF OpenInv, Opening!CheckpointsWhole
  <2>6. Opening!Holds(newer, head) = (b + 1 .. head) \cup (0 .. b)
    BY <2>1, <2>4, <2>5 DEF Opening!Holds
  <2>7. Opening!Rebased = {head + 1} \cup ((b + 1 .. head) \cup (0 .. b))
    BY <1>5, <2>6 DEF Opening!Rebased
  <2> QED
    BY <1>1, <2>1, <2>7
<1> QED
  BY <1>4, <1>5

\* A step that leaves the table alone.
LEMMA TableStays ==
    ASSUME UNCHANGED <<head, logFiles, checkpointed>>
    PROVE  /\ OpenableLog <=> OpenableLog'
           /\ Opening!CheckpointsWhole <=> Opening!CheckpointsWhole'
BY DEF OpenableLog, Opening!CheckpointsWhole

\* What the steps of opening need of the table.
LEMMA Ranges ==
    ASSUME Opening!ConstantsAssumption, OpenInv
    PROVE  /\ MaxVersion \in Nat /\ head \in Nat /\ head \in 0 .. head /\ 0 \in 0 .. head
           /\ DOMAIN checkpointed \in SUBSET (0 .. head)
           /\ opened.version \in 0 .. head
<1>1. MaxVersion \in Nat /\ head \in Nat /\ opened.version \in 0 .. head
  BY DEF OpenInv, Opening!Versions, Opening!ConstantsAssumption, OpenedOK
<1>2. PICK lo \in 0 .. head : DOMAIN checkpointed \subseteq lo .. head
  BY DEF OpenInv, OpenableLog
<1> QED
  BY <1>1, <1>2

\* A failure of a load closes the table.
LEMMA FailKeeps ==
    ASSUME Opening!ConstantsAssumption, OpenInv, Opening!Fail, UNCHANGED <<head, logFiles, checkpointed, want, hook>>
    PROVE  OpenInv'
<1>1. OpenableLog' /\ Opening!CheckpointsWhole'
  BY TableStays DEF OpenInv
<1>2. opening' = "closed" /\ opened' = Opening!NoHandle
  BY DEF Opening!Fail
<1>3. OpenedOK'
  BY <1>2, Ranges DEF OpenedOK, Opening!NoHandle, Opening!Trusting, OpenInv
<1> QED
  BY <1>1, <1>2, <1>3 DEF OpenInv, Opening!SnapshotWhole, Opening!CommitCompletes

\* The plain open.
LEMMA PlainKeeps ==
    ASSUME Opening!ConstantsAssumption, OpenInv, Opening!Plain
    PROVE  OpenInv'
<1>0. UNCHANGED <<head, logFiles, checkpointed, want, hook>> /\ opening = "plain"
  BY DEF Opening!Plain, Opening!table
<1>1. OpenableLog' /\ Opening!CheckpointsWhole'
  BY <1>0, TableStays DEF OpenInv
<1>2. CASE Opening!Unreadable(DOMAIN checkpointed, head)
  <2>1. opening' = "zero" /\ opened' = opened
    BY <1>2 DEF Opening!Plain
  <2> QED
    BY <1>0, <1>1, <2>1 DEF OpenInv, OpenedOK, Opening!Trusting, Opening!SnapshotWhole, Opening!CommitCompletes
<1>3. CASE ~Opening!Unreadable(DOMAIN checkpointed, head) /\ Opening!Contiguous(DOMAIN checkpointed, head)
  <2>1. opening' = "open" /\ opened' = [version |-> head, holds |-> Opening!Holds(DOMAIN checkpointed, head),
                                   filtered |-> FALSE, ours |-> {}]
    BY <1>3 DEF Opening!Plain, Opening!Opened
  <2>2. Opening!Holds(DOMAIN checkpointed, head) = 0 .. head
    BY <1>3, Ranges, LoadsWhole
  <2>3. OpenedOK'
    BY <1>0, <2>1, Ranges DEF OpenedOK, Opening!Trusting, OpenInv
  <2> QED
    BY <1>0, <1>1, <2>1, <2>2, <2>3 DEF OpenInv, Opening!SnapshotWhole, Opening!CommitCompletes
<1>4. CASE ~Opening!Unreadable(DOMAIN checkpointed, head) /\ ~Opening!Contiguous(DOMAIN checkpointed, head)
  BY <1>0, <1>4, FailKeeps DEF Opening!Plain
<1> QED
  BY <1>2, <1>3, <1>4

\* Replaying the log with its checkpoints hidden.
LEMMA ReplayKeeps ==
    ASSUME Opening!ConstantsAssumption, OpenInv, Opening!CheckZero \/ Opening!Replay
    PROVE  OpenInv'
<1>0. UNCHANGED <<head, logFiles, checkpointed, want, hook>> /\ opening \in {"zero", "replay"}
  BY DEF Opening!CheckZero, Opening!Replay, Opening!table
<1>1. OpenableLog' /\ Opening!CheckpointsWhole'
  BY <1>0, TableStays DEF OpenInv
<1>2. CASE Opening!Fail
  BY <1>0, <1>2, FailKeeps
<1>3. CASE Opening!CheckZero /\ ~Opening!Fail
  <2>1. 0 \in logFiles /\ opening' = "replay" /\ opened' = opened
    BY <1>3 DEF Opening!CheckZero
  <2> QED
    BY <1>0, <1>1, <2>1 DEF OpenInv, OpenedOK, Opening!Trusting, Opening!SnapshotWhole, Opening!CommitCompletes
<1>4. CASE Opening!Replay /\ ~Opening!Fail
  <2>1. /\ opening = "replay" /\ Opening!Contiguous({}, head) /\ opening' = "open"
        /\ opened' = [version |-> head, holds |-> Opening!Holds({}, head), filtered |-> TRUE, ours |-> {}]
    BY <1>4 DEF Opening!Replay, Opening!Opened
  <2>2. 0 \in logFiles
    BY <2>1 DEF OpenInv, OpenedOK, Opening!Trusting
  <2>3. Opening!Holds({}, head) = 0 .. head
    BY <2>1, <2>2, Ranges, ReplayWhole
  <2>4. OpenedOK'
    BY <1>0, <2>1, <2>2, Ranges DEF OpenedOK, Opening!Trusting, OpenInv
  <2> QED
    BY <1>0, <1>1, <2>1, <2>3, <2>4 DEF OpenInv, Opening!SnapshotWhole, Opening!CommitCompletes
<1> QED
  BY <1>2, <1>3, <1>4

\* Going back to the version a lookup asks for.
LEMMA TravelKeeps ==
    ASSUME Opening!ConstantsAssumption, OpenInv, Opening!Travel
    PROVE  OpenInv'
<1>0. UNCHANGED <<head, logFiles, checkpointed, want, hook>> /\ opening = "open" /\ want # -1
  BY DEF Opening!Travel, Opening!table, Opening!Now
<1>1. OpenableLog' /\ Opening!CheckpointsWhole'
  BY <1>0, TableStays DEF OpenInv
<1>2. want \in 0 .. head
  BY <1>0 DEF OpenInv, OpenedOK
<1>3. CASE Opening!Unreadable(Opening!Seen, want)
  <2>1. opening' = "zero" /\ opened' = opened
    BY <1>3 DEF Opening!Travel
  <2> QED
    BY <1>0, <1>1, <2>1 DEF OpenInv, OpenedOK, Opening!Trusting, Opening!SnapshotWhole, Opening!CommitCompletes
<1>4. CASE ~Opening!Unreadable(Opening!Seen, want) /\ Opening!Contiguous(Opening!Seen, want)
  <2>1. opening' = "travelled" /\ opened' = [version |-> want, holds |-> Opening!Holds(Opening!Seen, want),
                                        filtered |-> opened.filtered, ours |-> opened.ours]
    BY <1>4 DEF Opening!Travel, Opening!Opened
  <2>2. 0 \in logFiles \/ Opening!Seen = DOMAIN checkpointed
    <3>1. CASE opened.filtered
      BY <1>0, <3>1 DEF OpenInv, OpenedOK, Opening!Trusting, Opening!Now
    <3>2. CASE ~opened.filtered
      BY <3>2 DEF Opening!Seen, Opening!Hidden
    <3> QED
      BY <3>1, <3>2
  <2>3. Opening!Seen \in SUBSET DOMAIN checkpointed
    BY DEF Opening!Seen
  <2>4. Opening!Holds(Opening!Seen, want) = 0 .. want
    BY <1>2, <1>4, <2>2, <2>3, Ranges, LoadsWhole
  <2>5. OpenedOK'
    BY <1>0, <1>2, <2>1 DEF OpenedOK, Opening!Trusting, OpenInv
  <2> QED
    BY <1>0, <1>1, <2>1, <2>4, <2>5 DEF OpenInv, Opening!SnapshotWhole, Opening!CommitCompletes
<1>5. CASE ~Opening!Unreadable(Opening!Seen, want) /\ ~Opening!Contiguous(Opening!Seen, want)
  BY <1>0, <1>5, FailKeeps DEF Opening!Travel
<1> QED
  BY <1>3, <1>4, <1>5

\* Asking for a version, giving a handle back, or up.
LEMMA HandleKeeps ==
    ASSUME Opening!ConstantsAssumption, OpenInv,
           \/ Opening!Open(-1) \/ (\E v \in 0 .. head : Opening!Open(v))
           \/ Opening!Close \/ Opening!Reopen
    PROVE  OpenInv'
<1>1. CASE Opening!Close \/ Opening!Reopen
  BY <1>1, FailKeeps DEF Opening!Close, Opening!Reopen, Opening!table
<1>2. CASE Opening!Open(-1) \/ \E v \in 0 .. head : Opening!Open(v)
  <2>1. PICK v \in {-1} \cup 0 .. head : Opening!Open(v)
    BY <1>2
  <2>2. UNCHANGED <<head, logFiles, checkpointed, opened, hook>> /\ want' = v /\ opening' = "plain"
    BY <2>1 DEF Opening!Open, Opening!table
  <2>3. OpenableLog' /\ Opening!CheckpointsWhole'
    BY <2>2, TableStays DEF OpenInv
  <2> QED
    BY <2>1, <2>2, <2>3 DEF OpenInv, OpenedOK, Opening!Trusting, Opening!SnapshotWhole, Opening!CommitCompletes
<1> QED
  BY <1>1, <1>2

\* A commit through the handle, which may write a checkpoint.
LEMMA CommitKeeps ==
    ASSUME Opening!ConstantsAssumption, OpenInv, Opening!Commit
    PROVE  OpenInv'
<1> PICK n : n = head + 1
  OBVIOUS
<1> PICK due \in BOOLEAN : due = (n % Interval = 0)
  OBVIOUS
<1> PICK new : new = IF due THEN {n} ELSE {}
  OBVIOUS
<1>1. /\ opening = "open" /\ want = -1 /\ n <= MaxVersion
      /\ (Opening!Base(Opening!Newer, head) + 1 .. head) \ (0 .. opened.version) \subseteq logFiles
      /\ head' = n /\ logFiles' = logFiles \cup {n}
      /\ checkpointed' = [k \in DOMAIN checkpointed \cup new |->
                   IF k = n THEN Opening!Checkpoint(Opening!Rebased, TRUE) ELSE checkpointed[k]]
      /\ opened' = [version |-> n, holds |-> Opening!Rebased, filtered |-> opened.filtered,
                    ours |-> opened.ours \cup new]
      /\ hook' = (hook /\ (due => ~Opening!Hidden(opened', n)))
      /\ opening' = opening /\ want' = want
  BY DEF Opening!Commit, Opening!CommitChecked, Opening!Opened, Opening!Now
<1>2. MaxVersion \in Nat /\ head \in Nat /\ DOMAIN checkpointed \in SUBSET (0 .. head) /\ opened.version \in 0 .. head
  BY Ranges
<1>3. Opening!Rebased = 0 .. n
  BY <1>1, <1>2, RebasedWhole
<1>4. n \in Nat /\ n \in 0 .. n /\ 0 .. head \subseteq 0 .. n /\ new \subseteq {n}
  BY <1>2
<1>5. head' \in Opening!Versions
  BY <1>1, <1>4 DEF Opening!Versions
<1>6. OpenableLog'
  <2> PICK lo \in 0 .. head :
        logFiles = lo .. head /\ (lo = 0 \/ lo \in DOMAIN checkpointed) /\ DOMAIN checkpointed \subseteq lo .. head
    BY DEF OpenInv, OpenableLog
  <2>1. logFiles' = lo .. n /\ lo \in 0 .. n
    BY <1>1, <1>2
  <2>2. DOMAIN checkpointed' = DOMAIN checkpointed \cup new
    BY <1>1
  <2>3. DOMAIN checkpointed' \subseteq lo .. n
    BY <1>2, <1>4, <2>2
  <2> QED
    BY <1>1, <2>1, <2>2, <2>3 DEF OpenableLog
<1>7. OpenedOK'
  <2>1. opened.filtered \in BOOLEAN /\ opened.ours \subseteq 0 .. head
    BY DEF OpenInv, OpenedOK
  <2> QED
    BY <1>1, <1>4, <2>1 DEF OpenedOK, Opening!Trusting, Opening!Now
<1>8. Opening!SnapshotWhole'
  BY <1>1, <1>3 DEF Opening!SnapshotWhole
<1>9. Opening!CheckpointsWhole'
  <2> SUFFICES ASSUME NEW k \in DOMAIN checkpointed' PROVE checkpointed'[k].holds = 0 .. k
    BY DEF Opening!CheckpointsWhole
  <2>1. k \in DOMAIN checkpointed \cup new
    BY <1>1
  <2>2. CASE k = n
    BY <1>1, <1>3, <2>1, <2>2 DEF Opening!Checkpoint
  <2>3. CASE k # n
    <3>1. k \in DOMAIN checkpointed /\ checkpointed'[k] = checkpointed[k]
      BY <1>1, <1>4, <2>1, <2>3
    <3> QED
      BY <3>1 DEF OpenInv, Opening!CheckpointsWhole
  <2> QED
    BY <2>2, <2>3
<1>10. Opening!CommitCompletes'
  <2>1. due => n \in opened'.ours
    BY <1>1
  <2>2. due => ~Opening!Hidden(opened', n)
    BY <2>1 DEF Opening!Hidden
  <2> QED
    BY <1>1, <2>2 DEF OpenInv, Opening!CommitCompletes
<1> QED
  BY <1>1, <1>5, <1>6, <1>7, <1>8, <1>9, <1>10 DEF OpenInv

\* Another engine's commit.
LEMMA ForeignCommitKeeps ==
    ASSUME Opening!ConstantsAssumption, OpenInv, Opening!ForeignCommit
    PROVE  OpenInv'
<1>1. /\ head < MaxVersion /\ head' = head + 1 /\ logFiles' = logFiles \cup {head + 1}
      /\ UNCHANGED <<checkpointed, opening, want, opened, hook>>
  BY DEF Opening!ForeignCommit
<1>2. MaxVersion \in Nat /\ head \in Nat /\ opened.version \in 0 .. head
  BY Ranges
<1>3. head' \in Opening!Versions /\ 0 .. head \subseteq 0 .. head'
  BY <1>1, <1>2 DEF Opening!Versions
<1>4. OpenableLog'
  <2> PICK lo \in 0 .. head :
        logFiles = lo .. head /\ (lo = 0 \/ lo \in DOMAIN checkpointed) /\ DOMAIN checkpointed \subseteq lo .. head
    BY DEF OpenInv, OpenableLog
  <2>1. logFiles' = lo .. head' /\ lo \in 0 .. head' /\ lo .. head \subseteq lo .. head'
    BY <1>1, <1>2
  <2> QED
    BY <1>1, <2>1 DEF OpenableLog
<1>5. OpenedOK'
  BY <1>1, <1>3 DEF OpenedOK, Opening!Trusting, OpenInv
<1> QED
  BY <1>1, <1>3, <1>4, <1>5 DEF OpenInv, Opening!SnapshotWhole, Opening!CheckpointsWhole, Opening!CommitCompletes

\* Another engine's checkpoint.
LEMMA ForeignCheckpointKeeps ==
    ASSUME Opening!ConstantsAssumption, OpenInv, NEW readable \in BOOLEAN,
           Opening!ForeignCheckpoint(readable)
    PROVE  OpenInv'
<1>1. /\ Opening!Contiguous(DOMAIN checkpointed, head)
      /\ checkpointed' = [k \in DOMAIN checkpointed \cup {head} |->
                   IF k = head THEN Opening!Checkpoint(Opening!Holds(DOMAIN checkpointed, head), readable) ELSE checkpointed[k]]
      /\ UNCHANGED <<head, logFiles, opening, want, opened, hook>>
  BY DEF Opening!ForeignCheckpoint
<1>2. MaxVersion \in Nat /\ head \in Nat /\ head \in 0 .. head
  BY Ranges
<1>3. Opening!Holds(DOMAIN checkpointed, head) = 0 .. head
  BY <1>1, <1>2, LoadsWhole
<1>4. OpenableLog'
  <2> PICK lo \in 0 .. head :
        logFiles = lo .. head /\ (lo = 0 \/ lo \in DOMAIN checkpointed) /\ DOMAIN checkpointed \subseteq lo .. head
    BY DEF OpenInv, OpenableLog
  <2>1. DOMAIN checkpointed' = DOMAIN checkpointed \cup {head}
    BY <1>1
  <2>2. head \in lo .. head
    BY <1>2
  <2> QED
    BY <1>1, <2>1, <2>2 DEF OpenableLog
<1>5. Opening!CheckpointsWhole'
  <2> SUFFICES ASSUME NEW k \in DOMAIN checkpointed' PROVE checkpointed'[k].holds = 0 .. k
    BY DEF Opening!CheckpointsWhole
  <2>1. k \in DOMAIN checkpointed \cup {head}
    BY <1>1
  <2>2. CASE k = head
    BY <1>1, <1>3, <2>1, <2>2 DEF Opening!Checkpoint
  <2>3. CASE k # head
    <3>1. k \in DOMAIN checkpointed /\ checkpointed'[k] = checkpointed[k]
      BY <1>1, <2>1, <2>3
    <3> QED
      BY <3>1 DEF OpenInv, Opening!CheckpointsWhole
  <2> QED
    BY <2>2, <2>3
<1>6. OpenedOK'
  BY <1>1 DEF OpenedOK, Opening!Trusting, OpenInv
<1> QED
  BY <1>1, <1>4, <1>5, <1>6 DEF OpenInv, Opening!SnapshotWhole, Opening!CommitCompletes

\* An orderly cleanup leaves the newest checkpoint and the commits since.
LEMMA CleanupKeeps ==
    ASSUME Opening!ConstantsAssumption, CleanupIsOrderly, OpenInv,
           NEW k \in 0 .. Opening!Base(DOMAIN checkpointed, head), Opening!Cleanup(k)
    PROVE  OpenInv'
<1>1. /\ ~Opening!Trusting /\ k = Opening!Base(DOMAIN checkpointed, head)
      /\ logFiles' = {v \in logFiles : v >= k}
      /\ checkpointed' = [d \in {d \in DOMAIN checkpointed : d >= k} |-> checkpointed[d]]
      /\ UNCHANGED <<head, opening, want, opened, hook>>
  BY DEF Opening!Cleanup, CleanupIsOrderly
<1>2. head \in Nat /\ DOMAIN checkpointed \in SUBSET (0 .. head)
  BY Ranges
<1>3. \/ k = -1 /\ \A j \in DOMAIN checkpointed : j > head
      \/ k \in DOMAIN checkpointed /\ k \in 0 .. head /\ k <= head /\ \A j \in DOMAIN checkpointed : j <= head => j <= k
  BY <1>1, <1>2, BaseIs
<1>4. k \in DOMAIN checkpointed /\ k \in 0 .. head
  <2>1. CASE k = -1
    BY <2>1
  <2> QED
    BY <1>3, <2>1
<1>5. OpenableLog'
  <2> PICK lo \in 0 .. head :
        logFiles = lo .. head /\ (lo = 0 \/ lo \in DOMAIN checkpointed) /\ DOMAIN checkpointed \subseteq lo .. head
    BY DEF OpenInv, OpenableLog
  <2>1. k \in lo .. head
    BY <1>4
  <2>2. logFiles' = k .. head
    BY <1>1, <1>2, <2>1
  <2>3. DOMAIN checkpointed' = {d \in DOMAIN checkpointed : d >= k}
    BY <1>1
  <2>4. k \in DOMAIN checkpointed' /\ DOMAIN checkpointed' \subseteq k .. head
    BY <1>2, <1>4, <2>3
  <2> QED
    BY <1>1, <1>4, <2>2, <2>4 DEF OpenableLog
<1>6. Opening!CheckpointsWhole'
  BY <1>1 DEF OpenInv, Opening!CheckpointsWhole
<1>7. OpenedOK'
  BY <1>1 DEF OpenedOK, Opening!Trusting, OpenInv
<1> QED
  BY <1>1, <1>5, <1>6, <1>7 DEF OpenInv, Opening!SnapshotWhole, Opening!CommitCompletes

\* It holds initially,
LEMMA OpenInit == Opening!ConstantsAssumption /\ Opening!Init => OpenInv
<1> SUFFICES ASSUME Opening!ConstantsAssumption, Opening!Init PROVE OpenInv
  OBVIOUS
<1>1. /\ head = 0 /\ logFiles = {0} /\ DOMAIN checkpointed = {} /\ opening = "closed" /\ want = -1
      /\ opened = Opening!NoHandle /\ hook = TRUE
  BY DEF Opening!Init, Opening!Now
<1>2. OpenableLog
  BY <1>1 DEF OpenableLog
<1> QED
  BY <1>1, <1>2 DEF OpenInv, OpenedOK, Opening!NoHandle, Opening!Trusting, Opening!Versions,
                    Opening!ConstantsAssumption, Opening!SnapshotWhole, Opening!CheckpointsWhole,
                    Opening!CommitCompletes

\* and every step preserves it.
LEMMA OpenStep ==
    Opening!ConstantsAssumption /\ CleanupIsOrderly /\ OpenInv /\ [Opening!Next]_(Opening!vars) => OpenInv'
<1> SUFFICES ASSUME Opening!ConstantsAssumption, CleanupIsOrderly, OpenInv, [Opening!Next]_(Opening!vars)
             PROVE  OpenInv'
  OBVIOUS
<1>1. CASE UNCHANGED Opening!vars
  BY <1>1 DEF Opening!vars, OpenInv, OpenableLog, OpenedOK, Opening!Trusting, Opening!SnapshotWhole,
              Opening!CheckpointsWhole, Opening!CommitCompletes
<1>2. CASE Opening!Do
  BY <1>2, HandleKeeps, PlainKeeps, ReplayKeeps, TravelKeeps DEF Opening!Do, Opening!Now
<1>3. CASE Opening!Others
  BY <1>3, ForeignCommitKeeps, ForeignCheckpointKeeps, CleanupKeeps DEF Opening!Others
<1> QED
  BY <1>1, <1>2, <1>3, CommitKeeps, HandleKeeps DEF Opening!Next

\* The inductive invariant of TableOpen holds always: a log that does not begin at
\* version 0 begins at a checkpoint, and a load that trusts in commit 0 finds it.
THEOREM OpenInvariance ==
    ASSUME Opening!ConstantsAssumption, CleanupIsOrderly
    PROVE  Opening!Spec => []OpenInv
<1>1. Opening!Init => OpenInv
  BY OpenInit
<1>2. OpenInv /\ [Opening!Next]_(Opening!vars) => OpenInv'
  BY OpenStep
<1> QED
  BY <1>1, <1>2, PTL DEF Opening!Spec

\* A handle shows every row up to its version: no open builds a table out of the
\* commits that happen to survive (storage.rs, open_replaying_the_log).
THEOREM OpensWhole ==
    ASSUME Opening!ConstantsAssumption, CleanupIsOrderly
    PROVE  Opening!Spec => []Opening!SnapshotWhole
<1>1. OpenInv => Opening!SnapshotWhole
  BY DEF OpenInv
<1> QED
  BY <1>1, OpenInvariance, PTL

\* Nor does a checkpoint record such a table as fact, for every engine.
THEOREM CheckpointsAreWhole ==
    ASSUME Opening!ConstantsAssumption, CleanupIsOrderly
    PROVE  Opening!Spec => []Opening!CheckpointsWhole
<1>1. OpenInv => Opening!CheckpointsWhole
  BY DEF OpenInv
<1> QED
  BY <1>1, OpenInvariance, PTL

\* A checkpoint written through a handle can be read back through it, whatever the
\* handle hides (storage.rs, WithoutCheckpoints).
THEOREM CheckpointReadBack ==
    ASSUME Opening!ConstantsAssumption, CleanupIsOrderly
    PROVE  Opening!Spec => []Opening!CommitCompletes
<1>1. OpenInv => Opening!CommitCompletes
  BY DEF OpenInv
<1> QED
  BY <1>1, OpenInvariance, PTL

\* Every variable of TableOpen has its type, and a lookup gets the version it asked for.
THEOREM OpenTypes ==
    ASSUME Opening!ConstantsAssumption, CleanupIsOrderly
    PROVE  Opening!Spec => []Opening!TypeOK
<1>1. OpenInv => Opening!TypeOK
  <2> SUFFICES ASSUME OpenInv PROVE Opening!TypeOK
    OBVIOUS
  <2>1. logFiles \subseteq 0 .. head /\ DOMAIN checkpointed \subseteq 0 .. head
    <3>1. head \in Nat
      BY Ranges
    <3> QED
      BY <3>1 DEF OpenInv, OpenableLog
  <2> QED
    BY <2>1 DEF OpenInv, OpenedOK, Opening!TypeOK
<1> QED
  BY <1>1, OpenInvariance, PTL

-----------------------------------------------------------------------------
\* Compaction, for any number of compactors and commits: every row that was brought and
\* not deleted is in the files of the table, once.
CONSTANTS Compactors, MaxCommits
VARIABLES commits, cleaned, rows, c

Compacting == INSTANCE Compaction WITH log <- commits


FileOfRows == [id : Nat, content : SUBSET Nat]

CompactedCommit == [adds : SUBSET FileOfRows, removes : SUBSET FileOfRows]

CompactorType ==
    [pc : {"idle", "check", "put"}, files : SUBSET FileOfRows, checked : Nat, version : Nat]

\* Every variable has its type.
CompactionTyped ==
    /\ commits \in Seq(CompactedCommit)
    /\ cleaned \in Nat
    /\ rows \subseteq 1 .. Len(commits)
    /\ c \in [Compactors -> CompactorType]

\* A file is named after the commit that adds it, and holds rows of that
\* commit or of earlier ones: no file is ever added twice.
NamedAfterCommit ==
    \A i \in 1 .. Len(commits) : \A f \in commits[i].adds : f.id = i /\ f.content \subseteq 1 .. i

\* What a compactor p has checked: its files were live in the version it last
\* checked, and before the put that is the version it puts on.
CheckedOK(p) ==
    c[p].pc # "idle" =>
        /\ c[p].checked \in 0 .. c[p].version - 1
        /\ c[p].version \in 1 .. Len(commits) + 1
        /\ c[p].files \subseteq Compacting!FilesAt(c[p].checked)
        /\ c[p].pc = "put" => c[p].checked = c[p].version - 1

\* The inductive invariant: RowsKept rests on what every compactor has checked
\* between its plan and its put.
CompactionInv ==
    /\ CompactionTyped
    /\ NamedAfterCommit
    /\ \A p \in Compactors : CheckedOK(p)
    /\ Compacting!RowsKept

-----------------------------------------------------------------------------
(* The log.                                                                *)

\* A file is live iff it was added and not removed since.
LEMMA Live ==
    ASSUME NEW v \in Nat, NEW f
    PROVE  f \in Compacting!FilesAt(v) <=>
             /\ \E i \in 1 .. v : f \in commits[i].adds
             /\ ~\E i \in 1 .. v : f \in commits[i].adds /\ \E j \in i + 1 .. v : f \in commits[j].removes
BY DEF Compacting!FilesAt

\* The same of the next state.
LEMMA LivePrime ==
    ASSUME NEW v \in Nat, NEW f
    PROVE  f \in Compacting!FilesAt(v)' <=>
             /\ \E i \in 1 .. v : f \in commits'[i].adds
             /\ ~\E i \in 1 .. v : f \in commits'[i].adds /\ \E j \in i + 1 .. v : f \in commits'[j].removes
BY DEF Compacting!FilesAt

\* What an append does to a log.
LEMMA Appended ==
    ASSUME commits \in Seq(CompactedCommit), NEW e \in CompactedCommit, commits' = Append(commits, e)
    PROVE  /\ commits' \in Seq(CompactedCommit)
           /\ Len(commits') = Len(commits) + 1
           /\ \A i \in 1 .. Len(commits) : commits'[i] = commits[i]
           /\ commits'[Len(commits) + 1] = e
OBVIOUS

\* An append leaves the files of the earlier versions as they were.
LEMMA OldVersionsStay ==
    ASSUME commits \in Seq(CompactedCommit), NEW e \in CompactedCommit, commits' = Append(commits, e),
           NEW v \in 0 .. Len(commits)
    PROVE  Compacting!FilesAt(v)' = Compacting!FilesAt(v)
<1> PICK n : n = Len(commits)
  OBVIOUS
<1>1. n \in Nat /\ v \in Nat /\ v <= n
  OBVIOUS
<1>2. \A i \in 1 .. v : commits'[i] = commits[i]
  BY Appended
<1>3. ASSUME NEW f PROVE f \in Compacting!FilesAt(v)' <=> f \in Compacting!FilesAt(v)
  <2>1. \A i \in 1 .. v : \A j \in i + 1 .. v : j \in 1 .. v
    BY <1>1
  <2> QED
    BY SMTT(20), <1>1, <1>2, <2>1, Live, LivePrime
<1> QED
  BY <1>3

\* A commit takes its removes out of the live files and puts its adds in.
LEMMA NewFiles ==
    ASSUME commits \in Seq(CompactedCommit), NamedAfterCommit, NEW e \in CompactedCommit, commits' = Append(commits, e),
           \A f \in e.adds : f.id = Len(commits) + 1
    PROVE  Compacting!Files' = (Compacting!Files \ e.removes) \cup e.adds
<1> PICK n : n = Len(commits)
  OBVIOUS
<1>1. /\ n \in Nat /\ Len(commits') = n + 1
      /\ \A i \in 1 .. n : commits'[i] = commits[i]
      /\ commits'[n + 1] = e
  BY Appended
<1>2. Compacting!Files = Compacting!FilesAt(n) /\ Compacting!Files' = Compacting!FilesAt(n + 1)'
  BY <1>1 DEF Compacting!Files, Compacting!FilesAt
<1>3. \A f : \A i \in 1 .. n : f \in commits[i].adds => f.id = i
  BY DEF NamedAfterCommit
<1>4. \A f \in e.adds : \A i \in 1 .. n : f \notin commits[i].adds
  BY <1>1, <1>3
<1>5. ASSUME NEW f
      PROVE  f \in Compacting!FilesAt(n + 1)' <=> (f \in Compacting!FilesAt(n) /\ f \notin e.removes) \/ f \in e.adds
  <2>1. \A i : i \in 1 .. n + 1 <=> i \in 1 .. n \/ i = n + 1
    BY <1>1
  <2>2. \A i \in 1 .. n : \A j : j \in i + 1 .. n + 1 <=> j \in i + 1 .. n \/ j = n + 1
    BY <1>1
  <2>3. \A j : ~(j \in n + 1 + 1 .. n + 1)
    BY <1>1
  <2>4. \A i \in 1 .. n : \A j \in i + 1 .. n : j \in 1 .. n
    BY <1>1
  <2>5. CASE f \in e.adds
    <3>1. \E i \in 1 .. n + 1 : f \in commits'[i].adds
      BY <1>1, <2>1, <2>5
    <3>2. \A i \in 1 .. n + 1 : f \in commits'[i].adds => i = n + 1
      BY <1>1, <1>4, <2>1, <2>5
    <3>3. f \in Compacting!FilesAt(n + 1)'
      BY <1>1, <2>3, <3>1, <3>2, LivePrime
    <3> QED
      BY <2>5, <3>3
  <2>6. CASE f \notin e.adds
    <3>1. \A i \in 1 .. n + 1 : f \in commits'[i].adds <=> i \in 1 .. n /\ f \in commits[i].adds
      BY <1>1, <2>1, <2>6
    <3>2. \A i \in 1 .. n : (\E j \in i + 1 .. n + 1 : f \in commits'[j].removes)
                              <=> (\E j \in i + 1 .. n : f \in commits[j].removes) \/ f \in e.removes
      BY <1>1, <2>2, <2>4
    <3>3. f \in Compacting!FilesAt(n + 1)' <=>
             /\ \E i \in 1 .. n : f \in commits[i].adds
             /\ ~\E i \in 1 .. n : f \in commits[i].adds /\
                   ((\E j \in i + 1 .. n : f \in commits[j].removes) \/ f \in e.removes)
      BY SMTT(20), <1>1, <2>1, <3>1, <3>2, LivePrime
    <3> QED
      BY <1>1, <2>6, <3>3, Live
  <2> QED
    BY <2>5, <2>6
<1> QED
  BY <1>2, <1>5

\* A live file is a file, and holds rows that were appended.
LEMMA LiveTyped ==
    ASSUME commits \in Seq(CompactedCommit), NamedAfterCommit, NEW v \in 0 .. Len(commits), NEW f \in Compacting!FilesAt(v)
    PROVE  f \in FileOfRows /\ f.content \subseteq 1 .. Len(commits)
<1>1. PICK i \in 1 .. v : f \in commits[i].adds
  BY DEF Compacting!FilesAt
<1>2. i \in 1 .. Len(commits) /\ commits[i] \in CompactedCommit
  OBVIOUS
<1>3. f \in FileOfRows
  BY <1>1, <1>2 DEF CompactedCommit
<1>4. f.content \subseteq 1 .. i
  BY <1>1, <1>2 DEF NamedAfterCommit
<1> QED
  BY <1>2, <1>3, <1>4

\* No commit after the first u, up to the v-th, removes one of these files.
Untouched(files, u, v) == \A w \in u + 1 .. v : commits[w].removes \cap files = {}

\* Files that no later commit removed are still live.
LEMMA StillLive ==
    ASSUME commits \in Seq(CompactedCommit), NamedAfterCommit, NEW u \in Nat, NEW v \in 0 .. Len(commits), u <= v,
           NEW files, files \subseteq Compacting!FilesAt(u),
           Untouched(files, u, v)
    PROVE  files \subseteq Compacting!FilesAt(v)
<1> SUFFICES ASSUME NEW f \in files PROVE f \in Compacting!FilesAt(v)
  OBVIOUS
<1> PICK n : n = Len(commits)
  OBVIOUS
<1>1. n \in Nat /\ v \in Nat /\ v <= n
  OBVIOUS
<1>2. f \in Compacting!FilesAt(u)
  OBVIOUS
<1>3. PICK i \in 1 .. u : f \in commits[i].adds
  BY <1>2, Live
<1>4. \A k \in 1 .. v : f \in commits[k].adds => k = i
  BY <1>1, <1>3 DEF NamedAfterCommit
<1>5. \A j \in i + 1 .. u : f \notin commits[j].removes
  BY <1>2, <1>3, Live
<1>6. \A j \in u + 1 .. v : f \notin commits[j].removes
  BY DEF Untouched
<1>7. \A j \in i + 1 .. v : f \notin commits[j].removes
  BY <1>1, <1>5, <1>6
<1>8. i \in 1 .. v
  BY <1>1
<1> QED
  BY <1>1, <1>3, <1>4, <1>7, <1>8, Live

-----------------------------------------------------------------------------
(* The inductive invariant.                                                *)

\* A file that replaces some live files holds their rows, each once.
LEMMA RowsRewritten ==
    ASSUME Compacting!RowsKept, commits \in Seq(CompactedCommit), NEW files \in SUBSET Compacting!Files,
           Compacting!Files' = (Compacting!Files \ files) \cup Compacting!Rewritten(files), rows' = rows
    PROVE  Compacting!RowsKept'
<1> PICK g : g = Compacting!File(Len(commits) + 1, UNION {f.content : f \in files})
  OBVIOUS
<1>1. Compacting!Rewritten(files) = {g} /\ g.content = UNION {f.content : f \in files}
  BY DEF Compacting!Rewritten, Compacting!File
<1>2. ASSUME NEW x PROVE (\E f \in Compacting!Files' : x \in f.content) <=> x \in rows
  <2>1. x \in rows <=> \E f \in Compacting!Files : x \in f.content
    BY DEF Compacting!RowsKept
  <2>2. x \in g.content <=> \E f \in files : x \in f.content
    BY <1>1
  <2> QED
    BY <1>1, <2>1, <2>2
<1>3. \A f \in Compacting!Files \ files : f.content \cap g.content = {}
  BY <1>1 DEF Compacting!RowsKept
<1>4. \A f, h \in Compacting!Files' : f # h => f.content \cap h.content = {}
  BY <1>1, <1>3 DEF Compacting!RowsKept
<1>5. UNION {f.content : f \in Compacting!Files'} = rows
  BY <1>2
<1> QED
  BY <1>4, <1>5 DEF Compacting!RowsKept

\* A commit appended to the log, seen from the compactors that have not landed.
LEMMA CheckedStays ==
    ASSUME commits \in Seq(CompactedCommit), NEW e \in CompactedCommit, commits' = Append(commits, e),
           NEW p \in Compactors, CheckedOK(p), c'[p] = c[p], CompactionTyped
    PROVE  CheckedOK(p)'
<1> PICK n : n = Len(commits)
  OBVIOUS
<1>1. n \in Nat /\ Len(commits') = n + 1
  BY Appended
<1>2. CASE c[p].pc # "idle"
  <2>0. c[p].checked \in Nat /\ c[p].version \in Nat
    BY DEF CompactionTyped, CompactorType
  <2>1. c[p].checked \in 0 .. n
    BY <1>1, <1>2, <2>0 DEF CheckedOK
  <2>2. PICK v : v = c[p].checked
    OBVIOUS
  <2>3. Compacting!FilesAt(v)' = Compacting!FilesAt(v)
    BY <2>1, <2>2, OldVersionsStay
  <2>4. Compacting!FilesAt(c[p].checked)' = Compacting!FilesAt(v)'
    BY <2>2 DEF Compacting!FilesAt
  <2> QED
    BY <1>1, <1>2, <2>0, <2>2, <2>3, <2>4 DEF CheckedOK
<1>3. CASE c[p].pc = "idle"
  BY <1>3 DEF CheckedOK
<1> QED
  BY <1>2, <1>3

\* A rewrite keeps the type of the log, its files' names, and every row.
LEMMA RewriteKeeps ==
    ASSUME CompactionInv, NEW files \in SUBSET Compacting!Files,
           NEW e, e = [adds |-> Compacting!Rewritten(files), removes |-> files],
           commits' = Append(commits, e), rows' = rows
    PROVE  /\ e \in CompactedCommit
           /\ commits' \in Seq(CompactedCommit) /\ rows' \subseteq 1 .. Len(commits')
           /\ NamedAfterCommit'
           /\ Compacting!RowsKept'
<1> PICK n : n = Len(commits)
  OBVIOUS
<1> PICK g : g = Compacting!File(n + 1, UNION {f.content : f \in files})
  OBVIOUS
<1>0. n \in Nat /\ commits \in Seq(CompactedCommit) /\ NamedAfterCommit /\ Compacting!RowsKept /\ rows \subseteq 1 .. n
  BY DEF CompactionInv, CompactionTyped
<1>1. Compacting!Files = Compacting!FilesAt(n) /\ n \in 0 .. Len(commits)
  BY <1>0 DEF Compacting!Files
<1>2. \A f \in Compacting!Files : f \in FileOfRows /\ f.content \subseteq 1 .. n
  BY <1>0, <1>1, LiveTyped
<1>3. g.content \subseteq 1 .. n /\ g.id = n + 1
  BY <1>2 DEF Compacting!File
<1>4. g \in FileOfRows
  BY <1>0, <1>2 DEF Compacting!File, FileOfRows
<1>5. e.adds = {g} /\ e.removes = files /\ e \in CompactedCommit
  BY <1>2, <1>4 DEF CompactedCommit, Compacting!Rewritten
<1>6. /\ commits' \in Seq(CompactedCommit) /\ Len(commits') = n + 1
      /\ \A i \in 1 .. n : commits'[i] = commits[i]
      /\ commits'[n + 1] = e
  BY <1>0, <1>5, Appended
<1>7. NamedAfterCommit'
  BY <1>0, <1>3, <1>5, <1>6 DEF NamedAfterCommit
<1>8. Compacting!Files' = (Compacting!Files \ files) \cup Compacting!Rewritten(files)
  BY <1>0, <1>3, <1>5, NewFiles
<1>9. Compacting!RowsKept'
  BY <1>0, <1>8, RowsRewritten
<1> QED
  BY <1>0, <1>5, <1>6, <1>7, <1>9

\* An append of one row.
LEMMA AppendRowKeeps == CompactionInv /\ Compacting!AppendRow => CompactionInv'
<1> SUFFICES ASSUME CompactionInv, Compacting!AppendRow PROVE CompactionInv'
  OBVIOUS
<1> PICK n : n = Len(commits)
  OBVIOUS
<1> PICK g : g = Compacting!File(n + 1, {n + 1})
  OBVIOUS
<1> PICK e : e = [adds |-> {g}, removes |-> {}]
  OBVIOUS
<1>0. n \in Nat /\ commits \in Seq(CompactedCommit) /\ NamedAfterCommit /\ Compacting!RowsKept /\ CompactionTyped
  BY DEF CompactionInv, CompactionTyped
<1>1. commits' = Append(commits, e) /\ rows' = rows \cup {n + 1} /\ cleaned' = cleaned /\ c' = c
  BY DEF Compacting!AppendRow
<1>2. g.id = n + 1 /\ g.content = {n + 1} /\ g \in FileOfRows
  BY <1>0 DEF Compacting!File, FileOfRows
<1>3. e \in CompactedCommit
  BY <1>2 DEF CompactedCommit
<1>4. /\ commits' \in Seq(CompactedCommit) /\ Len(commits') = n + 1
      /\ \A i \in 1 .. n : commits'[i] = commits[i]
      /\ commits'[n + 1] = e
  BY <1>0, <1>1, <1>3, Appended
<1>5. CompactionTyped'
  <2>1. rows \subseteq 1 .. n
    BY <1>0 DEF CompactionTyped
  <2>2. \A x \in rows' : x \in 1 .. n + 1
    BY <1>0, <1>1, <2>1
  <2>3. rows' \subseteq 1 .. Len(commits')
    BY <1>4, <2>2
  <2> QED
    BY <1>0, <1>1, <1>4, <2>3 DEF CompactionTyped
<1>6. NamedAfterCommit'
  <2>1. e.adds = {g}
    OBVIOUS
  <2>2. ASSUME NEW i \in 1 .. n + 1, NEW f \in commits'[i].adds
        PROVE  f.id = i /\ f.content \subseteq 1 .. i
    <3>1. CASE i \in 1 .. n
      BY <1>0, <1>4, <3>1 DEF NamedAfterCommit
    <3>2. CASE i = n + 1
      BY <1>0, <1>2, <1>4, <2>1, <3>2
    <3> QED
      BY <1>0, <3>1, <3>2
  <2> QED
    BY <1>4, <2>2 DEF NamedAfterCommit
<1>7. \A p \in Compactors : CheckedOK(p)'
  BY <1>0, <1>1, <1>3, CheckedStays DEF CompactionInv
<1>8. Compacting!Files' = Compacting!Files \cup {g}
  BY <1>0, <1>1, <1>2, <1>3, NewFiles
<1>9. \A f \in Compacting!Files : f.content \subseteq 1 .. n
  <2>1. Compacting!Files = Compacting!FilesAt(n) /\ n \in 0 .. Len(commits)
    BY <1>0 DEF Compacting!Files
  <2> QED
    BY <1>0, <2>1, LiveTyped
<1>10. Compacting!RowsKept'
  <2>1. \A f \in Compacting!Files : n + 1 \notin f.content
    BY <1>0, <1>9
  <2>0. \A f \in Compacting!Files : f.content \cap g.content = {}
    BY <1>2, <2>1
  <2>2. \A f, h \in Compacting!Files' : f # h => f.content \cap h.content = {}
    BY ZenonT(30), <1>0, <1>8, <2>0 DEF Compacting!RowsKept
  <2>3. ASSUME NEW x PROVE (\E f \in Compacting!Files' : x \in f.content) <=> x \in rows'
    <3>1. x \in rows <=> \E f \in Compacting!Files : x \in f.content
      BY <1>0 DEF Compacting!RowsKept
    <3> QED
      BY <1>1, <1>2, <1>8, <3>1
  <2>4. UNION {f.content : f \in Compacting!Files'} = rows'
    BY <2>3
  <2> QED
    BY <2>2, <2>4 DEF Compacting!RowsKept
<1> QED
  BY <1>5, <1>6, <1>7, <1>10 DEF CompactionInv

\* Another engine deletes the rows of a live file.
LEMMA DeleteKeeps == CompactionInv /\ Compacting!Delete => CompactionInv'
<1> SUFFICES ASSUME CompactionInv, Compacting!Delete PROVE CompactionInv'
  OBVIOUS
<1> PICK n : n = Len(commits)
  OBVIOUS
<1>0. n \in Nat /\ commits \in Seq(CompactedCommit) /\ NamedAfterCommit /\ Compacting!RowsKept /\ CompactionTyped
  BY DEF CompactionInv, CompactionTyped
<1>1. PICK g \in Compacting!Files : /\ commits' = Append(commits, [adds |-> {}, removes |-> {g}])
                         /\ rows' = rows \ g.content /\ cleaned' = cleaned /\ c' = c
  BY DEF Compacting!Delete
<1> PICK e : e = [adds |-> {}, removes |-> {g}]
  OBVIOUS
<1>2. Compacting!Files = Compacting!FilesAt(n) /\ n \in 0 .. Len(commits)
  BY <1>0 DEF Compacting!Files
<1>3. g \in FileOfRows
  BY <1>0, <1>2, LiveTyped
<1>4. e \in CompactedCommit /\ commits' = Append(commits, e)
  BY <1>1, <1>3 DEF CompactedCommit
<1>5. /\ commits' \in Seq(CompactedCommit) /\ Len(commits') = n + 1
      /\ \A i \in 1 .. n : commits'[i] = commits[i]
      /\ commits'[n + 1] = e
  BY <1>0, <1>4, Appended
<1>6. CompactionTyped'
  <2>1. commits' \in Seq(CompactedCommit) /\ cleaned' \in Nat /\ c' \in [Compactors -> CompactorType]
    BY <1>0, <1>1, <1>5 DEF CompactionTyped
  <2>2. rows' \subseteq 1 .. n
    BY <1>0, <1>1 DEF CompactionTyped
  <2>3. 1 .. n \subseteq 1 .. n + 1
    BY <1>0
  <2>4. rows' \subseteq 1 .. Len(commits')
    BY <1>5, <2>2, <2>3
  <2> QED
    BY <2>1, <2>4 DEF CompactionTyped
<1>7. NamedAfterCommit'
  BY <1>0, <1>5 DEF NamedAfterCommit
<1>8. \A p \in Compactors : CheckedOK(p)'
  BY <1>0, <1>1, <1>4, CheckedStays DEF CompactionInv
<1>9. Compacting!Files' = Compacting!Files \ {g}
  BY <1>0, <1>4, NewFiles
<1>10. Compacting!RowsKept'
  <2>1. ASSUME NEW x PROVE (\E f \in Compacting!Files' : x \in f.content) <=> x \in rows'
    <3>1. x \in rows <=> \E f \in Compacting!Files : x \in f.content
      BY <1>0 DEF Compacting!RowsKept
    <3>2. \A f \in Compacting!Files \ {g} : x \in f.content => x \notin g.content
      BY <1>0, <1>1 DEF Compacting!RowsKept
    <3> QED
      BY <1>1, <1>9, <3>1, <3>2
  <2>2. UNION {f.content : f \in Compacting!Files'} = rows'
    BY <2>1
  <2> QED
    BY <1>0, <1>9, <2>2 DEF Compacting!RowsKept
<1> QED
  BY <1>6, <1>7, <1>8, <1>10 DEF CompactionInv

\* Another engine compacts live files.
LEMMA ForeignCompactionKeeps == CompactionInv /\ Compacting!ForeignCompaction => CompactionInv'
<1> SUFFICES ASSUME CompactionInv, Compacting!ForeignCompaction PROVE CompactionInv'
  OBVIOUS
<1>0. commits \in Seq(CompactedCommit) /\ CompactionTyped
  BY DEF CompactionInv, CompactionTyped
<1>1. PICK files \in SUBSET Compacting!Files :
          /\ commits' = Append(commits, [adds |-> Compacting!Rewritten(files), removes |-> files])
          /\ cleaned' = cleaned /\ rows' = rows /\ c' = c
  BY DEF Compacting!ForeignCompaction
<1> PICK e : e = [adds |-> Compacting!Rewritten(files), removes |-> files]
  OBVIOUS
<1>2. commits' = Append(commits, e)
  BY <1>1
<1>3. /\ e \in CompactedCommit
      /\ commits' \in Seq(CompactedCommit) /\ rows' \subseteq 1 .. Len(commits')
      /\ NamedAfterCommit'
      /\ Compacting!RowsKept'
  BY <1>1, <1>2, RewriteKeeps
<1>4. CompactionTyped'
  BY <1>0, <1>1, <1>3 DEF CompactionTyped
<1>5. \A p \in Compactors : CheckedOK(p)'
  BY <1>0, <1>1, <1>2, <1>3, CheckedStays DEF CompactionInv
<1> QED
  BY <1>3, <1>4, <1>5 DEF CompactionInv

\* A step that leaves the log, and the checks of the other compactors, alone.
LEMMA LocalStep ==
    ASSUME CompactionInv, commits' = commits, rows' = rows, cleaned' \in Nat,
           NEW p \in Compactors, NEW s \in CompactorType, c' = [c EXCEPT ![p] = s],
           s.pc # "idle" =>
             /\ s.checked \in 0 .. s.version - 1
             /\ s.version \in 1 .. Len(commits) + 1
             /\ s.files \subseteq Compacting!FilesAt(s.checked)
             /\ s.pc = "put" => s.checked = s.version - 1
    PROVE  CompactionInv'
<1>0. CompactionTyped /\ Compacting!RowsKept /\ NamedAfterCommit /\ \A q \in Compactors : CheckedOK(q)
  BY DEF CompactionInv
<1>1. \A v : Compacting!FilesAt(v)' = Compacting!FilesAt(v)
  BY DEF Compacting!FilesAt
<1>2. Compacting!Files' = Compacting!Files
  BY <1>1 DEF Compacting!Files, Compacting!FilesAt
<1>3. Compacting!RowsKept' /\ NamedAfterCommit'
  BY <1>0, <1>2 DEF Compacting!RowsKept, NamedAfterCommit
<1>4. c' \in [Compactors -> CompactorType]
  BY <1>0 DEF CompactionTyped
<1>5. CompactionTyped'
  BY <1>0, <1>4 DEF CompactionTyped
<1>6. ASSUME NEW q \in Compactors PROVE CheckedOK(q)'
  <2>1. PICK u : u = c'[q].checked
    OBVIOUS
  <2>2. Compacting!FilesAt(c[q].checked)' = Compacting!FilesAt(u)
    BY <2>1 DEF Compacting!FilesAt
  <2>3. CASE q = p
    <3>1. c'[q] = s
      BY <1>0, <2>3 DEF CompactionTyped
    <3> QED
      BY <2>1, <2>2, <3>1 DEF CheckedOK
  <2>4. CASE q # p
    <3>1. c'[q] = c[q]
      BY <1>0, <2>4 DEF CompactionTyped
    <3> QED
      BY <1>0, <2>1, <2>2, <3>1 DEF CheckedOK
  <2> QED
    BY <2>3, <2>4
<1> QED
  BY <1>3, <1>5, <1>6 DEF CompactionInv

\* What a check and a retry make of a compactor.
LEMMA CheckPassed ==
    ASSUME NEW o \in CompactorType, NEW v \in Nat
    PROVE  /\ [o EXCEPT !.pc = "put", !.checked = v] \in CompactorType
           /\ [o EXCEPT !.pc = "check", !.version = v] \in CompactorType
BY DEF CompactorType

\* A plan is drawn on live files.
LEMMA PlanKeeps == ASSUME CompactionInv, NEW p \in Compactors, Compacting!PlanCompaction(p) PROVE CompactionInv'
<1> PICK n : n = Len(commits)
  OBVIOUS
<1>0. n \in Nat /\ commits \in Seq(CompactedCommit) /\ NamedAfterCommit /\ CompactionTyped
  BY DEF CompactionInv, CompactionTyped
<1>1. PICK files \in SUBSET Compacting!Files :
          c' = [c EXCEPT ![p] = [pc |-> "check", files |-> files, checked |-> n, version |-> n + 1]]
  BY DEF Compacting!PlanCompaction
<1>2. Compacting!Files = Compacting!FilesAt(n) /\ n \in 0 .. Len(commits)
  BY <1>0 DEF Compacting!Files
<1>3. files \subseteq FileOfRows
  BY <1>0, <1>2, LiveTyped
<1> PICK s : s = [pc |-> "check", files |-> files, checked |-> n, version |-> n + 1]
  OBVIOUS
<1>4. s \in CompactorType
  BY <1>0, <1>3 DEF CompactorType
<1>5. commits' = commits /\ rows' = rows /\ cleaned' \in Nat
  BY <1>0 DEF Compacting!PlanCompaction, CompactionTyped
<1>6. /\ s.checked \in 0 .. s.version - 1
      /\ s.version \in 1 .. Len(commits) + 1
      /\ s.files \subseteq Compacting!FilesAt(s.checked)
      /\ s.pc # "put"
  BY <1>0, <1>2
<1> QED
  BY <1>1, <1>4, <1>5, <1>6, LocalStep

\* A check that passes carries the live files to the version before the put.
LEMMA CheckPassesKeeps == ASSUME CompactionInv, NEW p \in Compactors, Compacting!CheckPasses(p) PROVE CompactionInv'
<1> PICK n : n = Len(commits)
  OBVIOUS
<1>0. n \in Nat /\ commits \in Seq(CompactedCommit) /\ NamedAfterCommit /\ CompactionTyped /\ CheckedOK(p)
  BY DEF CompactionInv, CompactionTyped
<1> PICK o : o = c[p]
  OBVIOUS
<1> PICK s : s = [o EXCEPT !.pc = "put", !.checked = o.version - 1]
  OBVIOUS
<1>1. o \in CompactorType /\ o.pc = "check" /\ ~Compacting!Clashes(p) /\ c' = [c EXCEPT ![p] = s]
  BY <1>0 DEF Compacting!CheckPasses, CompactionTyped
<1>2. /\ o.checked \in 0 .. o.version - 1 /\ o.version \in 1 .. n + 1
      /\ o.files \in SUBSET Compacting!FilesAt(o.checked)
  BY <1>0, <1>1 DEF CheckedOK
<1>3. \A w \in o.checked + 1 .. o.version - 1 : commits[w].removes \cap o.files = {}
  BY <1>1 DEF Compacting!Clashes, Compacting!Since
<1>4. o.checked \in Nat /\ o.version - 1 \in 0 .. Len(commits) /\ o.checked <= o.version - 1
  BY <1>0, <1>2
<1>5. o.files \subseteq Compacting!FilesAt(o.version - 1)
  <2> PICK u : u = o.checked
    OBVIOUS
  <2> PICK v : v = o.version - 1
    OBVIOUS
  <2> PICK files : files = o.files
    OBVIOUS
  <2>1. u \in Nat /\ v \in 0 .. Len(commits) /\ u <= v /\ files \subseteq Compacting!FilesAt(u)
    BY <1>2, <1>4
  <2>2. Untouched(files, u, v)
    BY <1>3 DEF Untouched
  <2>3. files \subseteq Compacting!FilesAt(v)
    BY <1>0, <2>1, <2>2, StillLive
  <2> QED
    BY <2>3
<1>6. s \in CompactorType
  <2>1. o.version - 1 \in Nat
    BY <1>0, <1>4
  <2> QED
    BY <1>1, <2>1, CheckPassed
<1>7. /\ s.checked \in 0 .. s.version - 1
      /\ s.version \in 1 .. Len(commits) + 1
      /\ s.files \subseteq Compacting!FilesAt(s.checked)
      /\ s.checked = s.version - 1
  BY <1>1, <1>2, <1>4, <1>5 DEF CompactorType
<1>8. commits' = commits /\ rows' = rows /\ cleaned' \in Nat
  BY <1>0 DEF Compacting!CheckPasses, CompactionTyped
<1> QED
  BY <1>1, <1>6, <1>7, <1>8, LocalStep

\* A retry checks again from where the last check ended.
LEMMA PutAgainKeeps == ASSUME CompactionInv, NEW p \in Compactors, Compacting!PutRetries(p) PROVE CompactionInv'
<1> PICK n : n = Len(commits)
  OBVIOUS
<1>0. n \in Nat /\ commits \in Seq(CompactedCommit) /\ CompactionTyped /\ CheckedOK(p)
  BY DEF CompactionInv, CompactionTyped
<1> PICK o : o = c[p]
  OBVIOUS
<1> PICK s : s = [o EXCEPT !.pc = "check", !.version = n + 1]
  OBVIOUS
<1>1. o \in CompactorType /\ o.pc = "put" /\ c' = [c EXCEPT ![p] = s]
  BY <1>0 DEF Compacting!PutRetries, CompactionTyped
<1>2. /\ o.checked \in 0 .. o.version - 1 /\ o.version \in 1 .. n + 1
      /\ o.files \subseteq Compacting!FilesAt(o.checked)
  BY <1>0, <1>1 DEF CheckedOK
<1>3. s \in CompactorType
  <2>1. n + 1 \in Nat
    BY <1>0
  <2> QED
    BY <1>1, <2>1, CheckPassed
<1>4. /\ s.checked \in 0 .. s.version - 1
      /\ s.version \in 1 .. Len(commits) + 1
      /\ s.files \subseteq Compacting!FilesAt(s.checked)
      /\ s.pc # "put"
  BY <1>0, <1>1, <1>2 DEF CompactorType
<1>5. commits' = commits /\ rows' = rows /\ cleaned' \in Nat
  BY <1>0 DEF Compacting!PutRetries, CompactionTyped
<1> QED
  BY <1>1, <1>3, <1>4, <1>5, LocalStep

\* A compaction that is refused, or whose process dies, is back where it began.
LEMMA GivesUp ==
    ASSUME CompactionInv, NEW p \in Compactors, Compacting!CheckRefuses(p) \/ Compacting!Die(p)
    PROVE  CompactionInv'
<1>1. Compacting!Idle \in CompactorType /\ Compacting!Idle.pc = "idle"
  BY DEF Compacting!Idle, CompactorType
<1>2. commits' = commits /\ rows' = rows /\ cleaned' \in Nat /\ c' = [c EXCEPT ![p] = Compacting!Idle]
  BY DEF Compacting!CheckRefuses, Compacting!Die, CompactionInv, CompactionTyped
<1> QED
  BY <1>1, <1>2, LocalStep

\* The put lands on the version after the one the check read: its files are live.
LEMMA PutKeeps == ASSUME CompactionInv, NEW p \in Compactors, Compacting!Put(p) PROVE CompactionInv'
<1> PICK n : n = Len(commits)
  OBVIOUS
<1>0. n \in Nat /\ commits \in Seq(CompactedCommit) /\ CompactionTyped /\ \A q \in Compactors : CheckedOK(q)
  BY DEF CompactionInv, CompactionTyped
<1> PICK o : o = c[p]
  OBVIOUS
<1>1. o \in CompactorType /\ o.pc = "put" /\ o.version = n + 1
  BY <1>0 DEF Compacting!Put, CompactionTyped
<1>2. o.checked = o.version - 1 /\ o.files \subseteq Compacting!FilesAt(o.checked)
  BY <1>0, <1>1 DEF CheckedOK
<1>3. o.files \in SUBSET Compacting!Files
  BY <1>0, <1>1, <1>2 DEF Compacting!Files
<1> PICK e : e = [adds |-> Compacting!Rewritten(o.files), removes |-> o.files]
  OBVIOUS
<1>4. commits' = Append(commits, e) /\ cleaned' = cleaned /\ rows' = rows /\ c' = [c EXCEPT ![p] = Compacting!Idle]
  BY DEF Compacting!Put
<1>5. /\ e \in CompactedCommit
      /\ commits' \in Seq(CompactedCommit) /\ rows' \subseteq 1 .. Len(commits')
      /\ NamedAfterCommit'
      /\ Compacting!RowsKept'
  BY <1>3, <1>4, RewriteKeeps
<1>6. Compacting!Idle \in CompactorType /\ Compacting!Idle.pc = "idle"
  BY DEF Compacting!Idle, CompactorType
<1>7. CompactionTyped'
  BY <1>0, <1>4, <1>5, <1>6 DEF CompactionTyped
<1>8. ASSUME NEW q \in Compactors PROVE CheckedOK(q)'
  <2>1. CASE q = p
    <3>1. c'[q].pc = "idle"
      BY <1>0, <1>4, <1>6, <2>1 DEF CompactionTyped
    <3> QED
      BY <3>1 DEF CheckedOK
  <2>2. CASE q # p
    <3>1. c'[q] = c[q]
      BY <1>0, <1>4, <2>2 DEF CompactionTyped
    <3> QED
      BY <1>0, <1>4, <1>5, <3>1, CheckedStays
  <2> QED
    BY <2>1, <2>2
<1> QED
  BY <1>5, <1>7, <1>8 DEF CompactionInv

\* A log entry that expires only makes checks refuse.
LEMMA CleanLogKeeps == CompactionInv /\ Compacting!CleanLog => CompactionInv'
<1> SUFFICES ASSUME CompactionInv, Compacting!CleanLog PROVE CompactionInv'
  OBVIOUS
<1>1. commits' = commits /\ rows' = rows /\ c' = c /\ cleaned' = Len(commits)
  BY DEF Compacting!CleanLog
<1>2. CompactionTyped'
  BY <1>1 DEF CompactionInv, CompactionTyped
<1>3. Compacting!Files' = Compacting!Files
  BY <1>1 DEF Compacting!Files, Compacting!FilesAt
<1> QED
  BY <1>1, <1>2, <1>3 DEF CompactionInv, NamedAfterCommit, Compacting!RowsKept, CheckedOK, Compacting!FilesAt

\* A step that changes nothing.
LEMMA CompactionRests == CompactionInv /\ UNCHANGED Compacting!vars => CompactionInv'
<1> SUFFICES ASSUME CompactionInv, UNCHANGED Compacting!vars PROVE CompactionInv'
  OBVIOUS
<1>1. commits' = commits /\ rows' = rows /\ c' = c /\ cleaned' = cleaned
  BY DEF Compacting!vars
<1>2. CompactionTyped'
  BY <1>1 DEF CompactionInv, CompactionTyped
<1>3. Compacting!Files' = Compacting!Files
  BY <1>1 DEF Compacting!Files, Compacting!FilesAt
<1> QED
  BY <1>1, <1>2, <1>3 DEF CompactionInv, NamedAfterCommit, Compacting!RowsKept, CheckedOK, Compacting!FilesAt

\* The empty table.
LEMMA CompactionStarts == Compacting!Init => CompactionInv
<1> SUFFICES ASSUME Compacting!Init PROVE CompactionInv
  OBVIOUS
<1>1. commits = << >> /\ Len(commits) = 0 /\ commits \in Seq(CompactedCommit) /\ cleaned = 0 /\ rows = {}
  BY DEF Compacting!Init
<1>2. \A p \in Compactors : c[p] = Compacting!Idle
  BY DEF Compacting!Init
<1>3. Compacting!Idle \in CompactorType /\ Compacting!Idle.pc = "idle"
  BY DEF Compacting!Idle, CompactorType
<1>4. CompactionTyped
  BY <1>1, <1>3 DEF Compacting!Init, CompactionTyped
<1>5. NamedAfterCommit
  BY <1>1 DEF NamedAfterCommit
<1>6. \A p \in Compactors : CheckedOK(p)
  BY <1>2, <1>3 DEF CheckedOK
<1>7. Compacting!Files = {}
  BY <1>1 DEF Compacting!Files, Compacting!FilesAt
<1>8. Compacting!RowsKept
  BY <1>1, <1>7 DEF Compacting!RowsKept
<1> QED
  BY <1>4, <1>5, <1>6, <1>8 DEF CompactionInv

\* The invariant holds in every reachable state.
THEOREM CompactionInvariance == Compacting!Spec => []CompactionInv
<1>1. CompactionInv /\ [Compacting!Next]_(Compacting!vars) => CompactionInv'
  <2> SUFFICES ASSUME CompactionInv, [Compacting!Next]_(Compacting!vars) PROVE CompactionInv'
    OBVIOUS
  <2>1. CASE Compacting!AppendRow \/ Compacting!Delete \/ Compacting!ForeignCompaction \/ Compacting!CleanLog
    BY <2>1, AppendRowKeeps, DeleteKeeps, ForeignCompactionKeeps, CleanLogKeeps
  <2>2. ASSUME NEW p \in Compactors,
               \/ Compacting!PlanCompaction(p) \/ Compacting!CheckPasses(p) \/ Compacting!CheckRefuses(p)
               \/ Compacting!Put(p) \/ Compacting!PutRetries(p) \/ Compacting!Die(p)
        PROVE  CompactionInv'
    BY <2>2, PlanKeeps, CheckPassesKeeps, GivesUp, PutKeeps, PutAgainKeeps
  <2>3. CASE UNCHANGED Compacting!vars
    BY <2>3, CompactionRests
  <2> QED
    BY <2>1, <2>2, <2>3 DEF Compacting!Next
<1> QED
  BY <1>1, CompactionStarts, PTL DEF Compacting!Spec

\* The live files hold exactly the rows they ought to, each once, whatever other
\* engines delete, compact or expire between a compaction's check and its put
\* (GuardedLogStore::write_commit_entry).
THEOREM CompactionKeepsRows == Compacting!Spec => []Compacting!RowsKept
<1>1. CompactionInv => Compacting!RowsKept
  BY DEF CompactionInv
<1> QED
  BY <1>1, CompactionInvariance, PTL
=============================================================================
