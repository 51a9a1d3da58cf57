------------------------------ MODULE Isolation ------------------------------
(***************************************************************************)
(* Finding the rows a transform cannot evaluate (src/src/transform/sql.rs, *)
(* apply_isolating and bisect).  A batch is a sequence of record batches   *)
(* of rows; a run of the SQL over some of its rows either answers with one *)
(* row for each, or fails: over a value, for the size of the batch,        *)
(* whatever the rows are, or for a reason of the machine.  The recursion   *)
(* of walk is a stack of calls, one step of it an action.                  *)
(***************************************************************************)
EXTENDS Integers, Sequences, FiniteSets, SequencesExt

CONSTANTS
  Inputs,       \* the batches: sequences of sequences of rows
  Rejects,      \* the values of max_evaluation_rejects_per_batch
  Sizes,        \* the batch sizes above which a run fails; 0 is no such size
  MaxBad,       \* bound on the rows of a batch that cannot be evaluated
  MachineErrors \* the errors of the machine that may happen in a run

(* A DataFusion error: the variant at its root, and whether spill.rs knows it for a
   want of capacity. *)
Error(variant, capacity) == [variant |-> variant, capacity |-> capacity]
ValueVariants ==
  {"CastError", "ParseError", "ComputeError", "DivideByZero", "ArithmeticOverflow",
   "InvalidArgumentError", "JsonError", "Execution"}

(* Assumed of the constants; the suites that instantiate the module assume it. *)
ConstantsAssumption ==
  /\ Inputs \subseteq Seq(Seq(Nat)) /\ Rejects \subseteq Nat /\ Sizes \subseteq Nat /\ MaxBad \in Nat
  /\ \A e \in MachineErrors : e.capacity \/ e.variant \notin ValueVariants

\* Mutant: the variant is asked alone.
AttributableVariant(e) == e.variant \in ValueVariants

Attributable(e) == ~e.capacity /\ e.variant \in ValueVariants

Rows(input) == FlattenSeq(input)

(* Rows lo .. hi - 1, counted from zero across the batches. *)
SliceRows(input, lo, hi) ==
  FoldLeft(LAMBDA a, b :
             LET end == a.start + Len(b)
                 from == IF lo > a.start THEN lo ELSE a.start
                 to == IF hi < end THEN hi ELSE end
             IN  IF a.start >= hi /\ a.start > 0 THEN a
                 ELSE [start |-> end,
                       out |-> IF from < to
                               THEN a.out \o SubSeq(b, from - a.start + 1, to - a.start)
                               ELSE a.out],
           [start |-> 0, out |-> <<>>], input).out

VARIABLES
  input, bad, size, always, crossRow, max,  \* the batch, the SQL and the setting
  phase,     \* "first", "probe", "walk", "done" or "failed"
  stack,     \* the calls of walk not yet returned, the innermost first
  ret,       \* what the call that returned last answered
  output, failed, runs, error

given == <<input, bad, size, always, crossRow, max>>
found == <<output, failed, runs>>
vars == <<given, phase, stack, ret, found, error>>

N == Len(Rows(input))
Walk(lo, hi, known) == [call |-> "walk", lo |-> lo, hi |-> hi, known |-> known]
Right(lo, hi) == [call |-> "right", lo |-> lo, hi |-> hi, known |-> FALSE]
Return(hi) == [call |-> "return", lo |-> hi, hi |-> hi, known |-> FALSE]
NoError == Error("none", FALSE)

(* External: what a run over these rows can end in. *)
Fails(rows) ==
  \/ always
  \/ \E i \in DOMAIN rows : rows[i] \in bad
  \/ size > 0 /\ Len(rows) > size
Ends(rows) == {IF Fails(rows) THEN Error("CastError", FALSE) ELSE NoError} \cup MachineErrors

Init ==
  /\ input \in Inputs /\ size \in Sizes /\ max \in Rejects
  /\ bad \in {b \in SUBSET ToSet(FlattenSeq(input)) : Cardinality(b) <= MaxBad}
  /\ always \in BOOLEAN /\ crossRow \in BOOLEAN
  /\ phase = "first" /\ stack = <<>> /\ ret = FALSE
  /\ output = <<>> /\ failed = <<>> /\ runs = 0 /\ error = NoError

Finish(p, e) == phase' = p /\ error' = e /\ stack' = <<>>

(* apply_isolating: no batch at all is an empty answer. *)
NothingGiven ==
  /\ phase = "first" /\ input = <<>>
  /\ Finish("done", NoError)
  /\ UNCHANGED <<given, ret, found>>

First ==
  /\ phase = "first" /\ input # <<>>
  /\ \E e \in Ends(Rows(input)) :
       \/ e = NoError /\ output' = Rows(input) /\ Finish("done", NoError)
       \/ e # NoError /\ ~Attributable(e) /\ Finish("failed", e) /\ UNCHANGED output
       \/ /\ Attributable(e) /\ UNCHANGED <<output, stack>>
          /\ IF max = 0 \/ crossRow THEN phase' = "failed" /\ error' = e
             ELSE phase' = "probe" /\ UNCHANGED error
  /\ UNCHANGED <<given, ret, failed, runs>>

(* What fails on no row at all is blamed on none. *)
Probe ==
  /\ phase = "probe"
  /\ \E e \in Ends(<<>>) :
       IF e = NoError
       THEN phase' = "walk" /\ stack' = <<Walk(0, N, TRUE)>> /\ UNCHANGED error
       ELSE Finish("failed", IF Attributable(e) THEN Error("Transform", FALSE) ELSE e)
  /\ UNCHANGED <<given, ret, found>>

Top == Head(stack)
Size == Top.hi - Top.lo
Calling == phase = "walk" /\ stack # <<>> /\ Top.call = "walk"

(* A call runs its rows unless they are known to fail, and a single row always. *)
RunsTop == ~Top.known \/ Size = 1

\* Mutant: the first row is parted from the rest.
MidFirst == Top.lo + 1

Mid == Top.lo + Size \div 2
Halves == <<Walk(Top.lo, Mid, FALSE), Right(Mid, Top.hi)>> \o Tail(stack)

\* Mutant: the answer is put before the others.
RunOkBefore ==
  /\ Calling /\ RunsTop
  /\ NoError \in Ends(SliceRows(input, Top.lo, Top.hi))
  /\ output' = SliceRows(input, Top.lo, Top.hi) \o output /\ runs' = runs + 1
  /\ stack' = Tail(stack) /\ ret' = TRUE
  /\ UNCHANGED <<given, phase, failed, error>>

(* walk, where it runs and the run answers. *)
RunOk ==
  /\ Calling /\ RunsTop
  /\ NoError \in Ends(SliceRows(input, Top.lo, Top.hi))
  /\ output' = output \o SliceRows(input, Top.lo, Top.hi) /\ runs' = runs + 1
  /\ stack' = Tail(stack) /\ ret' = TRUE
  /\ UNCHANGED <<given, phase, failed, error>>

\* Mutant: the cap is looked at before the row is counted.
RunRowFailsLate ==
  /\ Calling /\ RunsTop /\ Size = 1
  /\ \E e \in Ends(SliceRows(input, Top.lo, Top.hi)) :
       /\ Attributable(e)
       /\ IF Len(failed) > max
          THEN Finish("failed", Error("Evaluation", FALSE)) /\ UNCHANGED ret
          ELSE stack' = Tail(stack) /\ ret' = FALSE /\ UNCHANGED <<phase, error>>
  /\ failed' = Append(failed, Top.lo) /\ runs' = runs + 1
  /\ UNCHANGED <<given, output>>

\* Mutant: the last row the cap allows is one too many.
RunRowFailsEarly ==
  /\ Calling /\ RunsTop /\ Size = 1
  /\ \E e \in Ends(SliceRows(input, Top.lo, Top.hi)) :
       /\ Attributable(e)
       /\ IF Len(failed) + 1 >= max
          THEN Finish("failed", Error("Evaluation", FALSE)) /\ UNCHANGED ret
          ELSE stack' = Tail(stack) /\ ret' = FALSE /\ UNCHANGED <<phase, error>>
  /\ failed' = Append(failed, Top.lo) /\ runs' = runs + 1
  /\ UNCHANGED <<given, output>>

(* walk, where one row fails alone. *)
RunRowFails ==
  /\ Calling /\ RunsTop /\ Size = 1
  /\ \E e \in Ends(SliceRows(input, Top.lo, Top.hi)) :
       /\ Attributable(e)
       /\ IF Len(failed) + 1 > max
          THEN Finish("failed", Error("Evaluation", FALSE)) /\ UNCHANGED ret
          ELSE stack' = Tail(stack) /\ ret' = FALSE /\ UNCHANGED <<phase, error>>
  /\ failed' = Append(failed, Top.lo) /\ runs' = runs + 1
  /\ UNCHANGED <<given, output>>

(* walk, where more rows fail and are halved. *)
RunFails ==
  /\ Calling /\ RunsTop /\ Size # 1
  /\ \E e \in Ends(SliceRows(input, Top.lo, Top.hi)) : Attributable(e)
  /\ stack' = Halves /\ runs' = runs + 1
  /\ UNCHANGED <<given, phase, ret, output, failed, error>>

(* walk, where the failure is not one of a value. *)
RunStops ==
  /\ Calling /\ RunsTop
  /\ \E e \in Ends(SliceRows(input, Top.lo, Top.hi)) :
       e # NoError /\ ~Attributable(e) /\ Finish("failed", e)
  /\ runs' = runs + 1
  /\ UNCHANGED <<given, ret, output, failed>>

(* walk, where the rows are known to fail. *)
Split ==
  /\ Calling /\ ~RunsTop
  /\ stack' = Halves
  /\ UNCHANGED <<given, phase, ret, found, error>>

(* The right half must fail where the left one did not. *)
WalkRight ==
  /\ phase = "walk" /\ stack # <<>> /\ Top.call = "right"
  /\ stack' = <<Walk(Top.lo, Top.hi, ret), Return(Top.hi)>> \o Tail(stack)
  /\ UNCHANGED <<given, phase, ret, found, error>>

Returns ==
  /\ phase = "walk" /\ stack # <<>> /\ Top.call = "return"
  /\ stack' = Tail(stack) /\ ret' = FALSE
  /\ UNCHANGED <<given, phase, found, error>>

\* Mutant: a search that found no row has no answer.
FoundNone ==
  /\ phase = "walk" /\ stack = <<>> /\ failed # <<>>
  /\ Finish("done", NoError)
  /\ UNCHANGED <<given, ret, found>>

(* apply_isolating, after bisect. *)
Found ==
  /\ phase = "walk" /\ stack = <<>>
  /\ Finish("done", NoError)
  /\ UNCHANGED <<given, ret, found>>

Next ==
  \/ NothingGiven \/ First \/ Probe
  \/ RunOk \/ RunRowFails \/ RunFails \/ RunStops \/ Split
  \/ WalkRight \/ Returns \/ Found

Spec == Init /\ [][Next]_vars
(* The future runs until it answers. *)
FairSpec == Spec /\ WF_vars(Next)

SetAside == FlattenSeq([i \in DOMAIN failed |-> SliceRows(input, failed[i], failed[i] + 1)])

----------------------------------------------------------------------------
(* Properties *)

(* Type invariant. *)
TypeOK ==
  /\ phase \in {"first", "probe", "walk", "done", "failed"}
  /\ ret \in BOOLEAN /\ runs \in Nat
  /\ \A i \in DOMAIN stack : 0 <= stack[i].lo /\ stack[i].lo <= stack[i].hi /\ stack[i].hi <= N
  /\ ToSet(output) \subseteq ToSet(Rows(input)) /\ ToSet(failed) \subseteq 0 .. N - 1

(* What is answered is every row that evaluates, once and in the order of the batch:
   the cursor moves past the batch, so a row missing here is lost. (sql.rs:421) *)
RestInOrder ==
  phase = "done" => output = SelectSeq(Rows(input), LAMBDA r : r \notin bad)

(* A row is set aside only if it cannot be evaluated, and each such row is: a failure
   of the batch, of the query or of the machine is blamed on none. (sql.rs:426) *)
OnlyTheBad ==
  /\ ToSet(SetAside) \subseteq bad
  /\ phase = "done" => SetAside = SelectSeq(Rows(input), LAMBDA r : r \in bad)

(* Nothing is committed past max_evaluation_rejects_per_batch, nor of a transform
   that is not row-local. (sql.rs:428, 559) *)
CapHolds == phase = "done" => Len(failed) <= max /\ (crossRow => failed = <<>>)

(* The batch is given up for too many rows only where there are too many. *)
CapFair == phase = "failed" /\ error.variant = "Evaluation" => Cardinality(bad) > max

CeilLog2(n) == CHOOSE e \in 0 .. n : 2 ^ e >= n /\ (e = 0 \/ 2 ^ (e - 1) < n)

(* For k bad rows the search is at most 2 k (ceil(log2 n) + 1) runs. (sql.rs:427) *)
RunsBounded ==
  phase = "done" /\ size = 0 /\ bad # {} => runs <= 2 * Cardinality(bad) * (CeilLog2(N) + 1)

(* From some point on: the search has ended, whichever rows, runs and queries failed. *)
Ended == phase \in {"done", "failed"}

=============================================================================
