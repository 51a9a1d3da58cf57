------------------------------- MODULE Conform -------------------------------
(***************************************************************************)
(* Fitting decoded Kafka rows to what reads them (src/src/kafka/conform.rs)*)
(* and the coercer behind it (src/src/schema.rs).                          *)
(*                                                                         *)
(* A batch holds rows of one writer schema.  With SQL it is aligned to the *)
(* union U of the writer schemas, where a value that would not be the same *)
(* is rejected; then it is conformed to the target by name at every depth, *)
(* where kafka-delta-ingest's conversions apply; what is plain at the top  *)
(* is left to the coercer.  A row that does not fit goes to the            *)
(* data-quality table, or fails the batch when there is none.              *)
(*                                                                         *)
(* Each writer schema, and the target, has one column, c.  kdi_compat and  *)
(* kdi_null_text are off.                                                  *)
(***************************************************************************)
EXTENDS ArrowTypes, FiniteSetsExt

CONSTANTS
  WriterTypes,   \* the types writer schemas give the column
  TargetTypes,   \* the types of the target's column
  Numbers,       \* the numbers rows hold, in quarters
  Names,         \* the full names of the record types of writer schemas
  Batch          \* how many rows a batch holds

VARIABLES
  members,   \* the writer schemas of U, newest first: [t, name]
  target,    \* the target's column: [t, nn]
  sql,       \* whether a transform runs, over U
  quarantine,\* whether there is a data-quality table
  rows,      \* the decoded rows, of the oldest member
  at,        \* "decoded", "aligned", "conformed", "written", "failed"
  union,     \* the type of c in U
  good,      \* the rows on their way: the value of c, per row; Bad once rejected
  rejected   \* the rows set aside

vars == <<members, target, sql, quarantine, rows, at, union, good, rejected>>
given == <<members, target, sql, quarantine, rows>>

Writer == members[Len(members)]
RecordName(t) == IF t.k = "struct" THEN Names ELSE {"none"}

Init ==
  /\ \E newer, older \in WriterTypes : \E a \in RecordName(newer), b \in RecordName(older) :
       members = <<[t |-> newer, name |-> a], [t |-> older, name |-> b]>>
  /\ target \in [t : TargetTypes, nn : BOOLEAN]
  /\ sql \in BOOLEAN /\ quarantine \in BOOLEAN
  /\ rows \in [1 .. Batch -> Values(Writer.t, Numbers)]
  /\ at = "decoded" /\ union = NullT /\ good = rows /\ rejected = {}

----------------------------------------------------------------------------
(* The union U *)

RECURSIVE Relax(_)
Relax(t) ==
  CASE t.k = "struct" -> StructT([i \in DOMAIN t.f |-> Field(t.f[i].n, Relax(t.f[i].t))])
    [] t.k = "list" -> ListT(Relax(t.t), FALSE)
    [] t.k = "map" -> MapT(Relax(t.t), FALSE)
    [] t.k = "union" -> UnionT([i \in DOMAIN t.b |-> Branch(t.b[i].n, Relax(t.b[i].t))])
    [] OTHER -> t

(* merge: records child by child, lists and maps through their values, and any
   other difference keeps the newer type. *)
RECURSIVE Merge(_, _)
Merge(newer, older) ==
  CASE newer = Relax(older) -> newer
    [] newer.k = "struct" /\ older.k = "struct" ->
         StructT([i \in DOMAIN newer.f |->
                    IF newer.f[i].n \in FieldNames(older)
                    THEN Field(newer.f[i].n, Merge(newer.f[i].t, FieldOf(older, newer.f[i].n).t))
                    ELSE newer.f[i]]
                 \o [i \in DOMAIN SelectSeq(older.f, LAMBDA g : g.n \notin FieldNames(newer)) |->
                       LET g == SelectSeq(older.f, LAMBDA h : h.n \notin FieldNames(newer))[i]
                       IN  Field(g.n, Relax(g.t))])
    [] newer.k = "list" /\ older.k = "list" -> ListT(Merge(newer.t, older.t), FALSE)
    [] newer.k = "map" /\ older.k = "map" -> MapT(Merge(newer.t, older.t), FALSE)
    [] OTHER -> newer

UnionOf(ms) == Merge(Relax(ms[1].t), ms[2].t)

----------------------------------------------------------------------------
(* Fitting one value.  all is the set of the values its array holds: which
   branch of a union an array goes into depends on all of them. *)

(* Whether a float's fraction, or the digits past a decimal's scale, are dropped
   by design: into the target they are. *)
Fraction(x, from, to) == from.k = "decimal" /\ to.k \in {"int", "long"} /\ x.n % 4 # 0

\* Mutant: a converted value is not cast back.
FitPlainUnchecked(x, from, to, into) ==
  LET c == IF CanCast(from, to) THEN Cast(x, from, to) ELSE Null
  IN  CASE x = Null -> Null
        [] c = Null -> Bad
        [] into = "target" /\ Fraction(x, from, to) -> Bad
        [] OTHER -> c

(* Fitter::cast and unchanged *)
FitPlain(x, from, to, into) ==
  LET c == IF CanCast(from, to) THEN Cast(x, from, to) ELSE Null
  IN  CASE x = Null -> Null
        [] c = Null -> Bad
        [] into = "union" /\ Cast(c, to, from) # x -> Bad
        [] into = "target" /\ Fraction(x, from, to) -> Bad
        [] OTHER -> c

\* Mutant: Arrow's rounding cast is used.
ToDecimalRounds(x, from, to, into) == FitPlain(x, from, to, into)

(* float_to_decimal, text_to_decimal: the digits past the scale are dropped, and
   into U a value that lost any is rejected. *)
ToDecimal(x, from, to, into) ==
  CASE x = Null -> Null
    [] x.n = Junk \/ Half(x.n) > Limit(to) -> Bad
    [] into = "union" /\ Half(x.n) # x.n -> Bad
    [] OTHER -> Num(Half(x.n))

Promotes(from, to) ==
  \/ from.k = "int" /\ to.k \in {"long", "double"}
  \/ from.k = "long" /\ to.k = "double"

(* best_record: the branch holding all of the record's fields and fewest others,
   else most of its fields; the first of equals. *)
BestRecord(from, u) ==
  LET recs == {i \in DOMAIN u.b : u.b[i].t.k = "struct"}
      held(i) == Cardinality(FieldNames(from) \cap FieldNames(u.b[i].t))
      all(i) == IF held(i) = Len(from.f) THEN 1 ELSE 0
      rank(i) == 1000 * all(i) + 100 * held(i) - Len(u.b[i].t.f)
      may == {i \in recs : held(i) > 0}
  IN  {i \in may : \A j \in may : rank(j) < rank(i) \/ (rank(j) = rank(i) /\ i <= j)}

First(S) == IF S = {} THEN 0 ELSE Min(S)

(* The first branch every value converts to, else the first any value does. *)
Converting(all, from, u, into) ==
  LET plain == {i \in DOMAIN u.b : CanCast(from, u.b[i].t)}
      clean(i) == \A y \in all : FitPlain(y, from, u.b[i].t, into) # Bad
      whole == {i \in plain : clean(i)}
  IN  IF whole # {} THEN Min(whole) ELSE First(plain)

(* branch_for, where Avro resolves the branch: by name, by type, by kind, by
   promotion; 0 where it does not. *)
BranchFor(from, u, name) ==
  LET named == {i \in DOMAIN u.b : u.b[i].n = name}
      same == {i \in DOMAIN u.b : u.b[i].t \in {from, Relax(from)}}
      kind == CASE from.k = "struct" -> BestRecord(from, u)
                [] from.k \in {"list", "map"} -> {i \in DOMAIN u.b : u.b[i].t.k = from.k}
                [] OTHER -> {}
      promoted == {i \in DOMAIN u.b : Promotes(from, u.b[i].t)}
  IN  CASE named # {} -> Min(named)
        [] same # {} -> Min(same)
        [] kind # {} -> Min(kind)
        [] OTHER -> First(promoted)

RECURSIVE Fit(_, _, _, _, _, _, _)

(* wrap_in_union, union_to_union: a value under the branch its array goes into,
   or rejected when no branch takes it; a null goes into the null branch. *)
IntoBranch(x, all, from, u, name, into) ==
  LET i == BranchFor(from, u, name)
      c == Converting(all, from, u, into)
      nulls == {j \in DOMAIN u.b : u.b[j].t = NullT}
      under(j, y) == IF HasBad(y) THEN Bad ELSE InBranch(u.b[j].n, y)
  IN  CASE x = Null -> InBranch(u.b[IF nulls = {} THEN 1 ELSE Min(nulls)].n, Null)
        [] x # Null /\ i # 0 -> under(i, Fit(x, all, from, u.b[i].t, "none", into, FALSE))
        [] x # Null /\ i = 0 /\ c # 0 -> under(c, FitPlain(x, from, u.b[c].t, into))
        [] OTHER -> Bad

(* structs: each child of the target found by its exact name; a child only the
   source has is dropped, but into U rejects its row. *)
FitStruct(x, all, from, to, into) ==
  LET kids(n) == {y.f[n] : y \in {z \in all : z # Null}}
      child(n) ==
        IF n \in FieldNames(from)
        THEN Fit(x.f[n], kids(n), FieldOf(from, n).t, FieldOf(to, n).t, "none", into, FALSE)
        ELSE Null
      lost == into = "union"
              /\ \E n \in FieldNames(from) \ FieldNames(to) : x.f[n] # Null
      bare == \E n \in FieldNames(to) : FieldOf(to, n).nn /\ child(n) = Null
  IN  IF lost \/ bare \/ \E n \in FieldNames(to) : HasBad(child(n)) THEN Bad
      ELSE Struct([n \in FieldNames(to) |-> child(n)])

(* list, map and elements: in place. *)
FitElements(x, all, from, to, into) ==
  LET kids == UNION {{y.e[i] : i \in DOMAIN y.e} : y \in {z \in all : z # Null}}
      e == [i \in DOMAIN x.e |-> Fit(x.e[i], kids, from.t, to.t, "none", into, FALSE)]
  IN  IF \E i \in DOMAIN e : HasBad(e[i]) \/ (to.nn /\ e[i] = Null) THEN Bad
      ELSE [x EXCEPT !.e = e]

(* The values of the rows that hold the branch x does. *)
Siblings(x, all) == {y.x : y \in {z \in all : z.b = x.b}}

(* Fitter::fit.  top is a top-level column of the target, whose plain values are
   left to the coercer. *)
Fit(x, all, from, to, name, into, top) ==
  CASE from = to -> x
    [] from.k = "union" /\ to.k = "union" ->
         IntoBranch(x.x, Siblings(x, all), BranchOf(from, x.b).t, to, x.b, into)
    [] from.k = "union" ->
         Fit(x.x, Siblings(x, all), BranchOf(from, x.b).t, to, "none", into, FALSE)
    [] to.k = "union" -> IntoBranch(x, all, from, to, name, into)
    [] x = Null -> Null
    [] from.k = "struct" /\ to.k = "struct" -> FitStruct(x, all, from, to, into)
    [] from.k = to.k /\ to.k \in {"list", "map"} -> FitElements(x, all, from, to, into)
    [] from.k \in {"double", "string"} /\ to.k = "decimal" -> ToDecimal(x, from, to, into)
    [] Nested(to) -> Bad
    [] top -> x
    [] OTHER -> FitPlain(x, from, to, into)

----------------------------------------------------------------------------
(* The step *)

\* Mutant: the rows set aside earlier are forgotten.
SettleForgets(fitted, next) ==
  /\ good' = fitted
  /\ rejected' = {i \in DOMAIN rows : good[i] # Bad /\ fitted[i] = Bad}
  /\ at' = next
  /\ UNCHANGED <<given, union>>

(* split: the rows that fit go on, the others are set aside. *)
Settle(fitted, next) ==
  /\ good' = fitted
  /\ rejected' = rejected \cup {i \in DOMAIN rows : good[i] # Bad /\ fitted[i] = Bad}
  /\ at' = next
  /\ UNCHANGED <<given, union>>

Live == {i \in DOMAIN rows : good[i] # Bad}
(* A value with a rejected part is rejected. *)
WholeOr(y) == IF HasBad(y) THEN Bad ELSE y

(* align_all.  Its rejects are written with the others, when there is a table. *)
Align ==
  /\ at = "decoded" /\ sql
  /\ union' = UnionOf(members)
  /\ LET all == {rows[i] : i \in Live}
         fitted == [i \in DOMAIN rows |->
                      WholeOr(Fit(rows[i], all, Writer.t, union', Writer.name, "union", FALSE))]
     IN  /\ good' = fitted
         /\ rejected' = {i \in DOMAIN rows : fitted[i] = Bad}
         /\ at' = IF rejected' # {} /\ ~quarantine THEN "failed" ELSE "aligned"
  /\ UNCHANGED given

NoSql ==
  /\ at = "decoded" /\ ~sql
  /\ union' = Writer.t
  /\ at' = "aligned"
  /\ UNCHANGED <<given, good, rejected>>

(* conform_all: without a data-quality table the first row that does not fit
   fails the batch. *)
ConformAll ==
  /\ at = "aligned"
  /\ LET all == {good[i] : i \in Live}
         fitted == [i \in DOMAIN rows |->
                      IF i \in Live
                      THEN WholeOr(Fit(good[i], all, union, target.t, "none", "target", TRUE))
                      ELSE Bad]
         bad == \E i \in Live : fitted[i] = Bad
     IN  IF bad /\ ~quarantine
         THEN at' = "failed" /\ UNCHANGED <<given, union, good, rejected>>
         ELSE Settle(fitted, "conformed")

(* What the coercer finds: the target's own type when the conformer fitted the
   column, the type the rows came with when it left it alone. *)
LeftPlain == ~Nested(union) /\ ~Nested(target.t)
             /\ ~(union.k \in {"double", "string"} /\ target.t.k = "decimal")

\* Mutant: a decimal's fraction is truncated too.
CoercedTruncates(x) == IF x = Null THEN IF target.nn THEN Bad ELSE Null
                       ELSE LET c == IF LeftPlain THEN Cast(x, union, target.t) ELSE x
                            IN  IF c = Null THEN Bad ELSE c

\* Mutant: a null of the source passes, as a nullable column's does.
CoercedKeepsNull(x) ==
  IF x = Null THEN Null
  ELSE LET c == IF LeftPlain THEN Cast(x, union, target.t) ELSE x
       IN  IF c = Null \/ (LeftPlain /\ Fraction(x, union, target.t)) THEN Bad ELSE c

(* coerce_quarantining under Fractions::FloatsTruncated, for one value *)
Coerced(x) ==
  IF x = Null THEN IF target.nn THEN Bad ELSE Null
  ELSE LET c == IF LeftPlain THEN Cast(x, union, target.t) ELSE x
       IN  IF c = Null \/ (LeftPlain /\ Fraction(x, union, target.t)) THEN Bad ELSE c

Coerce ==
  /\ at = "conformed"
  /\ LET fitted == [i \in DOMAIN rows |-> IF i \in Live THEN Coerced(good[i]) ELSE Bad]
         bad == \E i \in Live : fitted[i] = Bad
     IN  IF bad /\ ~quarantine
         THEN at' = "failed" /\ UNCHANGED <<given, union, good, rejected>>
         ELSE Settle(fitted, "written")

Next == Align \/ NoSql \/ ConformAll \/ Coerce

Spec == Init /\ [][Next]_vars

----------------------------------------------------------------------------
(* Properties *)

(* Type invariant. *)
TypeOK ==
  /\ at \in {"decoded", "aligned", "conformed", "written", "failed"}
  /\ rejected \subseteq DOMAIN rows
  /\ (at \in {"written", "conformed"} /\ ~quarantine) => rejected = {}

(* A row aligned to U says exactly what it said: at every path the same value,
   nothing lost, nothing moved to another field, nothing invented, whatever
   the newer writer schema made of the types. (conform.rs:363) *)
AlignedUnchanged ==
  (at = "aligned" /\ sql) =>
    \A i \in Live : Leaves(good[i], <<>>) = Leaves(rows[i], <<>>)

(* What the target's type keeps of a number, by the conversions a Kafka pipeline
   promises: a float's fraction truncated into an integer, digits past a
   decimal's scale dropped, a long past a double's precision rounded. *)
Kept(n) == {n, Whole(n), Half(n), Rounded(n)}

(* A written row's values stand at the paths their row had them at, none taken
   from a neighbouring field or wrapped into a list it was not in.
   (conform.rs:24) *)
WrittenByName ==
  at = "written" =>
    \A i \in Live : \A leaf \in Leaves(good[i], <<>>) :
      \E was \in Leaves(rows[i], <<>>) : was[1] = leaf[1] /\ leaf[2] \in Kept(was[2])

(* A decimal that reaches the target as one writes its value into an integer or
   a text, or its row is rejected: its fraction is never truncated, as a
   float's is. (schema.rs:57) *)
DecimalsExact ==
  (at = "written" /\ union.k = "decimal" /\ target.t.k \in {"int", "long", "string"}) =>
    \A i \in Live : Leaves(good[i], <<>>) = Leaves(rows[i], <<>>)

RECURSIVE NullsAllowed(_, _)
NullsAllowed(x, t) ==
  CASE x = Null -> TRUE
    [] t.k = "struct" -> \A j \in DOMAIN t.f :
         /\ t.f[j].nn => x.f[t.f[j].n] # Null
         /\ NullsAllowed(x.f[t.f[j].n], t.f[j].t)
    [] t.k \in {"list", "map"} -> \A j \in DOMAIN x.e : (t.nn => x.e[j] # Null) /\ NullsAllowed(x.e[j], t.t)
    [] OTHER -> TRUE

(* No null reaches a NOT NULL column or a NOT NULL field inside one, at any
   depth. (conform.rs:52) *)
NotNullHolds ==
  at = "written" => \A i \in Live : (target.nn => good[i] # Null) /\ NullsAllowed(good[i], target.t)

(* Every row is written or set aside, never both and never neither. *)
Accounted ==
  at = "written" => \A i \in DOMAIN rows : (i \in rejected) = (good[i] = Bad)

=============================================================================
