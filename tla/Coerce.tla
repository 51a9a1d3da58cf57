------------------------------- MODULE Coerce -------------------------------
(***************************************************************************)
(* Reading another engine's file as the table declares it, and casting the *)
(* result to the target's schema (src/src/schema.rs).                      *)
(*                                                                         *)
(* A batch has one column.  It is read: a timestamp coarser than the       *)
(* declared one is widened, nothing else is touched.  Then it is cast by   *)
(* Arrow, which truncates a fraction going into an integer and says        *)
(* nothing: the fractions are looked for separately, with the pairing of   *)
(* children Arrow uses.  With a data-quality table the rows that do not    *)
(* convert are set aside; without one they fail the batch.                 *)
(***************************************************************************)
EXTENDS ArrowTypes, FiniteSetsExt

CONSTANTS
  Columns,   \* [file, declared, target]: the types of a column
  Numbers,   \* the numbers rows hold, in quarters
  Offset,    \* how far the zone that is not UTC is from it
  Batch      \* how many rows a batch holds

(* Assumed of the constants; the suites that instantiate the module assume it. *)
ConstantsAssumption == Numbers \subseteq Nat /\ Offset \in Nat \ {0} /\ Batch \in Nat

VARIABLES
  column,      \* the member of Columns
  field,       \* the target's field: [nn (NOT NULL), present (the batch has it)]
  fractions,   \* "refused", or "floats" truncated for a Kafka pipeline
  quarantine,  \* whether there is a data-quality table
  rows,        \* the file's values
  at,          \* "file", "read", "written", "failed"
  type,        \* the type the column was read as
  read,        \* the values as read
  good         \* per row, what is written; Bad when set aside

vars == <<column, field, fractions, quarantine, rows, at, type, read, good>>
given == <<column, field, fractions, quarantine, rows>>

Finest == 3
Time(t) == t.k = "time"

RECURSIVE ColumnValues(_)
ColumnValues(t) ==
  CASE t.k = "enc" -> ColumnValues(t.t)
    [] Time(t) -> {Null} \cup {Num(n) : n \in {m \in Numbers : m % 4 = 0}}
    [] t.k = "list" -> {Null, List(<<>>)} \cup {List(<<x>>) : x \in ColumnValues(t.t)}
    [] t.k = "struct" /\ \E i \in DOMAIN t.f : Time(t.f[i].t) ->
         {Struct(f) : f \in [FieldNames(t) -> ColumnValues(t.f[1].t)]}
    [] OTHER -> Values(t, Numbers)

Init ==
  /\ column \in Columns
  /\ field \in [nn : BOOLEAN, present : BOOLEAN]
  /\ fractions \in {"refused", "floats"} /\ quarantine \in BOOLEAN
  /\ rows \in [1 .. Batch -> ColumnValues(column.file)]
  /\ at = "file" /\ type = column.file /\ read = rows /\ good = rows

----------------------------------------------------------------------------
(* Arrow's cast (external).  keep: the fractions it would leave in an integer,
   were they kept: "none" (what it does), "decimals" or "all". *)

IntLike(t) == t.k \in {"int", "long", "time"}
Family(t) == IF t.k \in {"int", "long"} THEN "integer" ELSE t.k
PlainCasts(from, to) ==
  ~Nested(from) /\ ~Nested(to) /\ to.k # "null" /\ ~(Time(from) /\ to.k \in {"double", "decimal"})

PlainCast(x, from, to, keep) ==
  LET whole == IF to.k = "time" THEN Num(Whole(x.n)) ELSE Held(Whole(x.n), to)
      kept == /\ x.n # Junk /\ whole # Null
              /\ \/ from.k = "decimal" /\ keep # "none"
                 \/ from.k = "double" /\ keep = "all"
  IN  CASE x = Null -> Null
        [] Time(from) /\ Time(to) ->
             LET n == IF to.u >= from.u THEN x.n * 10 ^ (to.u - from.u)
                      ELSE x.n \div 10 ^ (from.u - to.u)
             IN  Num(IF from.z = "none" /\ to.z = "other" THEN n - Offset ELSE n)
        [] IntLike(to) /\ kept -> Num(x.n)
        [] Time(to) -> IF from.k = "string" /\ x.n % 4 # 0 THEN Null ELSE whole
        [] Time(from) -> IF to.k = "string" THEN Text(x.n) ELSE Held(x.n, to)
        [] OTHER -> Cast(x, from, to)

(* struct_pairs: the target's children, each with the place of the source's it
   is read from. *)
\* Mutant: by name only.
StructPairsByName(from, to) ==
  {<<i, j>> \in (DOMAIN to.f) \X (DOMAIN from.f) : to.f[i].n = from.f[j].n}

StructPairs(from, to) ==
  IF FieldNames(to) \subseteq FieldNames(from)
  THEN {<<i, j>> \in (DOMAIN to.f) \X (DOMAIN from.f) : to.f[i].n = from.f[j].n}
  ELSE {<<i, i>> : i \in (DOMAIN to.f) \cap (DOMAIN from.f)}

(* union_child: the one child the cast extracts, or 0. *)
UnionChild(u, to) ==
  LET same == {i \in DOMAIN u.b : u.b[i].t = to}
      family == {i \in DOMAIN u.b : Family(u.b[i].t) = Family(to) /\ Family(to) # "decimal"}
      casts == {i \in DOMAIN u.b : ~Nested(to) /\ PlainCasts(u.b[i].t, to)}
  IN  CASE same # {} -> Min(same)
        [] same = {} /\ family # {} -> Min(family)
        [] OTHER -> IF casts = {} THEN 0 ELSE Min(casts)

(* The pairing Arrow itself uses, whatever the code takes it for. *)
ArrowPairs(from, to) ==
  IF FieldNames(to) \subseteq FieldNames(from)
  THEN {<<i, j>> \in (DOMAIN to.f) \X (DOMAIN from.f) : to.f[i].n = from.f[j].n}
  ELSE {<<i, i>> : i \in DOMAIN to.f}

ArrowChild(u, to) ==
  LET rank(i) == CASE u.b[i].t = to -> 0
                   [] Family(u.b[i].t) = Family(to) /\ Family(to) # "decimal" -> 1
                   [] ~Nested(to) /\ PlainCasts(u.b[i].t, to) -> 2
                   [] OTHER -> 3
      best == {i \in DOMAIN u.b : rank(i) < 3 /\ \A j \in DOMAIN u.b :
                 rank(i) < rank(j) \/ (rank(i) = rank(j) /\ i <= j)}
  IN  IF best = {} THEN 0 ELSE CHOOSE i \in best : TRUE

RECURSIVE CastsTo(_, _)
CastsTo(from, to) ==
  CASE from = to -> TRUE
    [] from.k = "enc" -> CastsTo(from.t, IF to.k = "enc" THEN to.t ELSE to)
    [] to.k = "enc" -> CastsTo(from, to.t)
    [] from.k = "union" -> ArrowChild(from, to) # 0
    [] from.k = "list" /\ to.k = "list" -> CastsTo(from.t, to.t)
    [] to.k = "list" -> CastsTo(from, to.t)
    [] from.k = "struct" /\ to.k = "struct" ->
         /\ FieldNames(to) \subseteq FieldNames(from) \/ Len(from.f) = Len(to.f)
         /\ \A p \in ArrowPairs(from, to) : CastsTo(from.f[p[2]].t, to.f[p[1]].t)
    [] OTHER -> PlainCasts(from, to)

(* Bad stands where a value does not convert. *)
RECURSIVE ArrowCast(_, _, _, _)
ArrowCast(x, from, to, keep) ==
  CASE from = to -> x
    [] from.k = "enc" -> ArrowCast(x, from.t, IF to.k = "enc" THEN to.t ELSE to, keep)
    [] to.k = "enc" -> ArrowCast(x, from, to.t, keep)
    [] from.k = "union" ->
         LET c == ArrowChild(from, to)
         IN  IF x.b = from.b[c].n THEN ArrowCast(x.x, from.b[c].t, to, keep) ELSE Null
    [] from.k = "list" /\ to.k = "list" ->
         IF x = Null THEN Null
         ELSE List([i \in DOMAIN x.e |-> ArrowCast(x.e[i], from.t, to.t, keep)])
    [] to.k = "list" -> List(<<ArrowCast(x, from, to.t, keep)>>)
    [] x = Null -> Null
    [] from.k = "struct" /\ to.k = "struct" ->
         LET of(n) == CHOOSE p \in ArrowPairs(from, to) : to.f[p[1]].n = n
         IN  Struct([n \in FieldNames(to) |->
               ArrowCast(x.f[from.f[of(n)[2]].n], from.f[of(n)[2]].t, FieldOf(to, n).t, keep)])
    [] OTHER -> LET c == PlainCast(x, from, to, keep) IN IF c = Null THEN Bad ELSE c

----------------------------------------------------------------------------
(* read_as_declared *)

Utc(z) == z = "utc"

\* Mutant: a naive timestamp takes whatever zone is declared.
WidenedTimeAnyZone(want, have) ==
  CASE want = have \/ have.u > want.u -> have
    [] want.z = "none" /\ have.z # "none" /\ ~Utc(have.z) -> NullT
    [] OTHER -> want

(* widened, for two timestamps: the type to read as; NullT to refuse. *)
WidenedTime(want, have) ==
  CASE want = have \/ have.u > want.u -> have
    [] want.z # "none" /\ have.z = "none" /\ ~Utc(want.z) -> NullT
    [] want.z = "none" /\ have.z # "none" /\ ~Utc(have.z) -> NullT
    [] OTHER -> want

RECURSIVE Widened(_, _)
Widened(want, have) ==
  CASE Time(want) /\ Time(have) -> WidenedTime(want, have)
    [] want.k = "struct" /\ have.k = "struct" ->
         LET of(f) == IF f.n \in FieldNames(want) THEN Widened(FieldOf(want, f.n).t, f.t) ELSE f.t
         IN  IF \E i \in DOMAIN have.f : of(have.f[i]) = NullT THEN NullT
             ELSE StructT([i \in DOMAIN have.f |-> [have.f[i] EXCEPT !.t = of(have.f[i])]])
    [] want.k = "list" /\ have.k = "list" ->
         LET item == Widened(want.t, have.t) IN IF item = NullT THEN NullT ELSE ListT(item, have.nn)
    [] OTHER -> have

ReadAsDeclared ==
  /\ at = "file"
  /\ LET as == Widened(column.declared, column.file)
     IN  IF as = NullT THEN at' = "failed" /\ UNCHANGED <<type, read>>
         ELSE /\ type' = as
              /\ read' = [i \in DOMAIN rows |-> ArrowCast(rows[i], column.file, as, "none")]
              /\ at' = "read"
  /\ UNCHANGED <<given, good>>

----------------------------------------------------------------------------
(* The coercer *)

(* drops_fraction, on types alone. *)
RECURSIVE DropsFraction(_, _, _)
DropsFraction(from, to, sources) ==
  CASE from = to -> FALSE
    [] from.k = "enc" -> DropsFraction(from.t, IF to.k = "enc" THEN to.t ELSE to, sources)
    [] to.k = "enc" -> DropsFraction(from, to.t, sources)
    [] from.k = "union" ->
         LET c == UnionChild(from, to) IN c # 0 /\ DropsFraction(from.b[c].t, to, sources)
    [] from.k = "list" /\ to.k = "list" -> DropsFraction(from.t, to.t, sources)
    [] to.k = "list" -> DropsFraction(from, to.t, sources)
    [] from.k = "struct" /\ to.k = "struct" ->
         \E p \in StructPairs(from, to) : DropsFraction(from.f[p[2]].t, to.f[p[1]].t, sources)
    [] OTHER -> IntLike(to) /\ (from.k = "decimal" \/ (from.k = "double" /\ sources = "all"))

(* dropped_fractions, for one value. *)
RECURSIVE Dropped(_, _, _, _)
Dropped(x, from, to, sources) ==
  DropsFraction(from, to, sources) /\
  CASE from.k = "enc" -> Dropped(x, from.t, IF to.k = "enc" THEN to.t ELSE to, sources)
    [] to.k = "enc" -> Dropped(x, from, to.t, sources)
    [] x = Null -> FALSE
    [] from.k = "union" ->
         LET c == UnionChild(from, to)
         IN  x.b = from.b[c].n /\ Dropped(x.x, from.b[c].t, to, sources)
    [] from.k = "list" /\ to.k = "list" ->
         \E i \in DOMAIN x.e : Dropped(x.e[i], from.t, to.t, sources)
    [] to.k = "list" -> Dropped(x, from, to.t, sources)
    [] from.k = "struct" /\ to.k = "struct" ->
         \E p \in StructPairs(from, to) :
           Dropped(x.f[from.f[p[2]].n], from.f[p[2]].t, to.f[p[1]].t, sources)
    [] OTHER -> x.n # Junk /\ x.n % 4 # 0

RefusedFraction(x) ==
  Dropped(x, type, column.target, IF fractions = "refused" THEN "all" ELSE "decimals")

Structural == \/ ~field.present /\ field.nn
              \/ field.present /\ ~CastsTo(type, column.target)
Result(x) == ArrowCast(x, type, column.target, "none")
AnyNested == Nested(type) \/ Nested(column.target) \/ (type.k = "enc" /\ Nested(type.t))

(* The column's value: NULL where the batch lacks it, and where the lenient cast
   did not convert. *)
Resolved(x) == IF ~field.present \/ Result(x) = Bad THEN Null ELSE Result(x)

(* One row under the lenient cast of a plain column: a value that became NULL, a
   fraction or a null under NOT NULL sets it aside. *)
\* Mutant: a value that was null already is set aside.
SetAsideNulls(x) == Resolved(x) = Null \/ RefusedFraction(x)

SetAside(x) ==
  IF Resolved(x) # Null THEN RefusedFraction(x) ELSE x # Null \/ field.nn

(* coerce: the first value that does not go fails the batch. *)
Coerce ==
  /\ at = "read" /\ ~quarantine
  /\ IF Structural \/ \E i \in DOMAIN rows :
          /\ field.present
          /\ \/ HasBad(Result(read[i]))
             \/ RefusedFraction(read[i])
             \/ Result(read[i]) = Null /\ field.nn
     THEN at' = "failed" /\ UNCHANGED good
     ELSE at' = "written" /\ good' = [i \in DOMAIN rows |-> Resolved(read[i])]
  /\ UNCHANGED <<given, type, read>>

\* Mutant: nested columns take the lenient cast too.
CoerceQuarantiningNested ==
  /\ at = "read" /\ quarantine
  /\ IF Structural
     THEN at' = "failed" /\ UNCHANGED good
     ELSE /\ at' = "written"
          /\ good' = [i \in DOMAIN rows |->
                        IF field.present /\ SetAside(read[i]) THEN Bad ELSE Resolved(read[i])]
  /\ UNCHANGED <<given, type, read>>

(* coerce_quarantining *)
CoerceQuarantining ==
  /\ at = "read" /\ quarantine
  /\ IF Structural \/ (AnyNested /\ field.present /\ \E i \in DOMAIN rows : HasBad(Result(read[i])))
     THEN at' = "failed" /\ UNCHANGED good
     ELSE /\ at' = "written"
          /\ good' = [i \in DOMAIN rows |->
                        IF field.present /\ SetAside(read[i]) THEN Bad ELSE Resolved(read[i])]
  /\ UNCHANGED <<given, type, read>>

Next == ReadAsDeclared \/ Coerce \/ CoerceQuarantining

Spec == Init /\ [][Next]_vars

----------------------------------------------------------------------------
(* Properties *)

Written == IF at = "written" THEN {i \in DOMAIN rows : good[i] # Bad} ELSE {}

(* Type invariant: a batch that goes through strictly loses no row. *)
TypeOK ==
  /\ at \in {"file", "read", "written", "failed"}
  /\ (at = "written" /\ ~quarantine) => Written = DOMAIN rows

(* What is written is what a cast that kept fractions would have written: no
   fraction is dropped on the way into an integer at any depth, through a union,
   a dictionary, a list or a struct paired by position, except a float's in a
   Kafka pipeline. (schema.rs:439) *)
NothingTruncated ==
  field.present => \A i \in Written :
    good[i] = ArrowCast(read[i], type, column.target, IF fractions = "refused" THEN "all" ELSE "decimals")

(* No value that does not convert reaches the target as a NULL, on its own or
   inside a row that looks valid. (schema.rs:237) *)
NoSilentNull ==
  field.present => \A i \in Written : ~HasBad(Result(read[i])) /\ ~HasBad(good[i])

(* A row that fails a batch of its own. *)
FailsAlone(x) ==
  HasBad(Result(x)) \/ RefusedFraction(x) \/ (Result(x) = Null /\ field.nn)

(* Quarantining sets aside exactly the rows a batch of their own would have
   failed for without a data-quality table: no neighbour is taken along, none
   that would have failed slips through.  A union, which no transform yields, is
   left out: the cast itself nulls its other branches. (schema.rs:222) *)
OnlyTheBadRow ==
  (at = "written" /\ field.present /\ type.k # "union") =>
    \A i \in DOMAIN rows : (good[i] = Bad) <=> FailsAlone(read[i])

Seconds(n, t) == n * 10 ^ (Finest - t.u)
(* The instant a timestamp names where one is declared, a naive one being UTC by
   Delta's definition; the wall clock it shows where a wall clock is declared. *)
Meaning(n, t, want) ==
  IF want.z = "none" /\ t.z = "other" THEN Seconds(n, t) + Seconds(Offset, want) ELSE Seconds(n, t)

RECURSIVE SameMoment(_, _, _, _, _)
SameMoment(x, have, y, got, want) ==
  CASE x = Null \/ Null = y -> x = y
    [] Time(have) -> got # have => Meaning(x.n, have, want) = Meaning(y.n, got, want)
    [] have.k = "list" -> \A i \in DOMAIN x.e : SameMoment(x.e[i], have.t, y.e[i], got.t, want.t)
    [] have.k = "struct" -> \A i \in DOMAIN have.f :
         have.f[i].n \in FieldNames(want) =>
           SameMoment(x.f[have.f[i].n], have.f[i].t, y.f[have.f[i].n], got.f[i].t,
                      FieldOf(want, have.f[i].n).t)
    [] OTHER -> x = y

(* Reading a file as declared moves no timestamp: the instant, or the wall
   clock, is what the file held, to its last digit. (schema.rs:878) *)
MomentKept ==
  at = "read" => \A i \in DOMAIN rows :
    SameMoment(rows[i], column.file, read[i], type, column.declared)

=============================================================================
