------------------------------ MODULE Decimal ------------------------------
(***************************************************************************)
(* DECIMAL to DOUBLE and REAL (src/src/transform/decimal.rs): the pass     *)
(* that takes the casts over from Arrow, and the conversion: one division  *)
(* where both operands are exact, or where Trino divides too, and else the *)
(* decimal's text read by a correctly rounding parser.                     *)
(*                                                                         *)
(* Floats are scaled down: a DOUBLE has DoubleBits of significand and a    *)
(* REAL RealBits, 53 and 24 in the code, and exponents are unbounded (a    *)
(* decimal reaches neither limit).  Rounding is to nearest, ties to even.  *)
(* The reference rounds the decimal itself, once.                          *)
(***************************************************************************)
EXTENDS Integers, Sequences, FiniteSets

CONSTANTS
  DoubleBits, RealBits,
  ShortPrecision,   \* most digits of a short decimal: 18 in the code
  WideMin,          \* from here on an unscaled value is beyond an i128
  Froms, Tos,       \* types: [k: "decimal", p, s, wide], "double", "real", "list", "fixed", "row"
  Unscaled          \* unscaled values

(* Assumed of the constants; the suites that instantiate the module assume it. *)
ConstantsAssumption ==
  /\ {DoubleBits, RealBits, ShortPrecision, WideMin} \subseteq Nat \ {0}
  /\ RealBits < DoubleBits

VARIABLES
  from, to,    \* the cast of a column, as type coercion left it
  try,         \* TRY_CAST
  nullable,    \* of the input
  column,      \* one value: an integer, Null, or a list of values
  plan,        \* "parsed", "arrow" or "ddi": who converts
  field, out   \* the result's nullability and value

vars == <<from, to, try, nullable, column, plan, field, out>>

Null == [k |-> "null"]
Whole(n) == [k |-> "int", n |-> n]
Lst(s) == [k |-> "list", s |-> s]
NotYet == [k |-> "none"]
Abs(n) == IF n < 0 THEN -n ELSE n

----------------------------------------------------------------------------
(* Floats: [k, neg, m, e] is m * 2^e with 2^(bits-1) <= m < 2^bits, or zero. *)

Shifted(n, d, e) == IF e >= 0 THEN <<n, d * 2^e>> ELSE <<n * 2^(-e), d>>
Exponents == -14 .. 14

(* n / d rounded to the nearest float of so many bits. *)
Nearest(neg, n, d, bits) ==
  IF n = 0 THEN [k |-> "float", neg |-> FALSE, m |-> 0, e |-> 0]
  ELSE LET e == CHOOSE x \in Exponents :
                  LET f == Shifted(n, d, x) IN 2^(bits - 1) * f[2] <= f[1] /\ f[1] < 2^bits * f[2]
           f == Shifted(n, d, e)
           q == f[1] \div f[2]
           twice == 2 * (f[1] % f[2])
           m == IF twice > f[2] \/ (twice = f[2] /\ q % 2 = 1) THEN q + 1 ELSE q
       IN  IF m = 2^bits THEN [k |-> "float", neg |-> neg, m |-> 2^(bits - 1), e |-> e + 1]
           ELSE [k |-> "float", neg |-> neg, m |-> m, e |-> e]

(* An IEEE operation: the exact result of two floats, rounded once. *)
Fraction(x) == IF x.e >= 0 THEN <<x.m * 2^x.e, 1>> ELSE <<x.m, 2^(-x.e)>>
Divide(a, b, bits) == LET x == Fraction(a) y == Fraction(b) IN Nearest(a.neg, x[1] * y[2], x[2] * y[1], bits)
Multiply(a, b, bits) == LET x == Fraction(a) y == Fraction(b) IN Nearest(a.neg, x[1] * y[1], x[2] * y[2], bits)
Narrow(x, bits) == LET f == Fraction(x) IN Nearest(x.neg, f[1], f[2], bits)
FromInt(n, bits) == Nearest(n < 0, Abs(n), 1, bits)

(* The powers of ten a float holds exactly: 10^22 for a DOUBLE, 10^10 for a REAL. *)
Pow10(bits) == {k \in 0 .. 4 : 5^k < 2^bits}

----------------------------------------------------------------------------
(* The conversion of one unscaled value. *)

(* short_power *)
Short(type) == type.p <= ShortPrecision /\ type.s >= 0 /\ type.s \in Pow10(DoubleBits)

(* The text <unscaled>e<-scale>, read by a parser that rounds once. *)
Parse(n, s, bits) == IF s >= 0 THEN Nearest(n < 0, Abs(n), 10^s, bits) ELSE Nearest(n < 0, Abs(n) * 10^(-s), 1, bits)

\* Mutant: the integer may have a bit more than the significand.
ExactUnscaledWide(n, bits) == Abs(n) <= 2^(bits + 1)

(* Exact as a float: the power itself is the largest that is. *)
ExactUnscaled(n, bits) == Abs(n) <= 2^bits

OneStep(n, s, bits) ==
  IF ExactUnscaled(n, bits) /\ Abs(s) \in Pow10(bits)
  THEN IF s >= 0 THEN Divide(FromInt(n, bits), FromInt(10^s, bits), bits)
       ELSE Multiply(FromInt(n, bits), FromInt(10^(-s), bits), bits)
  ELSE Parse(n, s, bits)

\* Mutant: a short decimal is divided as a REAL.
DecimalToF64Floats(n, type) ==
  IF Short(type) THEN Divide(FromInt(n, RealBits), FromInt(10^type.s, RealBits), DoubleBits)
  ELSE OneStep(n, type.s, DoubleBits)

DecimalToF64(n, type) ==
  IF Short(type) THEN Divide(FromInt(n, DoubleBits), FromInt(10^type.s, DoubleBits), DoubleBits)
  ELSE OneStep(n, type.s, DoubleBits)

(* A short one the DOUBLE, narrowed; a long one never through a double. *)
DecimalToF32(n, type) ==
  IF Short(type) THEN Narrow(DecimalToF64(n, type), RealBits) ELSE OneStep(n, type.s, RealBits)

(* wide_to_f64, wide_to_f32: beyond an i128 the text is read. *)
Leaf(n, type, target) ==
  LET bits == IF target.k = "double" THEN DoubleBits ELSE RealBits
  IN  IF type.wide /\ Abs(n) >= WideMin THEN Parse(n, type.s, bits)
      ELSE IF target.k = "double" THEN DecimalToF64(n, type) ELSE DecimalToF32(n, type)

RECURSIVE IsDecimalToFloat(_, _)
IsDecimalToFloat(f, t) ==
  \/ f.k = "decimal" /\ t.k \in {"double", "real"}
  \/ f.k = "list" /\ t.k = "list" /\ IsDecimalToFloat(f.of, t.of)
  \/ f.k = "fixed" /\ t.k = "fixed" /\ f.n = t.n /\ IsDecimalToFloat(f.of, t.of)

\* Mutant: the values under a NULL list are not skipped.
RECURSIVE ArrayNoNulls(_, _, _)
ArrayNoNulls(v, f, t) ==
  CASE v.k = "null" -> IF t.k = "list" THEN Lst(<<>>) ELSE Null
    [] v.k = "int" -> Leaf(v.n, f, t)
    [] OTHER -> Lst([i \in DOMAIN v.s |-> ArrayNoNulls(v.s[i], f.of, t.of)])

(* decimal_to_float_array: leaves are converted, nulls and lengths kept. *)
RECURSIVE ToFloatArray(_, _, _)
ToFloatArray(v, f, t) ==
  CASE v.k = "null" -> Null
    [] v.k = "int" -> Leaf(v.n, f, t)
    [] OTHER -> Lst([i \in DOMAIN v.s |-> ToFloatArray(v.s[i], f.of, t.of)])

(* Arrow's cast: a division in doubles, narrowed for a REAL. *)
RECURSIVE ArrowCast(_, _, _)
ArrowCast(v, f, t) ==
  CASE v.k = "null" -> Null
    [] v.k = "int" -> LET d == IF f.s >= 0 THEN Divide(FromInt(v.n, DoubleBits), FromInt(10^f.s, DoubleBits), DoubleBits)
                              ELSE Multiply(FromInt(v.n, DoubleBits), FromInt(10^(-f.s), DoubleBits), DoubleBits)
                      IN  IF t.k = "double" THEN d ELSE Narrow(d, RealBits)
    [] OTHER -> Lst([i \in DOMAIN v.s |-> ArrowCast(v.s[i], f.of, t.of)])

----------------------------------------------------------------------------
RECURSIVE ValuesOf(_)
ValuesOf(type) ==
  IF type.k = "decimal"
  THEN {Null} \cup {Whole(n) : n \in {u \in Unscaled : Abs(u) < 10^type.p}}
  ELSE {Null} \cup {Lst(<<v>>) : v \in ValuesOf(type.of)}
       \cup (IF type.k = "list" THEN {Lst(<<>>)} ELSE {})

RECURSIVE LeafType(_)
LeafType(type) == IF type.k \in {"list", "fixed", "row"} THEN LeafType(type.of) ELSE type

RECURSIVE SameShape(_, _)
SameShape(f, t) ==
  \/ f.k = "decimal" /\ t.k \in {"double", "real"}
  \/ f.k \in {"list", "fixed", "row"} /\ t.k = f.k /\ SameShape(f.of, t.of)

Init ==
  /\ from \in Froms /\ to \in {t \in Tos : SameShape(from, t)}
  /\ try \in BOOLEAN /\ nullable \in BOOLEAN
  /\ column \in {v \in ValuesOf(from) : nullable \/ v # Null}
  /\ plan = "parsed" /\ field = FALSE /\ out = NotYet

(* TrinoDecimalCasts and rewrite_expr: after type coercion, every cast of the plan. *)
Analyze ==
  /\ plan = "parsed"
  /\ plan' = IF IsDecimalToFloat(from, to) THEN "ddi" ELSE "arrow"
  /\ field' = (try \/ nullable)
  /\ UNCHANGED <<from, to, try, nullable, column, out>>

Invoke ==
  /\ plan \in {"ddi", "arrow"} /\ out = NotYet
  /\ out' = IF plan = "ddi" THEN ToFloatArray(column, from, to) ELSE ArrowCast(column, from, to)
  /\ UNCHANGED <<from, to, try, nullable, column, plan, field>>

Next == Analyze \/ Invoke
Spec == Init /\ [][Next]_vars

----------------------------------------------------------------------------
(* The value itself, rounded once. *)
RECURSIVE Rounded(_, _, _)
Rounded(v, f, t) ==
  CASE v.k = "null" -> Null
    [] v.k = "int" -> Parse(v.n, f.s, IF t.k = "double" THEN DoubleBits ELSE RealBits)
    [] OTHER -> Lst([i \in DOMAIN v.s |-> Rounded(v.s[i], f.of, t.of)])

RECURSIVE SameNulls(_, _)
SameNulls(v, w) ==
  \/ v = Null /\ w = Null
  \/ v.k = "int" /\ w.k = "float"
  \/ v.k = "list" /\ w.k = "list" /\ DOMAIN v.s = DOMAIN w.s /\ \A i \in DOMAIN v.s : SameNulls(v.s[i], w.s[i])

RECURSIVE Unscaleds(_)
Unscaleds(v) == IF v.k = "int" THEN {v.n} ELSE IF v.k = "null" THEN {} ELSE UNION {Unscaleds(v.s[i]) : i \in DOMAIN v.s}

TypeOK ==
  /\ from \in Froms /\ to \in Tos /\ {try, nullable, field} \subseteq BOOLEAN
  /\ plan \in {"parsed", "arrow", "ddi"}
  /\ out # NotYet => SameNulls(column, out) /\ (out = Null => field)

(* A long decimal becomes the nearest DOUBLE or REAL, alone or in lists: the division, the
   exactness limits and the parser agree, and a REAL is never rounded twice. *)
LongIsNearest ==
  out # NotYet /\ plan = "ddi" /\ LeafType(from).p > ShortPrecision => out = Rounded(column, from, to)

(* Whether a decimal is short or long decides nothing about its DOUBLE while the unscaled value
   fits the significand: DataFusion's precision need not be Trino's there. *)
SideIrrelevant ==
  out # NotYet /\ LeafType(to).k = "double" /\ (\A n \in Unscaleds(column) : Abs(n) <= 2^DoubleBits) =>
    out = Rounded(column, from, to)
=============================================================================
