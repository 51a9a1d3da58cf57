----------------------------- MODULE ArrowTypes -----------------------------
(***************************************************************************)
(* Columns: the types and the values Conform and Coerce are about, and     *)
(* Arrow's cast between plain types.                                       *)
(*                                                                         *)
(* A number counts quarters: 4 is one, 5 is one and a quarter.  An int     *)
(* holds the wholes up to two, a long those up to ten, a decimal the       *)
(* halves up to four, a double everything, but rounds what lies past       *)
(* eight.  A text is the number it spells, or Junk.                        *)
(***************************************************************************)
EXTENDS Integers, Sequences, FiniteSets, TLC

Plain(k) == [k |-> k]
IntT == Plain("int")
LongT == Plain("long")
DoubleT == Plain("double")
DecimalT == Plain("decimal")
StringT == Plain("string")
NullT == Plain("null")

(* fields: a sequence of [n (name), t (type), nn (NOT NULL)] *)
StructT(fields) == [k |-> "struct", f |-> fields]
ListT(item, nn) == [k |-> "list", t |-> item, nn |-> nn]
MapT(value, nn) == [k |-> "map", t |-> value, nn |-> nn]
(* branches: a sequence of [n, t] *)
UnionT(branches) == [k |-> "union", b |-> branches]
(* An array that shares its values: a dictionary, or run-end encoded. *)
EncT(t) == [k |-> "enc", t |-> t]
(* A timestamp: u its unit, the larger the finer, each ten of the next; z its zone. *)
TimeT(u, z) == [k |-> "time", u |-> u, z |-> z]
Field(n, t) == [n |-> n, t |-> t, nn |-> FALSE]
NotNull(n, t) == [n |-> n, t |-> t, nn |-> TRUE]
Branch(n, t) == [n |-> n, t |-> t]

Nested(t) == t.k \in {"struct", "list", "map", "union"}
Numeric(t) == t.k \in {"int", "long", "double", "decimal"}
FieldNames(t) == {t.f[i].n : i \in DOMAIN t.f}
FieldOf(t, n) == t.f[CHOOSE i \in DOMAIN t.f : t.f[i].n = n]
BranchOf(t, n) == t.b[CHOOSE i \in DOMAIN t.b : t.b[i].n = n]

Junk == 99
Null == [v |-> "null"]
Num(n) == [v |-> "num", n |-> n]
Text(n) == [v |-> "text", n |-> n]
Struct(f) == [v |-> "struct", f |-> f]
List(e) == [v |-> "list", e |-> e]
MapV(e) == [v |-> "map", e |-> e]
InBranch(b, x) == [v |-> "union", b |-> b, x |-> x]
(* A value that was rejected, and with it its row. *)
Bad == [v |-> "bad"]

----------------------------------------------------------------------------
(* Arrow's cast of a plain value: Null where it does not convert *)

Whole(n) == n - (n % 4)
Half(n) == n - (n % 2)
Rounded(n) == IF n > 32 THEN 16 * ((n + 8) \div 16) ELSE n
Limit(t) == CASE t.k = "int" -> 8 [] t.k = "long" -> 40 [] t.k = "decimal" -> 16 [] OTHER -> 1000
Held(n, t) == IF n <= Limit(t) THEN Num(n) ELSE Null

CanCast(from, to) == ~Nested(from) /\ ~Nested(to) /\ to.k # "null"

Cast(x, from, to) ==
  CASE from = to \/ x = Null -> x
    [] from.k = "null" \/ to.k = "null" -> Null
    [] to.k = "string" -> Text(x.n)
    [] x.n = Junk -> Null
    [] to.k \in {"int", "long"} ->
         IF from.k = "string" /\ x.n % 4 # 0 THEN Null ELSE Held(Whole(x.n), to)
    [] to.k = "double" -> Num(Rounded(x.n))
    [] to.k = "decimal" -> Held(Half(x.n + 1), to)

----------------------------------------------------------------------------
(* What a value says: its leaves, each the path that leads to it and the
   number or text it stands for; a branch of a union adds no step. *)

RECURSIVE Leaves(_, _)
Leaves(x, path) ==
  CASE x.v \in {"null", "bad"} -> {}
    [] x.v \in {"num", "text"} -> {<<path, x.n>>}
    [] x.v = "struct" -> UNION {Leaves(x.f[n], Append(path, n)) : n \in DOMAIN x.f}
    [] x.v \in {"list", "map"} ->
         UNION {Leaves(x.e[i], Append(path, ToString(i))) : i \in DOMAIN x.e}
    [] x.v = "union" -> Leaves(x.x, path)

RECURSIVE HasBad(_)
HasBad(x) ==
  CASE x.v = "struct" -> \E n \in DOMAIN x.f : HasBad(x.f[n])
    [] x.v \in {"list", "map"} -> \E i \in DOMAIN x.e : HasBad(x.e[i])
    [] x.v = "union" -> HasBad(x.x)
    [] OTHER -> x.v = "bad"

(* Every value of a type (a union holds a null under a branch), with the numbers of Ns and lists of up to two. *)
RECURSIVE Values(_, _)
Values(t, Ns) ==
  (IF t.k = "union" THEN {} ELSE {Null}) \cup
  CASE t.k = "null" -> {}
    [] Numeric(t) -> {Num(n) : n \in {m \in Ns : Cast(Num(m), DoubleT, t) = Num(m)}}
    [] t.k = "string" -> {Text(n) : n \in Ns \cup {Junk}}
    [] t.k = "struct" ->
         {Struct(f) : f \in {g \in [FieldNames(t) -> UNION {Values(t.f[i].t, Ns) : i \in DOMAIN t.f}] :
                               \A n \in FieldNames(t) :
                                 /\ g[n] \in Values(FieldOf(t, n).t, Ns)
                                 /\ FieldOf(t, n).nn => g[n] # Null}}
    [] t.k = "list" -> {List(<<>>)} \cup {List(<<x>>) : x \in Values(t.t, Ns) \ IF t.nn THEN {Null} ELSE {}}
    [] t.k = "map" -> {MapV(<<x>>) : x \in Values(t.t, Ns) \ IF t.nn THEN {Null} ELSE {}}
    [] t.k = "union" ->
         UNION {{InBranch(t.b[i].n, x) : x \in Values(t.b[i].t, Ns)} : i \in DOMAIN t.b}

=============================================================================
