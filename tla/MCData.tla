------------------------------- MODULE MCData -------------------------------
(***************************************************************************)
(* What happens to tables and rows, and the limits and settings it happens *)
(* under, side by side. Tables: the handover from dbt and its dedup        *)
(* window, the merge of an upsert, and the check of a target's grain.      *)
(* Rows: decoding Avro with the schemas of a registry, fitting columns to  *)
(* a table's, coercion, the rules for a query, lambdas, UNNEST and         *)
(* decimals rewritten to what Trino means, and the search for the rows a   *)
(* query fails on. Settings: the memory budget, the configuration, and a   *)
(* Kafka pipeline's settings.                                              *)
(***************************************************************************)
EXTENDS Integers, Sequences, FiniteSets, TLC, Pool

-----------------------------------------------------------------------------
(* The queries and batches on which the rules for queries, the rewriting   *)
(* of lambdas and the rewriting of UNNEST are checked, written with the    *)
(* constructors of QueryRules, Lambda and Unnest.                          *)

Q == INSTANCE QueryRules WITH
  Queries <- {}, Lookups <- {}, Batch <- <<>>, Rates <- <<>>,
  query <- 0, grain <- 0, verdict <- 0, whole <- 0, parts <- 0
L == INSTANCE Lambda WITH
  Queries <- {}, Batches <- {}, Types <- {}, MaxRuns <- 1, written <- 0, place <- 0, query <- 0,
  passes <- 0, status <- 0, cache <- 0, clock <- 0, last <- 0
N == INSTANCE Unnest WITH
  Queries <- {}, Batches <- {}, Looked <- <<>>, written <- 0, query <- 0, status <- 0, batch <- 0

-----------------------------------------------------------------------------
(* QueryRules: a batch, a lookup, single selects, and queries of two levels. *)

Rows == <<[id |-> 1, v |-> 1], [id |-> 2, v |-> 1], [id |-> 1, v |-> 3]>>
Fx == <<[key |-> 1, rate |-> 5], [key |-> 2, rate |-> 1]>>

Source == <<Q!Table("source")>>
Froms == {Source, <<Q!Table("fx")>>, <<Q!Table("other")>>, <<Q!Table("c")>>, <<Q!Sampled("source")>>,
          <<Q!Nested>>, <<Q!Table("source"), Q!Table("source")>>}
Lookup(op, on) == Q!Join(op, Q!Table("fx"), on)
LookedUp == {<<>>, <<Lookup("left", "key")>>, <<Lookup("left", "true")>>, <<Lookup("left", "mixed")>>,
             <<Lookup("inner", "key")>>, <<Q!Join("left", Q!Table("source"), "key")>>,
             <<Q!Join("left", Q!Sampled("fx"), "key")>>}
Items == {"row", "sum", "avg", "count distinct", "over", "unnest"}
Grouped == {"sum", "avg", "count distinct"}
Just(s) == Q!Query(<<>>, Q!Body(s), FALSE)
OfSource(item) == Q!Select(Source, <<>>, item)

SingleSelects ==
  {Just(Q!Select(f, j, i)) : f \in Froms, j \in LookedUp, i \in Items}
  \cup {Just([OfSource(i) EXCEPT !.distinct = d, !.top = t]) : i \in Items, d \in BOOLEAN, t \in BOOLEAN}
  \cup {Just([OfSource(i) EXCEPT !.group = TRUE, !.distinct = d]) : i \in Grouped, d \in BOOLEAN}
  \cup {Q!Query(<<>>, Q!Values, FALSE)}

(* What is put inside another. *)
FromC == Q!Select(<<Q!Table("c")>>, <<>>, "row")
InsideNoC ==
  {Just(OfSource("row")), Just(Q!Select(Source, <<Lookup("left", "key")>>, "row")),
   Just([OfSource("row") EXCEPT !.distinct = TRUE]), Just(OfSource("sum")),
   Just([OfSource("sum") EXCEPT !.group = TRUE]), Q!Query(<<>>, Q!Body(OfSource("row")), TRUE),
   Just(Q!Select(<<Q!Table("fx")>>, <<>>, "row")), Just(OfSource("over")), Just(OfSource("unnest"))}
Inside == InsideNoC \cup {Just(FromC)}

TwoLevels ==
  {Just(Q!Select(<<Q!Derived(q)>>, j, "row")) : q \in Inside, j \in LookedUp}
  \cup {Q!Query(<<Q!Cte("c", q)>>, Q!Body(FromC), l) : q \in InsideNoC, l \in BOOLEAN}
  \cup {Q!Query(<<Q!Cte("fx", q)>>, Q!Body(Q!Select(f, <<>>, "row")), FALSE) :
          f \in {Source, <<Q!Table("fx")>>}, q \in Inside}
  \cup {Q!Query(<<Q!Cte("c", q), Q!Cte("d", Just(FromC))>>,
                Q!Body(Q!Select(<<Q!Table("d")>>, <<>>, "row")), FALSE) : q \in InsideNoC}
  \cup {Q!Query(<<>>, Q!Paren(q), FALSE) : q \in Inside}
  \cup {Q!Query(<<>>, Q!SetOp(o, all, p.body, q.body), FALSE) :
          o \in {"union", "intersect", "except"}, all \in BOOLEAN, p \in Inside, q \in Inside}
  \cup {Q!Query(<<>>, Q!SetOp("union", TRUE, Q!Paren(p), q.body), FALSE) : p \in Inside, q \in Inside}
  \cup {Just([OfSource("row") EXCEPT !.where = <<q>>]) : q \in Inside}

WrittenQueries == SingleSelects \cup TwoLevels

-----------------------------------------------------------------------------
(* Lambda: lambdas over columns, nested, shadowed, quoted and written by hand. *)

Id(v) == [v |-> v, q |-> FALSE]
Fld(id) == L!E("fld", "", <<id>>, <<>>, L!NoText)
Leaf(op) == L!E(op, "", <<>>, <<>>, L!NoText)
Add(a, b) == L!E("add", "", <<>>, <<a, b>>, L!NoText)
Chain(root, sub) == L!E("chain", "", <<>>, <<root, L!Var(Id("c")), sub>>, L!NoText)
Call(kind, array, ids, body) == L!E("call", kind, ids, <<array, body>>, L!NoText)
Other(array, body) == L!E("other", "", <<Id("x")>>, <<array, body>>, L!NoText)
ByHand(kind, array, param, body, caps) ==
  L!E("folded", kind, <<L!Quoted(param)>>, <<array>> \o caps, [t |-> body, esc |-> 0])

x == L!Var(Id("x"))
y == L!Var(Id("y"))
c == L!Var(Id("c"))
cap0 == L!Var(Id("__capture_0"))
xs == L!Var(Id("xs"))
xss == L!Var(Id("xss"))

Leaves == {x, y, c, cap0, L!Var(Id("X")), L!Var(L!Quoted("X")), Fld(Id("x")), Fld(Id("t")), Leaf("str"),
           Leaf("typed")}
Simple == Leaves \cup {Add(a, b) : a \in {x, y, c}, b \in Leaves} \cup {Chain(a, b) : a, b \in {x, c}}

Flat == {Call(k, xs, <<p>>, b) :
           k \in {"transform", "filter"}, p \in {Id("x"), Id("X"), L!Quoted("X")}, b \in Simple}
Inner == {Call(k, a, <<p>>, b) :
            k \in {"transform", "filter"}, a \in {x, xs}, p \in {Id("x"), Id("y")},
            b \in {x, y, Leaf("str"), Leaf("now"), Add(x, c), Add(y, x), Add(y, Fld(Id("t")))}}
Deep == {Call("transform", xss, <<Id("x")>>, b) : b \in Inner}
Deeper == {Call("transform", xss, <<Id("x")>>, Call("transform", xs, <<Id("y")>>, b)) :
             b \in {Call("filter", x, <<Id("z")>>, s) : s \in {y, c, Leaf("str"), Add(y, c), L!Var(Id("z"))}}}
Chained == {Call("transform", Call("filter", xs, <<Id("x")>>, a), <<Id("x")>>, b) :
              a \in {x, Leaf("str"), Add(x, c)}, b \in {Add(x, c), Leaf("now")}}
Illegal ==
  {Call("transform", xs, <<Id("x")>>, b) :
     b \in {Leaf("subquery"), Leaf("aggregate"), Add(x, Leaf("aggregate")), Leaf("lone"), Other(x, y)}}
  \cup {Call("filter", xs, <<Id("x"), Id("y")>>, x), Other(xs, x), Leaf("lone"),
        Call("transform", xss, <<Id("x")>>, Call("filter", x, <<Id("y")>>, Leaf("subquery")))}
Handwritten ==
  {ByHand("transform", xs, "x", b, caps) :
     b \in {x, Add(x, cap0), Leaf("str"), Leaf("aggregate"), Call("filter", x, <<Id("y")>>, y), Leaf("lone")},
     caps \in {<<>>, <<c>>}}
  \cup {ByHand("transform", xss, "x", ByHand("filter", x, "y", b, caps), <<c>>) :
          b \in {y, cap0, Leaf("subquery"), Leaf("str")}, caps \in {<<>>, <<cap0>>, <<x>>}}
  \cup {Call("transform", xss, <<Id("x")>>, ByHand("filter", x, "y", cap0, <<c>>))}

Lambdas == Flat \cup Deep \cup Deeper \cup Chained \cup Illegal \cup Handwritten

LambdaRow(a, as, n) ==
  "x" :> L!Num(n) @@ "X" :> L!Num(n + 1) @@ "c" :> L!Num(n + 2) @@ "t.f" :> L!Num(n + 4)
  @@ "__capture_0" :> L!Num(n + 5) @@ "xs" :> a @@ "xss" :> as
ListOf(s) == L!Lst([i \in DOMAIN s |-> L!Num(s[i])])
LambdaBatches ==
  { <<LambdaRow(L!Null, L!Null, 3),
      LambdaRow(L!Lst(<<L!Num(1), L!Null>>), L!Lst(<<ListOf(<<2>>), L!Null>>), 4),
      LambdaRow(L!Lst(<<>>), L!Lst(<<L!Lst(<<>>)>>), 5),
      LambdaRow(ListOf(<<6, 9, 3>>), L!Lst(<<ListOf(<<4, 5>>), ListOf(<<7>>)>>), 8)>> }

-----------------------------------------------------------------------------
(* Unnest: FROM clauses with an UNNEST, lookups before and after it, over all pairs
   of arrays. *)

Orders(alias) == [k |-> "table", alias |-> alias]
Arr(col, cast, fn) == [col |-> col, cast |-> cast, fn |-> fn]
Fan(arrays, ord, alias, cols) ==
  [k |-> "unnest", arrays |-> arrays, ordinality |-> ord, alias |-> alias, cols |-> cols]
J(rel, op, on) == [rel |-> rel, op |-> op, on |-> on]
LookupOn(key) == J([k |-> "lookup", key |-> key], "left", "key")
F(rel, joins) == [rel |-> rel, joins |-> joins]
S(from, names) == [from |-> from, names |-> names]

Names == {<<"o", "id">>, <<"", "id">>, <<"", "li">>, <<"l", "v">>}
OneArray(array) == Fan(<<array>>, FALSE, "t", <<"li">>)
Bare == Arr("items", FALSE, "")
CrossBare == J(OneArray(Bare), "cross", "true")
Arrays == {Bare, Arr("tags", FALSE, "filter")} \cup {Arr("items", TRUE, fn) : fn \in {"", "filter", "transform"}}
Joined == {J(OneArray(a), op, on) :
             a \in Arrays, op \in {"cross", "inner", "left", "right"}, on \in {"true", "other"}}
Odd == {J(Fan(<<Bare>>, TRUE, "t", <<"li">>), "cross", "true"),
        J(Fan(<<Bare, Bare>>, FALSE, "t", <<"li">>), "cross", "true"),
        J(Fan(<<Bare>>, FALSE, "", <<>>), "cross", "true"), J(Fan(<<Bare>>, FALSE, "li", <<>>), "left", "true")}

OneFrom ==
  {F(Orders("o"), js) :
     js \in {<<>>, <<LookupOn("id")>>}
       \cup UNION {{<<u>>, <<LookupOn("id"), u>>, <<u, LookupOn("id")>>, <<u, LookupOn("li")>>,
                    <<u, CrossBare>>} : u \in Joined \cup Odd}}
Commas ==
  {<<F(Orders("o"), before), F(OneArray(a), after)>> :
     before \in {<<>>, <<LookupOn("id")>>}, a \in Arrays,
     after \in {<<>>, <<LookupOn("li")>>, <<CrossBare>>}}
Fanned(op) == <<F(Orders("o"), <<J(OneArray(Bare), op, "true")>>)>>
Subqueries ==
  {<<F([k |-> "derived", alias |-> "o", select |-> S(<<F(Orders("p"), <<J(OneArray(Bare), op, "true")>>)>>, {})],
       js)>> :
     op \in {"cross", "left", "right"},
     js \in {<<>>, <<LookupOn("li")>>, <<J(Fan(<<Bare>>, FALSE, "u", <<>>), "cross", "true")>>}}

FanQueries ==
  {<<S(f, Names)>> : f \in {<<g>> : g \in OneFrom} \cup Commas \cup Subqueries}
  \cup {<<S(Fanned(op), Names), S(g, Names)>> :
          op \in {"cross", "left", "right"},
          g \in {<<F(Orders("o"), <<LookupOn("id")>>)>>,
                 <<F(Orders("o"), <<J(OneArray(Arr("tags", FALSE, "")), "cross", "true")>>)>>}}

Elements(s) == [k |-> "list", s |-> s]
Lists == {N!Null, Elements(<<>>), Elements(<<N!Val(1, FALSE)>>),
          Elements(<<N!Val(2, FALSE), N!Null, N!Val(1, FALSE)>>)}
Order(n, items, tags) == "id" :> N!Val(n, FALSE) @@ "items" :> items @@ "tags" :> tags
FanBatches == {<<Order(1, a, b), Order(3, b, a)>> : a, b \in Lists}
Looked == 1 :> 5 @@ 2 :> 6


(* Handover: the rows a source may come to hold. Timestamps are half milliseconds: 2
   and 3 share a millisecond, and a timestamp can tie. *)
Row(p, t) == [part |-> p, ts |-> t]
Ordered ==
  {<<Row("p", 2), Row("q", 3), Row("p", 3)>>, <<Row("p", 2), Row("p", 2), Row("q", 5)>>}
Strict == {<<Row("p", 2), Row("q", 3), Row("p", 4)>>}
(* Ordered only within each partition: q lags behind p. *)
Lagging ==
  {<<Row("p", 6), Row("q", 2), Row("q", 3)>>, <<Row("p", 6), Row("q", 2), Row("p", 6)>>,
   <<Row("p", 2), Row("p", 3), Row("p", 3)>>}

World(rows, key, parted) ==
  [rows |-> rows, mode |-> "timestamp", key |-> key, part |-> parted, hook |-> "pre",
   stats |-> TRUE, trunc |-> TRUE]
TimestampWorlds ==
  {World(h, TRUE, FALSE) : h \in Ordered}
    \cup {[World(h, FALSE, FALSE) EXCEPT !.stats = FALSE] : h \in Strict}
PartitionWorlds ==
  {World(h, TRUE, TRUE) : h \in Lagging}
    \cup {[World(h, FALSE, TRUE) EXCEPT !.stats = FALSE] : h \in Strict}
OneWorld == {World(h, TRUE, parted) : h \in Strict, parted \in BOOLEAN}
WatermarkWorlds ==
  {[World(h, FALSE, FALSE) EXCEPT !.mode = "watermark", !.hook = "post"] : h \in Strict}

(* Handover: how many of each disturbance there may be. *)
Disturbed(crash, rebuild, recreate, replace, optimize, reconfigure) ==
  [crash |-> crash, rebuild |-> rebuild, recreate |-> recreate, replace |-> replace,
   optimize |-> optimize, reconfigure |-> reconfigure]

(* Upsert: a correction of an old row, a tie the tie-breaker settles, and a late row. *)
Staged(k, s, t) == [k |-> k, s |-> s, t |-> t]
Corrections ==
  <<<<Staged(3, 1, 1)>>, <<Staged(1, 4, 1)>>, <<Staged(3, 3, 1), Staged(1, 4, 2), Staged(1, 2, 3)>>>>

(* GrainCheck: two keys of one hash, and hashes that stay together for a while. *)
Skewed == [k \in 1 .. 5 |-> CASE k = 1 -> 0 [] k = 2 -> 0 [] k = 3 -> 2 [] k = 4 -> 4 [] OTHER -> 6]

Type == INSTANCE ArrowTypes

(* Wire: a schema is a tree of types. *)
T(kind, name, ns, size, kids) == [kind |-> kind, name |-> name, ns |-> ns, size |-> size, kids |-> kids]
P(kind) == T(kind, "", "", 0, <<>>)
Ref(name) == T("ref", name, "", 0, <<>>)
RefIn(ns, name) == T("ref", name, ns, 0, <<>>)
Record(name, kids) == T("record", name, "", 0, kids)
Fixed(name, n) == T("fixed", name, "", n, <<>>)
Array(kid) == T("array", "", "", 0, <<kid>>)
Dict(kid) == T("map", "", "", 0, <<kid>>)
Either(kids) == T("union", "", "", 0, kids)
AvroSchemas ==
  {Record("R", <<P("null"), P("long"), P("bytes")>>),
   Record("R", <<P("float"), P("int"), T("enum", "E", "", 0, <<>>)>>),
   Record("R", <<P("double"), P("boolean")>>),
   Record("R", <<Either(<<P("null"), P("boolean")>>), P("long")>>),
   Array(P("null")), Array(Record("N", <<P("null"), Fixed("Z", 0)>>)),
   Array(Record("N", <<P("null"), P("boolean")>>)), Array(Array(P("boolean"))),
   Dict(P("null")), Dict(Fixed("F", 1)),
   Record("R", <<Fixed("F", 1), Ref("F")>>),
   Record("R", <<T("fixed", "F", "a", 2, <<>>), Fixed("F", 1), Ref("F")>>),
   Record("R", <<T("fixed", "F", "a", 2, <<>>), Fixed("F", 1), RefIn("a", "F")>>),
   T("record", "R", "a", 0, <<T("record", "S", "b", 0, <<Fixed("F", 1)>>), Ref("F")>>),
   T("record", "R", "a", 0, <<T("record", "S", "b", 0, <<Fixed("F", 1)>>), RefIn("b", "F")>>),
   Record("R", <<Fixed("F", 1), Fixed("F", 0), Ref("F")>>),
   Record("R", <<Either(<<P("null"), Ref("R")>>)>>),
   Record("R", <<T("wrapped", "", "", 0, <<P("long")>>)>>)}
BlockSchemas ==
  {Array(P("null")), Array(Record("N", <<P("null"), P("boolean")>>)), Array(Array(P("boolean"))),
   Dict(Fixed("F", 1))}

(* Conform: what writers write, and the columns it is fitted to. *)
Int32 == Type!IntT
Double == Type!DoubleT
Long == Type!LongT
String == Type!StringT
Money == Type!DecimalT
Listed(t) == Type!ListT(t, FALSE)
Struct(fields) == Type!StructT(fields)
PlainTypes ==
  {Int32, Long, Double, Money, String,
   Type!UnionT(<<Type!Branch("null", Type!NullT), Type!Branch("int", Int32), Type!Branch("string", String)>>)}
PlainTargets == {Int32, Long, Double, Money, String, Listed(Int32)}
AB(a, b) == Struct(<<Type!Field("a", a), Type!Field("b", b)>>)
Swapped == Struct(<<Type!Field("b", Int32), Type!Field("a", Double)>>)
Grown == Struct(<<Type!Field("a", Int32), Type!Field("x", Int32)>>)
NestedTypes ==
  {Int32, AB(Int32, Int32), Swapped, Grown, Listed(AB(Int32, Int32)),
   Type!UnionT(<<Type!Branch("R", Grown), Type!Branch("T", AB(Int32, Int32)), Type!Branch("int", Int32)>>)}
NestedTargets ==
  {AB(Int32, Int32), Struct(<<Type!NotNull("b", Int32), Type!Field("a", Int32)>>), Type!ListT(AB(Int32, Int32), TRUE),
   Listed(Grown), Int32}

(* Coerce: a column as it is in the file, as the table declares it, and the target's. *)
Sources ==
  {Int32, Double, Money, String, Type!EncT(Double), Type!EncT(AB(Double, Int32)), Listed(Double),
   AB(Double, Int32), AB(Int32, Money), Struct(<<Type!Field("b", Double), Type!Field("a", Int32)>>),
   Struct(<<Type!Field("x", Double), Type!Field("b", Int32)>>),
   Type!UnionT(<<Type!Branch("d", Double), Type!Branch("s", String)>>),
   Type!UnionT(<<Type!Branch("d", Double), Type!Branch("l", Long)>>),
   Type!UnionT(<<Type!Branch("s", String), Type!Branch("d", Money)>>)}
Targets ==
  {Int32, Double, String, Type!EncT(Int32), Listed(Int32), AB(Int32, Int32), Listed(AB(Int32, Int32)),
   Type!TimeT(1, "utc")}
FractionColumns == {[file |-> s, declared |-> s, target |-> t] : s \in Sources, t \in Targets}
Times == {Type!TimeT(u, z) : u \in 0 .. 2, z \in {"none", "utc", "other"}}
TimeColumn(file, declared) == [file |-> file, declared |-> declared, target |-> declared]
TimeColumns ==
  UNION {{TimeColumn(h, w), TimeColumn(Listed(h), Listed(w)),
          TimeColumn(AB(h, h), Struct(<<Type!Field("b", w)>>))} : h \in Times, w \in Times}

(* Isolation: batches of rows, and what the machine may fail with. *)
Chunks ==
  {<<>>, <<<<>>>>, <<<<1>>>>, <<<<1, 2>>, <<>>, <<3>>>>, <<<<1>>, <<2, 3, 4>>, <<5>>>>,
   <<<<>>, <<1, 2, 3>>, <<4, 5>>>>}
LongChunks == {<<<<1, 2, 3, 4>>, <<5, 6, 7, 8, 9, 10, 11>>>>}
Machine == {[variant |-> "Execution", capacity |-> TRUE], [variant |-> "Internal", capacity |-> FALSE]}

(* Decimal: decimals of up to three digits, wide or not, bare and nested. *)
D(p, s, wide) == [k |-> "decimal", p |-> p, s |-> s, wide |-> wide]
DList(t) == [k |-> "list", of |-> t]
DFix(t) == [k |-> "fixed", n |-> 1, of |-> t]
DRow(t) == [k |-> "row", of |-> t]
Decimals ==
  {d \in {D(p, s, w) : p \in 1 .. 3, s \in 0 .. 3, w \in BOOLEAN} : d.s <= d.p}
  \cup {D(p, -1, FALSE) : p \in 2 .. 3}
DecimalTypes ==
  Decimals \cup {DList(D(3, 2, FALSE)), DFix(D(3, 1, FALSE)), DList(DList(D(3, 2, TRUE))),
                 DRow(D(2, 1, FALSE)), DList(DRow(D(2, 1, FALSE)))}
Floats == {[k |-> "double"], [k |-> "real"]}
FloatTypes == Floats \cup UNION {{DList(f), DFix(f), DList(DList(f)), DRow(f), DList(DRow(f))} : f \in Floats}
(* MemoryBudget: commits by their size and the ratio they decode at, in thousandths. *)
C(s, r) == [size |-> s, ratio |-> r]
Backlog ==
  [a |-> <<C(2, 8000), C(3, 8000), C(4, 9000), C(2, 3000), C(2, 3000), C(3, 9000), C(3, 9000)>>,
   b |-> <<C(2, 8000), C(3, 8000), C(2, 4000), C(2, 8000), C(12, 2000)>>]

(* The entries of a configuration are written with ConfigResolve's own
   constructors. *)
Entry == INSTANCE ConfigResolve WITH
  DeltaLists <- {}, KafkaLists <- {}, Sinks <- {}, KafkaBuilt <- TRUE,
  cfg <- v1, pc <- v2, expanded <- v3, condemned <- v4, clashing <- v5, next <- v6, ok <- v7,
  kafkaOk <- v8, rejected <- v9

(* ConfigResolve: the Delta entries. *)
AtS == Entry!Uri("S")
AtT == Entry!Uri("T")
AtU == Entry!Uri("U")
AtV == Entry!Uri("V")
StageT == Entry!Suffixed(AtT, "stage")
Entry3(name, source, target) == Entry!PipelineConfig(name, source, target)

Copy == Entry3("a", AtS, AtT)
Publishing == [Copy EXCEPT !.publish.group = "g"]
Merging == [Entry3("b", AtS, AtT) EXCEPT !.mode = "upsert", !.key = TRUE, !.ts = TRUE, !.publish.group = "g"]
NoKey == [Merging EXCEPT !.key = FALSE]
Follower == Entry3("c", AtT, AtU)
Ignorer == [Follower EXCEPT !.policy = "ignore"]
MergeFollower == [Ignorer EXCEPT !.mode = "upsert", !.dedupKey = TRUE, !.ts = TRUE]
TwoStep ==
  [Entry3("s", AtS, AtT) EXCEPT
     !.mode = "staged", !.key = TRUE, !.ts = TRUE, !.sql = "ok",
     !.lookups = <<[name |-> "l", uri |-> AtU]>>, !.policy = "skip",
     !.lookback = "ok", !.tiebreak = "ok", !.publish.group = "g"]
Looping == [TwoStep EXCEPT !.stage = AtS]
Intruder == Entry3("d", AtS, StageT)
Peeker == Entry3("e", StageT, AtU)
SameApp == [Entry3("f", AtS, AtU) EXCEPT !.app = Entry!Half("a", "")]
Beside == [Entry3("f", AtS, AtU) EXCEPT !.publish.group = "g"]
NearLookups ==
  [Beside EXCEPT !.publish.near = TRUE, !.sql = "ok", !.lookups = <<[name |-> "l", uri |-> AtT]>>]

Upto(n, menu) == UNION {[1 .. k -> menu] : k \in 0 .. n}
AllDelta ==
  Upto(3, {Publishing, Merging, NoKey, Follower, Ignorer, MergeFollower, TwoStep, Looping, Intruder, Peeker, SameApp,
           Beside, NearLookups})
SomeDelta == Upto(2, {Copy, TwoStep, Follower})

(* ConfigResolve: the Kafka entries, a table under more than one spelling. *)
Slash(u) == [u EXCEPT !.sp = "slash"]
FileUri(u) == [u EXCEPT !.sp = "file"]
K(n) == Entry!KafkaPipelineConfig(n, "x", "t", AtV)
AllKafka ==
  Upto(2,
    {K("k"), [K("l") EXCEPT !.topic = "u", !.target = Slash(AtV)],
     [K("l") EXCEPT !.app = Entry!Half("y", ""), !.target = FileUri(AtV)],
     [K("m") EXCEPT !.app = Entry!Half("y", ""), !.topic = "u"],
     [K("m") EXCEPT !.target = FileUri(AtT)],
     [K("m") EXCEPT !.target = AtU, !.topic = "u", !.dq = Entry!Suffixed(FileUri(AtV), "dq")],
     [K("n") EXCEPT !.target = StageT],
     [K("n") EXCEPT !.target = AtU, !.app = Entry!Half("s", "ingest"), !.dq = Entry!Suffixed(AtT, "dq")],
     [K("k") EXCEPT !.topic = ""],
     [K("o") EXCEPT !.target = AtU, !.group = "k"],
     [K("s") EXCEPT !.target = AtU, !.name = Entry!Half("s", "ingest")],
     [K("o") EXCEPT !.alone = FALSE]})

(* KafkaSettings' own names for keys and offsets. *)
Setting == INSTANCE KafkaSettings WITH
  Tables <- {}, EnvTables <- {}, Environments <- {}, ScramRefs <- {}, JaasRefs <- {},
  Starts <- {}, Limits <- {},
  file <- v1, env <- v2, pc <- v3, merged <- v4, start <- v5, client <- v6

(* KafkaSettings: the settings and settings_env tables of a section and a pipeline. *)
NoTable == Setting!Empty
SettingKey(name) == Setting!Key(name)
TopicKey(name) == Setting!TopicKey(name)
Mechanism == SettingKey("sasl_mechanism")
Mechanisms == SettingKey("sasl_mechanisms")
Protocol == SettingKey("security_protocol")
LayerTables ==
  {NoTable, Mechanism :> "plain", Mechanisms :> "scram", Mechanisms :> "gssapi", Protocol :> "sasl",
   TopicKey("auto_offset_reset") :> "earliest", SettingKey("auto_offset_reset") :> "earliest",
   TopicKey("enable_auto_commit") :> "true", TopicKey("acks") :> "1", SettingKey("group_instance_id") :> "one",
   SettingKey("partition_assignment_strategy") :> "cooperative", SettingKey("client_id") :> "mine",
   (Mechanism :> "plain") @@ (Mechanisms :> "scram"), (Mechanism :> "plain") @@ (Protocol :> "sasl"),
   (Mechanisms :> "scram") @@ (SettingKey("client_id") :> "yours")}
LayerEnvs ==
  {NoTable, Mechanism :> "A", Mechanisms :> "B", Protocol :> "B", SettingKey("group_instance_id") :> "A",
   TopicKey("auto_offset_reset") :> "A"}
LayerEnvironments ==
  {[SCRAM |-> "unset", JAAS |-> "unset", A |-> a, B |-> b] :
     a \in {"plain", "gssapi"}, b \in {"unset", "scram", "sasl"}}

NoLimits ==
  [latency |-> Setting!Unset, messages |-> Setting!Unset, megabytes |-> Setting!Unset,
   revoke |-> Setting!Unset, recheck |-> Setting!Unset]
DefaultLimits == {[section |-> NoLimits, pipeline |-> NoLimits]}
SomeLimits ==
  DefaultLimits
    \cup {[section |-> [NoLimits EXCEPT !.revoke = 400], pipeline |-> [NoLimits EXCEPT !.revoke = 300]],
          [section |-> NoLimits, pipeline |-> [NoLimits EXCEPT !.messages = 0]]}

(* KafkaSettings: identities, and starting_offsets as written. *)
IdentityTables == {NoTable, SettingKey("sasl_username") :> "inline"}
IdentityEnvs == {NoTable, SettingKey("sasl_password") :> "A"}
IdentityEnvironments ==
  {[SCRAM |-> a, JAAS |-> b, A |-> "secret"] : a, b \in {"unset", "malformed", "given"}}
DefaultStart == {[kind |-> "absent", word |-> Setting!OtherWord, map |-> {}, section |-> FALSE]}
StartOffset(text, p, v) == [text |-> text, partition |-> p, value |-> v]
StartMaps ==
  {{}, {StartOffset("0", 0, 5)}, {StartOffset("0", 0, 5), StartOffset("00", 0, 7)}, {StartOffset("1", 1, Setting!Earliest)},
   {StartOffset("0", 0, 5), StartOffset("*", Setting!Rest, Setting!Latest)}, {StartOffset("*", Setting!Rest, 3)},
   {StartOffset("x", Setting!NoPartition, 1)},
   {StartOffset("*", Setting!Rest, Setting!Earliest), StartOffset(" *", Setting!Rest, Setting!Latest)}}
AllStarts ==
  {[kind |-> "map", word |-> Setting!OtherWord, map |-> m, section |-> s] : m \in StartMaps, s \in BOOLEAN}
    \cup {[kind |-> "named", word |-> w, map |-> {}, section |-> FALSE] :
            w \in {Setting!Latest, Setting!OtherWord}}

-----------------------------------------------------------------------------
(* The components *)

(* One cut-off: two rebuilds, a crash, ties and truncated statistics. *)
Timestamp == INSTANCE Handover WITH
  Worlds <- TimestampWorlds, RebuildAt <- {"down"}, Budget <- Disturbed(1, 2, 0, 0, 0, 0),
  world <- v1, parted <- v2, src <- v3, gen <- v4, tgt <- v5, rb <- v6, wm <- v7, d <- v8,
  left <- v9

(* A cut-off per partition, the partitions lagging behind each other. *)
Parted == INSTANCE Handover WITH
  Worlds <- PartitionWorlds, RebuildAt <- {"down"}, Budget <- Disturbed(1, 1, 0, 0, 0, 0),
  world <- v1, parted <- v2, src <- v3, gen <- v4, tgt <- v5, rb <- v6, wm <- v7, d <- v8,
  left <- v9

(* The source is dropped and recreated, and replaced in place. *)
Replaced == INSTANCE Handover WITH
  Worlds <- OneWorld, RebuildAt <- {"down"}, Budget <- Disturbed(1, 0, 1, 1, 0, 0),
  world <- v1, parted <- v2, src <- v3, gen <- v4, tgt <- v5, rb <- v6, wm <- v7, d <- v8,
  left <- v9

(* Without a timestamp: a post-hook records what dbt read. *)
Watermark == INSTANCE Handover WITH
  Worlds <- WatermarkWorlds, RebuildAt <- {"down", "opening"},
  Budget <- Disturbed(1, 1, 0, 0, 1, 0),
  world <- v1, parted <- v2, src <- v3, gen <- v4, tgt <- v5, rb <- v6, wm <- v7, d <- v8,
  left <- v9

(* dedup_partition is set or removed inside an open window. *)
Reconfigured == INSTANCE Handover WITH
  Worlds <- OneWorld, RebuildAt <- {"down", "opening"}, Budget <- Disturbed(1, 1, 0, 0, 0, 1),
  world <- v1, parted <- v2, src <- v3, gen <- v4, tgt <- v5, rb <- v6, wm <- v7, d <- v8,
  left <- v9

(* Corrections merged beside a rebuild, a co-writer and a compaction. *)
Merge == INSTANCE Upsert WITH
  Source <- Corrections, Lookback <- -1, MergeAttempts <- 2, MaxGroup <- 2, MaxRivals <- 2,
  MaxFaults <- 1,
  stage <- v1, fed <- v2, log <- v3, p <- v4, theirs <- v5, warned <- v6, rivals <- v7,
  faults <- v8

(* Every target of up to five rows, under a buffer of four hashes. *)
Grain == INSTANCE GrainCheck WITH
  Keys <- 1 .. 5, Hash <- Skewed, MaxModulus <- 8, Cap <- 4, MaxPasses <- 4, Chunk <- 1,
  Examples <- 2, MaxRows <- 5,
  rows <- v1, queue <- v2, pos <- v3, hashes <- v4, nominated <- v5, found <- v6, passes <- v7,
  answer <- v8

(* Two writer schemas, chunks of two rows, every kind of Avro message. *)
Decode == INSTANCE KafkaDecoder WITH
  SchemaIds <- {1, 2}, Kinds <- {"good", "truncated", "extra", "copy", "unflushable"},
  ChunkRows <- 2, MaxMessages <- 4, Known <- {"avro"}, MaxOutages <- 0, MaxBuildFailures <- 0,
  registry <- v1, registryUp <- v2, faults <- v3, sent <- v4, inHand <- v5, group <- v6,
  decoder <- v7, chunk <- v8, batches <- v9, undecodable <- v10, tombstones <- v11,
  pendingRaw <- v12, misused <- v13

(* One writer schema, chunks of three rows, every kind of Avro message. *)
Chunked == INSTANCE KafkaDecoder WITH
  SchemaIds <- {1}, Kinds <- {"good", "truncated", "extra", "copy", "unflushable"},
  ChunkRows <- 3, MaxMessages <- 5, Known <- {"avro"}, MaxOutages <- 0, MaxBuildFailures <- 0,
  registry <- v1, registryUp <- v2, faults <- v3, sent <- v4, inHand <- v5, group <- v6,
  decoder <- v7, chunk <- v8, batches <- v9, undecodable <- v10, tombstones <- v11,
  pendingRaw <- v12, misused <- v13

(* Two ids the registry knows, refuses or does not know, through an outage. *)
Asked == INSTANCE KafkaDecoder WITH
  SchemaIds <- {1, 2}, Kinds <- {"good", "tombstone", "unframed", "midway"}, ChunkRows <- 2,
  MaxMessages <- 3, Known <- {"avro", "collides", "notRecord", "notAvro", "unknown"},
  MaxOutages <- 1, MaxBuildFailures <- 0,
  registry <- v1, registryUp <- v2, faults <- v3, sent <- v4, inHand <- v5, group <- v6,
  decoder <- v7, chunk <- v8, batches <- v9, undecodable <- v10, tombstones <- v11,
  pendingRaw <- v12, misused <- v13

(* A decoder cannot be built again. *)
Unbuilt == INSTANCE KafkaDecoder WITH
  SchemaIds <- {1}, Kinds <- {"good", "midway", "unflushable"}, ChunkRows <- 2, MaxMessages <- 4,
  Known <- {"avro"}, MaxOutages <- 0, MaxBuildFailures <- 1,
  registry <- v1, registryUp <- v2, faults <- v3, sent <- v4, inHand <- v5, group <- v6,
  decoder <- v7, chunk <- v8, batches <- v9, undecodable <- v10, tombstones <- v11,
  pendingRaw <- v12, misused <- v13

(* Three versions of a subject, one unusable, and a schema of another subject. *)
Union == INSTANCE SchemaUnion WITH
  SchemaIds <- {1, 2, 3, 4}, Usable <- {1, 3, 4}, Foreign <- {4},
  newest <- v1, latest <- v2, latestId <- v3, seen <- v4, union <- v5, batch <- v6, todo <- v7,
  grew <- v8, aligned <- v9

(* Every body of up to three bytes under every schema. *)
Avro == INSTANCE Wire WITH
  Schemas <- AvroSchemas, Base <- 4, MaxBytes <- 2, LastLimit <- 2, IntMax <- 5, MaxBody <- 3,
  schema <- v1, body <- v2, nodes <- v3, root <- v4, pos <- v5, stack <- v6, items <- v7,
  status <- v8

(* Every body of up to four bytes under the schemas of arrays and maps. *)
AvroLong == INSTANCE Wire WITH
  Schemas <- BlockSchemas, Base <- 4, MaxBytes <- 2, LastLimit <- 2, IntMax <- 5, MaxBody <- 4,
  schema <- v1, body <- v2, nodes <- v3, root <- v4, pos <- v5, stack <- v6, items <- v7,
  status <- v8

(* Plain columns and a union of plain types, two rows to a batch. *)
Fit == INSTANCE Conform WITH
  WriterTypes <- PlainTypes, TargetTypes <- PlainTargets, Numbers <- {4, 5, 12, 36},
  Names <- {"none"}, Batch <- 2,
  members <- v1, target <- v2, sql <- v3, quarantine <- v4, rows <- v5, at <- v6, union <- v7,
  good <- v8, rejected <- v9

(* Records, lists of records and unions of records, by name at every depth. *)
FitNested == INSTANCE Conform WITH
  WriterTypes <- NestedTypes, TargetTypes <- NestedTargets, Numbers <- {4, 5},
  Names <- {"R", "T"}, Batch <- 1,
  members <- v1, target <- v2, sql <- v3, quarantine <- v4, rows <- v5, at <- v6, union <- v7,
  good <- v8, rejected <- v9

(* Every source type against every target, two rows to a batch. *)
Fractions == INSTANCE Coerce WITH
  Columns <- FractionColumns, Numbers <- {4, 6}, Offset <- 3, Batch <- 2,
  column <- v1, field <- v2, fractions <- v3, quarantine <- v4, rows <- v5, at <- v6, type <- v7,
  read <- v8, good <- v9

(* Timestamps of three units and three zones, plain and nested, read as
   declared. *)
Moments == INSTANCE Coerce WITH
  Columns <- TimeColumns, Numbers <- {4, 8}, Offset <- 3, Batch <- 1,
  column <- v1, field <- v2, fractions <- v3, quarantine <- v4, rows <- v5, at <- v6, type <- v7,
  read <- v8, good <- v9

(* Single selects, and queries of two levels. *)
Rules == INSTANCE QueryRules WITH
  Queries <- WrittenQueries, Lookups <- {"fx"}, Batch <- Rows, Rates <- Fx,
  query <- v1, grain <- v2, verdict <- v3, whole <- v4, parts <- v5

(* Up to five rows, any of them bad, and failures of the batch, the query and
   the machine. *)
Search == INSTANCE Isolation WITH
  Inputs <- Chunks, Rejects <- {0, 1, 2, 5}, Sizes <- {0, 1, 3}, MaxBad <- 5,
  MachineErrors <- Machine,
  input <- v1, bad <- v2, size <- v3, always <- v4, crossRow <- v5, max <- v6, phase <- v7,
  stack <- v8, ret <- v9, output <- v10, failed <- v11, runs <- v12, error <- v13

(* Eleven rows, two of them bad at most: the number of runs. *)
LongSearch == INSTANCE Isolation WITH
  Inputs <- LongChunks, Rejects <- {5}, Sizes <- {0}, MaxBad <- 2, MachineErrors <- Machine,
  input <- v1, bad <- v2, size <- v3, always <- v4, crossRow <- v5, max <- v6, phase <- v7,
  stack <- v8, ret <- v9, output <- v10, failed <- v11, runs <- v12, error <- v13

(* Lambdas in two batches each. *)
Arrow == INSTANCE Lambda WITH
  Queries <- Lambdas, Batches <- LambdaBatches, Types <- {0, 1}, MaxRuns <- 2,
  written <- v1, place <- v2, query <- v3, passes <- v4, status <- v5, cache <- v6, clock <- v7,
  last <- v8

(* Every FROM clause over every batch. *)
Fans == INSTANCE Unnest WITH
  Queries <- FanQueries, Batches <- FanBatches, Looked <- Looked,
  written <- v1, query <- v2, status <- v3, batch <- v4

(* Five bits for a DOUBLE, three for a REAL, and decimals of up to three digits. *)
Rounding == INSTANCE Decimal WITH
  DoubleBits <- 5, RealBits <- 3, ShortPrecision <- 2, WideMin <- 150, Froms <- DecimalTypes,
  Tos <- FloatTypes, Unscaled <- 0 .. 220 \cup {-33, -32, -7, -1, 400, 990, 999},
  from <- v1, to <- v2, try <- v3, nullable <- v4, column <- v5, plan <- v6, field <- v7,
  out <- v8

(* A budget from the container, with a Kafka pipeline's reserve set aside. *)
Memory == INSTANCE MemoryBudget WITH
  Pipelines <- {"a", "b"}, Kafka <- {"b"}, Commits <- Backlog, Configured <- 1000000,
  Containers <- {15, 230, 1000000}, ReserveBytes <- 20, Assumed <- 8000, MaxBytes <- 16,
  SpillCaps <- {0, 2}, SpillFloor <- 1, SpillWrite <- 1, Causes <- {"memory", "create", "value"},
  MaxFailures <- 2,
  container <- v1, cap <- v2, writable <- v3, phase <- v4, budget <- v5, pc <- v6, next <- v7,
  batch <- v8, amp <- v9, worst <- v10, spilled <- v11, used <- v12, route <- v13, failed <- v14,
  failures <- v15

(* Every list of up to three Delta entries, one spelling per table. *)
Delta == INSTANCE ConfigResolve WITH
  DeltaLists <- AllDelta, KafkaLists <- {<<>>}, Sinks <- {"absent", "unusable", "good"},
  KafkaBuilt <- TRUE,
  cfg <- v1, pc <- v2, expanded <- v3, condemned <- v4, clashing <- v5, next <- v6, ok <- v7,
  kafkaOk <- v8, rejected <- v9

(* Every list of up to two Kafka entries beside up to two Delta entries. *)
Mixed == INSTANCE ConfigResolve WITH
  DeltaLists <- SomeDelta, KafkaLists <- AllKafka, Sinks <- {"absent"}, KafkaBuilt <- TRUE,
  cfg <- v1, pc <- v2, expanded <- v3, condemned <- v4, clashing <- v5, next <- v6, ok <- v7,
  kafkaOk <- v8, rejected <- v9

(* Every pair of settings tables and every pair of settings_env tables. *)
Layers == INSTANCE KafkaSettings WITH
  Tables <- LayerTables, EnvTables <- LayerEnvs, Environments <- LayerEnvironments,
  ScramRefs <- {"default"}, JaasRefs <- {"disabled"}, Starts <- DefaultStart,
  Limits <- DefaultLimits,
  file <- v1, env <- v2, pc <- v3, merged <- v4, start <- v5, client <- v6

(* Identities from variables, start offsets and limits. *)
Identity == INSTANCE KafkaSettings WITH
  Tables <- IdentityTables, EnvTables <- IdentityEnvs, Environments <- IdentityEnvironments,
  ScramRefs <- {"disabled", "default", "explicit"}, JaasRefs <- {"disabled", "explicit"},
  Starts <- AllStarts, Limits <- SomeLimits,
  file <- v1, env <- v2, pc <- v3, merged <- v4, start <- v5, client <- v6

ASSUME ConstantsAssumption ==
  /\ Timestamp!ConstantsAssumption
  /\ Parted!ConstantsAssumption
  /\ Replaced!ConstantsAssumption
  /\ Watermark!ConstantsAssumption
  /\ Reconfigured!ConstantsAssumption
  /\ Merge!ConstantsAssumption
  /\ Grain!ConstantsAssumption
  /\ Decode!ConstantsAssumption
  /\ Chunked!ConstantsAssumption
  /\ Asked!ConstantsAssumption
  /\ Unbuilt!ConstantsAssumption
  /\ Union!ConstantsAssumption
  /\ Avro!ConstantsAssumption
  /\ AvroLong!ConstantsAssumption
  /\ Fractions!ConstantsAssumption
  /\ Moments!ConstantsAssumption
  /\ Rules!ConstantsAssumption
  /\ Search!ConstantsAssumption
  /\ LongSearch!ConstantsAssumption
  /\ Arrow!ConstantsAssumption
  /\ Rounding!ConstantsAssumption
  /\ Memory!ConstantsAssumption
  /\ Delta!ConstantsAssumption
  /\ Mixed!ConstantsAssumption
  /\ Layers!ConstantsAssumption
  /\ Identity!ConstantsAssumption

-----------------------------------------------------------------------------
Init ==
  \/ part = "timestamp" /\ Timestamp!Init /\ Idle9
  \/ part = "parted" /\ Parted!Init /\ Idle9
  \/ part = "replaced" /\ Replaced!Init /\ Idle9
  \/ part = "watermark" /\ Watermark!Init /\ Idle9
  \/ part = "reconfigured" /\ Reconfigured!Init /\ Idle9
  \/ part = "merge" /\ Merge!Init /\ Idle8
  \/ part = "grain" /\ Grain!Init /\ Idle8
  \/ part = "decode" /\ Decode!Init /\ Idle13
  \/ part = "chunked" /\ Chunked!Init /\ Idle13
  \/ part = "asked" /\ Asked!Init /\ Idle13
  \/ part = "unbuilt" /\ Unbuilt!Init /\ Idle13
  \/ part = "union" /\ Union!Init /\ Idle9
  \/ part = "avro" /\ Avro!Init /\ Idle8
  \/ part = "avrolong" /\ AvroLong!Init /\ Idle8
  \/ part = "fit" /\ Fit!Init /\ Idle9
  \/ part = "fitnested" /\ FitNested!Init /\ Idle9
  \/ part = "fractions" /\ Fractions!Init /\ Idle9
  \/ part = "moments" /\ Moments!Init /\ Idle9
  \/ part = "rules" /\ Rules!Init /\ Idle5
  \/ part = "search" /\ Search!Init /\ Idle13
  \/ part = "longsearch" /\ LongSearch!Init /\ Idle13
  \/ part = "arrow" /\ Arrow!Init /\ Idle8
  \/ part = "fans" /\ Fans!Init /\ Idle4
  \/ part = "rounding" /\ Rounding!Init /\ Idle8
  \/ part = "memory" /\ Memory!Init /\ Idle15
  \/ part = "delta" /\ Delta!Init /\ Idle9
  \/ part = "mixed" /\ Mixed!Init /\ Idle9
  \/ part = "layers" /\ Layers!Init /\ Idle6
  \/ part = "identity" /\ Identity!Init /\ Idle6

Next ==
  \/ part = "timestamp" /\ Timestamp!Next /\ UNCHANGED Rest9
  \/ part = "parted" /\ Parted!Next /\ UNCHANGED Rest9
  \/ part = "replaced" /\ Replaced!Next /\ UNCHANGED Rest9
  \/ part = "watermark" /\ Watermark!Next /\ UNCHANGED Rest9
  \/ part = "reconfigured" /\ Reconfigured!Next /\ UNCHANGED Rest9
  \/ part = "merge" /\ Merge!Next /\ UNCHANGED Rest8
  \/ part = "grain" /\ Grain!Next /\ UNCHANGED Rest8
  \/ part = "decode" /\ Decode!Next /\ UNCHANGED Rest13
  \/ part = "chunked" /\ Chunked!Next /\ UNCHANGED Rest13
  \/ part = "asked" /\ Asked!Next /\ UNCHANGED Rest13
  \/ part = "unbuilt" /\ Unbuilt!Next /\ UNCHANGED Rest13
  \/ part = "union" /\ Union!Next /\ UNCHANGED Rest9
  \/ part = "avro" /\ Avro!Next /\ UNCHANGED Rest8
  \/ part = "avrolong" /\ AvroLong!Next /\ UNCHANGED Rest8
  \/ part = "fit" /\ Fit!Next /\ UNCHANGED Rest9
  \/ part = "fitnested" /\ FitNested!Next /\ UNCHANGED Rest9
  \/ part = "fractions" /\ Fractions!Next /\ UNCHANGED Rest9
  \/ part = "moments" /\ Moments!Next /\ UNCHANGED Rest9
  \/ part = "rules" /\ Rules!Next /\ UNCHANGED Rest5
  \/ part = "search" /\ Search!Next /\ UNCHANGED Rest13
  \/ part = "longsearch" /\ LongSearch!Next /\ UNCHANGED Rest13
  \/ part = "arrow" /\ Arrow!Next /\ UNCHANGED Rest8
  \/ part = "fans" /\ Fans!Next /\ UNCHANGED Rest4
  \/ part = "rounding" /\ Rounding!Next /\ UNCHANGED Rest8
  \/ part = "memory" /\ Memory!Next /\ UNCHANGED Rest15
  \/ part = "delta" /\ Delta!Next /\ UNCHANGED Rest9
  \/ part = "mixed" /\ Mixed!Next /\ UNCHANGED Rest9
  \/ part = "layers" /\ Layers!Next /\ UNCHANGED Rest6
  \/ part = "identity" /\ Identity!Next /\ UNCHANGED Rest6

Spec == Init /\ [][Next]_vars

-----------------------------------------------------------------------------
(* Properties *)

(* Type invariant of each component. *)
TypeOK ==
  /\ part = "timestamp" => Timestamp!TypeOK
  /\ part = "parted" => Parted!TypeOK
  /\ part = "replaced" => Replaced!TypeOK
  /\ part = "watermark" => Watermark!TypeOK
  /\ part = "reconfigured" => Reconfigured!TypeOK
  /\ part = "merge" => Merge!TypeOK
  /\ part = "decode" => Decode!TypeOK
  /\ part = "chunked" => Chunked!TypeOK
  /\ part = "asked" => Asked!TypeOK
  /\ part = "unbuilt" => Unbuilt!TypeOK
  /\ part = "union" => Union!TypeOK
  /\ part = "avro" => Avro!TypeOK
  /\ part = "avrolong" => AvroLong!TypeOK
  /\ part = "fit" => Fit!TypeOK
  /\ part = "fitnested" => FitNested!TypeOK
  /\ part = "fractions" => Fractions!TypeOK
  /\ part = "moments" => Moments!TypeOK
  /\ part = "rules" => Rules!TypeOK
  /\ part = "search" => Search!TypeOK
  /\ part = "longsearch" => LongSearch!TypeOK
  /\ part = "arrow" => Arrow!TypeOK
  /\ part = "fans" => Fans!TypeOK
  /\ part = "rounding" => Rounding!TypeOK
  /\ part = "memory" => Memory!TypeOK
  /\ part = "delta" => Delta!TypeOK
  /\ part = "mixed" => Mixed!TypeOK
  /\ part = "layers" => Layers!TypeOK
  /\ part = "identity" => Identity!TypeOK

(* After a rebuild by dbt, a replaced source or a crash inside the coverage
   window, the target has every row of the source and none twice, by a cut-off
   that file bounds, truncated or missing, never settle wrongly (pipeline.rs,
   dedup.rs, stats.rs). *)
HandedOver ==
  /\ part = "timestamp" => Timestamp!NoGap /\ Timestamp!NoDuplicate
  /\ part = "parted" => Parted!NoGap /\ Parted!NoDuplicate /\ Parted!StatsAgree
  /\ part = "replaced" => Replaced!NoGap /\ Replaced!NoDuplicate
  /\ part = "watermark" => Watermark!NoGap
  /\ part = "reconfigured" => Reconfigured!NoGap

(* An upsert's target has one row for a key, the newest of those read, with the
   columns of a co-writer as that one left them, whichever rival wins the race a
   merge is replanned after (upsert.rs, sink.rs). *)
MergedOnce ==
  part = "merge" => Merge!OneRowPerKey /\ Merge!Newest /\ Merge!CoWriterKept

(* The grain check finds a duplicate exactly when there is one, in a bounded
   buffer, and never has a class that it cannot divide (grain.rs). *)
GrainExact ==
  part = "grain" => Grain!Exact /\ Grain!WithinCeiling /\ Grain!NeverUndividable

(* Every message becomes its own row or its own reject, once, and is blamed only
   for what is wrong with itself: not for a neighbour in its chunk, not for a
   schema the union lacks; and the walk over its bytes accepts exactly the
   encodings, in work the bytes bound (decode.rs, wire.rs, conform.rs). *)
MessagesAccounted ==
  /\ part = "decode" =>
       /\ Decode!AccountedOnce
       /\ Decode!OwnRow
       /\ Decode!NoneBlamedInVain
       /\ Decode!PendingExact
  /\ part = "chunked" =>
       /\ Chunked!AccountedOnce
       /\ Chunked!OwnRow
       /\ Chunked!NoneBlamedInVain
       /\ Chunked!PendingExact
  /\ part = "asked" => Asked!AccountedOnce /\ Asked!NoneBlamedInVain
  /\ part = "unbuilt" => Unbuilt!AccountedOnce /\ Unbuilt!PendingExact
  /\ part = "union" => Union!Covered /\ Union!NewestIn
  /\ part = "avro" => Avro!BuiltWhenLegal /\ Avro!Exact /\ Avro!WorkBounded
  /\ part = "avrolong" => AvroLong!BuiltWhenLegal /\ AvroLong!Exact /\ AvroLong!WorkBounded

(* Fitting rows to the union of schemas and to the target's types changes no
   value in silence: columns are matched by name at every depth, fractions and
   precision are kept or the row is refused, a null is never made up, a moment
   never moved, and only the bad row is set aside (conform.rs, schema.rs). *)
ValuesKept ==
  /\ part = "fit" =>
       /\ Fit!AlignedUnchanged
       /\ Fit!WrittenByName
       /\ Fit!DecimalsExact
       /\ Fit!NotNullHolds
       /\ Fit!Accounted
  /\ part = "fitnested" =>
       /\ FitNested!AlignedUnchanged
       /\ FitNested!WrittenByName
       /\ FitNested!NotNullHolds
       /\ FitNested!Accounted
  /\ part = "fractions" =>
       /\ Fractions!NothingTruncated
       /\ Fractions!NoSilentNull
       /\ Fractions!OnlyTheBadRow
  /\ part = "moments" => Moments!MomentKept

(* A query that is accepted means over parts of a batch what it means over the
   batch, keeps the source's grain and adds up when published; and what runs
   after lambdas, UNNEST and decimals were rewritten is what was written
   (validate.rs, lambda.rs, unnest.rs, decimal.rs). *)
QueriesMean ==
  /\ part = "rules" =>
       /\ Rules!NothingFromNothing
       /\ Rules!RowLocal
       /\ Rules!EnrichKeepsGrain
       /\ Rules!AcceptedResolves
       /\ Rules!PublishedAddsUp
  /\ part = "arrow" => Arrow!AsWritten /\ Arrow!RefusedExactly
  /\ part = "fans" => Fans!FansOut /\ Fans!NamesKept
  /\ part = "rounding" => Rounding!LongIsNearest /\ Rounding!SideIrrelevant

(* The search for the rows a query fails on sets aside bad rows only, returns
   the rest in order, keeps to its cap, shared fairly by the record batches, and
   to its number of runs (sql.rs). *)
BadRowsFound ==
  /\ part = "search" =>
       /\ Search!RestInOrder
       /\ Search!OnlyTheBad
       /\ Search!CapHolds
       /\ Search!CapFair
  /\ part = "longsearch" => LongSearch!RunsBounded

(* Batches sized by the measured ratio stay within the budget, all pipelines
   together within one disk budget, and memory or spill space that ran out is
   reported as such, not as an error of the table or of a value; a spill file
   that cannot be created under a merge or a write is excepted (budget.rs,
   spill.rs). *)
WithinMachine ==
  part = "memory" =>
     /\ Memory!WithinBudget
     /\ Memory!OneSpillBudget
     /\ Memory!MachineIsCapacity

(* What config.rs lets run does not collide: stages stay private to their pair,
   cascades can be read, a publication holds no ingestion back, offsets and
   rejects have namespaces of their own; and of a Kafka pipeline's layered
   settings the last one wins under one name, the forced ones hold, an identity
   is whole and each starting offset is honoured. *)
ConfiguredApart ==
  /\ part = "delta" =>
       /\ Delta!StagePrivate
       /\ Delta!CascadeReadable
       /\ Delta!SplitNotCopied
       /\ Delta!PublishNeverStops
       /\ Delta!OnePublisher
  /\ part = "mixed" => Mixed!OffsetsApart /\ Mixed!RejectsApart
  /\ part = "layers" => Layers!ForcedHold /\ Layers!OneNameEach /\ Layers!LastLayerWins
  /\ part = "identity" => Identity!IdentityWhole /\ Identity!StartHonoured

(* What no single step may undo: a stored row replaced by an older one, a schema
   dropped from the union, an expression changed by a second normalisation
   (upsert.rs, conform.rs, lambda.rs). *)
NeverUndone ==
  [][/\ part = "merge" => Merge!NoRollback
     /\ part = "union" => Union!OnlyGrows
     /\ part = "arrow" => Arrow!Settled]_vars
=============================================================================
