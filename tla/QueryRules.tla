----------------------------- MODULE QueryRules -----------------------------
(***************************************************************************)
(* Which SQL a pipeline may run over its batches (src/src/transform/       *)
(* validate.rs): the checks of a transform and of a publication, and the   *)
(* test whether a transform may be evaluated in parts.  A query is a tree  *)
(* of selects with the clauses the checks look at; what it returns is      *)
(* external, as the engine has it, and small: a row is [id, v], IN asks    *)
(* for v, a lookup joined puts its rate in v, HAVING asks that v is more   *)
(* than one.                                                               *)
(***************************************************************************)
EXTENDS Integers, Sequences, FiniteSets, SequencesExt

CONSTANTS
  Queries,     \* the queries written
  Lookups,     \* the names of the declared lookups
  Batch,       \* the rows of the batch
  Rates        \* the rows of every lookup: [key, rate]

(* Assumed of the constants; the suites that instantiate the module assume it. *)
ConstantsAssumption ==
  /\ Batch \in Seq([id : Nat, v : Nat]) /\ Rates \in Seq([key : Nat, rate : Nat])
  /\ \A i, j \in DOMAIN Rates : Rates[i].key = Rates[j].key => i = j

Grains == {"Preserved", "PerBatch"}
AggregationAllowed(grain) == grain = "PerBatch"

----------------------------------------------------------------------------
(* Trees.  What may be absent is a sequence of at most one. *)

Query(ctes, body, limit) == [ctes |-> ctes, body |-> body, limit |-> limit]
Cte(name, query) == [name |-> name, query |-> query]
NoSelect == <<>>
Body(select) == [kind |-> "select", select |-> <<select>>, query |-> <<>>, op |-> "", all |-> FALSE, sides |-> <<>>]
Paren(query) == [kind |-> "query", select |-> NoSelect, query |-> <<query>>, op |-> "", all |-> FALSE, sides |-> <<>>]
SetOp(op, all, l, r) == [kind |-> "op", select |-> NoSelect, query |-> <<>>, op |-> op, all |-> all, sides |-> <<l, r>>]
Values == [kind |-> "values", select |-> NoSelect, query |-> <<>>, op |-> "", all |-> FALSE, sides |-> <<>>]
Table(name) == [kind |-> "table", name |-> name, plain |-> TRUE, query |-> <<>>]
Sampled(name) == [kind |-> "table", name |-> name, plain |-> FALSE, query |-> <<>>]
Derived(query) == [kind |-> "derived", name |-> "", plain |-> FALSE, query |-> <<query>>]
Nested == [kind |-> "nested", name |-> "source", plain |-> FALSE, query |-> <<>>]
Join(op, relation, on) == [op |-> op, relation |-> relation, on |-> on]
Select(from, joins, item) ==
  [from |-> from, joins |-> joins, item |-> item, where |-> <<>>, group |-> FALSE, having |-> FALSE,
   distinct |-> FALSE, top |-> FALSE]

(* Of the names of functions: what the engine aggregates or windows with, and what
   a client can add to what it has. *)
Aggregates == {"sum", "avg", "rank"}
\* Mutant: avg may be published.
CombinableAvg == {"sum", "avg"}
Combinable == {"sum"}

----------------------------------------------------------------------------
(* The checks *)

CteNames(q) == {q.ctes[i].name : i \in DOMAIN q.ctes}
IsLookup(f) == f.name \in Lookups

RECURSIVE JoinCount(_), JoinCountSet(_), JoinCountFrom(_, _)
(* lookup_join_count: the lookups in the one place they may be, outside the
   subqueries of expressions. *)
JoinCountFrom(factors, joins) ==
  (IF factors = <<>> THEN 0
   ELSE (IF Head(factors).kind = "derived" THEN JoinCount(Head(factors).query[1]) ELSE 0)
        + JoinCountFrom(Tail(factors), <<>>))
  + Len(SelectSeq(joins, LAMBDA j : j.relation.kind = "table" /\ IsLookup(j.relation)))
JoinCountSet(b) ==
  CASE b.kind = "select" -> JoinCountFrom(b.select[1].from, b.select[1].joins)
    [] b.kind = "query" -> JoinCount(b.query[1])
    [] b.kind = "op" -> JoinCountSet(b.sides[1]) + JoinCountSet(b.sides[2])
    [] OTHER -> 0
JoinCount(q) ==
  FoldSeq(LAMBDA cte, n : JoinCount(cte.query) + n, JoinCountSet(q.body), q.ctes)

RECURSIVE Visit(_, _, _), VisitSet(_, _, _), VisitSelect(_, _, _)
(* StatefulConstructVisitor, in the order it walks: the CTE names it has met so
   far, the lookups it has counted, whether it has found nothing. *)
\* Mutant: a name nobody declared is left to the engine.
VisitRelationAny(name, st) ==
  IF name \in st.ctes THEN st ELSE IF name \in Lookups THEN [st EXCEPT !.refs = @ + 1] ELSE st
VisitRelation(name, st) ==
  IF name \in st.ctes THEN st
  ELSE IF name \in Lookups THEN [st EXCEPT !.refs = @ + 1]
  ELSE [st EXCEPT !.ok = @ /\ name = "source"]

\* Mutant: a window needs no look.
VisitExprAggregates(item, grain, st) ==
  [st EXCEPT !.ok = @ /\ (item \in Aggregates => AggregationAllowed(grain) /\ item \in Combinable)
                      /\ item # "count distinct"]

VisitExpr(item, grain, st) ==
  [st EXCEPT !.ok = @ /\ item # "over"
                      /\ (item \in Aggregates => AggregationAllowed(grain) /\ item \in Combinable)
                      /\ item # "count distinct"]

VisitFactor(f, grain, st) ==
  CASE f.kind = "table" -> VisitRelation(f.name, st)
    [] f.kind = "derived" -> Visit(f.query[1], grain, st)
    [] OTHER -> st
VisitSelect(s, grain, st) ==
  LET item == VisitExpr(s.item, grain, st)
      factors == s.from \o [i \in DOMAIN s.joins |-> s.joins[i].relation]
      from == FoldLeft(LAMBDA a, f : VisitFactor(f, grain, a), item, factors)
  IN  FoldLeft(LAMBDA a, q : Visit(q, grain, a), from, s.where)
VisitSet(b, grain, st) ==
  CASE b.kind = "select" -> VisitSelect(b.select[1], grain, st)
    [] b.kind = "query" -> Visit(b.query[1], grain, st)
    [] b.kind = "op" -> VisitSet(b.sides[2], grain, VisitSet(b.sides[1], grain, st))
    [] OTHER -> st
Visit(q, grain, st) ==
  LET named == [st EXCEPT !.ctes = @ \cup CteNames(q)]
      ctes == FoldLeft(LAMBDA a, cte : Visit(cte.query, grain, a), named, q.ctes)
  IN  VisitSet(q.body, grain, ctes)

\* Mutant: ON true will do.
KeyEqualityAny(on) == TRUE

(* has_lookup_key_equality: "key" relates a column of the lookup to one of the
   source; "true" relates nothing, "mixed" has both on one side. *)
KeyEquality(on) == on = "key"

CheckJoin(j) ==
  /\ j.op = "left" /\ j.relation.kind = "table"
  /\ j.relation.plain /\ IsLookup(j.relation) /\ KeyEquality(j.on)

(* What the visitor saw: nothing refused, and no lookup but the joins counted. *)
LookupsPlaced(seen, q) == seen.ok /\ seen.refs = JoinCount(q)

RECURSIVE CheckQuery(_, _, _), CheckSetExpr(_, _, _)
(* check_base_table_factor. *)
CheckBase(f, scope, grain) ==
  CASE f.kind = "table" -> f.plain /\ ~IsLookup(f)
    [] f.kind = "derived" -> CheckQuery(f.query[1], scope, grain)
    [] f.kind = "unnest" -> TRUE
    [] OTHER -> FALSE

CheckSelect(s, scope, grain) ==
  /\ AggregationAllowed(grain) \/ ~(s.group \/ s.having \/ s.distinct)
  /\ Len(s.from) <= 1
  /\ \A i \in DOMAIN s.from : CheckBase(s.from[i], scope, grain)
  /\ \A i \in DOMAIN s.joins : CheckJoin(s.joins[i])

\* Mutant: VALUES is a query like any other.
CheckSetExprValues(b, scope, grain) ==
  CASE b.kind = "select" -> CheckSelect(b.select[1], scope, grain)
    [] b.kind = "query" -> CheckQuery(b.query[1], scope, grain)
    [] b.kind = "op" -> CheckSetExpr(b.sides[1], scope, grain) /\ CheckSetExpr(b.sides[2], scope, grain)
    [] OTHER -> TRUE

CheckSetExpr(b, scope, grain) ==
  CASE b.kind = "select" -> CheckSelect(b.select[1], scope, grain)
    [] b.kind = "query" -> CheckQuery(b.query[1], scope, grain)
    [] b.kind = "op" -> CheckSetExpr(b.sides[1], scope, grain) /\ CheckSetExpr(b.sides[2], scope, grain)
    [] OTHER -> FALSE

CheckQuery(q, scope, grain) ==
  LET inner == scope \cup CteNames(q)
  IN  /\ CteNames(q) \cap Lookups = {}
      /\ \A i \in DOMAIN q.ctes : CheckQuery(q.ctes[i].query, inner, grain)
      /\ CheckSetExpr(q.body, inner, grain)
      /\ LookupsPlaced(Visit(q, grain, [ctes |-> inner, refs |-> 0, ok |-> TRUE]), q)

(* A publication is offered no lookup. *)
Accepts(q, grain) == CheckQuery(q, {}, grain) /\ (grain = "PerBatch" => JoinCount(q) = 0)

RECURSIVE CrossRowSet(_), SubQueries(_), SubQueriesSet(_)
(* cross_row_set_expr: of the top of one body. *)
CrossRowSet(b) ==
  CASE b.kind = "op" -> b.op # "union" \/ ~b.all \/ CrossRowSet(b.sides[1]) \/ CrossRowSet(b.sides[2])
    [] b.kind = "select" -> b.select[1].top
    [] OTHER -> FALSE

SubQueriesSelect(s) ==
  UNION ({SubQueries(s.from[i].query[1]) : i \in {k \in DOMAIN s.from : s.from[k].kind = "derived"}}
         \cup {SubQueries(s.where[i]) : i \in DOMAIN s.where})
SubQueriesSet(b) ==
  CASE b.kind = "select" -> SubQueriesSelect(b.select[1])
    [] b.kind = "query" -> SubQueries(b.query[1])
    [] b.kind = "op" -> SubQueriesSet(b.sides[1]) \cup SubQueriesSet(b.sides[2])
    [] OTHER -> {}
SubQueries(q) ==
  {q} \cup SubQueriesSet(q.body) \cup UNION {SubQueries(q.ctes[i].query) : i \in DOMAIN q.ctes}

RECURSIVE HasSubqueryExpr(_)
HasSubqueryExpr(b) ==
  CASE b.kind = "select" -> b.select[1].where # <<>>
    [] b.kind = "op" -> HasSubqueryExpr(b.sides[1]) \/ HasSubqueryExpr(b.sides[2])
    [] OTHER -> FALSE

(* cross_row_construct. *)
CrossRow(q) ==
  \E s \in SubQueries(q) : s.limit \/ CrossRowSet(s.body) \/ HasSubqueryExpr(s.body)

----------------------------------------------------------------------------
(* External: what a query returns.  env holds the CTEs in scope, fx the lookup. *)

RECURSIVE Eval(_, _, _, _), EvalSet(_, _, _, _), EvalCtes(_, _, _, _), EvalFactor(_, _, _, _)
RECURSIVE Resolves(_, _), ResolvesSet(_, _)

OneRow == <<[id |-> 0, v |-> 1]>>
Vs(rows) == {rows[i].v : i \in DOMAIN rows}
SumOf(rows) == FoldSeq(LAMBDA r, n : r.v + n, 0, rows)
Distinct(rows) == FoldLeft(LAMBDA a, r : IF Contains(a, r) THEN a ELSE Append(a, r), <<>>, rows)
Flat(f(_), s) == FoldLeft(LAMBDA a, x : a \o f(x), <<>>, s)

Joined(rows, j, fx) ==
  Flat(LAMBDA r : LET hits == SelectSeq(fx, LAMBDA l : j.on # "key" \/ l.key = r.v)
                  IN  IF hits = <<>> THEN (IF j.op = "left" THEN <<r>> ELSE <<>>)
                      ELSE [i \in DOMAIN hits |-> [id |-> r.id, v |-> hits[i].rate]], rows)

Aggregate(rows, item, id) ==
  [id |-> id, v |-> CASE item = "avg" -> (IF rows = <<>> THEN 0 ELSE SumOf(rows) \div Len(rows))
                      [] item = "count distinct" -> Cardinality(Vs(rows))
                      [] OTHER -> SumOf(rows)]
Item(rows, s) ==
  CASE s.group -> LET ids == Distinct([i \in DOMAIN rows |-> rows[i].id])
                  IN  [k \in DOMAIN ids |->
                         Aggregate(SelectSeq(rows, LAMBDA r : r.id = ids[k]), s.item, ids[k])]
    [] s.item \in {"sum", "avg", "count distinct"} -> <<Aggregate(rows, s.item, 0)>>
    [] s.item = "over" -> [i \in DOMAIN rows |-> [id |-> rows[i].id, v |-> i]]
    [] s.item = "unnest" -> Flat(LAMBDA r : <<r, r>>, rows)
    [] OTHER -> rows

(* The clauses after FROM, in the engine's order. *)
First(one, rows) == IF one /\ rows # <<>> THEN <<Head(rows)>> ELSE rows
Where(rows, kept) == SelectSeq(rows, LAMBDA r : \A i \in DOMAIN kept : r.v \in Vs(kept[i]))
Having(rows, s) == IF s.having THEN SelectSeq(rows, LAMBDA r : r.v > 1) ELSE rows
Once(rows, s) == IF s.distinct THEN Distinct(rows) ELSE rows
Cross(left, right) == Flat(LAMBDA r : [i \in DOMAIN right |-> r], left)

EvalFactor(f, env, b, fx) ==
  CASE f.kind = "derived" -> Eval(f.query[1], env, b, fx)
    [] f.kind = "table" /\ f.name \in DOMAIN env -> env[f.name]
    [] f.kind = "table" /\ f.name \in Lookups -> [i \in DOMAIN fx |-> [id |-> 0, v |-> fx[i].rate]]
    [] f.kind = "table" -> b
    [] OTHER -> OneRow
EvalSelect(s, env, b, fx) ==
  LET from == IF s.from = <<>> THEN OneRow
              ELSE FoldLeft(Cross, EvalFactor(Head(s.from), env, b, fx),
                            [i \in DOMAIN Tail(s.from) |-> EvalFactor(s.from[i + 1], env, b, fx)])
      joined == FoldLeft(LAMBDA a, j : Joined(a, j, fx), from, s.joins)
      kept == Where(joined, [i \in DOMAIN s.where |-> Eval(s.where[i], env, b, fx)])
  IN  First(s.top, Once(Having(Item(kept, s), s), s))

Combined(body, l, r) ==
  CASE body.op = "union" -> IF body.all THEN l \o r ELSE Distinct(l \o r)
    [] body.op = "intersect" -> Distinct(SelectSeq(l, LAMBDA x : Contains(r, x)))
    [] OTHER -> Distinct(SelectSeq(l, LAMBDA x : ~Contains(r, x)))
EvalSet(body, env, b, fx) ==
  CASE body.kind = "select" -> EvalSelect(body.select[1], env, b, fx)
    [] body.kind = "query" -> Eval(body.query[1], env, b, fx)
    [] body.kind = "op" ->
         Combined(body, EvalSet(body.sides[1], env, b, fx), EvalSet(body.sides[2], env, b, fx))
    [] OTHER -> OneRow
EvalCtes(ctes, env, b, fx) ==
  IF ctes = <<>> THEN env
  ELSE LET rows == Eval(Head(ctes).query, env, b, fx)
       IN  EvalCtes(Tail(ctes),
                    [n \in DOMAIN env \cup {Head(ctes).name} |->
                       IF n = Head(ctes).name THEN rows ELSE env[n]], b, fx)
Eval(q, env, b, fx) == First(q.limit, EvalSet(q.body, EvalCtes(q.ctes, env, b, fx), b, fx))

(* Every relation named is one the session has, or a CTE in scope. *)
ResolvesSet(b, scope) ==
  LET Known(f) == CASE f.kind = "derived" -> Resolves(f.query[1], scope)
                    [] f.kind = "table" -> f.name \in scope \cup Lookups \cup {"source"}
                    [] OTHER -> TRUE
  IN  CASE b.kind = "select" ->
             /\ \A i \in DOMAIN b.select[1].from : Known(b.select[1].from[i])
             /\ \A i \in DOMAIN b.select[1].joins : Known(b.select[1].joins[i].relation)
             /\ \A i \in DOMAIN b.select[1].where : Resolves(b.select[1].where[i], scope)
        [] b.kind = "query" -> Resolves(b.query[1], scope)
        [] b.kind = "op" -> ResolvesSet(b.sides[1], scope) /\ ResolvesSet(b.sides[2], scope)
        [] OTHER -> TRUE
Resolves(q, scope) ==
  /\ \A i \in DOMAIN q.ctes :
       Resolves(q.ctes[i].query, scope \cup {q.ctes[k].name : k \in 1 .. i - 1})
  /\ ResolvesSet(q.body, scope \cup CteNames(q))

----------------------------------------------------------------------------
(* A query is written, checked, and run over the batch and over its parts. *)

VARIABLES query, grain, verdict, whole, parts

vars == <<query, grain, verdict, whole, parts>>
NoEnv == [n \in {} |-> <<>>]
Answer(b, fx) == Eval(query, NoEnv, b, fx)

Init ==
  /\ query \in Queries /\ grain \in Grains
  /\ verdict = "unread" /\ whole = <<>> /\ parts = {}

Validate ==
  /\ verdict = "unread"
  /\ verdict' = IF Accepts(query, grain) THEN "accepted" ELSE "refused"
  /\ UNCHANGED <<query, grain, whole, parts>>

Run ==
  /\ verdict = "accepted" /\ Resolves(query, {})
  /\ verdict' = "run"
  /\ whole' = Answer(Batch, Rates)
  /\ parts' = {<<Answer(SubSeq(Batch, 1, n), Rates), Answer(SubSeq(Batch, n + 1, Len(Batch)), Rates)>> :
                 n \in 0 .. Len(Batch)}
  /\ UNCHANGED <<query, grain>>

Next == Validate \/ Run
Spec == Init /\ [][Next]_vars

----------------------------------------------------------------------------
(* Properties *)

SameRows(s, t) == \A x \in Range(s) \cup Range(t) :
                    Cardinality({i \in DOMAIN s : s[i] = x}) = Cardinality({i \in DOMAIN t : t[i] = x})

(* Type invariant; no verdict goes by the top of a query alone. *)
TypeOK ==
  /\ verdict \in {"unread", "refused", "accepted", "run"}
  /\ verdict \in {"accepted", "run"} => \A s \in SubQueries(query) : CteNames(s) \cap Lookups = {}
  /\ verdict = "run" => whole \in Seq([id : Nat, v : Nat])

(* A transform that cross_row_construct names nothing in is row-local: the answer
   for the batch is the answers for its parts put together. (validate.rs:339) *)
RowLocal ==
  verdict = "run" /\ grain = "Preserved" /\ ~CrossRow(query)
    => \A p \in parts : SameRows(p[1] \o p[2], whole)

(* No output without input: what is not the source defines no rows. *)
NothingFromNothing ==
  verdict = "run" /\ grain = "Preserved" => Answer(<<>>, Rates) = <<>>

ComparesRows == \E s \in SubQueries(query) : CrossRowSet(s.body)

(* A lookup enriches: where its keys are unique it neither removes nor multiplies
   the rows of the source, in a query that compares no rows with each other by a set
   operation of its own. (validate.rs:1012, check_lookup_join) *)
EnrichKeepsGrain ==
  verdict = "run" /\ grain = "Preserved" /\ ~ComparesRows => Len(whole) = Len(Answer(Batch, <<>>))

(* What is accepted can be planned: every relation it names is there. *)
AcceptedResolves == verdict = "accepted" => Resolves(query, {})

SumFor(rows, id) == SumOf(SelectSeq(rows, LAMBDA r : r.id = id))

(* A publication that groups is a delta over one batch and the total over all:
   the sums of two parts add up to those of the whole. (validate.rs,
   COMBINABLE_AGGREGATES) *)
PublishedAddsUp ==
  verdict = "run" /\ grain = "PerBatch" /\ query.body.kind = "select" /\ query.body.select[1].group
    => \A p \in parts : \A id \in {Batch[i].id : i \in DOMAIN Batch} :
         SumFor(p[1], id) + SumFor(p[2], id) = SumFor(whole, id)

=============================================================================
