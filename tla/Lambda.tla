------------------------------- MODULE Lambda -------------------------------
(***************************************************************************)
(* transform(array, x -> body) and filter(array, x -> body)                *)
(* (src/src/transform/lambda.rs): the fold at config load, which turns a   *)
(* body into text and what it reads of the row into numbered captures, the *)
(* gate the folded form has to pass again on every normalisation, the      *)
(* quoting of text inside text (validate.rs validate_query), and the       *)
(* evaluation of the text over the flattened elements of a batch, with the *)
(* cache of planned bodies all batches of a process share.                 *)
(*                                                                         *)
(* Text is the expression it parses to.  A literal holding text carries    *)
(* how many times its quotes were doubled, and Trip says what rendering    *)
(* and parsing make of it.  The reference evaluates the query as written,  *)
(* row by row and element by element, with lexical scope and no captures.  *)
(***************************************************************************)
EXTENDS Integers, Sequences, FiniteSets, SequencesExt, TLC

CONSTANTS
  Queries,     \* the expressions written in a SELECT list
  Batches,     \* the batches: sequences of rows, a row maps names to values
  Types,       \* the type the array's elements have in a batch (the JSON marker included)
  MaxRuns      \* bound on the batches of a process

(* Assumed of the constants; the suites that instantiate the module assume it. *)
ConstantsAssumption == MaxRuns \in Nat \ {0}

VARIABLES
  written,   \* the query as written
  place,     \* where it stands: "select", or as the array of an UNNEST
  query,     \* the query as the engine runs it
  passes,    \* normalisations so far
  status,    \* "new", "ready" or "refused"
  cache,     \* planned bodies
  clock,
  last       \* the batch evaluated last, and its column

vars == <<written, place, query, passes, status, cache, clock, last>>

----------------------------------------------------------------------------
(* Values and expressions. *)

Null == [k |-> "null"]
Bad == [k |-> "bad"]
Num(n) == [k |-> "num", n |-> n]
Lst(s) == [k |-> "list", s |-> s]

Plus(a, b) ==
  IF "bad" \in {a.k, b.k} \/ "list" \in {a.k, b.k} THEN Bad
  ELSE IF "null" \in {a.k, b.k} THEN Null ELSE Num((3 * a.n + b.n) % 31)
FieldOf(v) == IF v.k = "num" THEN Num((v.n + 10) % 31) ELSE IF v.k = "null" THEN Null ELSE Bad
Truth(v) == v.k = "num" /\ v.n % 2 = 1     \* NULL is not true

NoText == [esc |-> 0]
E(op, kind, ids, kids, lit) == [op |-> op, kind |-> kind, ids |-> ids, kids |-> kids, lit |-> lit]
Garbled == E("garbled", "", <<>>, <<>>, NoText)

CapName == <<"__capture_0", "__capture_1", "__capture_2", "__capture_3", "__capture_4">>
Quoted(v) == [v |-> v, q |-> TRUE]
Var(id) == E("var", "", <<id>>, <<>>, NoText)

(* The subexpressions the visitor meets: a literal's text is not among them. *)
RECURSIVE Within(_)
Within(e) == {e} \cup UNION {Within(e.kids[i]) : i \in DOMAIN e.kids}

RECURSIVE FoldedWithin(_)
FoldedWithin(e) ==
  LET here == {f \in Within(e) : f.op = "folded"}
  IN  here \cup UNION {FoldedWithin(f.lit.t) : f \in here}

----------------------------------------------------------------------------
(* Names and captures. *)

Lower(v) == IF v = "X" THEN "x" ELSE v
PlannerName(id) == IF id.q THEN id.v ELSE Lower(id.v)

(* Captures::index: one number for each distinct expression. *)
Index(seen, e) == IF Contains(seen, e) THEN CHOOSE i \in DOMAIN seen : seen[i] = e ELSE Len(seen) + 1

RECURSIVE CaptureAll(_, _, _, _)
RECURSIVE Capture(_, _, _)

(* The children a capture may sit in: of an access chain the root and the subscript. *)
CapturedKids(e) == IF e.op = "chain" THEN {1, 3} ELSE DOMAIN e.kids

CaptureAll(e, i, param, seen) ==
  IF i > Len(e.kids) THEN [e |-> e, seen |-> seen]
  ELSE LET c == IF i \in CapturedKids(e) THEN Capture(e.kids[i], param, seen) ELSE [e |-> e.kids[i], seen |-> seen]
       IN  CaptureAll([e EXCEPT !.kids[i] = c.e], i + 1, param, c.seen)

Capture(e, param, seen) ==
  IF e.op \in {"var", "fld"} /\ PlannerName(e.ids[1]) # param
  THEN LET n == Index(seen, e)
       IN  [e |-> Var([v |-> CapName[n], q |-> FALSE]),
            seen |-> IF n > Len(seen) THEN Append(seen, e) ELSE seen]
  ELSE CaptureAll(e, 1, param, seen)

----------------------------------------------------------------------------
(* Text inside text.  A string in a body has its quotes; a folded call in a body holds the
   quotes of its own body doubled. *)

HasQuotes(t) == \E e \in Within(t) : e.op \in {"str", "folded"}
HasDoubled(t) == \E e \in Within(t) : e.op = "folded" /\ HasQuotes(e.lit.t)

Literal(t) == [t |-> t, esc |-> 1]

Reencoded(f) == [f EXCEPT !.lit.esc = @ + 1]

(* sqlparser renders a literal by doubling a quote unless it is already doubled. *)
Sent(lit) ==
  LET same == \/ lit.esc = 1
              \/ lit.esc = 0 /\ ~HasDoubled(lit.t)
              \/ lit.esc > 1 /\ ~HasQuotes(lit.t)
  IN  [t |-> IF same THEN lit.t ELSE Garbled, esc |-> 0]

(* Rendering an expression and reading it back. *)
RECURSIVE Trip(_)
Trip(e) ==
  LET kids == [i \in DOMAIN e.kids |-> Trip(e.kids[i])]
  IN  IF e.op = "folded" THEN [e EXCEPT !.kids = kids, !.lit = Sent(@)] ELSE [e EXCEPT !.kids = kids]

RECURSIVE Reencode(_)
Reencode(e) ==
  LET f == [e EXCEPT !.kids = [i \in DOMAIN e.kids |-> Reencode(e.kids[i])]]
  IN  IF e.op = "folded" THEN Reencoded(f) ELSE f

----------------------------------------------------------------------------
(* The gate and the fold. *)

(* check_body: no subquery, no aggregate or window, no lambda. *)
CheckBody(body) == \A e \in Within(body) : e.op \notin {"subquery", "aggregate", "call", "other", "lone"}

\* Mutant: only the outermost text is checked.
CheckFoldedOnce(f) ==
  /\ CheckBody(f.lit.t)
  /\ \A e \in Within(f.lit.t), n \in DOMAIN CapName :
        e.op = "var" /\ e.ids[1].v = CapName[n] => n <= Len(f.kids) - 1

(* check_folded: the body, every folded call in it, and a value for every capture it names. *)
RECURSIVE CheckFolded(_)
CheckFolded(f) ==
  /\ CheckBody(f.lit.t)
  /\ \A e \in Within(f.lit.t) : e.op = "folded" => CheckFolded(e)
  /\ \A e \in Within(f.lit.t), n \in DOMAIN CapName :
        e.op = "var" /\ e.ids[1].v = CapName[n] => n <= Len(f.kids) - 1

(* One call, its arguments already folded. *)
FoldCall(f) ==
  LET param == PlannerName(f.ids[1])
      c == Capture(f.kids[2], param, <<>>)
  IN  E("folded", f.kind, <<Quoted(param)>>, <<f.kids[1]>> \o c.seen, Literal(Trip(c.e)))

Accepted(e) == [ok |-> TRUE, e |-> e]

\* Mutant: a call folded before is left as it was parsed.
ReplacementParsed(f) ==
  CASE f.op = "folded" -> [ok |-> CheckFolded(f), e |-> f]
    [] f.op = "call" -> IF Len(f.ids) = 1 /\ CheckBody(f.kids[2]) THEN Accepted(FoldCall(f)) ELSE [ok |-> FALSE, e |-> f]
    [] f.op = "other" -> [ok |-> FALSE, e |-> f]
    [] OTHER -> Accepted(f)

Replacement(f) ==
  CASE f.op = "folded" -> [ok |-> CheckFolded(f), e |-> Reencoded(f)]
    [] f.op = "call" -> IF Len(f.ids) = 1 /\ CheckBody(f.kids[2]) THEN Accepted(FoldCall(f)) ELSE [ok |-> FALSE, e |-> f]
    [] f.op = "other" -> [ok |-> FALSE, e |-> f]
    [] OTHER -> Accepted(f)

(* Inside-out: the body of an outer lambda sees only function calls. *)
RECURSIVE Fold(_)
Fold(e) ==
  LET kids == [i \in DOMAIN e.kids |-> Fold(e.kids[i])]
      r == Replacement([e EXCEPT !.kids = [i \in DOMAIN kids |-> kids[i].e]])
  IN  IF \A i \in DOMAIN kids : kids[i].ok THEN r ELSE [ok |-> FALSE, e |-> e]

Rewrite(e) ==
  LET r == Fold(e) IN [r EXCEPT !.ok = @ /\ \A s \in Within(r.e) : s.op # "lone"]

(* The array of an UNNEST is rendered on its own and read back (unnest.rs). *)
RewriteUnnest(e, where) == IF where = "unnest" THEN Trip(Reencode(e)) ELSE e

----------------------------------------------------------------------------
(* Evaluation, a column at a time. *)

(* May the planned body be kept?  Only functions outside nested text are looked at. *)
Keep(body) == \A e \in Within(body) : e.op # "now"

\* Mutant: the types the body was planned over are not part of the key.
CacheKeyUntyped(f, ty) == <<f.kind, f.ids[1].v, f.lit.t>>

CacheKey(f, ty) == <<f.kind, f.ids[1].v, f.lit.t, ty>>

(* Every body of a query is planned when the query is, nested ones included. *)
Planned(e, kept, ty, now) ==
  LET new == {CacheKey(f, ty) : f \in {g \in FoldedWithin(e) : Keep(g.lit.t)}} \ DOMAIN kept
  IN  kept @@ [key \in new |-> [ty |-> ty, at |-> now]]

Compile(f, kept, ctx) ==
  IF CacheKey(f, ctx.type) \in DOMAIN kept THEN kept[CacheKey(f, ctx.type)] ELSE [ty |-> ctx.type, at |-> ctx.now]

(* The simplifier evaluates a call of an immutable function over literals as it plans. *)
Constant(f) == \A i \in DOMAIN f.kids : f.kids[i].op = "lits"

Lookup(env, name) == IF name \in DOMAIN env THEN env[name] ELSE Bad
Field(env, id) == IF PlannerName(id) \in DOMAIN env THEN FieldOf(env[PlannerName(id)]) ELSE Lookup(env, "t.f")
Access(field, root, sub) ==
  IF field.op = "var" /\ field.ids[1].v = "c" THEN Plus(FieldOf(root), sub) ELSE Bad

(* The elements of each row; none for a row whose array is NULL. *)
Flatten(arrays) == [r \in DOMAIN arrays |-> IF arrays[r].k = "list" THEN arrays[r].s ELSE <<>>]

(* The row an element of the flattened column came from. *)
Before(lists, r) == Len(FlattenSeq(SubSeq(lists, 1, r - 1)))
RowOf(lists, i) ==
  CHOOSE r \in DOMAIN lists : Before(lists, r) < i /\ i <= Before(lists, r) + Len(lists[r])

Kept(kind, elements, results) ==
  IF kind = "transform" THEN results
  ELSE LET true == SelectSeq([i \in DOMAIN elements |-> i], LAMBDA i : Truth(results[i]))
       IN  [j \in DOMAIN true |-> elements[true[j]]]

(* Results are cut back into a list per row, by the lengths. *)
FoldBack(kind, arrays, lists, results) ==
  [r \in DOMAIN arrays |->
     IF arrays[r].k # "list" THEN IF arrays[r].k = "null" THEN Null ELSE Bad
     ELSE LET from == IF r <= Len(lists) THEN Before(lists, r) ELSE 0
              cut == SubSeq(results, from + 1, from + Len(arrays[r].s))
          IN  Lst(Kept(kind, arrays[r].s, cut))]

(* A captured value is repeated for every element of its row. *)
Spread(col, lists, i) == col[RowOf(lists, i)]

RECURSIVE Column(_, _, _, _)
Invoke(f, envs, kept, ctx) ==
  LET now == IF Constant(f) THEN ctx.at ELSE ctx.now
      compiled == Compile(f, kept, [ctx EXCEPT !.now = now])
      cols == [i \in DOMAIN f.kids |-> Column(f.kids[i], envs, kept, ctx)]
      lists == Flatten(cols[1])
      elements == FlattenSeq(lists)
      inner == [i \in DOMAIN elements |->
                  (f.ids[1].v :> elements[i])
                  @@ [n \in {CapName[j] : j \in 1 .. Len(cols) - 1} |->
                        Spread(cols[(CHOOSE j \in DOMAIN CapName : CapName[j] = n) + 1], lists, i)]]
  IN  FoldBack(f.kind, cols[1], lists,
               Column(f.lit.t, inner, kept, [now |-> now, at |-> compiled.at, ty |-> compiled.ty, type |-> ctx.type]))

Column(e, envs, kept, ctx) ==
  LET kid(i) == Column(e.kids[i], envs, kept, ctx)
  IN  CASE e.op = "var" -> [r \in DOMAIN envs |-> Lookup(envs[r], PlannerName(e.ids[1]))]
        [] e.op = "fld" -> [r \in DOMAIN envs |-> Field(envs[r], e.ids[1])]
        [] e.op = "chain" -> [r \in DOMAIN envs |-> Access(e.kids[2], kid(1)[r], kid(3)[r])]
        [] e.op = "add" -> [r \in DOMAIN envs |-> Plus(kid(1)[r], kid(2)[r])]
        [] e.op = "str" -> [r \in DOMAIN envs |-> Num(7)]
        [] e.op = "lits" -> [r \in DOMAIN envs |-> Lst(<<Num(1)>>)]
        [] e.op = "now" -> [r \in DOMAIN envs |-> Num(ctx.at)]
        [] e.op = "typed" -> [r \in DOMAIN envs |-> Num(ctx.ty)]
        [] e.op = "folded" -> Invoke(e, envs, kept, ctx)
        [] OTHER -> [r \in DOMAIN envs |-> Bad]

----------------------------------------------------------------------------
NotRun == [batch |-> <<>>, type |-> 0, at |-> 0, col |-> <<>>]

Init ==
  /\ written \in Queries /\ place \in {"select", "unnest"}
  /\ query = written /\ passes = 0 /\ status = "new"
  /\ cache = <<>> /\ clock = 1 /\ last = NotRun

(* validate_query: fold, read back, rewrite the UNNEST, and render.  Run again on its own
   output (SqlTransform::new). *)
Normalise ==
  /\ status # "refused" /\ passes < 2 /\ last = NotRun
  /\ passes' = passes + 1
  /\ LET r == Rewrite(query)
     IN  IF r.ok
         THEN status' = "ready" /\ query' = Trip(Reencode(RewriteUnnest(Trip(r.e), place)))
         ELSE status' = "refused" /\ UNCHANGED query
  /\ UNCHANGED <<written, place, cache, clock, last>>

(* A batch is planned and evaluated. *)
Run(batch, type) ==
  /\ status = "ready" /\ passes = 2 /\ clock <= MaxRuns
  /\ LET kept == Planned(query, cache, type, clock)
         ctx == [now |-> clock, at |-> clock, ty |-> type, type |-> type]
     IN  /\ cache' = kept
         /\ last' = [batch |-> batch, type |-> type, at |-> clock, col |-> Column(query, batch, kept, ctx)]
  /\ clock' = clock + 1
  /\ UNCHANGED <<written, place, query, passes, status>>

Next == Normalise \/ \E batch \in Batches, type \in Types : Run(batch, type)

Spec == Init /\ [][Next]_vars

----------------------------------------------------------------------------
(* The reference: the query as written, one row at a time. *)

RECURSIVE Means(_, _, _)
Over(kind, list, f(_)) ==
  IF list.k # "list" THEN IF list.k = "null" THEN Null ELSE Bad
  ELSE IF kind = "transform" THEN Lst([i \in DOMAIN list.s |-> f(list.s[i])])
  ELSE Lst(SelectSeq(list.s, LAMBDA v : Truth(f(v))))

Means(e, env, at) ==
  LET kid(i) == Means(e.kids[i], env, at)
  IN  CASE e.op = "var" -> Lookup(env, PlannerName(e.ids[1]))
        [] e.op = "fld" -> Field(env, e.ids[1])
        [] e.op = "chain" -> Plus(FieldOf(kid(1)), kid(3))
        [] e.op = "add" -> Plus(kid(1), kid(2))
        [] e.op = "str" -> Num(7)
        [] e.op = "lits" -> Lst(<<Num(1)>>)
        [] e.op = "now" -> Num(at.at)
        [] e.op = "typed" -> Num(at.type)
        [] e.op = "call" ->
             Over(e.kind, kid(1), LAMBDA v : Means(e.kids[2], (PlannerName(e.ids[1]) :> v) @@ env, at))
        [] e.op = "folded" ->
             Over(e.kind, kid(1),
                  LAMBDA v : Means(e.lit.t,
                                   (e.ids[1].v :> v) @@ [n \in {CapName[j] : j \in 1 .. Len(e.kids) - 1} |->
                                        kid((CHOOSE j \in DOMAIN CapName : CapName[j] = n) + 1)], at))
        [] OTHER -> Bad

(* What may be evaluated for each element of one row's array. *)
RECURSIVE Legal(_)
Legal(e) ==
  /\ e.op \notin {"other", "lone"}
  /\ e.op = "call" => Len(e.ids) = 1
  /\ e.op \in {"call", "folded"} =>
       LET body == IF e.op = "call" THEN e.kids[2] ELSE e.lit.t
       IN  /\ \A s \in Within(body) : s.op \notin {"aggregate", "subquery"}
           /\ Legal(body)
           /\ e.op = "folded" =>
                /\ \A s \in Within(body) : s.op # "call"
                /\ \A s \in Within(body) :
                     s.op = "var" /\ s.ids[1].v \in Range(CapName) =>
                       s.ids[1].v \in {CapName[j] : j \in 1 .. Len(e.kids) - 1}
  /\ \A i \in DOMAIN e.kids : Legal(e.kids[i])

TypeOK ==
  /\ written \in Queries /\ place \in {"select", "unnest"}
  /\ passes \in 0 .. 2 /\ status \in {"new", "ready", "refused"}
  /\ status = "ready" => \A f \in FoldedWithin(query) : f.lit.esc = 0
  /\ clock \in 1 .. MaxRuns + 1
  /\ \A key \in DOMAIN cache : cache[key].at < clock

(* What a batch evaluates to is, for every row, what the query as written means for that row
   alone: captures, shadowing, quoting, the flattening and the shared cache change nothing. *)
AsWritten ==
  last # NotRun =>
    last.col = [r \in DOMAIN last.batch |-> Means(written, last.batch[r], last)]

(* A query is refused exactly when some lambda in it reaches outside its element and its row,
   or is no lambda this engine evaluates, in folded text as well. *)
RefusedExactly == passes > 0 => (status = "refused" <=> ~Legal(written))

(* Normalising the normalised text again changes nothing and refuses nothing. *)
Settled == passes = 1 /\ passes' = 2 => query' = query /\ status' = status
=============================================================================
