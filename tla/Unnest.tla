------------------------------- MODULE Unnest -------------------------------
(***************************************************************************)
(* CROSS JOIN UNNEST of an array of the source's own row                   *)
(* (src/src/transform/unnest.rs): the rewrite into a derived table that    *)
(* expands the array in its projection, the joins carried over to it, the  *)
(* outer form, and the JSON type of an element.                            *)
(*                                                                         *)
(* A query is a sequence of selects (UNION ALL, or a CTE each).  A select  *)
(* has the FROM clause and the names its projection and WHERE use.  The    *)
(* reference evaluates the FROM clause as written, left to right, each     *)
(* factor seeing the ones before it.                                       *)
(***************************************************************************)
EXTENDS Integers, Sequences, FiniteSets, SequencesExt, TLC

CONSTANTS
  Queries,    \* sequences of selects [from, names]
  Batches,    \* sequences of source rows [id, items, tags]
  Looked      \* the lookup: from a key to its value

VARIABLES written, query, status, batch

vars == <<written, query, status, batch>>

----------------------------------------------------------------------------
(* Values, and relations evaluated to sequences of bindings: from <<qualifier, name>> to values. *)

Null == [k |-> "null"]
Val(n, json) == [k |-> "val", n |-> n, json |-> json]
AsJson(v) == IF v.k = "val" THEN [v EXCEPT !.json = TRUE] ELSE v

Joins(select) == FlattenSeq([i \in DOMAIN select.from |-> select.from[i].joins])
IsUnnest(join) == join.rel.k = "unnest"

Elements(list) == IF list.k = "null" THEN <<>> ELSE list.s

(* A CAST to ARRAY(JSON) has JSON elements, and filter() keeps the elements it is given. *)
JsonTyped(array) == array.cast /\ array.fn \in {"", "filter"}

Binding(alias, row) == [key \in {<<alias, c>> : c \in DOMAIN row} |-> row[key[2]]]

(* A lookup adds columns: its keys are unique. *)
LookupStep(bindings, rel) ==
  [i \in DOMAIN bindings |->
     LET b == bindings[i]
         at == CHOOSE key \in DOMAIN b : key[2] = rel.key
         v == b[at]
     IN  b @@ (<<"l", "v">> :> IF v.k = "val" /\ v.n \in DOMAIN Looked THEN Val(Looked[v.n], FALSE) ELSE Null)]

----------------------------------------------------------------------------
(* The rewrite. *)

\* Mutant: a LEFT JOIN is taken for a cross join.
JoinIsOuterNever(join) == FALSE

(* unnest_join_is_outer. *)
JoinSupported(join) == join.on = "true" /\ join.op \in {"cross", "inner", "left"}
JoinIsOuter(join) == join.op = "left"

(* What find makes of a FROM clause: nothing to do, a refusal, or the one fan-out. *)
Find(select) ==
  LET from == select.from
      inJoins == SelectSeq(Joins(select), IsUnnest)
      commas == SelectSeq(Tail(from), LAMBDA f : f.rel.k = "unnest")
      unnests == [i \in DOMAIN inJoins |-> inJoins[i].rel] \o [i \in DOMAIN commas |-> commas[i].rel]
      outer == \E i \in DOMAIN inJoins : JoinIsOuter(inJoins[i])
      u == unnests[1]
  IN  CASE \E i \in DOMAIN inJoins : ~JoinSupported(inJoins[i]) -> [k |-> "refused"]
        [] unnests = <<>> -> [k |-> "none"]
        [] Len(commas) < Len(from) - 1 -> [k |-> "none"]
        [] Len(unnests) > 1 -> [k |-> "refused"]
        [] Len(from) > 1 /\ from[1].joins # <<>> -> [k |-> "none"]
        [] from[1].rel.k # "table" -> [k |-> "none"]
        [] u.ordinality \/ Len(u.arrays) # 1 \/ u.alias = "" -> [k |-> "refused"]
        [] OTHER -> [k |-> "found", array |-> u.arrays[1], outer |-> outer,
                     column |-> IF u.cols # <<>> THEN u.cols[1] ELSE u.alias]

(* elements_are_json: json_array_elements, behind any number of filters. *)
ElementsAreJson(array) == array.cast /\ array.fn # "transform"

\* Mutant: the joins are carried over without the ones that follow the UNNEST.
CarriedBefore(select) ==
  LET js == Joins(select)
      u == {i \in DOMAIN js : IsUnnest(js[i])}
  IN  IF u = {} THEN js ELSE SubSeq(js, 1, (CHOOSE i \in u : TRUE) - 1)

(* The joins that survive, in the order they were written. *)
Carried(select) == SelectSeq(Joins(select), LAMBDA j : ~IsUnnest(j))

(* (SELECT alias.*, unnest(array) AS column FROM base) AS alias *)
Fan(base, found) ==
  [k |-> "fan", alias |-> base.alias, base |-> base, array |-> found.array, outer |-> found.outer,
   column |-> found.column, json |-> ElementsAreJson(found.array)]

RECURSIVE RewriteSelect(_)
Inner(rel) ==
  IF rel.k # "derived" THEN [k |-> "none", rel |-> rel]
  ELSE LET r == RewriteSelect(rel.select) IN [k |-> r.k, rel |-> [rel EXCEPT !.select = r.select]]

(* A derived table first: it may hold an UNNEST of its own. *)
RewriteSelect(select) ==
  LET inner == [i \in DOMAIN select.from |-> Inner(select.from[i].rel)]
      kept == [select EXCEPT !.from = [i \in DOMAIN @ |-> [@[i] EXCEPT !.rel = inner[i].rel]]]
      found == Find(kept)
  IN  IF \E i \in DOMAIN inner : inner[i].k = "refused" THEN [k |-> "refused", select |-> select]
      ELSE IF found.k # "found" THEN [k |-> found.k, select |-> kept]
      ELSE [k |-> "none",
            select |-> [kept EXCEPT !.from = <<[rel |-> Fan(kept.from[1].rel, found), joins |-> Carried(kept)]>>]]

(* What the validator refuses of what is left (QueryRules): a second factor, a join that is no
   lookup, in a derived table as well. *)
RECURSIVE LeftOver(_)
LeftOver(select) ==
  \/ Len(select.from) > 1
  \/ \E i \in DOMAIN Joins(select) : Joins(select)[i].rel.k # "lookup"
  \/ select.from[1].rel.k = "derived" /\ LeftOver(select.from[1].rel.select)

----------------------------------------------------------------------------
(* Evaluation: the FROM clause of a select, and the names it uses. *)

OuterArray(list) == IF Elements(list) = <<>> THEN [k |-> "list", s |-> <<Null>>] ELSE list

(* DataFusion's unnest: a row whose array is NULL or empty is gone. *)
FanRows(rel, rows) ==
  FlattenSeq([r \in DOMAIN rows |->
    LET list == rows[r][rel.array.col]
        els == Elements(IF rel.outer THEN OuterArray(list) ELSE list)
    IN  [i \in DOMAIN els |-> (<<rel.alias, rel.column>> :> IF rel.json THEN AsJson(els[i]) ELSE els[i])
                              @@ Binding(rel.alias, rows[r])]])

(* As written: an element for each, and one column of its own under the UNNEST's alias; an
   array of rows gives a column to each of their fields. *)
Columns(rel, v) ==
  LET names == IF rel.cols # <<>> THEN rel.cols ELSE <<rel.alias>>
  IN  [key \in {<<rel.alias, names[i]>> : i \in DOMAIN names} |->
         IF v.k = "row" THEN v.fields[CHOOSE i \in DOMAIN names : names[i] = key[2]] ELSE v]
UnnestStep(bindings, rel, outer) ==
  FlattenSeq([i \in DOMAIN bindings |->
    LET b == bindings[i]
        at == CHOOSE key \in DOMAIN b : key[2] = rel.arrays[1].col
        els == Elements(b[at])
        typed == [j \in DOMAIN els |-> IF JsonTyped(rel.arrays[1]) THEN AsJson(els[j]) ELSE els[j]]
    IN  IF els = <<>> THEN IF outer THEN <<Columns(rel, Null) @@ b>> ELSE <<>>
        ELSE [j \in DOMAIN els |-> Columns(rel, typed[j]) @@ b]])

RECURSIVE FromRows(_, _, _), JoinAll(_, _, _), Named(_, _)
JoinAll(bindings, js, i) ==
  IF i > Len(js) THEN bindings
  ELSE JoinAll(IF IsUnnest(js[i]) THEN UnnestStep(bindings, js[i].rel, js[i].op = "left")
               ELSE LookupStep(bindings, js[i].rel), js, i + 1)

BaseRows(rel, rows) ==
  CASE rel.k = "table" -> [r \in DOMAIN rows |-> Binding(rel.alias, rows[r])]
    [] rel.k = "fan" -> FanRows(rel, rows)
    [] rel.k = "derived" ->
         LET inner == FromRows(rel.select, rows, 1)
         IN  [r \in DOMAIN inner |-> [key \in {<<rel.alias, k[2]>> : k \in DOMAIN inner[r]} |->
                                        inner[r][CHOOSE k \in DOMAIN inner[r] : k[2] = key[2]]]]

FromRows(select, rows, i) ==
  LET first == JoinAll(BaseRows(select.from[1].rel, rows), select.from[1].joins, 1)
  IN  IF Len(select.from) = 1 THEN first
      ELSE JoinAll(UnnestStep(first, select.from[2].rel, FALSE), select.from[2].joins, 1)

(* A name of the select: qualified, or bare and of one factor. *)
Matches(b, name) == {key \in DOMAIN b : key[2] = name[2] /\ name[1] \in {"", key[1]}}
Named(select, b) ==
  [name \in select.names |->
     IF Cardinality(Matches(b, name)) = 1 THEN b[CHOOSE key \in Matches(b, name) : TRUE] ELSE [k |-> "unknown"]]

Result(selects, rows) ==
  FlattenSeq([s \in DOMAIN selects |->
    LET bs == FromRows(selects[s], rows, 1) IN [i \in DOMAIN bs |-> Named(selects[s], bs[i])]])

----------------------------------------------------------------------------
Init == written \in Queries /\ query = written /\ status = "written" /\ batch = <<>>

(* rewrite: every select of the query, then the validator. *)
Rewrite ==
  /\ status = "written"
  /\ LET r == [s \in DOMAIN query |-> RewriteSelect(query[s])]
         bad == \E s \in DOMAIN r : r[s].k = "refused" \/ LeftOver(r[s].select)
     IN  /\ status' = IF bad THEN "refused" ELSE "ready"
         /\ query' = IF bad THEN query ELSE [s \in DOMAIN r |-> r[s].select]
  /\ UNCHANGED <<written, batch>>

Evaluate(rows) ==
  /\ status = "ready" /\ batch # rows /\ batch' = rows
  /\ UNCHANGED <<written, query, status>>

Next == Rewrite \/ \E rows \in Batches : Evaluate(rows)
Spec == Init /\ [][Next]_vars

----------------------------------------------------------------------------
TypeOK ==
  /\ written \in Queries /\ status \in {"written", "ready", "refused"}
  /\ status = "ready" =>
       \A s \in DOMAIN query : Len(query[s].from) = 1 /\ query[s].names = written[s].names

(* Every row gives the rows the FROM clause as written gives: one for each element, one with
   NULL for none in the outer form, with the same lookup values and the same types. *)
FansOut ==
  status = "ready" =>
    LET got == Result(query, batch)
        want == Result(written, batch)
    IN  /\ Len(got) = Len(want)
        /\ \A i \in DOMAIN got : \A name \in DOMAIN want[i] :
             got[i][name].k # "unknown" => got[i][name] = want[i][name]

(* A name that resolves in the query as written still does: the outer query is left as it is. *)
NamesKept ==
  status = "ready" =>
    LET got == Result(query, batch)
        want == Result(written, batch)
    IN  \A i \in DOMAIN got \cap DOMAIN want : \A name \in DOMAIN want[i] :
          want[i][name].k # "unknown" => got[i][name].k # "unknown"
=============================================================================
