-------------------------------- MODULE Wire --------------------------------
(***************************************************************************)
(* The walk of an Avro record on the wire (src/src/kafka/decode/wire.rs):  *)
(* the parser that turns a writer schema into nodes, and the walk that     *)
(* reads lengths, counts and indexes only, to find where a record ends     *)
(* (decode.rs ArrowAvroDecoder::walk).  A byte is below 2 * Base, its      *)
(* upper half continuing a varint, and a varint has at most MaxBytes       *)
(* bytes, which is arithmetic modulo 2^64 scaled down: Base is 128 and     *)
(* MaxBytes 10 in the code.  The reference is what it means for a sequence *)
(* of bytes to be an encoding of a schema, with no cursor and no nodes.    *)
(***************************************************************************)
EXTENDS Integers, Sequences, FiniteSets, FiniteSetsExt, SequencesExt, TLC

CONSTANTS
  Schemas,    \* the writer schemas: trees of [kind, name, ns, size, kids]
  Base,       \* 2^7 in the code
  MaxBytes,   \* 10 in the code
  LastLimit,  \* the last byte of a longest varint is below it: 2 in the code
  IntMax,     \* u32::MAX
  MaxBody     \* bound on the bytes of a body

(* Assumed of the constants; the suites that instantiate the module assume it. *)
ConstantsAssumption ==
  /\ {Base, MaxBytes, LastLimit} \subseteq Nat \ {0} /\ {IntMax, MaxBody} \subseteq Nat
  /\ LastLimit <= Base

VARIABLES
  schema, body,
  nodes, root,   \* what the parser made
  pos,           \* bytes consumed
  stack,         \* what is still to walk, the next first
  items,         \* items of arrays and maps walked to their end
  status         \* "new", "unbuilt", "walk", "ok" or "failed"

vars == <<schema, body, nodes, root, pos, stack, items, status>>

Byte == 0 .. 2 * Base - 1
Defining == {"record", "enum", "fixed"}
Width(kind) == IF kind = "float" THEN 1 ELSE 2

----------------------------------------------------------------------------
(* The parser.  Its state: the nodes so far, the names registered, the id made last. *)

Push(st, kind, size, kids) ==
  [st EXCEPT !.nodes = Append(@, [kind |-> kind, size |-> size, kids |-> kids]), !.id = Len(st.nodes) + 1]

Register(st, ns, name) == [st EXCEPT !.named = (<<ns, name>> :> st.id) @@ @]

\* Mutant: a reference is looked up under the bare name.
NamedTypeBare(st, v, ns) ==
  IF \E key \in DOMAIN st.named : key[2] = v.name
  THEN [st EXCEPT !.id = st.named[CHOOSE key \in DOMAIN st.named : key[2] = v.name]]
  ELSE [st EXCEPT !.ok = FALSE]

(* named_type: a name defined before, in the namespace written or the enclosing one. *)
NamedType(st, v, ns) ==
  LET key == <<IF v.ns # "" THEN v.ns ELSE ns, v.name>>
  IN  IF key \in DOMAIN st.named THEN [st EXCEPT !.id = st.named[key]] ELSE [st EXCEPT !.ok = FALSE]

RECURSIVE Parse(_, _, _)
(* The children in order, and their ids. *)
ParseKids(kids, ns, st) ==
  FoldLeft(LAMBDA acc, kid : LET next == Parse(kid, ns, acc.st)
                             IN  [st |-> next, ids |-> Append(acc.ids, next.id)],
           [st |-> st, ids |-> <<>>], kids)

Parse(v, ns, st) ==
  LET own == IF v.ns # "" THEN v.ns ELSE ns
      inner == ParseKids(v.kids, IF v.kind = "record" THEN own ELSE ns, st)
      pushed == Push(inner.st, v.kind, v.size, inner.ids)
  IN  IF ~st.ok THEN st
      ELSE CASE v.kind = "ref" -> NamedType(st, v, ns)
             [] v.kind = "wrapped" -> [st EXCEPT !.ok = FALSE]
             [] v.kind \in Defining -> Register(pushed, own, v.name)
             [] OTHER -> pushed

Nothing == [nodes |-> <<>>, named |-> <<>>, id |-> 0, ok |-> TRUE]

\* Mutant: only null itself is empty.
EmptyNull(i) == nodes[i].kind = "null"

(* Wire::empty: a value of the node takes no bytes; children come before. *)
Empty(i) ==
  LET e[n \in 1 .. i] == \/ nodes[n].kind = "null"
                         \/ nodes[n].kind = "fixed" /\ nodes[n].size = 0
                         \/ nodes[n].kind = "record" /\ \A k \in Range(nodes[n].kids) : e[k]
  IN  e[i]

----------------------------------------------------------------------------
(* Numbers on the wire *)

RECURSIVE Value(_)
Value(s) == IF s = <<>> THEN 0 ELSE (Head(s) % Base) + Base * Value(Tail(s))

(* varint: its value and its length, or none. *)
Varint(s) ==
  LET ends == {i \in 1 .. Min({MaxBytes, Len(s)}) : s[i] < Base}
      n == Min(ends)
  IN  IF ends = {} \/ (Min(ends) = MaxBytes /\ s[n] >= LastLimit) THEN [ok |-> FALSE, v |-> 0, n |-> 0]
      ELSE [ok |-> TRUE, v |-> Value(SubSeq(s, 1, n)), n |-> n]

(* long: zigzag. *)
Zigzag(v) == IF v % 2 = 0 THEN v \div 2 ELSE -(v \div 2) - 1
MinLong == -((LastLimit * Base ^ (MaxBytes - 1)) \div 2)

----------------------------------------------------------------------------
(* The walk *)

Init ==
  /\ schema \in Schemas /\ body \in UNION {[1 .. n -> Byte] : n \in 0 .. MaxBody}
  /\ nodes = <<>> /\ root = 0 /\ pos = 0 /\ stack = <<>> /\ items = 0 /\ status = "new"

(* Wire::new *)
Build ==
  LET made == Parse(schema, "", Nothing)
  IN  /\ status = "new"
      /\ status' = IF made.ok THEN "walk" ELSE "unbuilt"
      /\ nodes' = IF made.ok THEN made.nodes ELSE <<>>
      /\ root' = IF made.ok THEN made.id ELSE 0
      /\ stack' = IF made.ok THEN <<[op |-> "node", id |-> made.id, n |-> 0]>> ELSE <<>>
      /\ UNCHANGED <<schema, body, pos, items>>

Rest == SubSeq(body, pos + 1, Len(body))
Number == Varint(Rest)
Frame(op, id, n) == <<[op |-> op, id |-> id, n |-> n]>>
Top(op) == status = "walk" /\ stack # <<>> /\ stack[1].op = op
Node == nodes[stack[1].id]
At(kinds) == Top("node") /\ Node.kind \in kinds

Walks(bytes, frames) ==
  /\ pos' = pos + bytes /\ stack' = frames \o Tail(stack)
  /\ UNCHANGED <<schema, body, nodes, root, items, status>>

Fail ==
  /\ status' = "failed" /\ UNCHANGED <<schema, body, nodes, root, pos, stack, items>>

(* take *)
TakeBytes(n, then) == IF Len(Rest) < n THEN Fail ELSE Walks(n, then)

WalkPlain ==
  /\ At({"null", "float", "double", "fixed"})
  /\ TakeBytes(CASE Node.kind = "null" -> 0 [] Node.kind = "fixed" -> Node.size [] OTHER -> Width(Node.kind), <<>>)

WalkBoolean ==
  /\ At({"boolean"})
  /\ IF Rest # <<>> /\ Rest[1] \in {0, 1} THEN Walks(1, <<>>) ELSE Fail

WalkNumber ==
  /\ At({"int", "enum", "long"})
  /\ IF Number.ok /\ (Node.kind = "long" \/ Number.v <= IntMax) THEN Walks(Number.n, <<>>) ELSE Fail

(* A length, then that many bytes: bytes, a string, a map's key. *)
WalkBytes ==
  /\ At({"bytes"}) \/ Top("key")
  /\ IF Number.ok /\ Zigzag(Number.v) \in 0 .. Len(Rest) - Number.n
     THEN Walks(Number.n + Zigzag(Number.v), <<>>) ELSE Fail

\* Mutant: an index is only compared with 0, as arrow-avro does.
BranchAny(index) == IF index = 0 THEN 1 ELSE 2

(* Which branch an index names, or none. *)
Branch(index) == IF index \in 0 .. Len(Node.kids) - 1 THEN index + 1 ELSE 0

WalkUnion ==
  /\ At({"union"})
  /\ LET branch == Branch(Zigzag(Number.v))
     IN  IF Number.ok /\ branch # 0 THEN Walks(Number.n, Frame("node", Node.kids[branch], 0)) ELSE Fail

WalkRecord ==
  /\ At({"record"})
  /\ Walks(0, [i \in DOMAIN Node.kids |-> [op |-> "node", id |-> Node.kids[i], n |-> 0]])

WalkBlocks ==
  /\ At({"array", "map"})
  /\ Walks(0, Frame("blocks", stack[1].id, 0))

(* blocks: a count, the size after a negative one, and the items. *)
Blocks ==
  /\ Top("blocks")
  /\ LET count == Zigzag(Number.v)
         size == Varint(SubSeq(Rest, Number.n + 1, Len(Rest)))
         used == IF count < 0 THEN Number.n + size.n ELSE Number.n
         n == IF count < 0 THEN -count ELSE count
         skip == Node.kind = "array" /\ Empty(Node.kids[1])
     IN  IF ~Number.ok \/ (count < 0 /\ (~size.ok \/ count = MinLong)) THEN Fail
         ELSE IF count = 0 THEN Walks(Number.n, <<>>)
         ELSE Walks(used, (IF skip THEN <<>> ELSE Frame("items", stack[1].id, n)) \o <<stack[1]>>)

Items ==
  /\ Top("items")
  /\ IF stack[1].n = 0 THEN Walks(0, <<>>)
     ELSE Walks(0, (IF Node.kind = "map" THEN Frame("key", stack[1].id, 0) ELSE <<>>)
                   \o Frame("node", Node.kids[1], 0) \o Frame("walked", stack[1].id, 0)
                   \o Frame("items", stack[1].id, stack[1].n - 1))

ItemWalked ==
  /\ Top("walked") /\ items' = items + 1 /\ stack' = Tail(stack)
  /\ UNCHANGED <<schema, body, nodes, root, pos, status>>

(* record_len: the record ends here. *)
RecordEnds ==
  /\ status = "walk" /\ stack = <<>> /\ status' = "ok"
  /\ UNCHANGED <<schema, body, nodes, root, pos, stack, items>>

Next ==
  \/ Build \/ WalkPlain \/ WalkBoolean \/ WalkNumber \/ WalkBytes \/ WalkUnion \/ WalkRecord
  \/ WalkBlocks \/ Blocks \/ Items \/ ItemWalked \/ RecordEnds

Spec == Init /\ [][Next]_vars

----------------------------------------------------------------------------
(* The reference: paths into the schema, the definition a reference means, encodings *)

RECURSIVE SubAt(_, _)
SubAt(v, path) == IF path = <<>> THEN v ELSE SubAt(v.kids[Head(path)], Tail(path))

RECURSIVE Paths(_)
Paths(v) == {<<>>} \cup UNION {{<<i>> \o p : p \in Paths(v.kids[i])} : i \in DOMAIN v.kids}

(* Where a path is in the document: before, and not around. *)
Ended(d, q) ==
  \/ IsStrictPrefix(q, d)
  \/ \E i \in 1 .. Min({Len(d), Len(q)}) : d[i] < q[i] /\ SubSeq(d, 1, i - 1) = SubSeq(q, 1, i - 1)

(* The namespace in force at a path: of the nearest definition around it that writes one. *)
Scope(v, path) ==
  LET writers == {i \in 0 .. Len(path) : SubAt(v, SubSeq(path, 1, i)).kind \in Defining
                                         /\ SubAt(v, SubSeq(path, 1, i)).ns # ""}
  IN  IF writers = {} THEN "" ELSE SubAt(v, SubSeq(path, 1, Max(writers))).ns

Wanted(v, q) == IF SubAt(v, q).ns # "" THEN SubAt(v, q).ns ELSE Scope(v, q)

Candidates(v, q) ==
  {d \in Paths(v) : /\ SubAt(v, d).kind \in Defining /\ SubAt(v, d).name = SubAt(v, q).name
                    /\ Scope(v, d) = Wanted(v, q) /\ Ended(d, q) /\ ~IsStrictPrefix(q, d)}

(* The last of them to end. *)
Means(v, q) == CHOOSE d \in Candidates(v, q) : \A e \in Candidates(v, q) \ {d} : Ended(e, d)

Legal(v) ==
  \A q \in Paths(v) : /\ SubAt(v, q).kind # "wrapped"
                      /\ SubAt(v, q).kind = "ref" => Candidates(v, q) # {}

IsNumber(s) ==
  /\ Len(s) \in 1 .. MaxBytes /\ \A i \in 1 .. Len(s) - 1 : s[i] >= Base
  /\ s[Len(s)] < (IF Len(s) = MaxBytes THEN LastLimit ELSE Base)

Before(s, k) == SubSeq(s, 1, k)
After(s, k) == SubSeq(s, k + 1, Len(s))

(* s starts with a number, of which P says the value and the bytes after it. *)
Starts(s, P(_, _)) == \E k \in 1 .. Len(s) : IsNumber(Before(s, k)) /\ P(Zigzag(Value(Before(s, k))), After(s, k))

RECURSIVE Encodes(_, _, _), Fields(_, _, _, _), Copies(_, _, _, _), BlockList(_, _, _)

Fields(v, q, i, s) ==
  IF i > Len(SubAt(v, q).kids) THEN s = <<>>
  ELSE \E k \in 0 .. Len(s) : Encodes(v, Append(q, i), Before(s, k)) /\ Fields(v, q, i + 1, After(s, k))

Keyed(v, q, s) ==
  Starts(s, LAMBDA len, rest : len \in 0 .. Len(rest) /\ Encodes(v, Append(q, 1), After(rest, len)))

Copies(v, q, n, s) ==
  IF n = 0 THEN s = <<>>
  ELSE \E k \in 0 .. Len(s) :
         /\ IF SubAt(v, q).kind = "map" THEN Keyed(v, q, Before(s, k)) ELSE Encodes(v, Append(q, 1), Before(s, k))
         /\ Copies(v, q, n - 1, After(s, k))

BlockList(v, q, s) ==
  LET Some(n, rest) == \E k \in 0 .. Len(rest) : Copies(v, q, n, Before(rest, k)) /\ BlockList(v, q, After(rest, k))
  IN  Starts(s, LAMBDA count, rest :
        \/ count = 0 /\ rest = <<>>
        \/ count > 0 /\ Some(count, rest)
        \/ count < 0 /\ count # MinLong /\ Starts(rest, LAMBDA size, after : Some(-count, after)))

(* s is an encoding of the schema at path q. *)
Encodes(v, q, s) ==
  LET kind == SubAt(v, q).kind
  IN  CASE kind = "ref" -> Encodes(v, Means(v, q), s)
        [] kind = "null" -> s = <<>>
        [] kind = "boolean" -> s \in {<<0>>, <<1>>}
        [] kind \in {"int", "enum"} -> IsNumber(s) /\ Value(s) <= IntMax
        [] kind = "long" -> IsNumber(s)
        [] kind = "fixed" -> Len(s) = SubAt(v, q).size
        [] kind \in {"float", "double"} -> Len(s) = Width(kind)
        [] kind = "bytes" -> Starts(s, LAMBDA len, rest : len = Len(rest))
        [] kind = "union" -> Starts(s, LAMBDA i, rest : i \in 0 .. Len(SubAt(v, q).kids) - 1
                                                        /\ Encodes(v, Append(q, i + 1), rest))
        [] kind = "record" -> Fields(v, q, 1, s)
        [] OTHER -> BlockList(v, q, s)

----------------------------------------------------------------------------
(* Properties *)

(* Type invariant. *)
TypeOK ==
  /\ status \in {"new", "unbuilt", "walk", "ok", "failed"}
  /\ pos \in 0 .. Len(body) /\ items \in Nat /\ root \in 0 .. Len(nodes)
  /\ \A i \in DOMAIN nodes : \A k \in Range(nodes[i].kids) : k \in 1 .. i - 1

(* A writer schema gets its walk exactly when every name it refers to is defined, and
   ended, before, in the namespace it means. (wire.rs Wire::new) *)
BuiltWhenLegal ==
  /\ status = "unbuilt" => ~Legal(schema)
  /\ status \in {"walk", "ok", "failed"} => Legal(schema)

(* The walk ends where an encoding of the writer schema ends, and refuses a body only when
   none starts it: a header after the record, a branch or a boolean out of range is the
   message's own fault, and a well-formed message never is refused.
   (decode.rs ArrowAvroDecoder::walk) *)
Exact ==
  /\ status = "ok" => Encodes(schema, <<>>, Before(body, pos))
  /\ status = "failed" => \A k \in 0 .. Len(body) : ~Encodes(schema, <<>>, Before(body, k))

(* A count costs nothing by itself: the items walked never outnumber the bytes read.
   (wire.rs blocks) *)
WorkBounded == items <= pos

=============================================================================
