---------------------------- MODULE KafkaDecoder ----------------------------
(***************************************************************************)
(* Confluent-framed messages into batches (kafka/decode.rs): one decoder   *)
(* per writer schema, a chunk of raw messages beside it, and the isolation *)
(* of a message that did not become exactly one row. arrow-avro's Decoder  *)
(* reads a stream, not messages: a bad message may leave a row, part of a  *)
(* row, or a header it is still waiting behind. A decoder is the sequence  *)
(* of the messages whose rows it holds, and whether it holds anything      *)
(* besides. A message is its offset; what it is on the wire is its kind.   *)
(***************************************************************************)
EXTENDS Integers, Sequences, FiniteSets, SequencesExt

CONSTANTS
  SchemaIds,       \* writer schema ids, small naturals
  Kinds,           \* the kinds of message that arrive
  ChunkRows,       \* CHUNK_ROWS
  MaxMessages,     \* bound: messages fed
  Known,           \* what the registry may know an id as at first
  MaxOutages,      \* bound: registry outages
  MaxBuildFailures \* bound: decoders that cannot be built again

(* External: what the registry can know an id as. *)
Answers == {"avro", "collides", "notRecord", "notAvro", "unknown"}

(* External: what a message is to the decoder. *)
AllKinds == {"tombstone", "unframed", "good", "truncated", "midway", "extra", "copy", "unflushable"}

(* Assumed of the constants; the suites that instantiate the module assume it. *)
ConstantsAssumption ==
  /\ SchemaIds \subseteq Nat /\ Kinds \subseteq AllKinds /\ Known \subseteq Answers
  /\ ChunkRows \in Nat \ {0} /\ MaxMessages \in Nat
  /\ MaxOutages \in Nat /\ MaxBuildFailures \in Nat

VARIABLES
  registry,    \* what the registry says of each id
  registryUp,
  faults,      \* outages and failed rebuilds so far
  sent,        \* the messages so far: kind and id, by offset
  inHand,      \* the message to feed, or one feed gave back; 0 when none
  group,       \* what each id turned out to be
  decoder,     \* each id's decoder
  chunk,       \* the messages whose rows are inside it
  batches,     \* the current batch's rows: what each holds, and whose metadata it has
  undecodable, \* the current batch's rejects
  tombstones,
  pendingRaw,  \* raw size still inside decoders
  misused      \* a decoder was used again after it failed

vars == <<registry, registryUp, faults, sent, inHand, group, decoder, chunk, batches, undecodable,
          tombstones, pendingRaw, misused>>

Fresh == [rows |-> <<>>, spoilt |-> FALSE]
Junk == 0

TypeOK ==
  /\ registry \in [SchemaIds -> Answers] /\ registryUp \in BOOLEAN
  /\ faults \in [outages : 0 .. MaxOutages, builds : 0 .. MaxBuildFailures]
  /\ inHand \in 0 .. MaxMessages
  /\ group \in [SchemaIds -> {"none", "ready", "unusable", "collision"}]
  /\ \A i \in SchemaIds : Len(chunk[i]) < ChunkRows
  /\ pendingRaw \in Nat /\ tombstones \in 0 .. MaxMessages

Init ==
  /\ registry \in [SchemaIds -> Known] /\ registryUp = TRUE
  /\ faults = [outages |-> 0, builds |-> 0]
  /\ sent = <<>> /\ inHand = 0
  /\ group = [i \in SchemaIds |-> "none"]
  /\ decoder = [i \in SchemaIds |-> Fresh] /\ chunk = [i \in SchemaIds |-> <<>>]
  /\ batches = <<>> /\ undecodable = <<>> /\ tombstones = 0 /\ pendingRaw = 0
  /\ misused = FALSE

(* raw_len, in a unit: messages differ in size. *)
RawLen(m) == 1 + (m % 2)
Raw(c) == FoldLeft(LAMBDA n, m : n + RawLen(m), 0, c)

\* Mutant: a flush does not release its messages' size.
ReleasedNot(n, c) == n

(* pending_raw once chunk c is out of its decoder. *)
Released(n, c) == n - Raw(c)

Full(c) == Len(c) >= ChunkRows

-----------------------------------------------------------------------------
(* External: what arrow-avro's Decoder does with a message. `took' when one row
   and every byte came of it, as far as it tells. *)
Decode(d, m) ==
  LET kind == sent[m].kind IN
  CASE d.spoilt -> [d |-> [d EXCEPT !.rows = Append(@, Junk)], took |-> TRUE]
    [] ~d.spoilt /\ kind \in {"good", "unflushable"} ->
         [d |-> [d EXCEPT !.rows = Append(@, m)], took |-> TRUE]
    [] ~d.spoilt /\ kind = "truncated" -> [d |-> [d EXCEPT !.spoilt = TRUE], took |-> FALSE]
    [] ~d.spoilt /\ kind = "midway" -> [d |-> [d EXCEPT !.spoilt = TRUE], took |-> FALSE]
    [] ~d.spoilt /\ kind = "extra" -> [d |-> [d EXCEPT !.rows = Append(@, m)], took |-> FALSE]
    [] ~d.spoilt /\ kind = "copy" ->
         [d |-> [rows |-> Append(d.rows, m), spoilt |-> TRUE], took |-> TRUE]

\* Mutant: what arrow-avro takes is taken.
DecodeOneTrusting(d, m) ==
  LET r == Decode(d, m) IN [d |-> r.d, ok |-> r.took]

(* decode_one: the strict check, with the walk on the wire, which sees a copy of
   the header after the record. *)
DecodeOne(d, m) ==
  LET r == Decode(d, m) IN [d |-> r.d, ok |-> r.took /\ sent[m].kind # "copy"]

(* External: the rows a flush gives, when it gives a batch that normalises. *)
Flushed(d) == d.rows
Normalises(rows) == \A k \in DOMAIN rows : rows[k] = Junk \/ sent[rows[k]].kind # "unflushable"

-----------------------------------------------------------------------------
(* What a group's chunk turns into: the decoder left, the rows that come out,
   the messages rejected. `fails' is which attempt to build a decoder fails, 0
   for none. *)

Row(content, m) == [holds |-> content, meta |-> m]
Reject(m, sure) == [m |-> m, sure |-> sure, known |-> "avro"]
RejectAll(c) == [k \in DOMAIN c |-> Reject(c[k], FALSE)]

Emit(rows, c) == [k \in DOMAIN c |-> Row(rows[k], c[k])]

(* What one message alone leaves: r is what it decoded to, if a decoder could be built. *)
Attempted(at, m, built, tries, r) ==
  LET whole == built /\ r.ok /\ Len(Flushed(r.d)) = 1
      good == whole /\ Normalises(Flushed(r.d))
  IN [d |-> IF ~built THEN at.d ELSE [r.d EXCEPT !.rows = IF r.ok THEN <<>> ELSE @],
      clean |-> whole, tries |-> tries,
      out |-> IF good THEN at.out \o Emit(Flushed(r.d), <<m>>) ELSE at.out,
      bad |-> IF good THEN at.bad ELSE Append(at.bad, Reject(m, built))]

(* One message decoded and flushed alone, into a decoder that is clean. *)
Alone(at, m, fails) ==
  LET tries == IF at.clean THEN at.tries ELSE at.tries + 1
  IN Attempted(at, m, at.clean \/ tries # fails, tries, DecodeOne(IF at.clean THEN at.d ELSE Fresh, m))

\* Mutant: a chunk that does not flush as one is rejected whole.
FlushNone(d, c, fails) == [d |-> Fresh, out |-> <<>>, bad |-> RejectAll(c)]

(* flush_one_by_one: the decoder is built again at the end too, if it can be. *)
Rebuilt(end, fails) ==
  [d |-> IF end.clean \/ end.tries + 1 = fails THEN end.d ELSE Fresh,
   out |-> end.out, bad |-> end.bad]

FlushOneByOne(d, c, fails) ==
  LET start == [d |-> d, clean |-> FALSE, tries |-> 0, out |-> <<>>, bad |-> <<>>]
  IN Rebuilt(FoldLeft(LAMBDA at, m : Alone(at, m, fails), start, c), fails)

(* flush: the chunk's rows as one batch; each message alone when that fails. *)
Flush(d, c, fails) ==
  IF c = <<>>
  THEN [d |-> d, out |-> <<>>, bad |-> <<>>]
  ELSE LET rows == Flushed(d) IN
       IF Len(rows) = Len(c) /\ Normalises(rows)
       THEN [d |-> [d EXCEPT !.rows = <<>>], out |-> Emit(rows, c), bad |-> <<>>]
       ELSE FlushOneByOne([d EXCEPT !.rows = <<>>], c, fails)

\* Mutant: the chunk is not decoded again.
IsolateForgets(d, c, fails) == [d |-> Fresh, out |-> <<>>, bad |-> <<>>]

(* isolate: a new decoder decodes the chunk's messages again, each of which
   passed before, and flushes them; when none can be built, each goes to the
   data-quality table.  A message that fails when it is decoded again is left
   out: decoding is deterministic. *)
Isolate(d, c, fails) ==
  IF fails = 1
  THEN [d |-> d, out |-> <<>>, bad |-> RejectAll(c)]
  ELSE Flush([rows |-> c, spoilt |-> FALSE], c, fails - 1)

(* A build fails only as one of the bounded faults. *)
Fails == {0} \cup {k \in 1 .. ChunkRows + 2 : faults.builds < MaxBuildFailures}
Spent(fails) == IF fails = 0 THEN faults ELSE [faults EXCEPT !.builds = @ + 1]

IdAt(k) == CHOOSE i \in SchemaIds : Cardinality({j \in SchemaIds : j <= i}) = k

(* The parts of Out that a flush of group i's chunk changes. *)
Settle(i, r, extra) ==
  /\ decoder' = [decoder EXCEPT ![i] = r.d]
  /\ chunk' = [chunk EXCEPT ![i] = <<>>]
  /\ batches' = batches \o r.out
  /\ undecodable' = undecodable \o r.bad \o extra

-----------------------------------------------------------------------------
(* feed *)

worldVars == <<registry, registryUp, sent>>

(* The next message is polled, when none is in hand. *)
Poll(kind, i) ==
  /\ inHand = 0 /\ Len(sent) < MaxMessages
  /\ kind \in {"tombstone", "unframed"} => i = CHOOSE j \in SchemaIds : TRUE
  /\ sent' = Append(sent, [kind |-> kind, id |-> i]) /\ inHand' = Len(sent) + 1
  /\ UNCHANGED <<registry, registryUp, faults, group, decoder, chunk, batches, undecodable,
                 tombstones, pendingRaw, misused>>

FeedTombstone ==
  /\ inHand # 0 /\ sent[inHand].kind = "tombstone"
  /\ tombstones' = tombstones + 1 /\ inHand' = 0
  /\ UNCHANGED <<worldVars, faults, group, decoder, chunk, batches, undecodable, pendingRaw,
                 misused>>

FeedUnframed ==
  /\ inHand # 0 /\ sent[inHand].kind = "unframed"
  /\ undecodable' = Append(undecodable, [m |-> inHand, sure |-> TRUE, known |-> "none"])
  /\ inHand' = 0
  /\ UNCHANGED <<worldVars, faults, group, decoder, chunk, batches, tombstones, pendingRaw,
                 misused>>

Framed == inHand # 0 /\ sent[inHand].kind \notin {"tombstone", "unframed"}
Id == sent[inHand].id

(* The schema of a new id collides with a metadata column: the id's group holds
   the pipeline, and the message comes back untouched. When the registry does
   not answer it comes back too, and nothing changes. *)
FeedBack ==
  /\ Framed /\ group[Id] = "none" /\ registryUp /\ registry[Id] = "collides"
  /\ group' = [group EXCEPT ![Id] = "collision"]
  /\ UNCHANGED <<worldVars, inHand, faults, decoder, chunk, batches, undecodable, tombstones,
                 pendingRaw, misused>>

Refused == {"notAvro", "notRecord", "unknown"}

(* An id the registry does not know may be registered later: it is not
   remembered. *)
FeedUndecodable ==
  /\ Framed
  /\ \/ group[Id] = "none" /\ registryUp /\ registry[Id] \in Refused
     \/ group[Id] = "unusable"
  /\ LET sure == group[Id] = "unusable" \/ registry[Id] # "unknown" IN
     /\ group' = IF sure THEN [group EXCEPT ![Id] = "unusable"] ELSE group
     /\ undecodable' = Append(undecodable, [m |-> inHand, sure |-> sure, known |-> registry[Id]])
  /\ inHand' = 0
  /\ UNCHANGED <<worldVars, faults, decoder, chunk, batches, tombstones, pendingRaw, misused>>

(* A message of a usable schema: into its decoder, flushed when the chunk is
   full, isolated when it did not become exactly one row. *)
FeedReady ==
  /\ Framed
  /\ group[Id] = "ready" \/ (group[Id] = "none" /\ registryUp /\ registry[Id] = "avro")
  /\ group' = [group EXCEPT ![Id] = "ready"]
  /\ misused' = (misused \/ decoder[Id].spoilt)
  /\ inHand' = 0
  /\ LET r == DecodeOne(decoder[Id], inHand)
         longer == Append(chunk[Id], inHand) IN
     \/ /\ r.ok /\ ~Full(longer)
        /\ decoder' = [decoder EXCEPT ![Id] = r.d]
        /\ chunk' = [chunk EXCEPT ![Id] = longer]
        /\ pendingRaw' = pendingRaw + RawLen(inHand)
        /\ UNCHANGED <<batches, undecodable, faults>>
     \/ /\ r.ok /\ Full(longer)
        /\ \E fails \in Fails :
             /\ faults' = Spent(fails)
             /\ Settle(Id, Flush(r.d, longer, fails), <<>>)
        /\ pendingRaw' = Released(pendingRaw + RawLen(inHand), longer)
     \/ /\ ~r.ok
        /\ \E fails \in Fails :
             /\ faults' = Spent(fails)
             /\ Settle(Id, Isolate(r.d, chunk[Id], fails), <<Reject(inHand, TRUE)>>)
        /\ pendingRaw' = Released(pendingRaw, chunk[Id])
  /\ UNCHANGED <<worldVars, tombstones>>

-----------------------------------------------------------------------------
(* finish and discard *)

(* finish flushes every schema's rows and hands the batch over; what it hands
   over is Closed. *)
Handed(r) ==
  [decoder |-> [i \in SchemaIds |-> r[i].d],
   batches |-> batches \o FlattenSeq([k \in 1 .. Cardinality(SchemaIds) |-> r[IdAt(k)].out]),
   undecodable |->
     undecodable \o FlattenSeq([k \in 1 .. Cardinality(SchemaIds) |-> r[IdAt(k)].bad])]

Closed(fails) == Handed([i \in SchemaIds |-> Flush(decoder[i], chunk[i], fails)])

Finish ==
  /\ inHand = 0 /\ sent # <<>>
  /\ \E fails \in Fails : faults' = Spent(fails) /\ decoder' = Closed(fails).decoder
  /\ chunk' = [i \in SchemaIds |-> <<>>]
  /\ batches' = <<>> /\ undecodable' = <<>> /\ tombstones' = 0 /\ pendingRaw' = 0
  /\ sent' = <<>>
  /\ UNCHANGED <<registry, registryUp, inHand, group, misused>>

(* A revoke drops the batch: a decoder that holds rows is built again, or its
   id forgotten; the message in hand goes with it. *)
Discard ==
  /\ sent # <<>>
  /\ \E fails \in Fails :
       /\ faults' = Spent(fails)
       /\ group' = [i \in SchemaIds |->
                      IF chunk[i] # <<>> /\ fails = 1 THEN "none" ELSE group[i]]
  /\ decoder' = [i \in SchemaIds |-> IF chunk[i] # <<>> THEN Fresh ELSE decoder[i]]
  /\ chunk' = [i \in SchemaIds |-> <<>>]
  /\ batches' = <<>> /\ undecodable' = <<>> /\ tombstones' = 0 /\ pendingRaw' = 0
  /\ sent' = <<>> /\ inHand' = 0
  /\ UNCHANGED <<registry, registryUp, misused>>

-----------------------------------------------------------------------------
(* The registry goes away and comes back; an unknown id is registered. *)
Outage ==
  /\ registryUp => faults.outages < MaxOutages
  /\ registryUp' = ~registryUp
  /\ faults' = IF registryUp THEN [faults EXCEPT !.outages = @ + 1] ELSE faults
  /\ UNCHANGED <<registry, sent, inHand, group, decoder, chunk, batches, undecodable, tombstones,
                 pendingRaw, misused>>

Register(i) ==
  /\ registry[i] = "unknown"
  /\ registry' = [registry EXCEPT ![i] = "avro"]
  /\ UNCHANGED <<registryUp, faults, sent, inHand, group, decoder, chunk, batches, undecodable,
                 tombstones, pendingRaw, misused>>

Next ==
  \/ \E kind \in Kinds, i \in SchemaIds : Poll(kind, i)
  \/ FeedTombstone \/ FeedUnframed \/ FeedBack \/ FeedUndecodable \/ FeedReady
  \/ Finish \/ Discard \/ Outage
  \/ \E i \in SchemaIds : Register(i)

Spec == Init /\ [][Next]_vars

-----------------------------------------------------------------------------
(* The messages the batch has taken. *)
Taken == 1 .. (IF inHand = 0 THEN Len(sent) ELSE inHand - 1)

(* Every message taken into a batch comes out of it exactly once, were it
   finished now: as a row, as an undecodable message or as a counted tombstone.
   A commit moves the offset past all of them, so one that is missing is lost. *)
AccountedOnce ==
  \A out \in {Closed(fails) : fails \in Fails} :
  LET rows == [k \in DOMAIN out.batches |-> out.batches[k].meta]
      rejects == [k \in DOMAIN out.undecodable |-> out.undecodable[k].m]
      stones == {m \in Taken : sent[m].kind = "tombstone"}
  IN /\ ToSet(rows \o rejects) = Taken \ stones
     /\ IsInjective(rows \o rejects)
     /\ tombstones = Cardinality(stones)

(* I10: a row holds its own message, under its own message's metadata, whatever
   malformed messages came before it. *)
OwnRow ==
  \A row \in ToSet(Closed(0).batches) : row.holds = row.meta /\ sent[row.meta].kind = "good"

(* Nothing is blamed on a message that decodes: a message goes to the
   data-quality table because of what it is, or of what the registry said of its
   schema when it was fed. *)
NoneBlamedInVain ==
  \A reject \in ToSet(Closed(0).undecodable) :
    sent[reject.m].kind = "good" => reject.known \notin {"avro", "collides"}

(* The raw size the batch limit is estimated from is that of the messages inside
   the decoders: an unsigned count that never goes below zero. *)
PendingExact ==
  pendingRaw = FoldFunctionOnSet(LAMBDA c, n : n + Raw(c), 0, chunk, SchemaIds)

=============================================================================
