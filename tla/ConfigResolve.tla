---------------------------- MODULE ConfigResolve ----------------------------
(***************************************************************************)
(* Loading a config (src/src/config.rs, resolve_all, and                   *)
(* src/src/config/kafka.rs, conflicts and resolve_entries): which of the   *)
(* [[pipeline]] and [[kafka.pipeline]] entries run, and which are held     *)
(* back.                                                                   *)
(*                                                                         *)
(* A staged_upsert entry is first split into the pipeline that fills its   *)
(* stage and the one that merges the stage into the target.  The rules     *)
(* between entries then condemn entries that are fine alone; what is left  *)
(* is resolved one entry at a time.  A publication that cannot be sent is  *)
(* dropped and never costs the pipeline.                                   *)
(*                                                                         *)
(* A URI is a table and a spelling of it: the storage opens "/x", "/x/"    *)
(* and "file:///x" as one table.  Only the rules about Kafka entries       *)
(* compare tables; the others compare the strings.                         *)
(***************************************************************************)
EXTENDS Naturals, Sequences, FiniteSets, SequencesExt

CONSTANTS
  DeltaLists,   \* the lists of [[pipeline]] entries tried
  KafkaLists,   \* the lists of [[kafka.pipeline]] entries tried
  Sinks,        \* the [publish] sections tried: "absent" (or --no-publish),
                \* "unusable" (sink.check refuses it), "good"
  KafkaBuilt    \* whether the build has the kafka feature

NoUri == [base |-> "none", kind |-> "table", sp |-> "plain"]

Half(base, half) == [base |-> base, half |-> half]

Uri(base) == [base |-> base, kind |-> "table", sp |-> "plain"]

(* The entry a test would write: an append pipeline with nothing optional. *)
PipelineConfig(name, source, target) ==
  [name |-> Half(name, ""), app |-> Half(name, ""), source |-> source,
   target |-> target, stage |-> NoUri, dq |-> NoUri, mode |-> "append",
   policy |-> "fail", key |-> FALSE, dedupKey |-> FALSE, ts |-> FALSE,
   lookback |-> "none", tiebreak |-> "none", partition |-> "none",
   lookups |-> <<>>, sql |-> "none", meta |-> FALSE, sizes |-> TRUE,
   publish |-> [group |-> "none", near |-> FALSE, flaw |-> "none"]]

(* A Kafka entry; alone is resolve_kafka's verdict on it (KafkaSettings). *)
KafkaPipelineConfig(name, app, topic, target) ==
  [name |-> Half(name, ""), app |-> Half(app, ""), topic |-> topic,
   target |-> target, dq |-> NoUri, group |-> "none", alone |-> TRUE]

(* Assumed of the constants; the suites that instantiate the module assume it. *)
ConstantsAssumption ==
  /\ KafkaBuilt \in BOOLEAN
  /\ Sinks \subseteq {"absent", "unusable", "good"}
  /\ \A l \in DeltaLists : \A i \in DOMAIN l : l[i].mode \in {"append", "upsert", "staged"}

VARIABLES
  cfg,        \* the file: entries, [publish] section
  pc,         \* "load", "cross", "delta", "kafka", "done", "fatal"
  expanded,   \* the Delta pipelines after the split
  condemned,  \* names of Delta pipelines held back by a rule between entries
  clashing,   \* positions of Kafka entries held back by one
  next,       \* position of the entry resolved next
  ok,         \* resolved Delta pipelines, with whether they publish
  kafkaOk,    \* positions of resolved Kafka entries
  rejected    \* how many entries are held back

vars == <<cfg, pc, expanded, condemned, clashing, next, ok, kafkaOk, rejected>>

----------------------------------------------------------------------------
(* Names of tables *)

(* trim_end_matches('/') before the suffix is put on. *)
Suffixed(uri, kind) ==
  [uri EXCEPT !.kind = kind, !.sp = IF @ = "slash" THEN "plain" ELSE @]

IsStage(uri) == uri.kind = "stage"

StageOf(p) == IF p.stage = NoUri THEN Suffixed(p.target, "stage") ELSE p.stage

(* dq::uri_for; the DQ table of a stage is not that of its target. *)
DqOf(p) ==
  IF p.dq # NoUri THEN p.dq
  ELSE Suffixed(p.target, IF IsStage(p.target) THEN "stage_dq" ELSE "dq")

TableKey(uri) == [base |-> uri.base, kind |-> uri.kind]

----------------------------------------------------------------------------
(* Splitting a staged pipeline *)

PartitionProblem(p) == p.partition = "bad" \/ (p.partition # "none" /\ ~p.ts)

StagedProblem(p) ==
  \/ p.meta
  \/ ~p.key /\ ~p.dedupKey
  \/ ~p.ts
  \/ StageOf(p) \in {p.target, p.source}
  \/ ~IsStage(StageOf(p))
  \/ PartitionProblem(p)

NoPublication == [group |-> "none", near |-> FALSE, flaw |-> "none"]

IngestHalf(p) ==
  [p EXCEPT !.name = Half(p.name.base, "ingest"), !.app = Half(p.app.base, "ingest"),
            !.target = StageOf(p), !.publish = NoPublication, !.mode = "append",
            !.key = FALSE, !.lookback = "none", !.tiebreak = "none",
            !.dq = DqOf(p), !.stage = NoUri]

\* Mutant: the apply half keeps the raw source's change policy and its transform.
ApplyHalfCopies(p) ==
  [p EXCEPT !.name = Half(p.name.base, "apply"), !.app = Half(p.app.base, "apply"),
            !.source = StageOf(p), !.mode = "upsert", !.publish = NoPublication,
            !.stage = NoUri]

ApplyHalf(p) ==
  [p EXCEPT !.name = Half(p.name.base, "apply"), !.app = Half(p.app.base, "apply"),
            !.source = StageOf(p), !.mode = "upsert", !.publish = NoPublication,
            !.sql = "none", !.lookups = <<>>, !.policy = "fail", !.stage = NoUri]

ExpandStaged(pipelines) ==
  FlattenSeq([i \in DOMAIN pipelines |->
    IF pipelines[i].mode # "staged" \/ StagedProblem(pipelines[i])
    THEN <<pipelines[i]>>
    ELSE <<IngestHalf(pipelines[i]), ApplyHalf(pipelines[i])>>])

----------------------------------------------------------------------------
(* Rules between Delta pipelines: the names they hold back *)

SharedAppId(ps) ==
  {ps[i].name : i \in {i \in DOMAIN ps : \E j \in DOMAIN ps \ {i} : ps[j].app = ps[i].app}}

SharedName(ps) ==
  {ps[i].name : i \in {i \in DOMAIN ps : \E j \in DOMAIN ps \ {i} : ps[j].name = ps[i].name}}

\* Mutant: reading with ignore_changes is taken as enough.
CascadeConflictsPolicy(ps) ==
  {ps[d].name : d \in {d \in DOMAIN ps :
     /\ \E u \in DOMAIN ps : ps[u].mode = "upsert" /\ ps[d].source = ps[u].target
     /\ ps[d].policy # "ignore"}}

CascadeConflicts(ps) ==
  {ps[d].name : d \in {d \in DOMAIN ps :
     /\ \E u \in DOMAIN ps : ps[u].mode = "upsert" /\ ps[d].source = ps[u].target
     /\ ~(ps[d].policy = "ignore" /\ ps[d].mode = "upsert")}}

(* The last pipeline that writes a stage is taken for its owner. *)
Owner(ps, uri) ==
  LET writers == {i \in DOMAIN ps : ps[i].target = uri}
  IN  IF writers = {} THEN Half("none", "") ELSE ps[CHOOSE i \in writers : \A j \in writers : j <= i].name

\* Mutant: only writers are looked at.
StageConflictsWriters(ps) ==
  {ps[i].name : i \in {i \in DOMAIN ps :
     /\ IsStage(ps[i].target)
     /\ ps[i].name # Owner(ps, ps[i].target)}}

StageConflicts(ps) ==
  {ps[i].name : i \in {i \in DOMAIN ps :
     \E uri \in {ps[i].source, ps[i].target} :
       LET owner == Owner(ps, uri)
       IN  /\ IsStage(uri)
           /\ ps[i].name # owner
           /\ ~(owner.half # "apply" /\ ps[i].name = Half(owner.base, "apply"))}}

----------------------------------------------------------------------------
(* Rules that involve a Kafka entry *)

Comparable(k) == /\ k.name.base # "" /\ k.app.base # "" /\ k.topic # "" /\ k.target.base # ""

GroupOf(k) == IF k.group = "none" THEN k.name.base ELSE k.group

\* Mutant: one topic may go into one table under two app_ids.
KafkaClashByApp(a, b) ==
  \/ a.name.base # "" /\ a.name = b.name
  \/ /\ Comparable(a) /\ Comparable(b)
     /\ \/ TableKey(a.target) = TableKey(b.target) /\ a.app = b.app
        \/ TableKey(DqOf(a)) = TableKey(DqOf(b)) /\ a.app = b.app
        \/ GroupOf(a) = GroupOf(b)

(* Two Kafka entries that may not both run. *)
KafkaClash(a, b) ==
  \/ a.name.base # "" /\ a.name = b.name
  \/ /\ Comparable(a) /\ Comparable(b)
     /\ \/ TableKey(a.target) = TableKey(b.target) /\ a.app = b.app
        \/ TableKey(DqOf(a)) = TableKey(DqOf(b)) /\ a.app = b.app
        \/ TableKey(a.target) = TableKey(b.target) /\ a.topic = b.topic
        \/ GroupOf(a) = GroupOf(b)

\* Mutant: the tables rejects go to are not compared.
MixedClashTarget(k, d) ==
  \/ k.name = d.name
  \/ Comparable(k) /\ TableKey(k.target) = TableKey(d.target)

(* A Kafka entry and a Delta pipeline that may not both run. *)
MixedClash(k, d) ==
  \/ k.name.base # "" /\ k.name = d.name
  \/ /\ Comparable(k)
     /\ \/ TableKey(k.target) = TableKey(d.target)
        \/ TableKey(DqOf(k)) = TableKey(DqOf(d)) /\ k.app = d.app

KafkaConflicts(ks, ps) ==
  {i \in DOMAIN ks :
     \/ \E j \in DOMAIN ks \ {i} : KafkaClash(ks[i], ks[j])
     \/ \E j \in DOMAIN ps : MixedClash(ks[i], ps[j])
     \/ Comparable(ks[i]) /\ IsStage(ks[i].target)}

DeltaConflicts(ks, ps) ==
  {ps[j].name : j \in {j \in DOMAIN ps : \E i \in DOMAIN ks : MixedClash(ks[i], ps[j])}}

----------------------------------------------------------------------------
(* One entry *)

LookupsFine(p) ==
  /\ \A i \in DOMAIN p.lookups :
       /\ p.lookups[i].uri \notin {p.source, p.target}
       /\ \A j \in DOMAIN p.lookups \ {i} : p.lookups[i].name # p.lookups[j].name
  /\ p.lookups # <<>> => p.sql # "none"

ModeFine(p) ==
  CASE p.mode = "staged" -> FALSE
    [] p.mode = "upsert" -> (p.key \/ p.dedupKey) /\ p.ts
    [] OTHER -> ~p.key /\ p.lookback = "none" /\ p.tiebreak = "none"

ResolvesOne(p) ==
  /\ ~p.meta
  /\ p.app.base # ""
  /\ p.source # p.target
  /\ LookupsFine(p)
  /\ p.sql # "bad"
  /\ ModeFine(p)
  /\ p.tiebreak # "bad"
  /\ ~PartitionProblem(p)
  /\ p.lookback # "bad"
  /\ p.sizes

PublishProblem(p) == p.mode \in {"upsert", "staged"}

ResolvePublish(p, sink) ==
  /\ p.publish.group # "none"
  /\ ~PublishProblem(p)
  /\ ~(p.publish.near /\ p.lookups # <<>>)
  /\ sink = "good"
  /\ p.publish.flaw = "none"

\* Mutant: a group is contested by entries of one name only.
ContestedByName(ps, sink) ==
  {ps[i].name : i \in {i \in DOMAIN ps :
     /\ sink # "absent"
     /\ \E j \in DOMAIN ps \ {i} :
          ps[j].publish.group = ps[i].publish.group /\ ps[j].name = ps[i].name}}

(* The pipelines that lose their publication to a shared group. *)
Contested(ps, sink) ==
  LET users == {i \in DOMAIN ps : ps[i].publish.group # "none" /\ ~PublishProblem(ps[i])}
  IN  {ps[i].name : i \in {i \in users :
         /\ sink # "absent"
         /\ \E j \in users \ {i} : ps[j].publish.group = ps[i].publish.group}}

----------------------------------------------------------------------------
(* resolve_all *)

Init ==
  /\ cfg \in [delta : DeltaLists, kafka : KafkaLists, sink : Sinks]
  /\ pc = "load"
  /\ expanded = <<>> /\ condemned = {} /\ clashing = {} /\ next = 1
  /\ ok = <<>> /\ kafkaOk = {} /\ rejected = 0

NothingToRun ==
  /\ pc = "load"
  /\ cfg.delta = <<>> /\ cfg.kafka = <<>>
  /\ pc' = "fatal"
  /\ UNCHANGED <<cfg, expanded, condemned, clashing, next, ok, kafkaOk, rejected>>

Expand ==
  /\ pc = "load"
  /\ cfg.delta # <<>> \/ cfg.kafka # <<>>
  /\ expanded' = ExpandStaged(cfg.delta)
  /\ pc' = "cross"
  /\ UNCHANGED <<cfg, condemned, clashing, next, ok, kafkaOk, rejected>>

CrossCheck ==
  /\ pc = "cross"
  /\ condemned' = UNION {SharedAppId(expanded), SharedName(expanded),
                         CascadeConflicts(expanded), StageConflicts(expanded),
                         DeltaConflicts(cfg.kafka, expanded)}
  /\ clashing' = KafkaConflicts(cfg.kafka, expanded)
  /\ pc' = "delta"
  /\ UNCHANGED <<cfg, expanded, next, ok, kafkaOk, rejected>>

Here == expanded[next]

HoldBack ==
  /\ pc = "delta" /\ next <= Len(expanded)
  /\ Here.name \in condemned \/ ~ResolvesOne(Here)
  /\ rejected' = rejected + 1
  /\ next' = next + 1
  /\ UNCHANGED <<cfg, pc, expanded, condemned, clashing, ok, kafkaOk>>

\* Mutant: a publication that cannot be sent holds the pipeline back.
TakeOnIfPublished ==
  /\ pc = "delta" /\ next <= Len(expanded)
  /\ Here.name \notin condemned /\ ResolvesOne(Here)
  /\ IF Here.publish.group = "none" \/ ResolvePublish(Here, cfg.sink)
     THEN /\ ok' = Append(ok, [p |-> Here, publishes |-> Here.publish.group # "none"])
          /\ UNCHANGED rejected
     ELSE rejected' = rejected + 1 /\ UNCHANGED ok
  /\ next' = next + 1
  /\ UNCHANGED <<cfg, pc, expanded, condemned, clashing, kafkaOk>>

TakeOn ==
  /\ pc = "delta" /\ next <= Len(expanded)
  /\ Here.name \notin condemned /\ ResolvesOne(Here)
  /\ ok' = Append(ok, [p |-> Here,
                       publishes |-> /\ ResolvePublish(Here, cfg.sink)
                                     /\ Here.name \notin Contested(expanded, cfg.sink)])
  /\ next' = next + 1
  /\ UNCHANGED <<cfg, pc, expanded, condemned, clashing, kafkaOk, rejected>>

DeltaDone ==
  /\ pc = "delta" /\ next > Len(expanded)
  /\ pc' = "kafka"
  /\ next' = 1
  /\ UNCHANGED <<cfg, expanded, condemned, clashing, ok, kafkaOk, rejected>>

KafkaSound(k) == Comparable(k) /\ k.alone

KafkaHoldBack ==
  /\ pc = "kafka" /\ next <= Len(cfg.kafka)
  /\ next \in clashing \/ ~KafkaSound(cfg.kafka[next]) \/ ~KafkaBuilt
  /\ rejected' = rejected + 1
  /\ next' = next + 1
  /\ UNCHANGED <<cfg, pc, expanded, condemned, clashing, ok, kafkaOk>>

KafkaTakeOn ==
  /\ pc = "kafka" /\ next <= Len(cfg.kafka)
  /\ next \notin clashing /\ KafkaSound(cfg.kafka[next]) /\ KafkaBuilt
  /\ kafkaOk' = kafkaOk \cup {next}
  /\ next' = next + 1
  /\ UNCHANGED <<cfg, pc, expanded, condemned, clashing, ok, rejected>>

KafkaDone ==
  /\ pc = "kafka" /\ next > Len(cfg.kafka)
  /\ pc' = "done"
  /\ UNCHANGED <<cfg, expanded, condemned, clashing, next, ok, kafkaOk, rejected>>

Next ==
  \/ NothingToRun \/ Expand \/ CrossCheck
  \/ HoldBack \/ TakeOn \/ DeltaDone
  \/ KafkaHoldBack \/ KafkaTakeOn \/ KafkaDone

Spec == Init /\ [][Next]_vars

----------------------------------------------------------------------------
(* Properties *)

Running == {ok[i].p : i \in DOMAIN ok}

RunningKafka == {cfg.kafka[i] : i \in kafkaOk}

(* Type invariant. *)
TypeOK ==
  /\ pc \in {"load", "cross", "delta", "kafka", "done", "fatal"}
  /\ next \in 1 .. Len(expanded) + Len(cfg.kafka) + 1
  /\ kafkaOk \subseteq DOMAIN cfg.kafka /\ clashing \subseteq DOMAIN cfg.kafka
  /\ pc = "done" => Len(ok) + Cardinality(kafkaOk) + rejected
                      = Len(expanded) + Len(cfg.kafka)
  /\ \A p \in Running : p.mode \in {"append", "upsert"}

(* No two pipelines that run keep their offset under one txn of one table,
   however the table is spelt: a Delta pipeline's app_id is its own in the
   whole fleet, a Kafka pipeline's in its target, and the two kinds share no
   target, where `<app_id>` and `<app_id>-<partition>` could meet.
   (config.rs:1457, config/kafka.rs:1258) *)
OffsetsApart ==
  /\ \A i, j \in DOMAIN ok : i # j => ok[i].p.app # ok[j].p.app
  /\ \A i, j \in kafkaOk : i # j =>
       LET a == cfg.kafka[i]  b == cfg.kafka[j]
       IN  /\ <<a.target.base, a.target.kind, a.app>> # <<b.target.base, b.target.kind, b.app>>
           /\ <<a.target.base, a.target.kind, a.topic>> # <<b.target.base, b.target.kind, b.topic>>
  /\ \A k \in RunningKafka, p \in Running :
       <<k.target.base, k.target.kind>> # <<p.target.base, p.target.kind>>

(* No two pipelines that run record rejects in one table under one app_id: a
   retry would take the other's reject for its own. (config/kafka.rs:1262,
   1346) *)
RejectsApart ==
  LET dq(p) == <<DqOf(p).base, DqOf(p).kind, p.app>>
  IN  /\ \A i, j \in DOMAIN ok : i # j => dq(ok[i].p) # dq(ok[j].p)
      /\ \A i, j \in kafkaOk : i # j => dq(cfg.kafka[i]) # dq(cfg.kafka[j])
      /\ \A k \in RunningKafka, p \in Running : dq(k) # dq(p)

(* A stage table is used by the pair that owns it and by nobody else: one
   pipeline writes it, and what reads it is that one's other half.
   (config.rs:1196) *)
StagePrivate ==
  LET touches(p, t) == \E u \in {p.source, p.target} : <<u.base, u.kind>> = t
  IN  \A w \in Running : IsStage(w.target) =>
        LET t == <<w.target.base, w.target.kind>>
        IN  /\ \A p \in Running : touches(p, t) => p.name.base = w.name.base
            /\ \A k \in RunningKafka : <<k.target.base, k.target.kind>> # t

(* A pipeline that reads a table another one upserts is itself an upsert that
   re-reads rewritten rows; any other reader would stop, lose or repeat them.
   (config.rs:935) *)
CascadeReadable ==
  \A u, d \in Running :
    (u.mode = "upsert" /\ <<d.source.base, d.source.kind>> = <<u.target.base, u.target.kind>>)
      => d.mode = "upsert" /\ d.policy = "ignore"

(* What the operator wrote for a staged entry happens once between its two
   halves: the transform and the lookups on the way into the stage, the merge
   on the way out, and the rejects of both beside the real target.
   (config.rs:1087) *)
SplitNotCopied ==
  \A a, b \in Running :
    (a.target = b.source /\ IsStage(a.target) /\ a.name.base = b.name.base) =>
      /\ a.mode = "append" /\ b.mode = "upsert"
      /\ b.sql = "none" /\ b.lookups = <<>> /\ b.policy = "fail"
      /\ TableKey(DqOf(a)) = TableKey(DqOf(b))

Alike(p) == [p EXCEPT !.publish = NoPublication]

(* A publication never stops ingestion: the pipelines that run are the ones
   that would run if nobody published. (config.rs:1626) *)
PublishNeverStops ==
  pc \in {"kafka", "done"} =>
    {Alike(p) : p \in Running}
      = {Alike(expanded[i]) : i \in {i \in DOMAIN expanded :
           /\ expanded[i].name \notin condemned
           /\ ResolvesOne(Alike(expanded[i]))}}

(* At most one running pipeline publishes to a group. (config.rs:1522) *)
OnePublisher ==
  \A i, j \in DOMAIN ok :
    (i # j /\ ok[i].publishes /\ ok[j].publishes)
      => ok[i].p.publish.group # ok[j].p.publish.group

=============================================================================
