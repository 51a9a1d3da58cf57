---------------------------- MODULE KafkaSettings ----------------------------
(***************************************************************************)
(* What one Kafka pipeline asks of its client                              *)
(* (src/src/config/kafka.rs: resolve_kafka at load, client_settings at     *)
(* open).                                                                  *)
(*                                                                         *)
(* A librdkafka setting can be written under several names, in four        *)
(* tables: [kafka.settings], the pipeline's, and the two settings_env      *)
(* tables, whose values are environment variables read only when the       *)
(* pipeline opens.  librdkafka is handed the keys in no particular order,  *)
(* so two names for one setting must never reach it, and the settings ddi  *)
(* needs for its offsets to hold must be the ones it set.                  *)
(***************************************************************************)
EXTENDS Integers, FiniteSets, Functions, TLC

CONSTANTS
  Tables,       \* the [kafka.settings] and pipeline settings tables tried
  EnvTables,    \* the settings_env tables tried: key -> variable
  Environments, \* what the variables hold when the pipeline opens
  ScramRefs,    \* scram_json_env: "disabled", "default", "explicit"
  JaasRefs,     \* jaas_env: the same, with no default
  Starts,       \* starting_offsets as written
  Limits        \* the numbers a section or a pipeline sets

(* A key as written: whether it has the prefix "topic.", and the rest. *)
Key(name) == [topic |-> FALSE, name |-> name]
TopicKey(name) == [topic |-> TRUE, name |-> name]

GlobalAliases ==
  [sasl_mechanism |-> "sasl_mechanisms", bootstrap_servers |-> "metadata_broker_list"]

GlobalTopicNames == {"blacklist"}

TopicOnlyNames == {"auto_offset_reset", "auto_commit_enable"}

TopicAliases == [enable_auto_commit |-> "auto_commit_enable"]

Aliased(table, name) == IF name \in DOMAIN table THEN table[name] ELSE name

LibrdkafkaProperty(key) ==
  IF ~key.topic /\ key.name \in DOMAIN GlobalAliases THEN Key(GlobalAliases[key.name])
  ELSE IF \/ key.topic /\ key.name \notin GlobalTopicNames
          \/ ~key.topic /\ key.name \in TopicOnlyNames
       THEN TopicKey(Aliased(TopicAliases, key.name))
       ELSE key

ForcedValues ==
  (Key("bootstrap_servers") :> "ddi") @@ (Key("group_id") :> "ddi")
    @@ (Key("enable_auto_commit") :> "ddi") @@ (Key("auto_offset_reset") :> "ddi")
    @@ (Key("group_protocol") :> "ddi")

ForcedKeys ==
  DOMAIN ForcedValues \cup {Key("metadata_broker_list"), Key("auto_commit_enable")}

DefaultSettings == Key("client_id") :> "ddi"

Unset == -1

(* Assumed of the constants; the suites that instantiate the module assume it. *)
ConstantsAssumption ==
  /\ ScramRefs \subseteq {"disabled", "default", "explicit"}
  /\ JaasRefs \subseteq {"disabled", "explicit"}
  /\ \A e \in Environments : {"SCRAM", "JAAS"} \subseteq DOMAIN e

VARIABLES
  file,    \* the entry and the section it inherits from
  env,     \* the environment, fixed when the pipeline opens
  pc,      \* "load", "loaded", "held", "failed", "open"
  merged,  \* settings and settings_env after the section and the pipeline
  start,   \* the start policy: partition -> offset, and the rest
  client   \* what the client is created with

vars == <<file, env, pc, merged, start, client>>

Empty == <<>>

----------------------------------------------------------------------------
(* The maps of settings *)

\* Mutant: a later layer's name is put beside an earlier layer's.
SetAllBeside(map, layer) == layer @@ map

(* set_property for every entry of a layer, no two of whose keys are one
   setting: the settings under every other name go first. *)
SetAll(map, layer) ==
  layer @@ Restrict(map, {k \in DOMAIN map :
             \A l \in DOMAIN layer : LibrdkafkaProperty(k) # LibrdkafkaProperty(l)})

Has(map, property) == \E k \in DOMAIN map : LibrdkafkaProperty(k) = LibrdkafkaProperty(property)

ValueOf(map, property) ==
  map[CHOOSE k \in DOMAIN map : LibrdkafkaProperty(k) = LibrdkafkaProperty(property)]

----------------------------------------------------------------------------
(* What a table may not say *)

\* Mutant: a forced key is looked for as it is spelt.
RefuseForcedKeySpelt(map) == DOMAIN map \cap ForcedKeys # {}

RefuseForcedKey(map) ==
  \E k \in DOMAIN map, f \in ForcedKeys : LibrdkafkaProperty(k) = LibrdkafkaProperty(f)

RefuseTwoNames(map) ==
  \E k, l \in DOMAIN map : k # l /\ LibrdkafkaProperty(k) = LibrdkafkaProperty(l)

(* True when a value is one ddi cannot run with. *)
CheckValues(map, hasMechanism) ==
  \/ Has(map, Key("sasl_mechanisms")) /\ ValueOf(map, Key("sasl_mechanisms")) = "gssapi"
  \/ /\ Has(map, Key("partition_assignment_strategy"))
     /\ ValueOf(map, Key("partition_assignment_strategy")) = "cooperative"
  \/ /\ Has(map, Key("security_protocol"))
     /\ ValueOf(map, Key("security_protocol")) = "sasl"
     /\ ~hasMechanism

InstanceIdInFile(map) == Has(map, Key("group_instance_id"))

----------------------------------------------------------------------------
(* Numbers and start offsets *)

Pick(pipeline, section) == IF pipeline # Unset THEN pipeline ELSE section

PickOr(pipeline, section, default) ==
  IF Pick(pipeline, section) = Unset THEN default ELSE Pick(pipeline, section)

LimitsFine(l) ==
  /\ PickOr(l.pipeline.latency, l.section.latency, 60) >= 1
  /\ Pick(l.pipeline.messages, l.section.messages) # 0
  /\ PickOr(l.pipeline.megabytes, l.section.megabytes, 256) >= 1
  /\ PickOr(l.pipeline.revoke, l.section.revoke, 120) \in 5 .. 300
  /\ PickOr(l.pipeline.recheck, l.section.recheck, 60) >= 1

(* The values of a starting_offsets entry that are words, and its keys that
   are no partition. *)
Earliest == -10
Latest == -11
OtherWord == -12
Rest == -1
NoPartition == -2

(* written_once: two keys are one partition. *)
WrittenTwice(map) == \E a, b \in map : a # b /\ a.partition = b.partition

EntryFine(e) ==
  CASE e.partition = Rest -> e.value \in {Earliest, Latest}
    [] e.partition = NoPartition -> FALSE
    [] OTHER -> e.value >= 0

\* Mutant: "1" and "01" are two partitions.
ResolveStartSpelt(s) ==
  /\ s.kind = "named" => s.word \in {Earliest, Latest}
  /\ s.kind = "map" => s.map # {} /\ \A e \in s.map : EntryFine(e)

ResolveStart(s) ==
  /\ s.kind = "named" => s.word \in {Earliest, Latest}
  /\ s.kind = "map" => s.map # {} /\ ~WrittenTwice(s.map) /\ \A e \in s.map : EntryFine(e)

(* [kafka]'s own starting_offsets applies to every topic. *)
SectionStartFine(s) ==
  (s.kind = "map" /\ s.section) => \A e \in s.map : e.partition = Rest

(* A BTreeMap keeps the last of two entries for a partition. *)
Policy(s) ==
  CASE s.kind = "absent" -> Rest :> Earliest
    [] s.kind = "named" -> Rest :> s.word
    [] OTHER -> [p \in {e.partition : e \in s.map} |->
                   (CHOOSE e \in s.map : e.partition = p).value]

----------------------------------------------------------------------------
(* Load *)

Init ==
  /\ file \in [section : Tables, pipeline : Tables, sectionEnv : EnvTables,
               pipelineEnv : EnvTables, scram : ScramRefs, jaas : JaasRefs,
               start : Starts, limits : Limits]
  /\ env \in Environments
  /\ pc = "load"
  /\ merged = [settings |-> Empty, env |-> Empty]
  /\ start = Empty
  /\ client = Empty

Merged ==
  [settings |-> SetAll(file.section, file.pipeline),
   env |-> SetAll(file.sectionEnv, file.pipelineEnv)]

Refused ==
  \/ \E t \in {file.section, file.pipeline, file.sectionEnv, file.pipelineEnv} :
       RefuseForcedKey(t) \/ RefuseTwoNames(t)
  \/ InstanceIdInFile(file.section) \/ InstanceIdInFile(file.pipeline)
  \/ CheckValues(Merged.settings, \E t \in {Merged.settings, Merged.env} :
                                    Has(t, Key("sasl_mechanisms")))
  \/ ~SectionStartFine(file.start) \/ ~ResolveStart(file.start)
  \/ ~LimitsFine(file.limits)

HoldBack ==
  /\ pc = "load" /\ Refused
  /\ pc' = "held"
  /\ UNCHANGED <<file, env, merged, start, client>>

ResolveKafka ==
  /\ pc = "load" /\ ~Refused
  /\ merged' = Merged
  /\ start' = Policy(file.start)
  /\ pc' = "loaded"
  /\ UNCHANGED <<file, env, client>>

----------------------------------------------------------------------------
(* Open *)

(* EnvRef::read. *)
Named(ref) == ref # "disabled"

MissingRequired(ref, var) == ref = "explicit" /\ env[var] = "unset"

Given(ref, var) == Named(ref) /\ env[var] # "unset"

Identity(var) == (Key("sasl_username") :> var) @@ (Key("sasl_password") :> var)

\* Mutant: a JAAS line gives a user name only.
IdentitiesNameOnly ==
  IF Given(file.jaas, "JAAS") THEN Key("sasl_username") :> "JAAS"
  ELSE Empty

Identities ==
  IF Given(file.scram, "SCRAM") THEN Identity("SCRAM")
  ELSE IF Given(file.jaas, "JAAS") THEN Identity("JAAS")
  ELSE Empty

(* The first four layers of settings: defaults, identities, tables, values
   from the environment. *)
FromEnv == [k \in DOMAIN merged.env |-> env[merged.env[k]]]

\* Mutant: the variables are laid under the tables.
LayersEnvFirst ==
  SetAll(SetAll(Identities @@ DefaultSettings, FromEnv), merged.settings)

Layers == SetAll(SetAll(Identities @@ DefaultSettings, merged.settings), FromEnv)

BadIdentity ==
  \/ MissingRequired(file.scram, "SCRAM") \/ MissingRequired(file.jaas, "JAAS")
  \/ Given(file.scram, "SCRAM") /\ env["SCRAM"] = "malformed"
  \/ Given(file.jaas, "JAAS") /\ env["JAAS"] = "malformed"
  \/ Given(file.scram, "SCRAM") /\ Given(file.jaas, "JAAS")

BadLayers ==
  \/ \E k \in DOMAIN merged.env : env[merged.env[k]] = "unset"
  \/ RefuseForcedKey(Layers)
  \/ CheckValues(Layers, Has(Layers, Key("sasl_mechanisms")))

OpenFails ==
  /\ pc = "loaded"
  /\ BadIdentity \/ BadLayers
  /\ pc' = "failed"
  /\ UNCHANGED <<file, env, merged, start, client>>

ClientSettings ==
  /\ pc = "loaded"
  /\ ~BadIdentity /\ ~BadLayers
  /\ client' = ForcedValues @@ Layers
  /\ pc' = "open"
  /\ UNCHANGED <<file, env, merged, start>>

(* A failed open is tried again, by this process or by the next, whose
   environment may differ. *)
Reopen ==
  /\ pc = "failed"
  /\ env' \in Environments
  /\ pc' = "loaded"
  /\ UNCHANGED <<file, merged, start, client>>

Next == HoldBack \/ ResolveKafka \/ OpenFails \/ ClientSettings \/ Reopen

Spec == Init /\ [][Next]_vars

----------------------------------------------------------------------------
(* Properties *)

(* Type invariant. *)
TypeOK ==
  /\ pc \in {"load", "loaded", "held", "failed", "open"}
  /\ (pc = "open") = (client # Empty)
  /\ (pc \in {"loaded", "failed", "open"}) = (start # Empty)
  /\ \A k \in DOMAIN client : k.topic \in BOOLEAN

(* The settings the offsets rest on (no commits by the client, no reset to
   either end of a partition, eager assignment) are ddi's at every client,
   and stand under no second name. (config/kafka.rs:890) *)
ForcedHold ==
  pc = "open" =>
    \A f \in DOMAIN ForcedValues :
      /\ client[f] = "ddi"
      /\ \A k \in DOMAIN client \ {f} :
           \A g \in ForcedKeys : LibrdkafkaProperty(k) = LibrdkafkaProperty(g) => k \in DOMAIN ForcedValues

(* No setting reaches librdkafka under two names, which it would apply in an
   order that changes from one client to the next. (config/kafka.rs:623) *)
OneNameEach ==
  \A k, l \in DOMAIN client : k # l => LibrdkafkaProperty(k) # LibrdkafkaProperty(l)

(* The value of a setting is the one of the last layer that sets it, under
   whichever name: the pipeline's variables, the section's, the pipeline's
   table, the section's. (config/kafka.rs:756) *)
LastLayerWins ==
  pc = "open" =>
    \A k \in DOMAIN client \ DOMAIN ForcedValues :
      LET in(map) == Has(map, k)
      IN  ValueOf(client, k) =
            CASE in(file.pipelineEnv) -> env[ValueOf(file.pipelineEnv, k)]
              [] ~in(file.pipelineEnv) /\ in(file.sectionEnv) -> env[ValueOf(file.sectionEnv, k)]
              [] ~in(merged.env) /\ in(file.pipeline) -> ValueOf(file.pipeline, k)
              [] ~in(merged.env) /\ ~in(file.pipeline) /\ in(file.section) -> ValueOf(file.section, k)
              [] OTHER -> client[k]

(* A user name and a password no table sets are of one identity.
   (config/kafka.rs:786) *)
IdentityWhole ==
  LET given == {k \in {Key("sasl_username"), Key("sasl_password")} :
                  ~Has(merged.settings, k) /\ ~Has(merged.env, k)}
  IN  (pc = "open" /\ Cardinality(given) = 2)
        => \/ given \cap DOMAIN client = {}
           \/ given \subseteq DOMAIN client /\ Cardinality({client[k] : k \in given}) = 1

(* Every partition starts where each key that names it says.
   (config/kafka.rs:1018) *)
StartHonoured ==
  (start # Empty /\ file.start.kind = "map")
    => \A e \in file.start.map : start[e.partition] = e.value

=============================================================================
