---------------------------- MODULE MCRuntime_proofs ----------------------------
(***************************************************************************)
(* The properties of MCRuntime as theorems. In a behaviour of the suite    *)
(* one component moves and part tells which; so the behaviour is one of    *)
(* that component alone, and what the component's own proofs state for     *)
(* every value of its constants holds of it. What those proofs assume of   *)
(* the constants is what ConstantsAssumption names, and, where a theorem   *)
(* asks for more, follows from the values the suite gives.                 *)
(***************************************************************************)
EXTENDS MCRuntime, TLAPS

-----------------------------------------------------------------------------
(* A behaviour of the suite is one of a component *)

\* A step keeps its behaviour with the component it is about, and a step that leaves the
\* variables alone leaves each of them alone.
LEMMA PartStays == [Next]_vars => part' = part
<1>1. CASE Next
  <2>1. UNCHANGED Rest4 => part' = part
    BY DEF Rest4, Rest5, Rest6, Rest7, Rest8, Rest9, Rest10, Rest11, Rest12, Rest13, Rest14,
       Rest15, Rest16, Rest17, Rest18, Rest19
  <2>2. UNCHANGED Rest6 => part' = part
    BY DEF Rest6, Rest7, Rest8, Rest9, Rest10, Rest11, Rest12, Rest13, Rest14, Rest15, Rest16,
       Rest17, Rest18, Rest19
  <2>3. UNCHANGED Rest8 => part' = part
    BY DEF Rest8, Rest9, Rest10, Rest11, Rest12, Rest13, Rest14, Rest15, Rest16, Rest17, Rest18,
       Rest19
  <2>4. UNCHANGED Rest10 => part' = part
    BY DEF Rest10, Rest11, Rest12, Rest13, Rest14, Rest15, Rest16, Rest17, Rest18, Rest19
  <2>5. UNCHANGED Rest12 => part' = part
    BY DEF Rest12, Rest13, Rest14, Rest15, Rest16, Rest17, Rest18, Rest19
  <2>6. UNCHANGED Rest13 => part' = part
    BY DEF Rest13, Rest14, Rest15, Rest16, Rest17, Rest18, Rest19
  <2>7. UNCHANGED Rest16 => part' = part
    BY DEF Rest16, Rest17, Rest18, Rest19
  <2>8. UNCHANGED Rest18 => part' = part
    BY DEF Rest18, Rest19
  <2>9. UNCHANGED Rest19 => part' = part
    BY DEF Rest19
  <2> QED BY <1>1, <2>1, <2>2, <2>3, <2>4, <2>5, <2>6, <2>7, <2>8, <2>9 DEF Next
<1>2. CASE UNCHANGED vars
  BY <1>2 DEF vars, Rest0, Rest1, Rest2, Rest3, Rest4, Rest5, Rest6, Rest7, Rest8, Rest9,
     Rest10, Rest11, Rest12, Rest13, Rest14, Rest15, Rest16, Rest17, Rest18, Rest19
<1> QED BY <1>1, <1>2

\* The variables of the suite are the nineteen and part.
LEMMA Stutters == UNCHANGED vars <=> 
  UNCHANGED <<v1, v2, v3, v4, v5, v6, v7, v8, v9, v10, v11, v12, v13, v14, v15, v16, v17, v18,
              v19, part>>
  BY DEF vars, Rest0, Rest1, Rest2, Rest3, Rest4, Rest5, Rest6, Rest7, Rest8, Rest9, Rest10,
     Rest11, Rest12, Rest13, Rest14, Rest15, Rest16, Rest17, Rest18, Rest19

\* A behaviour of the suite is about the events of the consumers throughout, and is one that
\* KafkaEvents specifies, or never is.
LEMMA EventsApart == Spec => ([](part = "events") /\ Events!Spec) \/ []~(part = "events")
<1>1. part = "events" /\ Init => Events!Init BY DEF Init
<1>2. part = "events" /\ [Next]_vars => (part = "events")' /\ [Events!Next]_(Events!vars)
  BY PartStays, Stutters DEF Next, Events!vars, Events!broker, Events!bounds, Events!client,
     Events!source
<1>3. ~(part = "events") /\ [Next]_vars => ~(part = "events")' BY PartStays
<1> QED BY <1>1, <1>2, <1>3, PTL DEF Spec, Events!Spec

\* A behaviour of the suite is about the loop of a Kafka member throughout, and is one that
\* KafkaLag specifies, or never is.
LEMMA LagApart == Spec => ([](part = "lag") /\ Versions!Reader!Spec) \/ []~(part = "lag")
<1>1. part = "lag" /\ Init => Versions!Reader!Init BY DEF Init
<1>2. part = "lag" /\ [Next]_vars => (part = "lag")' /\
        [Versions!Reader!Next]_(Versions!Reader!vars)
  BY PartStays, Stutters DEF Next, Versions!Reader!vars, Versions!Reader!topic,
     Versions!Reader!client, Versions!Reader!loop
<1>3. ~(part = "lag") /\ [Next]_vars => ~(part = "lag")' BY PartStays
<1> QED BY <1>1, <1>2, <1>3, PTL DEF Spec, Versions!Reader!Spec

\* A behaviour of the suite is about the loop of a Kafka member in once-mode throughout, and
\* is one that KafkaLag specifies, or never is.
LEMMA LagOnceApart == Spec => ([](part = "lagonce") /\ Marks!Reader!Spec) \/ []~(part = "lagonce")
<1>1. part = "lagonce" /\ Init => Marks!Reader!Init BY DEF Init
<1>2. part = "lagonce" /\ [Next]_vars => (part = "lagonce")' /\
        [Marks!Reader!Next]_(Marks!Reader!vars)
  BY PartStays, Stutters DEF Next, Marks!Reader!vars, Marks!Reader!topic, Marks!Reader!client,
     Marks!Reader!loop
<1>3. ~(part = "lagonce") /\ [Next]_vars => ~(part = "lagonce")' BY PartStays
<1> QED BY <1>1, <1>2, <1>3, PTL DEF Spec, Marks!Reader!Spec

\* A behaviour of the suite is about the guard of the target throughout, and is one that
\* TargetGuard specifies, or never is.
LEMMA GuardApart == Spec => ([](part = "guard") /\ Dq!Guard!Spec) \/ []~(part = "guard")
<1>1. part = "guard" /\ Init => Dq!Guard!Init BY DEF Init
<1>2. part = "guard" /\ [Next]_vars => (part = "guard")' /\ [Dq!Guard!Next]_(Dq!Guard!vars)
  BY PartStays, Stutters DEF Next, Dq!Guard!vars, Dq!Guard!table, Dq!Guard!writer
<1>3. ~(part = "guard") /\ [Next]_vars => ~(part = "guard")' BY PartStays
<1> QED BY <1>1, <1>2, <1>3, PTL DEF Spec, Dq!Guard!Spec

\* A behaviour of the suite is about the plan of a start and the opens after it throughout,
\* and is one that KafkaPlan specifies, or never is.
LEMMA PlanApart == Spec => ([](part = "plan") /\ Events!Preflight!Spec) \/ []~(part = "plan")
<1>1. part = "plan" /\ Init => Events!Preflight!Init BY DEF Init
<1>2. part = "plan" /\ [Next]_vars => (part = "plan")' /\
        [Events!Preflight!Next]_(Events!Preflight!vars)
  BY PartStays, Stutters DEF Next, Events!Preflight!vars, Events!Preflight!facts,
     Events!Preflight!topic
<1>3. ~(part = "plan") /\ [Next]_vars => ~(part = "plan")' BY PartStays
<1> QED BY <1>1, <1>2, <1>3, PTL DEF Spec, Events!Preflight!Spec

\* A behaviour of the suite is about the lookup of versions throughout, and is one that
\* OffsetLookup specifies, or never is.
LEMMA VersionsApart == Spec => ([](part = "versions") /\ Versions!Spec) \/ []~(part = "versions")
<1>1. part = "versions" /\ Init => Versions!Init BY DEF Init
<1>2. part = "versions" /\ [Next]_vars => (part = "versions")' /\ [Versions!Next]_(Versions!vars)
  BY PartStays, Stutters DEF Next, Versions!vars
<1>3. ~(part = "versions") /\ [Next]_vars => ~(part = "versions")' BY PartStays
<1> QED BY <1>1, <1>2, <1>3, PTL DEF Spec, Versions!Spec

\* A behaviour of the suite is about the lookup of marks throughout, and is one that
\* OffsetLookup specifies, or never is.
LEMMA MarksApart == Spec => ([](part = "marks") /\ Marks!Spec) \/ []~(part = "marks")
<1>1. part = "marks" /\ Init => Marks!Init BY DEF Init
<1>2. part = "marks" /\ [Next]_vars => (part = "marks")' /\ [Marks!Next]_(Marks!vars)
  BY PartStays, Stutters DEF Next, Marks!vars
<1>3. ~(part = "marks") /\ [Next]_vars => ~(part = "marks")' BY PartStays
<1> QED BY <1>1, <1>2, <1>3, PTL DEF Spec, Marks!Spec

\* A behaviour of the suite is about the quarantine throughout, and is one that KafkaDq
\* specifies, or never is.
LEMMA DqApart == Spec => ([](part = "dq") /\ Dq!Spec) \/ []~(part = "dq")
<1>1. part = "dq" /\ Init => Dq!Init BY DEF Init
<1>2. part = "dq" /\ [Next]_vars => (part = "dq")' /\ [Dq!Next]_(Dq!vars)
  BY PartStays, Stutters DEF Next, Dq!vars
<1>3. ~(part = "dq") /\ [Next]_vars => ~(part = "dq")' BY PartStays
<1> QED BY <1>1, <1>2, <1>3, PTL DEF Spec, Dq!Spec

\* A behaviour of the suite is about the supervisor of ddi run throughout, and is one that
\* Supervisor specifies, or never is.
LEMMA DaemonApart == Spec => ([](part = "daemon") /\ Daemon!Spec) \/ []~(part = "daemon")
<1>1. part = "daemon" /\ Init => Daemon!Init BY DEF Init
<1>2. part = "daemon" /\ [Next]_vars => (part = "daemon")' /\ [Daemon!Next]_(Daemon!vars)
  BY PartStays, Stutters DEF Next, Daemon!vars
<1>3. ~(part = "daemon") /\ [Next]_vars => ~(part = "daemon")' BY PartStays
<1> QED BY <1>1, <1>2, <1>3, PTL DEF Spec, Daemon!Spec

\* A behaviour of the suite is about the supervisor with its gates throughout, and is one
\* that Supervisor specifies, or never is.
LEMMA GatedApart == Spec => ([](part = "gated") /\ Gated!Spec) \/ []~(part = "gated")
<1>1. part = "gated" /\ Init => Gated!Init BY DEF Init
<1>2. part = "gated" /\ [Next]_vars => (part = "gated")' /\ [Gated!Next]_(Gated!vars)
  BY PartStays, Stutters DEF Next, Gated!vars
<1>3. ~(part = "gated") /\ [Next]_vars => ~(part = "gated")' BY PartStays
<1> QED BY <1>1, <1>2, <1>3, PTL DEF Spec, Gated!Spec

\* A behaviour of the suite is about the supervisor with a Kafka pipeline throughout, and is
\* one that Supervisor specifies, or never is.
LEMMA KafkaTaskApart == Spec => ([](part = "kafkatask") /\
        KafkaTask!Spec) \/ []~(part = "kafkatask")
<1>1. part = "kafkatask" /\ Init => KafkaTask!Init BY DEF Init
<1>2. part = "kafkatask" /\ [Next]_vars => (part = "kafkatask")' /\
        [KafkaTask!Next]_(KafkaTask!vars)
  BY PartStays, Stutters DEF Next, KafkaTask!vars
<1>3. ~(part = "kafkatask") /\ [Next]_vars => ~(part = "kafkatask")' BY PartStays
<1> QED BY <1>1, <1>2, <1>3, PTL DEF Spec, KafkaTask!Spec

\* A behaviour of the suite is about ddi once throughout, and is one that Supervisor
\* specifies, or never is.
LEMMA OnceApart == Spec => ([](part = "once") /\ Once!Spec) \/ []~(part = "once")
<1>1. part = "once" /\ Init => Once!Init BY DEF Init
<1>2. part = "once" /\ [Next]_vars => (part = "once")' /\ [Once!Next]_(Once!vars)
  BY PartStays, Stutters DEF Next, Once!vars
<1>3. ~(part = "once") /\ [Next]_vars => ~(part = "once")' BY PartStays
<1> QED BY <1>1, <1>2, <1>3, PTL DEF Spec, Once!Spec

\* A behaviour of the suite is about a catalog polled for relations of its own throughout,
\* and is one that Locate specifies, or never is.
LEMMA OwnApart == Spec => ([](part = "own") /\ Versions!Where!Spec) \/ []~(part = "own")
<1>1. part = "own" /\ Init => Versions!Where!Init BY DEF Init
<1>2. part = "own" /\ [Next]_vars => (part = "own")' /\
        [Versions!Where!Next]_(Versions!Where!vars)
  BY PartStays, Stutters DEF Next, Versions!Where!vars
<1>3. ~(part = "own") /\ [Next]_vars => ~(part = "own")' BY PartStays
<1> QED BY <1>1, <1>2, <1>3, PTL DEF Spec, Versions!Where!Spec

\* A behaviour of the suite is about a catalog polled for shared relations throughout, and is
\* one that Locate specifies, or never is.
LEMMA SharedApart == Spec => ([](part = "shared") /\ Marks!Where!Spec) \/ []~(part = "shared")
<1>1. part = "shared" /\ Init => Marks!Where!Init BY DEF Init
<1>2. part = "shared" /\ [Next]_vars => (part = "shared")' /\
        [Marks!Where!Next]_(Marks!Where!vars)
  BY PartStays, Stutters DEF Next, Marks!Where!vars
<1>3. ~(part = "shared") /\ [Next]_vars => ~(part = "shared")' BY PartStays
<1> QED BY <1>1, <1>2, <1>3, PTL DEF Spec, Marks!Where!Spec

\* A behaviour of the suite is about publishing after the commit throughout, and is one that
\* PublishChain specifies, or never is.
LEMMA PublishApart == Spec => ([](part = "publish") /\
        Versions!Chain!Spec) \/ []~(part = "publish")
<1>1. part = "publish" /\ Init => Versions!Chain!Init BY DEF Init
<1>2. part = "publish" /\ [Next]_vars => (part = "publish")' /\
        [Versions!Chain!Next]_(Versions!Chain!vars)
  BY PartStays, Stutters DEF Next, Versions!Chain!vars
<1>3. ~(part = "publish") /\ [Next]_vars => ~(part = "publish")' BY PartStays
<1> QED BY <1>1, <1>2, <1>3, PTL DEF Spec, Versions!Chain!Spec

\* A behaviour of the suite is about publishing by a near-time reader throughout, and is one
\* that PublishChain specifies, or never is.
LEMMA NearApart == Spec => ([](part = "near") /\ Marks!Chain!Spec) \/ []~(part = "near")
<1>1. part = "near" /\ Init => Marks!Chain!Init BY DEF Init
<1>2. part = "near" /\ [Next]_vars => (part = "near")' /\ [Marks!Chain!Next]_(Marks!Chain!vars)
  BY PartStays, Stutters DEF Next, Marks!Chain!vars
<1>3. ~(part = "near") /\ [Next]_vars => ~(part = "near")' BY PartStays
<1> QED BY <1>1, <1>2, <1>3, PTL DEF Spec, Marks!Chain!Spec

\* A behaviour of the suite is about a lookup under the strict policy throughout, and is one
\* that Lookups specifies, or never is.
LEMMA PinnedApart == Spec => ([](part = "pinned") /\
        Daemon!Enriching!Spec) \/ []~(part = "pinned")
<1>1. part = "pinned" /\ Init => Daemon!Enriching!Init BY DEF Init
<1>2. part = "pinned" /\ [Next]_vars => (part = "pinned")' /\
        [Daemon!Enriching!Next]_(Daemon!Enriching!vars)
  BY PartStays, Stutters DEF Next, Daemon!Enriching!vars
<1>3. ~(part = "pinned") /\ [Next]_vars => ~(part = "pinned")' BY PartStays
<1> QED BY <1>1, <1>2, <1>3, PTL DEF Spec, Daemon!Enriching!Spec

\* A behaviour of the suite is about a lookup under use_current throughout, and is one that
\* Lookups specifies, or never is.
LEMMA CurrentApart == Spec => ([](part = "current") /\
        Gated!Enriching!Spec) \/ []~(part = "current")
<1>1. part = "current" /\ Init => Gated!Enriching!Init BY DEF Init
<1>2. part = "current" /\ [Next]_vars => (part = "current")' /\
        [Gated!Enriching!Next]_(Gated!Enriching!vars)
  BY PartStays, Stutters DEF Next, Gated!Enriching!vars
<1>3. ~(part = "current") /\ [Next]_vars => ~(part = "current")' BY PartStays
<1> QED BY <1>1, <1>2, <1>3, PTL DEF Spec, Gated!Enriching!Spec

\* A behaviour of the suite is about a lookup with a baseline under use_current throughout,
\* and is one that Lookups specifies, or never is.
LEMMA ApprovedApart == Spec => ([](part = "approved") /\
        Once!Enriching!Spec) \/ []~(part = "approved")
<1>1. part = "approved" /\ Init => Once!Enriching!Init BY DEF Init
<1>2. part = "approved" /\ [Next]_vars => (part = "approved")' /\
        [Once!Enriching!Next]_(Once!Enriching!vars)
  BY PartStays, Stutters DEF Next, Once!Enriching!vars
<1>3. ~(part = "approved") /\ [Next]_vars => ~(part = "approved")' BY PartStays
<1> QED BY <1>1, <1>2, <1>3, PTL DEF Spec, Once!Enriching!Spec

\* A behaviour of the suite is about a lookup with a baseline under the strict policy
\* throughout, and is one that Lookups specifies, or never is.
LEMMA BaselineApart == Spec => ([](part = "baseline") /\
        KafkaTask!Enriching!Spec) \/ []~(part = "baseline")
<1>1. part = "baseline" /\ Init => KafkaTask!Enriching!Init BY DEF Init
<1>2. part = "baseline" /\ [Next]_vars => (part = "baseline")' /\
        [KafkaTask!Enriching!Next]_(KafkaTask!Enriching!vars)
  BY PartStays, Stutters DEF Next, KafkaTask!Enriching!vars
<1>3. ~(part = "baseline") /\ [Next]_vars => ~(part = "baseline")' BY PartStays
<1> QED BY <1>1, <1>2, <1>3, PTL DEF Spec, KafkaTask!Enriching!Spec

\* A behaviour of the suite is about the opening of a table throughout, and is one that
\* TableOpen specifies, or never is.
LEMMA OpeningApart == Spec => ([](part = "opening") /\ Dq!Opening!Spec) \/ []~(part = "opening")
<1>1. part = "opening" /\ Init => Dq!Opening!Init BY DEF Init
<1>2. part = "opening" /\ [Next]_vars => (part = "opening")' /\
        [Dq!Opening!Next]_(Dq!Opening!vars)
  BY PartStays, Stutters DEF Next, Dq!Opening!vars
<1>3. ~(part = "opening") /\ [Next]_vars => ~(part = "opening")' BY PartStays
<1> QED BY <1>1, <1>2, <1>3, PTL DEF Spec, Dq!Opening!Spec

\* A behaviour of the suite is about two compactors throughout, and is one that Compaction
\* specifies, or never is.
LEMMA CompactorsApart == Spec => ([](part = "compactors") /\
        Dq!Compacting!Spec) \/ []~(part = "compactors")
<1>1. part = "compactors" /\ Init => Dq!Compacting!Init BY DEF Init
<1>2. part = "compactors" /\ [Next]_vars =>
        (part = "compactors")' /\ [Dq!Compacting!Next]_(Dq!Compacting!vars)
  BY PartStays, Stutters DEF Next, Dq!Compacting!vars
<1>3. ~(part = "compactors") /\ [Next]_vars => ~(part = "compactors")' BY PartStays
<1> QED BY <1>1, <1>2, <1>3, PTL DEF Spec, Dq!Compacting!Spec

\* A behaviour of the suite is about the cache of schemas throughout, and is one that
\* SchemaRegistry specifies, or never is.
LEMMA RegistryApart == Spec => ([](part = "registry") /\
        Events!Registry!Spec) \/ []~(part = "registry")
<1>1. part = "registry" /\ Init => Events!Registry!Init BY DEF Init
<1>2. part = "registry" /\ [Next]_vars => (part = "registry")' /\
        [Events!Registry!Next]_(Events!Registry!vars)
  BY PartStays, Stutters DEF Next, Events!Registry!vars
<1>3. ~(part = "registry") /\ [Next]_vars => ~(part = "registry")' BY PartStays
<1> QED BY <1>1, <1>2, <1>3, PTL DEF Spec, Events!Registry!Spec

-----------------------------------------------------------------------------
(* The properties *)

MembersTyped ==
  /\ part = "events" => Events!TypeOK
  /\ part = "lag" => Versions!Reader!TypeOK
  /\ part = "lagonce" => Marks!Reader!TypeOK
  /\ part = "guard" => Dq!Guard!TypeOK
  /\ part = "plan" => Events!Preflight!TypeOK
  /\ part = "dq" => Dq!TypeOK
  /\ part = "registry" => Events!Registry!TypeOK

\* The parts of a Kafka member keep to their types.
LEMMA MembersAreTyped == Spec => []MembersTyped
<1>1. Spec => [](part = "events" => Events!TypeOK)
  <2>1. Events!Spec => []Events!TypeOK
    BY ConstantsAssumption, Events!TypesHold DEF ConstantsAssumption
  <2> QED BY <2>1, EventsApart, PTL
<1>2. Spec => [](part = "lag" => Versions!Reader!TypeOK)
  <2>1. Versions!Reader!Spec => []Versions!Reader!TypeOK
    BY ConstantsAssumption, Versions!ReaderTypeOK DEF ConstantsAssumption
  <2> QED BY <2>1, LagApart, PTL
<1>3. Spec => [](part = "lagonce" => Marks!Reader!TypeOK)
  <2>1. Marks!Reader!Spec => []Marks!Reader!TypeOK
    BY ConstantsAssumption, Marks!ReaderTypeOK DEF ConstantsAssumption
  <2> QED BY <2>1, LagOnceApart, PTL
<1>4. Spec => [](part = "guard" => Dq!Guard!TypeOK)
  <2>1. Dq!Guard!Spec => []Dq!Guard!TypeOK
    BY ConstantsAssumption, Dq!GuardTypesHold DEF ConstantsAssumption
  <2> QED BY <2>1, GuardApart, PTL
<1>5. Spec => [](part = "plan" => Events!Preflight!TypeOK)
  <2>1. Events!Preflight!Spec => []Events!Preflight!TypeOK
    BY ConstantsAssumption, Events!PlanTypes DEF ConstantsAssumption
  <2> QED BY <2>1, PlanApart, PTL
<1>6. Spec => [](part = "dq" => Dq!TypeOK)
  <2>1. Dq!Spec => []Dq!TypeOK
    BY ConstantsAssumption, Dq!TypesHold DEF ConstantsAssumption
  <2> QED BY <2>1, DqApart, PTL
<1>7. Spec => [](part = "registry" => Events!Registry!TypeOK)
  <2>1. Events!Registry!Spec => []Events!Registry!TypeOK
    BY ConstantsAssumption, Events!RegistryTypesHold DEF ConstantsAssumption
  <2> QED BY <2>1, RegistryApart, PTL
<1>8. ASSUME /\ part = "events" => Events!TypeOK
             /\ part = "lag" => Versions!Reader!TypeOK
             /\ part = "lagonce" => Marks!Reader!TypeOK
             /\ part = "guard" => Dq!Guard!TypeOK
             /\ part = "plan" => Events!Preflight!TypeOK
             /\ part = "dq" => Dq!TypeOK
             /\ part = "registry" => Events!Registry!TypeOK
      PROVE  MembersTyped
  BY <1>8 DEF MembersTyped
<1> QED BY <1>1, <1>2, <1>3, <1>4, <1>5, <1>6, <1>7, <1>8, PTL

FleetTyped ==
  /\ part = "daemon" => Daemon!TypeOK
  /\ part = "gated" => Gated!TypeOK
  /\ part = "kafkatask" => KafkaTask!TypeOK
  /\ part = "once" => Once!TypeOK
  /\ part = "own" => Versions!Where!TypeOK
  /\ part = "shared" => Marks!Where!TypeOK

\* The supervisor and the polling of catalogs keep to their types.
LEMMA FleetIsTyped == Spec => []FleetTyped
<1>1. Spec => [](part = "daemon" => Daemon!TypeOK)
  <2>1. Daemon!Spec => []Daemon!TypeOK
    BY ConstantsAssumption, Daemon!FleetTypes DEF ConstantsAssumption
  <2> QED BY <2>1, DaemonApart, PTL
<1>2. Spec => [](part = "gated" => Gated!TypeOK)
  <2>1. Gated!Spec => []Gated!TypeOK
    BY ConstantsAssumption, Gated!FleetTypes DEF ConstantsAssumption
  <2> QED BY <2>1, GatedApart, PTL
<1>3. Spec => [](part = "kafkatask" => KafkaTask!TypeOK)
  <2>1. KafkaTask!Spec => []KafkaTask!TypeOK
    BY ConstantsAssumption, KafkaTask!FleetTypes DEF ConstantsAssumption
  <2> QED BY <2>1, KafkaTaskApart, PTL
<1>4. Spec => [](part = "once" => Once!TypeOK)
  <2>1. Once!Spec => []Once!TypeOK
    BY ConstantsAssumption, Once!FleetTypes DEF ConstantsAssumption
  <2> QED BY <2>1, OnceApart, PTL
<1>5. Spec => [](part = "own" => Versions!Where!TypeOK)
  <2>1. Versions!Where!Spec => []Versions!Where!TypeOK
    BY ConstantsAssumption, Versions!WhereTypes DEF ConstantsAssumption
  <2> QED BY <2>1, OwnApart, PTL
<1>6. Spec => [](part = "shared" => Marks!Where!TypeOK)
  <2>1. Marks!Where!Spec => []Marks!Where!TypeOK
    BY ConstantsAssumption, Marks!WhereTypes DEF ConstantsAssumption
  <2> QED BY <2>1, SharedApart, PTL
<1>7. ASSUME /\ part = "daemon" => Daemon!TypeOK
             /\ part = "gated" => Gated!TypeOK
             /\ part = "kafkatask" => KafkaTask!TypeOK
             /\ part = "once" => Once!TypeOK
             /\ part = "own" => Versions!Where!TypeOK
             /\ part = "shared" => Marks!Where!TypeOK
      PROVE  FleetTyped
  BY <1>7 DEF FleetTyped
<1> QED BY <1>1, <1>2, <1>3, <1>4, <1>5, <1>6, <1>7, PTL

TablesTyped ==
  /\ part = "versions" => Versions!TypeOK
  /\ part = "marks" => Marks!TypeOK
  /\ part = "publish" => Versions!Chain!TypeOK
  /\ part = "near" => Marks!Chain!TypeOK
  /\ part = "opening" => Dq!Opening!TypeOK

\* The readers of a log and the publishers keep to their types.
LEMMA TablesAreTyped == Spec => []TablesTyped
<1>1. Spec => [](part = "versions" => Versions!TypeOK)
  <2>1. Versions!Spec => []Versions!TypeOK
    BY ConstantsAssumption, Versions!TypeIsOK DEF ConstantsAssumption
  <2> QED BY <2>1, VersionsApart, PTL
<1>2. Spec => [](part = "marks" => Marks!TypeOK)
  <2>1. Marks!Spec => []Marks!TypeOK
    BY ConstantsAssumption, Marks!TypeIsOK DEF ConstantsAssumption
  <2> QED BY <2>1, MarksApart, PTL
<1>3. Spec => [](part = "publish" => Versions!Chain!TypeOK)
  <2>1. Versions!Chain!Spec => []Versions!Chain!TypeOK
    BY ConstantsAssumption, Versions!ChainTypes DEF ConstantsAssumption
  <2> QED BY <2>1, PublishApart, PTL
<1>4. Spec => [](part = "near" => Marks!Chain!TypeOK)
  <2>1. Marks!Chain!Spec => []Marks!Chain!TypeOK
    BY ConstantsAssumption, Marks!ChainTypes DEF ConstantsAssumption
  <2> QED BY <2>1, NearApart, PTL
<1>5. Spec => [](part = "opening" => Dq!Opening!TypeOK)
  <2>1. Dq!Opening!Spec => []Dq!Opening!TypeOK
    BY ConstantsAssumption, Dq!OpenTypes DEF ConstantsAssumption, Dq!CleanupIsOrderly
  <2> QED BY <2>1, OpeningApart, PTL
<1>6. ASSUME /\ part = "versions" => Versions!TypeOK
             /\ part = "marks" => Marks!TypeOK
             /\ part = "publish" => Versions!Chain!TypeOK
             /\ part = "near" => Marks!Chain!TypeOK
             /\ part = "opening" => Dq!Opening!TypeOK
      PROVE  TablesTyped
  BY <1>6 DEF TablesTyped
<1> QED BY <1>1, <1>2, <1>3, <1>4, <1>5, <1>6, PTL

LookupsTyped ==
  /\ part = "pinned" => Daemon!Enriching!TypeOK
  /\ part = "current" => Gated!Enriching!TypeOK
  /\ part = "approved" => Once!Enriching!TypeOK
  /\ part = "baseline" => KafkaTask!Enriching!TypeOK

\* The choice of a lookup's version keeps to its types.
LEMMA LookupsAreTyped == Spec => []LookupsTyped
<1>1. Spec => [](part = "pinned" => Daemon!Enriching!TypeOK)
  <2>1. Daemon!Enriching!Spec => []Daemon!Enriching!TypeOK
    BY ConstantsAssumption, Daemon!LookupTypesHold DEF ConstantsAssumption
  <2> QED BY <2>1, PinnedApart, PTL
<1>2. Spec => [](part = "current" => Gated!Enriching!TypeOK)
  <2>1. Gated!Enriching!Spec => []Gated!Enriching!TypeOK
    BY ConstantsAssumption, Gated!LookupTypesHold DEF ConstantsAssumption
  <2> QED BY <2>1, CurrentApart, PTL
<1>3. Spec => [](part = "approved" => Once!Enriching!TypeOK)
  <2>1. Once!Enriching!Spec => []Once!Enriching!TypeOK
    BY ConstantsAssumption, Once!LookupTypesHold DEF ConstantsAssumption
  <2> QED BY <2>1, ApprovedApart, PTL
<1>4. Spec => [](part = "baseline" => KafkaTask!Enriching!TypeOK)
  <2>1. KafkaTask!Enriching!Spec => []KafkaTask!Enriching!TypeOK
    BY ConstantsAssumption, KafkaTask!LookupTypesHold DEF ConstantsAssumption
  <2> QED BY <2>1, BaselineApart, PTL
<1>5. ASSUME /\ part = "pinned" => Daemon!Enriching!TypeOK
             /\ part = "current" => Gated!Enriching!TypeOK
             /\ part = "approved" => Once!Enriching!TypeOK
             /\ part = "baseline" => KafkaTask!Enriching!TypeOK
      PROVE  LookupsTyped
  BY <1>5 DEF LookupsTyped
<1> QED BY <1>1, <1>2, <1>3, <1>4, <1>5, PTL

\* Each component keeps to its types (every module of the suite but Compaction, whose types
\* are part of its invariant).
THEOREM EveryPartIsTyped == Spec => []TypeOK
<1>1. MembersTyped /\ FleetTyped /\ TablesTyped /\ LookupsTyped => TypeOK
  BY DEF MembersTyped, FleetTyped, TablesTyped, LookupsTyped, TypeOK
<1> QED BY <1>1, MembersAreTyped, FleetIsTyped, TablesAreTyped, LookupsAreTyped, PTL

\* A partition has one owner, who alone has its messages in the buffer, and the loop polls
\* again only when every rebalance it was told of is answered (kafka/context.rs).
THEOREM HandoffIsClean == Spec => []CleanHandoff
<1>1. Spec => [](part = "events" => Events!Exclusive /\ Events!Answered /\ Events!BufferIsOwned)
  <2>1. Events!Spec => []Events!Exclusive /\ []Events!Answered /\ []Events!BufferIsOwned
    BY ConstantsAssumption, Events!PartitionsAreExclusive, Events!EventsAreAnswered,
       Events!BufferIsOfOwned DEF ConstantsAssumption
  <2> QED BY <2>1, EventsApart, PTL
<1>2. ASSUME /\ part = "events" => Events!Exclusive /\ Events!Answered /\ Events!BufferIsOwned
      PROVE  CleanHandoff
  BY <1>2 DEF CleanHandoff
<1> QED BY <1>1, <1>2, PTL

\* No commit lands in a recreated table or after an upgrade the writer does not know, and a
\* log only cleaned is taken for no other table (step.rs, fence.rs).
THEOREM TargetIsGuarded == Spec => []TargetGuarded
<1>1. Spec => [](part = "guard" => Dq!Guard!TargetGuarded)
  <2>1. Dq!Guard!Spec => []Dq!Guard!TargetGuarded
    BY ConstantsAssumption, Dq!CommitsAreGuarded DEF ConstantsAssumption
  <2> QED BY <2>1, GuardApart, PTL
<1>2. ASSUME /\ part = "guard" => Dq!Guard!TargetGuarded
      PROVE  TargetGuarded
  BY <1>2 DEF TargetGuarded
<1> QED BY <1>1, <1>2, PTL

\* ddi kafka plan and the open judge alike, and a process that ends before its first commit
\* starts where the one before it did (plan.rs, start.rs).
THEOREM PlansForetell == Spec => []Foretold
<1>1. Spec => [](part = "plan" => Events!Preflight!CleanPlanOpens /\
        Events!Preflight!BlockedPlanStops /\ Events!Preflight!StartKept)
  <2>1. Events!Preflight!Spec => []Events!Preflight!CleanPlanOpens /\
          []Events!Preflight!BlockedPlanStops /\ []Events!Preflight!StartKept
    BY ConstantsAssumption, Events!CleanPlansOpen, Events!BlockedPlansStop, Events!StartsAreKept
       DEF ConstantsAssumption, Events!NoneLatest, Entries
  <2> QED BY <2>1, PlanApart, PTL
<1>2. ASSUME /\ part = "plan" => Events!Preflight!CleanPlanOpens /\
                  Events!Preflight!BlockedPlanStops /\ Events!Preflight!StartKept
      PROVE  Foretold
  BY <1>2 DEF Foretold
<1> QED BY <1>1, <1>2, PTL

\* read_txns answers with the newest offset and its mark and fails only when the log no
\* longer tells (fence.rs).
THEOREM LookupsFindNewest == Spec => []NewestFound
<1>1. Spec => [](part = "versions" => Versions!NewestFound)
  <2>1. Versions!Spec => []Versions!NewestFound
    BY ConstantsAssumption, Versions!ReadsAreTrue DEF ConstantsAssumption
  <2> QED BY <2>1, VersionsApart, PTL
<1>2. Spec => [](part = "marks" => Marks!NewestFound)
  <2>1. Marks!Spec => []Marks!NewestFound
    BY ConstantsAssumption, Marks!ReadsAreTrue DEF ConstantsAssumption
  <2> QED BY <2>1, MarksApart, PTL
<1>3. ASSUME /\ part = "versions" => Versions!NewestFound
             /\ part = "marks" => Marks!NewestFound
      PROVE  NewestFound
  BY <1>3 DEF NewestFound
<1> QED BY <1>1, <1>2, <1>3, PTL

\* Rejects that went through are in the table, twice only when announced (dq.rs), and no
\* message is set aside for the registry's own trouble, whose schemas are fetched once
\* (registry.rs).
THEOREM QuarantineIsRight == Spec => []Quarantined
<1>1. Spec => [](part = "dq" => Dq!NeverLost /\ Dq!OnceUnlessAnnounced)
  <2>1. Dq!Spec => []Dq!NeverLost /\ []Dq!OnceUnlessAnnounced
    BY ConstantsAssumption, Dq!RejectsAreKept, Dq!RejectsAreOnce DEF ConstantsAssumption
  <2> QED BY <2>1, DqApart, PTL
<1>2. Spec => [](part = "registry" => Events!Registry!FetchedOnce /\ Events!Registry!NotBlamed /\
        Events!Registry!CellIsTrue)
  <2>1. Events!Registry!Spec => []Events!Registry!FetchedOnce /\ []Events!Registry!NotBlamed /\
          []Events!Registry!CellIsTrue
    BY ConstantsAssumption, Events!SchemaFetchedOnce, Events!OutageBlamesNone,
       Events!CellHoldsSchema DEF ConstantsAssumption
  <2> QED BY <2>1, RegistryApart, PTL
<1>3. ASSUME /\ part = "dq" => Dq!NeverLost /\ Dq!OnceUnlessAnnounced
             /\ part = "registry" => Events!Registry!FetchedOnce /\ Events!Registry!NotBlamed /\
                  Events!Registry!CellIsTrue
      PROVE  Quarantined
  BY <1>3 DEF Quarantined
<1> QED BY <1>1, <1>2, <1>3, PTL

\* What the process says of itself is true: the up series, the backoffs, the gates, the exit
\* code, the place of a step and the end of once-mode (main.rs, gate.rs, locate.rs, step.rs).
THEOREM ProcessSpeaksTrue == Spec => []Supervised
<1>1. Spec => [](part = "daemon" => Daemon!UpIsTrue /\ Daemon!FreshStart /\ Daemon!OperatorWaits)
  <2>1. Daemon!Spec => [](Daemon!UpIsTrue /\ Daemon!ExitTells)
    BY ConstantsAssumption, Daemon!TasksAreReported DEF ConstantsAssumption
  <2>2. Daemon!Spec => [](Daemon!FreshStart /\ Daemon!OperatorWaits)
    BY ConstantsAssumption, Daemon!BackoffIsRight DEF ConstantsAssumption
  <2> QED BY <2>1, <2>2, DaemonApart, PTL
<1>2. Spec => [](part = "kafkatask" => KafkaTask!UpIsTrue)
  <2>1. KafkaTask!Spec => [](KafkaTask!UpIsTrue /\ KafkaTask!ExitTells)
    BY ConstantsAssumption, KafkaTask!TasksAreReported DEF ConstantsAssumption
  <2> QED BY <2>1, KafkaTaskApart, PTL
<1>3. Spec => [](part = "gated" => Gated!WithinLimits)
  <2>1. Gated!Spec => []Gated!WithinLimits
    BY ConstantsAssumption, Gated!GateIsKept DEF ConstantsAssumption
  <2> QED BY <2>1, GatedApart, PTL
<1>4. Spec => [](part = "once" => Once!ExitTells)
  <2>1. Once!Spec => [](Once!UpIsTrue /\ Once!ExitTells)
    BY ConstantsAssumption, Once!TasksAreReported DEF ConstantsAssumption
  <2> QED BY <2>1, OnceApart, PTL
<1>5. Spec => [](part = "own" => Versions!Where!StepsWhereItIs)
  <2>1. Versions!Where!Spec => []Versions!Where!StepsWhereItIs
    BY ConstantsAssumption, Versions!StepsFollowTheCatalog DEF ConstantsAssumption
  <2> QED BY <2>1, OwnApart, PTL
<1>6. Spec => [](part = "shared" => Marks!Where!StepsWhereItIs)
  <2>1. Marks!Where!Spec => []Marks!Where!StepsWhereItIs
    BY ConstantsAssumption, Marks!StepsFollowTheCatalog DEF ConstantsAssumption
  <2> QED BY <2>1, SharedApart, PTL
<1>7. Spec => [](part = "lagonce" => Marks!Reader!OnceIsComplete)
  <2>1. Marks!Reader!Spec => []Marks!Reader!OnceIsComplete
    BY ConstantsAssumption, Marks!OnceModeIsComplete DEF ConstantsAssumption
  <2> QED BY <2>1, LagOnceApart, PTL
<1>8. ASSUME /\ part = "daemon" => Daemon!UpIsTrue /\ Daemon!FreshStart /\ Daemon!OperatorWaits
             /\ part = "kafkatask" => KafkaTask!UpIsTrue
             /\ part = "gated" => Gated!WithinLimits
             /\ part = "once" => Once!ExitTells
             /\ part = "own" => Versions!Where!StepsWhereItIs
             /\ part = "shared" => Marks!Where!StepsWhereItIs
             /\ part = "lagonce" => Marks!Reader!OnceIsComplete
      PROVE  Supervised
  BY <1>8 DEF Supervised
<1> QED BY <1>1, <1>2, <1>3, <1>4, <1>5, <1>6, <1>7, <1>8, PTL

\* A client that follows prev_published_through applies nothing after a gap it did not notice
\* and nothing twice (publish/mod.rs, near_time.rs).
THEOREM ClientsAreInformed == Spec => []ClientsInformed
<1>1. Spec => [](part = "publish" => Versions!Chain!NoHole /\ Versions!Chain!AppliedOnce)
  <2>1. Versions!Chain!Spec => []Versions!Chain!NoHole /\ []Versions!Chain!AppliedOnce
    BY ConstantsAssumption, Versions!ChainHasNoHole, Versions!AppliedAtMostOnce
       DEF ConstantsAssumption
  <2> QED BY <2>1, PublishApart, PTL
<1>2. Spec => [](part = "near" => Marks!Chain!NoHole)
  <2>1. Marks!Chain!Spec => []Marks!Chain!NoHole
    BY ConstantsAssumption, Marks!ChainHasNoHole DEF ConstantsAssumption
  <2> QED BY <2>1, NearApart, PTL
<1>3. ASSUME /\ part = "publish" => Versions!Chain!NoHole /\ Versions!Chain!AppliedOnce
             /\ part = "near" => Marks!Chain!NoHole
      PROVE  ClientsInformed
  BY <1>3 DEF ClientsInformed
<1> QED BY <1>1, <1>2, <1>3, PTL

\* A batch is joined with one version of a lookup, not newer than its source commit unless
\* the policy says so; a retry chooses the same, and under strict it is one table's
\* (lookup.rs).
THEOREM LookupsArePinned == Spec => []LookupsPinned
<1>1. Spec => [](part = "pinned" => Daemon!Enriching!Reproducible /\
        Daemon!Enriching!NeverTheFuture /\ Daemon!Enriching!OneLineage)
  <2>1. Daemon!Enriching!Spec => []Daemon!Enriching!Reproducible /\
          []Daemon!Enriching!NeverTheFuture /\ []Daemon!Enriching!OneLineage
    BY ConstantsAssumption, Daemon!RetriesJoinTheSame, Daemon!PinnedToThePast,
       Daemon!OneTableEnriches DEF ConstantsAssumption
  <2> QED BY <2>1, PinnedApart, PTL
<1>2. Spec => [](part = "current" => Gated!Enriching!Reproducible /\
        Gated!Enriching!NeverTheFuture)
  <2>1. Gated!Enriching!Spec => []Gated!Enriching!Reproducible /\ []Gated!Enriching!NeverTheFuture
    BY ConstantsAssumption, Gated!RetriesJoinTheSame, Gated!PinnedToThePast
       DEF ConstantsAssumption
  <2> QED BY <2>1, CurrentApart, PTL
<1>3. Spec => [](part = "approved" => Once!Enriching!Reproducible /\
        Once!Enriching!NeverTheFuture)
  <2>1. Once!Enriching!Spec => []Once!Enriching!Reproducible /\ []Once!Enriching!NeverTheFuture
    BY ConstantsAssumption, Once!RetriesJoinTheSame, Once!PinnedToThePast DEF ConstantsAssumption
  <2> QED BY <2>1, ApprovedApart, PTL
<1>4. Spec => [](part = "baseline" => KafkaTask!Enriching!Reproducible /\
        KafkaTask!Enriching!NeverTheFuture /\ KafkaTask!Enriching!OneLineage)
  <2>1. KafkaTask!Enriching!Spec => []KafkaTask!Enriching!Reproducible /\
          []KafkaTask!Enriching!NeverTheFuture /\ []KafkaTask!Enriching!OneLineage
    BY ConstantsAssumption, KafkaTask!RetriesJoinTheSame, KafkaTask!PinnedToThePast,
       KafkaTask!OneTableEnriches DEF ConstantsAssumption
  <2> QED BY <2>1, BaselineApart, PTL
<1>5. ASSUME /\ part = "pinned" => Daemon!Enriching!Reproducible /\
                  Daemon!Enriching!NeverTheFuture /\ Daemon!Enriching!OneLineage
             /\ part = "current" => Gated!Enriching!Reproducible /\ Gated!Enriching!NeverTheFuture
             /\ part = "approved" => Once!Enriching!Reproducible /\ Once!Enriching!NeverTheFuture
             /\ part = "baseline" => KafkaTask!Enriching!Reproducible /\
                  KafkaTask!Enriching!NeverTheFuture /\ KafkaTask!Enriching!OneLineage
      PROVE  LookupsPinned
  BY <1>5 DEF LookupsPinned
<1> QED BY <1>1, <1>2, <1>3, <1>4, <1>5, PTL

\* A table opened behind an unreadable checkpoint has all its rows, so have the checkpoints
\* written from it, and the commit that writes one completes (storage.rs).
THEOREM TablesAreWhole == Spec => []TablesWhole
<1>1. Spec => [](part = "opening" => Dq!Opening!SnapshotWhole /\ Dq!Opening!CheckpointsWhole /\
        Dq!Opening!CommitCompletes)
  <2>1. Dq!Opening!Spec => []Dq!Opening!SnapshotWhole /\ []Dq!Opening!CheckpointsWhole /\
          []Dq!Opening!CommitCompletes
    BY ConstantsAssumption, Dq!OpensWhole, Dq!CheckpointsAreWhole, Dq!CheckpointReadBack
       DEF ConstantsAssumption, Dq!CleanupIsOrderly
  <2> QED BY <2>1, OpeningApart, PTL
<1>2. ASSUME /\ part = "opening" => Dq!Opening!SnapshotWhole /\ Dq!Opening!CheckpointsWhole /\
                  Dq!Opening!CommitCompletes
      PROVE  TablesWhole
  BY <1>2 DEF TablesWhole
<1> QED BY <1>1, <1>2, PTL

\* The live files hold exactly the rows they ought to, each once, whatever the compactors and
\* the other engine do (GuardedLogStore::write_commit_entry).
THEOREM RowsAreKept == Spec => []RowsKept
<1>1. Spec => [](part = "compactors" => Dq!Compacting!RowsKept)
  <2>1. Dq!Compacting!Spec => []Dq!Compacting!RowsKept
    BY Dq!CompactionKeepsRows
  <2> QED BY <2>1, CompactorsApart, PTL
<1>2. ASSUME /\ part = "compactors" => Dq!Compacting!RowsKept
      PROVE  RowsKept
  BY <1>2 DEF RowsKept
<1> QED BY <1>1, <1>2, PTL

\* What no single step may do: report a member caught up that is not, clean up a protected
\* checkpoint, start afresh over rows of the topic, lower a gauge that waits for an operator
\* or count progress without a commit, or move a table back because the catalog is out of
\* reach.
THEOREM StepsAreTruthful == Spec => StepsTruthful
<1>1. Spec => [][Next]_vars BY PTL DEF Spec
<1>2. Spec => [][part = "lag" => Versions!Reader!CaughtUpIsTrue]_vars
  <2>1. Versions!Reader!Spec => [][Versions!Reader!CaughtUpIsTrue]_(Versions!Reader!vars)
    BY ConstantsAssumption, Versions!CaughtUpIsProved DEF ConstantsAssumption
  <2>2. part = "lag" /\ [Next]_vars /\ [Versions!Reader!CaughtUpIsTrue]_(Versions!Reader!vars)
        => [part = "lag" => Versions!Reader!CaughtUpIsTrue]_vars
    BY Stutters DEF Next, Versions!Reader!vars, Versions!Reader!topic, Versions!Reader!client,
       Versions!Reader!loop, Rest19
  <2>3. ~(part = "lag") => [part = "lag" => Versions!Reader!CaughtUpIsTrue]_vars OBVIOUS
  <2> QED BY <1>1, <2>1, <2>2, <2>3, LagApart, PTL
<1>3. Spec => [][part = "guard" => Dq!Guard!ProtectedKept]_vars
  <2>1. Dq!Guard!Spec => [][Dq!Guard!ProtectedKept]_(Dq!Guard!vars)
    BY ConstantsAssumption, Dq!ProtectionIsKept DEF ConstantsAssumption
  <2>2. part = "guard" /\ [Next]_vars /\ [Dq!Guard!ProtectedKept]_(Dq!Guard!vars)
        => [part = "guard" => Dq!Guard!ProtectedKept]_vars
    BY Stutters DEF Next, Dq!Guard!vars, Dq!Guard!table, Dq!Guard!writer, Rest13, Rest14,
       Rest15, Rest16, Rest17, Rest18, Rest19
  <2>3. ~(part = "guard") => [part = "guard" => Dq!Guard!ProtectedKept]_vars OBVIOUS
  <2> QED BY <1>1, <2>1, <2>2, <2>3, GuardApart, PTL
<1>4. Spec => [][part = "plan" => Events!Preflight!FreshOverRowsRefused]_vars
  <2>1. Events!Preflight!Spec => [][Events!Preflight!FreshOverRowsRefused]_(Events!Preflight!vars)
    BY ConstantsAssumption, Events!FreshOverRowsIsRefused DEF ConstantsAssumption
  <2>2. part = "plan" /\ [Next]_vars /\ [Events!Preflight!FreshOverRowsRefused]_(Events!Preflight!vars)
        => [part = "plan" => Events!Preflight!FreshOverRowsRefused]_vars
    BY Stutters DEF Next, Events!Preflight!vars, Events!Preflight!facts, Events!Preflight!topic,
       Rest12, Rest13, Rest14, Rest15, Rest16, Rest17, Rest18, Rest19
  <2>3. ~(part = "plan") => [part = "plan" => Events!Preflight!FreshOverRowsRefused]_vars OBVIOUS
  <2> QED BY <1>1, <2>1, <2>2, <2>3, PlanApart, PTL
<1>5. Spec => [][part = "daemon" => Daemon!GaugeStays]_vars
  <2>1. Daemon!Spec => [][Daemon!GaugeStays /\ Daemon!ProgressIsReal]_(Daemon!vars)
    BY ConstantsAssumption, Daemon!GaugesAreTrue DEF ConstantsAssumption
  <2>2. part = "daemon" /\ [Next]_vars /\ [Daemon!GaugeStays /\
          Daemon!ProgressIsReal]_(Daemon!vars)
        => [part = "daemon" => Daemon!GaugeStays]_vars
    BY Stutters DEF Next, Daemon!vars, Rest18, Rest19
  <2>3. ~(part = "daemon") => [part = "daemon" => Daemon!GaugeStays]_vars OBVIOUS
  <2> QED BY <1>1, <2>1, <2>2, <2>3, DaemonApart, PTL
<1>6. Spec => [][part = "kafkatask" => KafkaTask!GaugeStays /\ KafkaTask!ProgressIsReal]_vars
  <2>1. KafkaTask!Spec => [][KafkaTask!GaugeStays /\ KafkaTask!ProgressIsReal]_(KafkaTask!vars)
    BY ConstantsAssumption, KafkaTask!GaugesAreTrue DEF ConstantsAssumption
  <2>2. part = "kafkatask" /\ [Next]_vars /\ [KafkaTask!GaugeStays /\
          KafkaTask!ProgressIsReal]_(KafkaTask!vars)
        => [part = "kafkatask" => KafkaTask!GaugeStays /\ KafkaTask!ProgressIsReal]_vars
    BY Stutters DEF Next, KafkaTask!vars, Rest18, Rest19
  <2>3. ~(part = "kafkatask") => [part = "kafkatask" =>
          KafkaTask!GaugeStays /\ KafkaTask!ProgressIsReal]_vars OBVIOUS
  <2> QED BY <1>1, <2>1, <2>2, <2>3, KafkaTaskApart, PTL
<1>7. Spec => [][part = "own" => Versions!Where!OutageMovesNothingBack]_vars
  <2>1. Versions!Where!Spec => [][Versions!Where!OutageMovesNothingBack]_(Versions!Where!vars)
    BY ConstantsAssumption, Versions!OutagesMoveNothingBack
       DEF ConstantsAssumption, Versions!OneReaderEach, Versions!Where!Relation, Versions!Where!Ends
  <2>2. part = "own" /\ [Next]_vars /\ [Versions!Where!OutageMovesNothingBack]_(Versions!Where!vars)
        => [part = "own" => Versions!Where!OutageMovesNothingBack]_vars
    BY Stutters DEF Next, Versions!Where!vars, Rest10, Rest11, Rest12, Rest13, Rest14, Rest15,
       Rest16, Rest17, Rest18, Rest19
  <2>3. ~(part = "own") => [part = "own" => Versions!Where!OutageMovesNothingBack]_vars OBVIOUS
  <2> QED BY <1>1, <2>1, <2>2, <2>3, OwnApart, PTL
<1>8. ASSUME [part = "lag" => Versions!Reader!CaughtUpIsTrue]_vars,
             [part = "guard" => Dq!Guard!ProtectedKept]_vars,
             [part = "plan" => Events!Preflight!FreshOverRowsRefused]_vars,
             [part = "daemon" => Daemon!GaugeStays]_vars,
             [part = "kafkatask" => KafkaTask!GaugeStays /\ KafkaTask!ProgressIsReal]_vars,
             [part = "own" => Versions!Where!OutageMovesNothingBack]_vars
      PROVE  [/\ part = "lag" => Versions!Reader!CaughtUpIsTrue
              /\ part = "guard" => Dq!Guard!ProtectedKept
              /\ part = "plan" => Events!Preflight!FreshOverRowsRefused
              /\ part = "daemon" => Daemon!GaugeStays
              /\ part = "kafkatask" => KafkaTask!GaugeStays /\ KafkaTask!ProgressIsReal
              /\ part = "own" => Versions!Where!OutageMovesNothingBack]_vars
  BY <1>8
<1> QED BY <1>1, <1>2, <1>3, <1>4, <1>5, <1>6, <1>7, <1>8, PTL DEF StepsTruthful
=============================================================================
