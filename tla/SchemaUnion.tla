---------------------------- MODULE SchemaUnion -----------------------------
(***************************************************************************)
(* The union of writer schemas a Kafka pipeline's SQL is planned against   *)
(* (registry.rs SubjectSchemas, step.rs prepare): the subject's latest     *)
(* versions and every writer schema a message was decoded with. A batch is *)
(* prepared one writer schema at a time, each may ask the registry; an     *)
(* error leaves the batch held with part of the work done. Schemas are     *)
(* their ids, a newer one higher.                                          *)
(***************************************************************************)
EXTENDS Integers, FiniteSets, TLAPS

CONSTANTS
  SchemaIds,    \* ids under the subject, and under others
  Usable,       \* those that are Avro without references
  Foreign       \* those registered under another subject

(* Assumed of the constants; the suites that instantiate the module assume it. *)
ConstantsAssumption ==
  SchemaIds \subseteq Nat \ {0} /\ Usable \subseteq SchemaIds /\ Foreign \subseteq Usable

VARIABLES
  newest,    \* the subject's latest version in the registry, 0 while it has none
  latest,    \* every usable version that was the latest when asked
  latestId,  \* the latest when last asked, 0 for none
  seen,      \* the writer schemas messages were decoded with
  union,     \* the members the SQL is planned against
  batch,     \* the writer schemas of the batch in hand, {} without one
  todo,      \* those of it not observed yet in this try
  grew,      \* whether one was new in this try
  aligned    \* the batch was fitted to the union

vars == <<newest, latest, latestId, seen, union, batch, todo, grew, aligned>>

TypeOK ==
  /\ newest \in (SchemaIds \ Foreign) \cup {0} /\ latestId \in (SchemaIds \ Foreign) \cup {0}
  /\ latest \subseteq Usable \ Foreign /\ seen \subseteq Usable /\ union \subseteq latest \cup seen
  /\ batch \subseteq Usable /\ todo \subseteq batch
  /\ grew \in BOOLEAN /\ aligned \in BOOLEAN

\* Mutant: the latest version only, and what was decoded.
MembersNow == ({latestId} \cap Usable) \cup seen

(* members *)
Members == latest \cup seen

\* Mutant: the latest version is asked for at open only.
RefreshedNever == latest

(* refresh_latest, when the registry answers: an unusable version is left out. *)
Refreshed == IF newest \in Usable THEN latest \cup {newest} ELSE latest

(* SubjectSchemas::open, and the union built and planned as the pipeline opens. *)
Init ==
  /\ newest \in (SchemaIds \ Foreign) \cup {0} /\ latestId = newest
  /\ latest = {newest} \cap Usable /\ seen = {} /\ union = latest
  /\ batch = {} /\ todo = {} /\ grew = FALSE /\ aligned = FALSE

(* External: a version is registered, or the subject is deleted. *)
Publish(i) ==
  /\ i \in SchemaIds \ Foreign /\ i > newest
  /\ newest' = i
  /\ UNCHANGED <<latest, latestId, seen, union, batch, todo, grew, aligned>>

Delete ==
  /\ newest # 0 /\ newest' = 0
  /\ UNCHANGED <<latest, latestId, seen, union, batch, todo, grew, aligned>>

(* A batch closes, decoded with these writer schemas, and prepare begins. *)
Take(b) ==
  /\ batch = {} /\ b # {}
  /\ batch' = b /\ todo' = b /\ grew' = FALSE /\ aligned' = FALSE
  /\ UNCHANGED <<newest, latest, latestId, seen, union>>

(* observe *)
ObserveKnown(s) ==
  /\ s \in todo /\ s \in Members
  /\ seen' = seen \cup {s} /\ todo' = todo \ {s}
  /\ UNCHANGED <<newest, latest, latestId, union, batch, grew, aligned>>

ObserveNew(s) ==
  /\ s \in todo /\ s \notin Members
  /\ latest' = Refreshed /\ latestId' = newest
  /\ seen' = seen \cup {s} /\ todo' = todo \ {s} /\ grew' = TRUE
  /\ UNCHANGED <<newest, union, batch, aligned>>

(* Prepare fails: the registry does not answer, or the SQL does not plan. The
   batch is held and prepared again from its first schema. *)
PrepareFails ==
  /\ batch # {} /\ ~aligned
  /\ todo \subseteq Members => todo = {} /\ (grew \/ ~(batch \subseteq union))
  /\ todo' = batch /\ grew' = FALSE
  /\ UNCHANGED <<newest, latest, latestId, seen, union, batch, aligned>>

\* Mutant: the union is rebuilt only when this try's schemas were new.
StaleGrown == grew

(* grew || missing *)
Stale == grew \/ ~(batch \subseteq union)

(* The rest of prepare: rebuild, plan, align. *)
Prepare ==
  /\ batch # {} /\ ~aligned /\ todo = {}
  /\ union' = IF Stale THEN Members ELSE union
  /\ aligned' = TRUE
  /\ UNCHANGED <<newest, latest, latestId, seen, batch, todo, grew>>

(* The commit: it lands, or the batch is held and prepared again, or a revoke
   drops it. *)
Commit ==
  /\ aligned /\ batch' = {} /\ todo' = {} /\ grew' = FALSE /\ aligned' = FALSE
  /\ UNCHANGED <<newest, latest, latestId, seen, union>>

Hold ==
  /\ aligned /\ todo' = batch /\ grew' = FALSE /\ aligned' = FALSE
  /\ UNCHANGED <<newest, latest, latestId, seen, union, batch>>

DropBatch ==
  /\ batch # {} /\ batch' = {} /\ todo' = {} /\ grew' = FALSE /\ aligned' = FALSE
  /\ UNCHANGED <<newest, latest, latestId, seen, union>>

Next ==
  \/ \E i \in SchemaIds : Publish(i)
  \/ Delete
  \/ \E b \in SUBSET Usable : Take(b)
  \/ \E s \in SchemaIds : ObserveKnown(s) \/ ObserveNew(s)
  \/ PrepareFails \/ Prepare \/ Commit \/ Hold \/ DropBatch

Spec == Init /\ [][Next]_vars

-----------------------------------------------------------------------------
(* The rows handed to the SQL have a place in the union for every writer schema
   they were decoded with, whatever failed half way before. *)
Covered == aligned => batch \subseteq union

(* A union rebuilt takes the newest version the registry had when it was last
   asked: a field's newest type is the one the SQL sees. *)
NewestIn == aligned /\ grew /\ latestId \in Usable => latestId \in union

(* What the SQL was planned against stays in the union: a column it reads does
   not go away while the pipeline runs, though its subject is deleted. *)
OnlyGrows == union \subseteq union'

-----------------------------------------------------------------------------
(* Proofs, for every set of schemas: what is planned against covers what   *)
(* is decoded, and never loses a field.                                    *)

\* What was observed of the batch in this try or one before is known, and the latest
\* version when last asked is remembered if it can be used.
ObservedIsSeen ==
  /\ batch \ todo \subseteq seen
  /\ latestId \in Usable => latestId \in latest

\* The inductive invariant.
IInv == TypeOK /\ ObservedIsSeen /\ Covered /\ NewestIn

\* The invariant holds at first.
LEMMA Initially ==
  ASSUME ConstantsAssumption, Init
  PROVE  IInv
BY DEF ConstantsAssumption, Init, IInv, TypeOK, ObservedIsSeen, Covered, NewestIn

\* Every step keeps it, and the union.
LEMMA NextKeeps ==
  ASSUME ConstantsAssumption, IInv, [Next]_vars
  PROVE  IInv' /\ [OnlyGrows]_vars
<1> USE DEF ConstantsAssumption, IInv, TypeOK, ObservedIsSeen, Covered, NewestIn
<1>1. CASE \E i \in SchemaIds : Publish(i)
  BY <1>1 DEF Publish, OnlyGrows
<1>2. CASE Delete
  BY <1>2 DEF Delete, OnlyGrows
<1>3. CASE \E b \in SUBSET Usable : Take(b)
  BY <1>3 DEF Take, OnlyGrows
<1>4. CASE \E s \in SchemaIds : ObserveKnown(s)
  BY <1>4 DEF ObserveKnown, Members, OnlyGrows
<1>5. CASE \E s \in SchemaIds : ObserveNew(s)
  BY <1>5 DEF ObserveNew, Members, Refreshed, OnlyGrows
<1>6. CASE PrepareFails
  BY <1>6 DEF PrepareFails, OnlyGrows
<1>7. CASE Prepare
  BY <1>7 DEF Prepare, Stale, Members, OnlyGrows
<1>8. CASE Commit \/ Hold \/ DropBatch
  BY <1>8 DEF Commit, Hold, DropBatch, OnlyGrows
<1>9. CASE UNCHANGED vars
  BY <1>9 DEF vars, OnlyGrows
<1> QED
  BY <1>1, <1>2, <1>3, <1>4, <1>5, <1>6, <1>7, <1>8, <1>9 DEF Next

\* The rows handed to the SQL have a place in the union for every writer schema they were
\* decoded with, whatever failed half way before, and a union rebuilt takes the newest
\* version known (prepare of step.rs, SubjectSchemas of registry.rs).
THEOREM BatchesAreCovered ==
  ASSUME ConstantsAssumption
  PROVE  Spec => [](TypeOK /\ Covered /\ NewestIn)
<1>1. Init => IInv
  BY Initially
<1>2. IInv /\ [Next]_vars => IInv'
  BY NextKeeps
<1>3. IInv => TypeOK /\ Covered /\ NewestIn
  BY DEF IInv
<1> QED
  BY <1>1, <1>2, <1>3, PTL DEF Spec

\* A column the SQL was planned against does not go away while the pipeline runs, though
\* its subject is deleted (SubjectSchemas of registry.rs).
THEOREM UnionOnlyGrows ==
  ASSUME ConstantsAssumption
  PROVE  Spec => [][OnlyGrows]_vars
<1>1. Init => IInv
  BY Initially
<1>2. IInv /\ [Next]_vars => IInv' /\ [OnlyGrows]_vars
  BY NextKeeps
<1> QED
  BY <1>1, <1>2, PTL DEF Spec

=============================================================================
