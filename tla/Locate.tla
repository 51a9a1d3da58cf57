------------------------------- MODULE Locate -------------------------------
(***************************************************************************)
(* Following tables that move (src/src/locate.rs, src/src/trino.rs, and    *)
(* attempt and attempt_near_time of src/src/main.rs).                      *)
(*                                                                         *)
(* A pipeline asks the catalog where its source and its target are, one    *)
(* query after the other, before it opens and before every step, and       *)
(* reopens when either moved.  All pipelines share one Locator and its     *)
(* cache, which answers when the catalog does not.  A near-time reader     *)
(* asks only when it opens.  The locations of lookups are left out: they   *)
(* are asked for and compared as the source and the target are.            *)
(*                                                                         *)
(* A location is the number of moves that led to it; what dbt declared is  *)
(* location 0, where the catalog may or may not start.                     *)
(***************************************************************************)
EXTENDS Naturals, Sequences, FiniteSets

CONSTANTS
  Pipelines,     \* the pipelines with a catalog to ask
  Near,          \* those of them that are near-time readers
  Relations,     \* the relations of the catalog
  Source,        \* per pipeline, the relation it reads
  Target,        \* per pipeline, the relation it writes
  MaxMoves,      \* bound: how often a relation moves
  MaxFailures    \* bound: how many queries, opens and steps fail

(* Assumed of the constants; the suites that instantiate the module assume it. *)
ConstantsAssumption ==
  /\ Near \subseteq Pipelines
  /\ Source \in [Pipelines -> Relations] /\ Target \in [Pipelines -> Relations]
  /\ MaxMoves \in Nat \ {0} /\ MaxFailures \in Nat

VARIABLES
  catalog,    \* per relation, where it is
  lastKnown,  \* per relation, the Locator's last_known, or None
  pc,         \* per pipeline: "closed", "post", "sent", "paging", "settle", "step"
  asking,     \* per pipeline, which end its refresh is at: "source" or "target"
  answer,     \* per pipeline, what the catalog answered the query under way
  fresh,      \* per pipeline, what the refresh under way found, per end
  current,    \* per pipeline, the locations it is open at; NotOpen per end
  asOf,       \* history: per pipeline, the catalog when its refresh began
  heard,      \* history: whether every query of that refresh was answered
  failures    \* how much has failed

vars == <<catalog, lastKnown, pc, asking, answer, fresh, current, asOf, heard, failures>>

None == MaxMoves + 1
NotOpen == MaxMoves + 2
Ends == {"source", "target"}
Relation(p, end) == IF end = "source" THEN Source[p] ELSE Target[p]
Open(p) == current[p]["source"] # NotOpen
AllEnds(v) == [end \in Ends |-> v]
(* What a query falls back to when the catalog never answered: what dbt declared,
   or where the pipeline already is. *)
Base(p, end) == IF Open(p) THEN current[p][end] ELSE 0

Init ==
  /\ catalog \in [Relations -> {0, 1}]
  /\ lastKnown = [r \in Relations |-> None]
  /\ pc = [p \in Pipelines |-> "closed"]
  /\ asking = [p \in Pipelines |-> "source"]
  /\ answer = [p \in Pipelines |-> None]
  /\ fresh = [p \in Pipelines |-> AllEnds(None)]
  /\ current = [p \in Pipelines |-> AllEnds(NotOpen)]
  /\ asOf = [p \in Pipelines |-> AllEnds(0)]
  /\ heard = [p \in Pipelines |-> TRUE]
  /\ failures = 0

----------------------------------------------------------------------------
(* The catalog *)

Move(r) ==
  /\ catalog[r] < MaxMoves
  /\ catalog' = [catalog EXCEPT ![r] = @ + 1]
  /\ UNCHANGED <<lastKnown, pc, asking, answer, fresh, current, asOf, heard, failures>>

(* The statement runs in the catalog some time after it was posted. *)
Execute(p) ==
  /\ pc[p] = "sent"
  /\ answer' = [answer EXCEPT ![p] = catalog[Relation(p, asking[p])]]
  /\ pc' = [pc EXCEPT ![p] = "paging"]
  /\ UNCHANGED <<catalog, lastKnown, asking, fresh, current, asOf, heard, failures>>

----------------------------------------------------------------------------
(* locate and refresh *)

(* A refresh begins: when the pipeline opens, and before each of its steps. *)
Begin(p) ==
  /\ pc' = [pc EXCEPT ![p] = "post"]
  /\ asking' = [asking EXCEPT ![p] = "source"]
  /\ fresh' = [fresh EXCEPT ![p] = AllEnds(None)]
  /\ asOf' = [asOf EXCEPT ![p] = [end \in Ends |-> catalog[Relation(p, end)]]]
  /\ heard' = [heard EXCEPT ![p] = TRUE]

(* attempt, attempt_near_time *)
Attempt(p) ==
  /\ pc[p] = "closed"
  /\ Begin(p)
  /\ UNCHANGED <<catalog, lastKnown, answer, current, failures>>

Post(p) ==
  /\ pc[p] = "post"
  /\ pc' = [pc EXCEPT ![p] = "sent"]
  /\ UNCHANGED <<catalog, lastKnown, asking, answer, fresh, current, asOf, heard, failures>>

(* The end just located is loc; the other is asked next. *)
Located(p, loc) ==
  /\ fresh' = [fresh EXCEPT ![p][asking[p]] = loc]
  /\ IF asking[p] = "source"
     THEN asking' = [asking EXCEPT ![p] = "target"] /\ pc' = [pc EXCEPT ![p] = "post"]
     ELSE pc' = [pc EXCEPT ![p] = "settle"] /\ UNCHANGED asking
  /\ answer' = [answer EXCEPT ![p] = None]
  /\ UNCHANGED <<catalog, current, asOf>>

(* The last page is read: the cache takes the answer. *)
Answered(p) ==
  /\ pc[p] = "paging"
  /\ lastKnown' = [lastKnown EXCEPT ![Relation(p, asking[p])] = answer[p]]
  /\ Located(p, answer[p])
  /\ UNCHANGED <<heard, failures>>

(* An HTTP error, an error page, a reply without a location: the cached answer, or
   the declared one, is used. *)
\* Mutant: the declared location, whatever the cache holds.
UnansweredForgets(p) ==
  /\ pc[p] \in {"sent", "paging"} /\ failures < MaxFailures
  /\ failures' = failures + 1
  /\ heard' = [heard EXCEPT ![p] = FALSE]
  /\ Located(p, 0)
  /\ UNCHANGED lastKnown

Unanswered(p) ==
  /\ pc[p] \in {"sent", "paging"} /\ failures < MaxFailures
  /\ failures' = failures + 1
  /\ heard' = [heard EXCEPT ![p] = FALSE]
  /\ LET known == lastKnown[Relation(p, asking[p])]
     IN  Located(p, IF known # None THEN known ELSE Base(p, asking[p]))
  /\ UNCHANGED lastKnown

----------------------------------------------------------------------------
(* The loop around it *)

Moved(p) == fresh[p] # current[p]

\* Mutant: a pipeline that is open stays where it is.
SettleStays(p) ==
  /\ pc[p] = "settle"
  /\ current' = IF Open(p) THEN current ELSE [current EXCEPT ![p] = fresh[p]]
  /\ pc' = [pc EXCEPT ![p] = "step"]
  /\ UNCHANGED <<catalog, lastKnown, asking, answer, fresh, asOf, heard, failures>>

(* Open, or reopen when an end moved. *)
Settle(p) ==
  /\ pc[p] = "settle"
  /\ current' = IF ~Open(p) \/ Moved(p) THEN [current EXCEPT ![p] = fresh[p]] ELSE current
  /\ pc' = [pc EXCEPT ![p] = "step"]
  /\ UNCHANGED <<catalog, lastKnown, asking, answer, fresh, asOf, heard, failures>>

(* Opening or reopening, or a step, fails: the supervisor attempts it anew. *)
Fail(p) ==
  /\ pc[p] \in {"settle", "step"} /\ failures < MaxFailures
  /\ failures' = failures + 1
  /\ current' = [current EXCEPT ![p] = AllEnds(NotOpen)]
  /\ pc' = [pc EXCEPT ![p] = "closed"]
  /\ UNCHANGED <<catalog, lastKnown, asking, answer, fresh, asOf, heard>>

\* Mutant: the catalog is asked only on opening.
StepNoRefresh(p) == pc[p] = "step" /\ p \notin Near /\ UNCHANGED vars

(* A step at the locations it is open at, and the next refresh. *)
Step(p) ==
  /\ pc[p] = "step" /\ p \notin Near
  /\ Begin(p)
  /\ UNCHANGED <<catalog, lastKnown, answer, current, failures>>

Do(p) == Attempt(p) \/ Post(p) \/ Answered(p) \/ Settle(p) \/ Step(p)

Next ==
  \/ \E r \in Relations : Move(r)
  \/ \E p \in Pipelines :
       \/ Attempt(p) \/ Post(p) \/ Execute(p) \/ Answered(p) \/ Unanswered(p)
       \/ Settle(p) \/ Fail(p) \/ Step(p)

Spec == Init /\ [][Next]_vars

(* Each task of the runtime keeps running, and the catalog answers what it is
   asked; that it moves tables, or fails, is nobody's promise. *)
FairSpec == Spec /\ \A p \in Pipelines : WF_vars(Do(p)) /\ WF_vars(Execute(p))

----------------------------------------------------------------------------
(* Properties *)

Locations == 0 .. MaxMoves

(* Type invariant. *)
TypeOK ==
  /\ catalog \in [Relations -> Locations]
  /\ lastKnown \in [Relations -> Locations \cup {None}]
  /\ pc \in [Pipelines -> {"closed", "post", "sent", "paging", "settle", "step"}]
  /\ fresh \in [Pipelines -> [Ends -> Locations \cup {None}]]
  /\ current \in [Pipelines -> [Ends -> Locations \cup {NotOpen}]]
  /\ \A p \in Pipelines : pc[p] \in {"settle", "step"} => \A end \in Ends : fresh[p][end] # None

(* A step runs where the tables were when its refresh began, or later, whenever
   the catalog answered it: no step writes to a table that had already moved away
   before the pipeline asked. (main.rs:1203) *)
StepsWhereItIs ==
  \A p \in Pipelines :
    (pc[p] = "step" /\ heard[p]) => \A end \in Ends : current[p][end] >= asOf[p][end]

(* The catalog being unreachable never moves a pipeline back to a place it has
   already left. (locate.rs:59) *)
OutageMovesNothingBack ==
  \A p \in Pipelines :
    (failures' > failures /\ Open(p) /\ fresh'[p] # fresh[p]) =>
      LET end == asking[p] IN fresh'[p][end] >= current[p][end]

(* From some point on: once tables stop moving and the catalog answers, every pipeline
   runs where they are, however many polls saw them elsewhere. (locate.rs:8) *)
Follows ==
  \A p \in Pipelines \ Near :
    Open(p) => \A end \in Ends : current[p][end] = catalog[Relation(p, end)]

=============================================================================
