--------------------------- MODULE SchemaRegistry ---------------------------
(***************************************************************************)
(* The Schema Registry client (kafka/registry.rs): one cache of writer     *)
(* schemas for every pipeline of the process. A schema id is fetched under *)
(* its own permit (tokio's OnceCell), through retries; an id the registry  *)
(* does not know is remembered for a while. The callers are the decoders   *)
(* of the process's pipelines, each asking for one id at a time, and again *)
(* when its answer was an error. Threads: each step between two locks is   *)
(* a step here.                                                            *)
(***************************************************************************)
EXTENDS Integers, FiniteSets

CONSTANTS
  Callers,        \* the decoders that share the cache
  Ids,            \* schema ids
  None,           \* no caller
  NotFoundTTL,    \* NOT_FOUND_TTL, in ticks
  Retries,        \* the length of RETRY_DELAYS
  MaxFaults,      \* bound: times the service leaves "up"
  MaxCancels,     \* bound: lookups dropped half way
  Ticking         \* whether time passes

(* Assumed of the constants; the suites that instantiate the module assume it. *)
ConstantsAssumption ==
  /\ None \notin Callers /\ Ids # {} /\ NotFoundTTL \in Nat \ {0} /\ Retries \in Nat
  /\ MaxFaults \in Nat /\ MaxCancels \in Nat /\ Ticking \in BOOLEAN

VARIABLES
  known,      \* what the registry has under each id
  service,    \* how requests to it end
  faults, cancels,
  cell,       \* the OnceCell of each id
  permit,     \* who is filling it
  notFound,   \* the age of the entry of an id that was not found; NoEntry without one
  pc, asking, \* where each caller is in lookup, and for which id
  tries,      \* its retries so far
  answer,     \* what lookup last gave it
  found,      \* answers with a schema the registry has given, by id
  waitedOn    \* callers that waited on a fetch that found nothing

vars == <<known, service, faults, cancels, cell, permit, notFound, pc, asking, tries, answer, found,
          waitedOn>>

(* External: what a registry may hold under an id; one registered while the
   process runs is "late". *)
Schemas == {"avro", "late", "referring", "json"}
Empty == "empty"
NoEntry == -1
Services == {"up", "outage", "denied", "misrouted", "garbled"}
Errors == {"references", "unauthorized", "refused", "unavailable"}
Outcomes == {"none", "avro", "undecodable", "notFound"} \cup Errors

TypeOK ==
  /\ known \in [Ids -> Schemas \cup {"unknown"}] /\ service \in Services
  /\ faults \in 0 .. MaxFaults /\ cancels \in 0 .. MaxCancels
  /\ cell \in [Ids -> Schemas \cup {Empty}] /\ permit \in [Ids -> Callers \cup {None}]
  /\ notFound \in [Ids -> NoEntry .. NotFoundTTL]
  /\ pc \in [Callers -> {"idle", "cell", "inside", "get", "missed"}] /\ asking \in [Callers -> Ids]
  /\ tries \in [Callers -> 0 .. Retries]
  /\ answer \in [Callers -> [id : Ids, outcome : Outcomes, knew : BOOLEAN]]
  /\ found \in [Ids -> 0 .. 2] /\ waitedOn \subseteq Callers

Init ==
  /\ known \in [Ids -> (Schemas \ {"late"}) \cup {"unknown"}] /\ service = "up" /\ faults = 0 /\ cancels = 0
  /\ cell = [i \in Ids |-> Empty] /\ permit = [i \in Ids |-> None]
  /\ notFound = [i \in Ids |-> NoEntry]
  /\ pc = [c \in Callers |-> "idle"] /\ asking = [c \in Callers |-> CHOOSE i \in Ids : TRUE]
  /\ tries = [c \in Callers |-> 0]
  /\ answer = [c \in Callers |-> [id |-> asking[c], outcome |-> "none", knew |-> TRUE]]
  /\ found = [i \in Ids |-> 0] /\ waitedOn = {}

world == <<known, service, faults>>

-----------------------------------------------------------------------------
(* External: the registry, the network between, and the clock. A tick is long
   against what a caller does between two awaits. *)

Disturb(s) ==
  /\ s # "up" /\ service = "up" /\ faults < MaxFaults
  /\ service' = s /\ faults' = faults + 1
  /\ UNCHANGED <<known, cancels, cell, permit, notFound, pc, asking, tries, answer, found, waitedOn>>

Mend ==
  /\ service # "up" /\ service' = "up"
  /\ UNCHANGED <<known, faults, cancels, cell, permit, notFound, pc, asking, tries, answer, found,
                 waitedOn>>

Register(i) ==
  /\ known[i] = "unknown" /\ known' = [known EXCEPT ![i] = "late"]
  /\ UNCHANGED <<service, faults, cancels, cell, permit, notFound, pc, asking, tries, answer, found,
                 waitedOn>>

Tick ==
  /\ Ticking /\ \E i \in Ids : notFound[i] \in 0 .. NotFoundTTL - 1
  /\ \A c \in Callers : pc[c] \notin {"inside", "missed"}
  /\ notFound' = [i \in Ids |-> IF notFound[i] \in 0 .. NotFoundTTL - 1 THEN notFound[i] + 1
                                ELSE notFound[i]]
  /\ UNCHANGED <<world, cancels, cell, permit, pc, asking, tries, answer, found, waitedOn>>

-----------------------------------------------------------------------------
(* lookup *)

(* not_found_since: an entry that is too old is dropped by whoever sees it. *)
Remembered(i) == notFound[i] \in 0 .. NotFoundTTL - 1
Swept(i) == IF Remembered(i) THEN notFound ELSE [notFound EXCEPT ![i] = NoEntry]

Given(c, i, outcome) ==
  answer' = [answer EXCEPT ![c] = [id |-> i, outcome |-> outcome, knew |-> known[i] # "unknown"]]
Give(c, outcome) == Given(c, asking[c], outcome)

(* classify *)
Classified(s) ==
  CASE s = "referring" -> "references"
    [] s = "json" -> "undecodable"
    [] s \in {"avro", "late"} -> "avro"

\* Mutant: an entry that answers is as good as new.
BeginRenews(c, i) ==
  /\ pc[c] = "idle" /\ asking' = [asking EXCEPT ![c] = i]
  /\ IF Remembered(i)
     THEN /\ Given(c, i, "notFound")
          /\ notFound' = [notFound EXCEPT ![i] = 0]
          /\ pc' = pc
     ELSE /\ pc' = [pc EXCEPT ![c] = "cell"] /\ answer' = answer /\ notFound' = Swept(i)
  /\ waitedOn' = waitedOn \ {c}
  /\ UNCHANGED <<world, cancels, cell, permit, tries, found>>

Begin(c, i) ==
  /\ pc[c] = "idle" /\ asking' = [asking EXCEPT ![c] = i]
  /\ notFound' = Swept(i)
  /\ IF Remembered(i)
     THEN /\ Given(c, i, "notFound")
          /\ pc' = pc
     ELSE pc' = [pc EXCEPT ![c] = "cell"] /\ answer' = answer
  /\ waitedOn' = waitedOn \ {c}
  /\ UNCHANGED <<world, cancels, cell, permit, tries, found>>

(* get_or_try_init of a full cell. *)
TakeCell(c) ==
  /\ pc[c] = "cell" /\ cell[asking[c]] # Empty
  /\ Give(c, Classified(cell[asking[c]])) /\ pc' = [pc EXCEPT ![c] = "idle"]
  /\ UNCHANGED <<world, cancels, cell, permit, notFound, asking, tries, found, waitedOn>>

\* Mutant: everyone who finds the cell empty fetches.
TakePermitAll(c) ==
  /\ pc[c] = "cell" /\ cell[asking[c]] = Empty
  /\ permit' = [permit EXCEPT ![asking[c]] = c] /\ pc' = [pc EXCEPT ![c] = "inside"]
  /\ UNCHANGED <<world, cancels, cell, notFound, asking, tries, answer, found, waitedOn>>

(* get_or_try_init of an empty one: a caller waits while another fills it. *)
TakePermit(c) ==
  /\ pc[c] = "cell" /\ cell[asking[c]] = Empty /\ permit[asking[c]] = None
  /\ permit' = [permit EXCEPT ![asking[c]] = c] /\ pc' = [pc EXCEPT ![c] = "inside"]
  /\ UNCHANGED <<world, cancels, cell, notFound, asking, tries, answer, found, waitedOn>>

Release(c) == permit' = [permit EXCEPT ![asking[c]] = None]
Waiting(i) == {c \in Callers : pc[c] = "cell" /\ asking[c] = i}

(* Inside the cell, the entry again: what another's fetch left there is taken. *)
Recheck(c) ==
  /\ pc[c] = "inside"
  /\ notFound' = Swept(asking[c])
  /\ IF Remembered(asking[c])
     THEN pc' = [pc EXCEPT ![c] = "missed"] /\ Release(c) /\ tries' = tries
     ELSE pc' = [pc EXCEPT ![c] = "get"] /\ tries' = [tries EXCEPT ![c] = 0] /\ permit' = permit
  /\ UNCHANGED <<world, cancels, cell, asking, answer, found, waitedOn>>

\* Mutant: any 404 is "not found".
Attempt404(i) ==
  CASE service = "up" -> IF known[i] = "unknown" THEN "notFound" ELSE "found"
    [] service = "outage" -> "retry"
    [] service = "denied" -> "unauthorized"
    [] service = "misrouted" -> "notFound"
    [] service = "garbled" -> "refused"

(* What try_get makes of the answer: any 404 that is not the registry's own is
   refused. *)
Attempt(i) ==
  CASE service = "up" -> IF known[i] = "unknown" THEN "notFound" ELSE "found"
    [] service = "outage" -> "retry"
    [] service = "denied" -> "unauthorized"
    [] service \in {"misrouted", "garbled"} -> "refused"

(* get and lookup's closure, one try. *)
Got(c) == pc[c] = "get"

GetFinds(c) ==
  /\ Got(c) /\ Attempt(asking[c]) = "found"
  /\ found' = [found EXCEPT ![asking[c]] = IF @ < 2 THEN @ + 1 ELSE @]
  /\ cell' = [cell EXCEPT ![asking[c]] = known[asking[c]]]
  /\ Release(c) /\ Give(c, Classified(known[asking[c]])) /\ pc' = [pc EXCEPT ![c] = "idle"]
  /\ UNCHANGED <<world, cancels, notFound, asking, tries, waitedOn>>

GetMisses(c) ==
  /\ Got(c) /\ Attempt(asking[c]) = "notFound"
  /\ Release(c) /\ pc' = [pc EXCEPT ![c] = "missed"]
  /\ waitedOn' = waitedOn \cup Waiting(asking[c])
  /\ UNCHANGED <<world, cancels, cell, notFound, asking, tries, answer, found>>

GetRetries(c) ==
  /\ Got(c) /\ Attempt(asking[c]) = "retry" /\ tries[c] < Retries
  /\ tries' = [tries EXCEPT ![c] = @ + 1]
  /\ UNCHANGED <<world, cancels, cell, permit, notFound, pc, asking, answer, found, waitedOn>>

GetFails(c) ==
  /\ Got(c)
  /\ \/ Attempt(asking[c]) = "retry" /\ tries[c] = Retries /\ Give(c, "unavailable")
     \/ Attempt(asking[c]) \in {"unauthorized", "refused"} /\ Give(c, Attempt(asking[c]))
  /\ Release(c) /\ pc' = [pc EXCEPT ![c] = "idle"]
  /\ UNCHANGED <<world, cancels, cell, notFound, asking, tries, found, waitedOn>>

(* The fetch found nothing: remembered after the permit is given up, unless
   another caller was first. *)
Miss(c) ==
  /\ pc[c] = "missed"
  /\ notFound' = IF Remembered(asking[c]) THEN notFound ELSE [notFound EXCEPT ![asking[c]] = 0]
  /\ Give(c, "notFound") /\ pc' = [pc EXCEPT ![c] = "idle"]
  /\ UNCHANGED <<world, cancels, cell, permit, asking, tries, found, waitedOn>>

(* A lookup dropped where it awaits gives its permit up. *)
Drop(c) ==
  /\ pc[c] \in {"cell", "get"} /\ cancels < MaxCancels
  /\ cancels' = cancels + 1 /\ pc' = [pc EXCEPT ![c] = "idle"]
  /\ permit' = [i \in Ids |-> IF permit[i] = c THEN None ELSE permit[i]]
  /\ UNCHANGED <<world, cell, notFound, asking, tries, answer, found, waitedOn>>

\* Mutant: a schema learnt from its subject is kept in any case.
LatestOver(i) ==
  /\ service = "up" /\ known[i] # "unknown" /\ cell[i] = Empty
  /\ cell' = [cell EXCEPT ![i] = known[i]]
  /\ UNCHANGED <<world, cancels, permit, notFound, pc, asking, tries, answer, found, waitedOn>>

(* latest and offer: a schema learnt from its subject is kept, unless the id is
   known or being fetched. *)
Latest(i) ==
  /\ service = "up" /\ known[i] # "unknown" /\ cell[i] = Empty /\ permit[i] = None
  /\ cell' = [cell EXCEPT ![i] = known[i]]
  /\ UNCHANGED <<world, cancels, permit, notFound, pc, asking, tries, answer, found, waitedOn>>

Lookup(c) ==
  \/ \E i \in Ids : Begin(c, i)
  \/ TakeCell(c) \/ TakePermit(c) \/ Recheck(c)
  \/ GetFinds(c) \/ GetMisses(c) \/ GetRetries(c) \/ GetFails(c) \/ Miss(c)

Next ==
  \/ \E c \in Callers : Lookup(c) \/ Drop(c)
  \/ \E s \in Services : Disturb(s)
  \/ Mend \/ Tick
  \/ \E i \in Ids : Register(i) \/ Latest(i)

Spec == Init /\ [][Next]_vars

(* A caller that has begun goes on, one that was not told begins again; time
   passes, and the semaphore under a cell serves its waiters in order. *)
FairSpec ==
  /\ Spec /\ WF_vars(Tick)
  /\ \A c \in Callers : WF_vars(Lookup(c)) /\ SF_vars(TakePermit(c))

-----------------------------------------------------------------------------
(* "only one request is ever made per id": the registry hands a schema over
   once, whoever asks, whatever failed or was dropped before. *)
FetchedOnce == \A i \in Ids : found[i] <= 1

(* No message is blamed for the registry's trouble: a caller hears "undecodable"
   only of an id that is not Avro or that the registry did not know when it was
   first asked. *)
NotBlamed ==
  \A c \in Callers :
    /\ answer[c].outcome = "undecodable" => known[answer[c].id] = "json"
    /\ answer[c].outcome = "notFound" => known[answer[c].id] \in {"unknown", "late"}

(* An id a cell holds is one the registry holds, and nobody fills a full one. *)
CellIsTrue ==
  \A i \in Ids :
    /\ cell[i] # Empty => cell[i] = known[i]
    /\ permit[i] # None => cell[i] = Empty /\ pc[permit[i]] \in {"inside", "get"}

Reaches(c, i) == service = "up" /\ known[i] \in {"avro", "late"} /\ asking[c] = i
Decoded(c) == answer[c].outcome = "avro"

(* An id that is registered, in a registry that is reached, decodes: what was
   remembered of it expires, however often it is asked for meanwhile. *)
Decodes == \A c \in Callers : \A i \in Ids : <>[]Reaches(c, i) => []<>Decoded(c)

=============================================================================
