------------------------------- MODULE Lookups -------------------------------
(***************************************************************************)
(* Pinned lookups (src/src/lookup.rs and, in src/src/pipeline.rs,          *)
(* validate_lookup_tables and lookup_snapshots).                           *)
(*                                                                         *)
(* A source batch is enriched from the newest lookup version strictly      *)
(* older than the batch's source commit, so that a retry of the batch      *)
(* joins the same rows however far the lookup has moved on.  The lookup    *)
(* is written, replaced in place (CREATE OR REPLACE: a new table id in the *)
(* same log), recreated (a new id in a new log) and truncated by others,   *)
(* between any two of the reads that select a version.  The policy         *)
(* use_current trades the pin for the head of the table when a             *)
(* replacement makes the pin ambiguous or its history is gone.             *)
(*                                                                         *)
(* Times are milliseconds of log objects and never go back.                *)
(***************************************************************************)
EXTENDS Integers, Sequences, FiniteSets, FiniteSetsExt

CONSTANTS
  SourceTimes,       \* the source commits' times, one batch each, as a sequence
  UseCurrent,        \* table_id_change_policy = "use_current"
  PreHistory,        \* pre_history_version, or -1
  StabilityAttempts, \* LOOKUP_SNAPSHOT_STABILITY_ATTEMPTS
  MaxTime,           \* bound on the clock
  MaxWrites,         \* bound on the lookup's commits of each kind
  MaxFailures        \* bound on failed commits and crashes of the pipeline

(* Assumed of the constants; the suites that instantiate the module assume it. *)
ConstantsAssumption ==
  /\ SourceTimes \in Seq(Nat) /\ UseCurrent \in BOOLEAN
  /\ PreHistory \in -1 .. MaxWrites
  /\ StabilityAttempts \in Nat \ {0} /\ MaxTime \in Nat /\ MaxFailures \in Nat

VARIABLES
  now,       \* the clock
  log,       \* the lookup's commits, version v at v + 1: [ts, id]
  kept,      \* the oldest version its log still holds
  ids,       \* how many table ids there have been
  writes,    \* how many commits others have made
  pc,        \* "down", "idle", "head", "at", "verify", "decided"
  batch,     \* the next batch to commit
  tries,     \* opens tried for this selection
  attempt,   \* what this selection has read
  expected,  \* lookup_table_ids: the id checked at open, or at the last change
  marker,    \* lookup_current_on_open
  recorded,  \* the lookup id the target's last commit names; 0 before one
  choice,    \* the snapshot chosen for the batch
  picks,     \* every snapshot chosen for a batch, by any attempt
  commits,   \* the snapshot each committed batch was enriched from
  failures

table == <<now, log, kept, ids, writes>>
vars == <<now, log, kept, ids, writes, pc, batch, tries, attempt, expected, marker,
          recorded, choice, picks, commits, failures>>

Nothing == [head |-> 0, headId |-> 0, version |-> 0, id |-> 0, ts |-> 0,
            pre |-> FALSE, current |-> FALSE]

Last == Len(log) - 1
Ts(v) == log[v + 1].ts
HeadId == log[Len(log)].id
Retained == kept .. Last

Init ==
  /\ now = 1
  /\ log = <<[ts |-> 1, id |-> 1]>>
  /\ kept = 0 /\ ids = 1 /\ writes = 0
  /\ pc = "down" /\ batch = 1 /\ tries = 0 /\ attempt = Nothing
  /\ expected = 0 /\ marker = FALSE /\ recorded = 0
  /\ choice = Nothing /\ picks = [b \in DOMAIN SourceTimes |-> {}]
  /\ commits = <<>> /\ failures = 0

----------------------------------------------------------------------------
(* The lookup's writers, its log retention, and time *)

pipeline == <<pc, batch, tries, attempt, expected, marker, recorded, choice, picks,
              commits, failures>>

Tick ==
  /\ now < MaxTime
  /\ now' = now + 1
  /\ UNCHANGED <<log, kept, ids, writes, pipeline>>

Write ==
  /\ writes < MaxWrites
  /\ log' = Append(log, [ts |-> now, id |-> HeadId])
  /\ writes' = writes + 1
  /\ UNCHANGED <<now, kept, ids, pipeline>>

Replace ==
  /\ writes < MaxWrites
  /\ log' = Append(log, [ts |-> now, id |-> ids + 1])
  /\ ids' = ids + 1
  /\ writes' = writes + 1
  /\ UNCHANGED <<now, kept, pipeline>>

Recreate ==
  /\ writes < MaxWrites
  /\ log' = <<[ts |-> now, id |-> ids + 1]>>
  /\ ids' = ids + 1
  /\ kept' = 0
  /\ writes' = writes + 1
  /\ UNCHANGED <<now, pipeline>>

Truncate ==
  /\ kept < Last
  /\ kept' = kept + 1
  /\ UNCHANGED <<now, log, ids, writes, pipeline>>

----------------------------------------------------------------------------
(* Opening the pipeline *)

\* Mutant: under strict, an identity that changed while down is taken over.
OpenTakesOver ==
  /\ pc = "down"
  /\ expected' = HeadId
  /\ marker' = (recorded \notin {0, HeadId})
  /\ pc' = "idle"
  /\ UNCHANGED <<table, batch, tries, attempt, recorded, choice, picks, commits, failures>>

(* validate_lookup_tables: strict refuses a table whose id is not the one the
   target's last commit names; use_current leaves a marker. *)
Open ==
  /\ pc = "down"
  /\ recorded \in {0, HeadId} \/ UseCurrent
  /\ expected' = HeadId
  /\ marker' = (recorded \notin {0, HeadId})
  /\ pc' = "idle"
  /\ UNCHANGED <<table, batch, tries, attempt, recorded, choice, picks, commits, failures>>

----------------------------------------------------------------------------
(* Selecting a snapshot *)

SourceTime == SourceTimes[batch]

Begin ==
  /\ pc = "idle"
  /\ batch <= Len(SourceTimes) /\ SourceTime <= now
  /\ tries' = 1
  /\ pc' = "head"
  /\ UNCHANGED <<table, batch, attempt, expected, marker, recorded, choice, picks,
                 commits, failures>>

Reading(a) ==
  /\ attempt' = a
  /\ UNCHANGED <<table, batch, expected, marker, recorded, choice, picks, commits, failures>>

(* The step fails with an error: the supervisor opens the pipeline again. *)
Fails == pc' = "down" /\ tries' = 0 /\ Reading(Nothing)

(* current_snapshots, or the error of a strict lookup. *)
HistoryUnavailable ==
  IF UseCurrent
  THEN /\ Reading([Nothing EXCEPT !.head = Last, !.headId = HeadId, !.version = Last,
                                  !.id = HeadId, !.ts = Ts(Last), !.current = TRUE])
       /\ pc' = "verified"
       /\ UNCHANGED tries
  ELSE Fails

OpenHead ==
  /\ pc = "head"
  /\ Reading([Nothing EXCEPT !.head = Last, !.headId = HeadId])
  /\ pc' = "at"
  /\ UNCHANGED tries

(* Time travel to the millisecond before the source commit: the newest version
   not after it, any of several that bear that very millisecond, and the
   oldest one still held when all are newer. *)
TimeTravel(cutoff) ==
  LET older == {v \in Retained : Ts(v) <= cutoff}
      equal == {v \in older : Ts(v) = cutoff}
  IN  IF older = {} THEN {kept} ELSE IF equal # {} THEN equal ELSE {Max(older)}

\* Mutant: the version time travel gives is taken as it is.
AdvancedNot(v) == v

\* Mutant: a lookup commit of the source commit's millisecond is taken.
AdvancedSameMilli(v) ==
  Max({v} \cup {w \in v .. Last : w <= attempt.head /\ Ts(w) <= SourceTime})

(* The versions after v that are still older than the source commit. *)
Advanced(v) == Max({v} \cup {w \in v .. Last : w <= attempt.head /\ Ts(w) < SourceTime})

Clamped(v) == Ts(v) >= SourceTime

SelectPinned ==
  /\ pc = "at"
  /\ \E v \in TimeTravel(SourceTime - 1) :
       /\ ~Clamped(v)
       /\ Reading([attempt EXCEPT !.version = Advanced(v)])
       /\ pc' = "version"
  /\ UNCHANGED tries

SelectPreHistory ==
  /\ pc = "at"
  /\ PreHistory >= 0
  /\ \E v \in TimeTravel(SourceTime - 1) : Clamped(v)
  /\ IF PreHistory > attempt.head THEN Fails
     ELSE /\ Reading([attempt EXCEPT !.version = PreHistory, !.pre = TRUE])
          /\ pc' = "version"
          /\ UNCHANGED tries

(* Nothing held is older than the source commit: truncated when version 0 is
   gone, else a lookup younger than the source. *)
SelectNothing ==
  /\ pc = "at"
  /\ PreHistory < 0
  /\ \E v \in TimeTravel(SourceTime - 1) :
       Clamped(v) /\ IF v > 0 THEN HistoryUnavailable ELSE Fails

OpenVersion ==
  /\ pc = "version"
  /\ IF attempt.version \in Retained
     THEN /\ Reading([attempt EXCEPT !.id = log[attempt.version + 1].id,
                                     !.ts = Ts(attempt.version)])
          /\ pc' = "verify"
          /\ UNCHANGED tries
     ELSE HistoryUnavailable

(* The head is opened again: another id means the table was replaced during
   the selection, which starts over. *)
Verify ==
  /\ pc = "verify"
  /\ IF HeadId = attempt.headId
     THEN /\ Reading([attempt EXCEPT !.head = Last])
          /\ pc' = "verified"
          /\ UNCHANGED tries
     ELSE IF tries < StabilityAttempts
          THEN /\ Reading(Nothing)
               /\ tries' = tries + 1
               /\ pc' = "head"
          ELSE Fails

(* lookup_table_id_changed *)
Ambiguous == attempt.current \/ attempt.id # expected \/ attempt.headId # expected

Choose(c) ==
  /\ choice' = c
  /\ picks' = [picks EXCEPT ![batch] = @ \cup {c}]
  /\ pc' = "decided"
  /\ UNCHANGED <<table, batch, tries, attempt, expected, marker, recorded, commits, failures>>

DecidePinned ==
  /\ pc = "verified" /\ ~Ambiguous
  /\ Choose(attempt)

(* The head is the one verified, not one opened now. *)
DecideCurrent ==
  /\ pc = "verified" /\ Ambiguous /\ UseCurrent
  /\ Choose([attempt EXCEPT !.version = attempt.head, !.id = attempt.headId,
                            !.current = TRUE, !.pre = FALSE])

RefuseAmbiguous ==
  /\ pc = "verified" /\ Ambiguous /\ ~UseCurrent
  /\ Fails

----------------------------------------------------------------------------
(* Committing *)

(* The snapshot's version and id go into the target's commit; only then is a
   changed identity acknowledged. *)
Commit ==
  /\ pc = "decided"
  /\ commits' = Append(commits, choice)
  /\ recorded' = choice.id
  /\ expected' = IF Ambiguous \/ marker THEN choice.headId ELSE expected
  /\ marker' = FALSE
  /\ batch' = batch + 1
  /\ pc' = "idle"
  /\ UNCHANGED <<table, tries, attempt, choice, picks, failures>>

(* The process ends, or the transform, the write or the commit fails: either way
   the pipeline is opened again and the batch selected afresh. *)
FailOrCrash ==
  /\ pc # "down"
  /\ failures < MaxFailures
  /\ failures' = failures + 1
  /\ pc' = "down"
  /\ attempt' = Nothing
  /\ tries' = 0
  /\ UNCHANGED <<table, batch, expected, marker, recorded, choice, picks, commits>>

Next ==
  \/ Tick \/ Write \/ Replace \/ Recreate \/ Truncate
  \/ Open \/ Begin \/ OpenHead \/ SelectPinned \/ SelectPreHistory \/ SelectNothing
  \/ OpenVersion \/ Verify \/ DecidePinned \/ DecideCurrent \/ RefuseAmbiguous
  \/ Commit \/ FailOrCrash

Spec == Init /\ [][Next]_vars

----------------------------------------------------------------------------
(* Properties *)

(* Type invariant. *)
TypeOK ==
  /\ pc \in {"down", "idle", "head", "at", "version", "verify", "verified", "decided"}
  /\ kept \in 0 .. Last
  /\ tries \in 0 .. StabilityAttempts
  /\ batch = Len(commits) + 1

Pinned(c) == ~c.current /\ ~c.pre

(* A batch that is retried joins the rows its first attempt joined: any two
   pinned snapshots of a batch, of attempts with lookup writes, failures and
   crashes between them, are one version. (lookup.rs:84) *)
Reproducible ==
  \A b \in DOMAIN picks : \A c, d \in picks[b] :
    (Pinned(c) /\ Pinned(d)) => <<c.id, c.version>> = <<d.id, d.version>>

(* A batch is never enriched from a lookup commit that is not older than its
   source commit, unless the target's commit says so. (lookup.rs:77) *)
NeverTheFuture ==
  \A i \in DOMAIN commits : Pinned(commits[i]) => commits[i].ts < SourceTimes[i]

(* Under strict, one table's rows enrich the whole stream: no replacement,
   even one that races a selection, mixes two lineages. (lookup.rs:24) *)
OneLineage ==
  ~UseCurrent => \A i, j \in DOMAIN commits : commits[i].id = commits[j].id

=============================================================================
