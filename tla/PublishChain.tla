---------------------------- MODULE PublishChain ----------------------------
(***************************************************************************)
(* Publishing batches to a dashboard: src/src/publish/mod.rs after a       *)
(* commit, near_time.rs beside it, and the client's protocol of            *)
(* USING_DDI.md (section 8), which the message's fields exist for.         *)
(*                                                                         *)
(* Every message names the batch before it.  A message can be lost, by a   *)
(* failed request, the breaker or the network, and can arrive although its *)
(* request failed; the client has to notice what it missed.                *)
(*                                                                         *)
(* A batch is the source versions from .. through; Quiet versions hold no  *)
(* data.  The target's version i holds the rows through target[i].         *)
(***************************************************************************)
EXTENDS Integers, Sequences

CONSTANTS
    Mode,       \* "commit", or "near" for ddi_publish_near_time
    Quiet,      \* source versions without data
    Threshold,  \* failure_threshold
    MaxVersion, \* bound: source versions
    MaxFaults,  \* bound: crashes, failures, losses and joins
    MaxFlight   \* bound: accepted messages not yet delivered

None == 0

Version == 1 .. MaxVersion

(* Assumed of the constants; the suites that instantiate the module assume it. *)
ConstantsAssumption ==
    /\ Mode \in {"commit", "near"}
    /\ MaxVersion \in Nat \ {0} /\ MaxFaults \in Nat /\ Threshold \in Nat
    /\ MaxFlight \in Nat \ {0}
    /\ Quiet \subseteq Version

VARIABLES
    target,  \* the target's log: the source version each commit ends at
    p,       \* the publisher: its pipeline's, or the near-time reader's
    br,      \* Breaker: consecutive failures, and whether it is open
    net,     \* messages the service accepted, in order
    cl,      \* a client
    faults   \* faults so far

vars == <<target, p, br, net, cl, faults>>

Stored == IF target = << >> THEN None ELSE target[Len(target)]

Data == Version \ Quiet

Fault == faults < MaxFaults /\ faults' = faults + 1

-----------------------------------------------------------------------------
(* The publisher.                                                          *)

\* After an open: read on from the stored offset, with no batch before it.
\* `stat' is what the last send counted; `tried' whether it tried anything.
Opened ==
    [pc |-> "idle", cursor |-> Stored + 1, prev |-> None, through |-> None,
     version |-> None, pending |-> "none", stat |-> "none", tried |-> FALSE]

Joined(log) ==
    [base |-> Len(log), held |-> IF log = << >> THEN None ELSE log[Len(log)],
     last |-> None, first |-> None, applied |-> [v \in Version |-> 0]]

Init ==
    /\ target = << >>
    /\ p = Opened
    /\ br = [failures |-> 0, open |-> FALSE]
    /\ net = << >>
    /\ cl = Joined(target)
    /\ faults = 0

\* The batches a poll may return: they end at a version with data.
Batches(from) == {v \in Data : v >= from /\ v <= from + 2}

RecordSuccess == br' = [failures |-> 0, open |-> FALSE]

RecordFailure ==
    LET n == br.failures + 1 IN
    br' = [failures |-> n, open |-> br.open \/ (Threshold > 0 /\ n >= Threshold)]

\* A batch is read and its payload built before the commit, unless the breaker is
\* open: in full, or empty and incomplete over the size cap.
Render ==
    \E through \in Batches(p.cursor), pending \in {"full", "capped"} :
        /\ p.pc = "idle" /\ ~br.open
        /\ p' = [p EXCEPT !.pc = "rendered", !.through = through, !.pending = pending,
                          !.tried = TRUE]
        /\ UNCHANGED <<target, br, net, cl, faults>>

RenderPaused ==
    \E through \in Batches(p.cursor) :
        /\ p.pc = "idle" /\ br.open
        /\ p' = [p EXCEPT !.pc = "rendered", !.through = through, !.pending = "none",
                          !.tried = FALSE]
        /\ UNCHANGED <<target, br, net, cl, faults>>

\* The model's SQL fails, which counts into the breaker.
RenderFails ==
    \E through \in Batches(p.cursor) :
        /\ p.pc = "idle" /\ ~br.open /\ Fault
        /\ p' = [p EXCEPT !.pc = "rendered", !.through = through, !.pending = "none",
                          !.tried = TRUE]
        /\ RecordFailure
        /\ UNCHANGED <<target, net, cl>>

\* Mutant: the message names the version the next commit will have.
CommitAhead ==
    /\ p.pc = "rendered" /\ Mode = "commit"
    /\ target' = Append(target, p.through)
    /\ p' = [p EXCEPT !.pc = "sending", !.version = Len(target) + 2]
    /\ UNCHANGED <<br, net, cl, faults>>

\* The commit the message follows; its version goes into the message.
CommitBatch ==
    /\ p.pc = "rendered" /\ Mode = "commit"
    /\ target' = Append(target, p.through)
    /\ p' = [p EXCEPT !.pc = "sending", !.version = Len(target) + 1]
    /\ UNCHANGED <<br, net, cl, faults>>

\* The near-time reader has no commit to wait for.
NearTimeReady ==
    /\ p.pc = "rendered" /\ Mode = "near"
    /\ p' = [p EXCEPT !.pc = "sending", !.version = None]
    /\ UNCHANGED <<target, br, net, cl, faults>>

\* Its pipeline commits beside it.
PipelineCommits ==
    \E through \in Batches(Stored + 1) :
        /\ Mode = "near"
        /\ target' = Append(target, through)
        /\ UNCHANGED <<p, br, net, cl, faults>>

\* A row of a near-time batch does not convert: no message, but a place in the chain.
NearTimeSkips ==
    \E through \in Batches(p.cursor) :
        /\ Mode = "near" /\ p.pc = "idle" /\ Fault
        /\ p' = [p EXCEPT !.cursor = through + 1, !.prev = through]
        /\ UNCHANGED <<target, br, net, cl>>

Envelope ==
    [prev |-> p.prev, from |-> p.cursor, through |-> p.through, version |-> p.version,
     complete |-> p.pending = "full"]

\* Mutant: the chain advances only when the message was sent.
SettledIfSent(stat) ==
    [p EXCEPT !.pc = "idle", !.cursor = p.through + 1, !.pending = "none", !.version = None,
              !.prev = IF stat = "sent" THEN p.through ELSE @, !.through = None, !.stat = stat]

\* Pipeline::publish: whatever became of the message, the next one follows this batch.
Settled(stat) ==
    [p EXCEPT !.pc = "idle", !.cursor = p.through + 1, !.pending = "none", !.version = None,
              !.prev = p.through, !.through = None, !.stat = stat]

\* send without a payload: counted as skipped if the breaker is open by now.
SendNothing ==
    /\ p.pc = "sending" /\ p.pending = "none"
    /\ p' = Settled(IF br.open THEN "skipped" ELSE "failed")
    /\ UNCHANGED <<target, br, net, cl, faults>>

Send ==
    /\ p.pc = "sending" /\ p.pending # "none" /\ Len(net) < MaxFlight
    /\ net' = Append(net, Envelope)
    /\ RecordSuccess
    /\ p' = Settled("sent")
    /\ UNCHANGED <<target, cl, faults>>

\* The request fails; when it timed out, the service may have accepted it.
SendFails ==
    /\ p.pc = "sending" /\ p.pending # "none" /\ Len(net) < MaxFlight /\ Fault
    /\ net' \in {net, Append(net, Envelope)}
    /\ RecordFailure
    /\ p' = Settled("failed")
    /\ UNCHANGED <<target, cl>>

\* breaker_cooldown_secs pass.  The failures are kept: the next one opens it again.
CoolDown ==
    /\ br.open
    /\ br' = [br EXCEPT !.open = FALSE]
    /\ UNCHANGED <<target, p, net, cl, faults>>

\* The process dies, or a step fails: the pipeline or the reader is opened anew.
Reopen ==
    /\ Fault
    /\ p' = Opened
    /\ br' = [failures |-> 0, open |-> FALSE]
    /\ UNCHANGED <<target, net, cl>>

-----------------------------------------------------------------------------
(* The client, as USING_DDI.md tells it to behave.                         *)

\* It reads the baseline again, and forgets which message it saw last.
Join ==
    /\ Fault
    /\ cl' = Joined(target)
    /\ UNCHANGED <<target, p, br, net>>

Lose ==
    /\ net # << >> /\ Fault
    /\ net' = Tail(net)
    /\ UNCHANGED <<target, p, br, cl>>

InBaseline(m) == m.version # None /\ m.version <= cl.base

Replay(m) == cl.last # None /\ m.through <= cl.last

Gap(m) == cl.last # None /\ m.prev # cl.last

Apply(m) ==
    [cl EXCEPT !.last = m.through,
               !.first = IF cl.first = None THEN m.from ELSE @,
               !.applied = [v \in Version |-> IF v \in m.from .. m.through THEN @[v] + 1 ELSE @[v]]]

Receive ==
    /\ net # << >>
    /\ LET m == net[1] IN
       cl' = IF InBaseline(m) \/ Replay(m) THEN cl
             ELSE IF Gap(m) THEN Joined(target)
             ELSE IF m.complete THEN Apply(m)
             ELSE [Joined(target) EXCEPT !.last = m.through, !.first = m.through + 1]
    /\ net' = Tail(net)
    /\ UNCHANGED <<target, p, br, faults>>

Next ==
    \/ Render \/ RenderPaused \/ RenderFails
    \/ CommitBatch \/ NearTimeReady \/ PipelineCommits \/ NearTimeSkips
    \/ SendNothing \/ Send \/ SendFails \/ CoolDown \/ Reopen
    \/ Join \/ Lose \/ Receive

Spec == Init /\ [][Next]_vars

-----------------------------------------------------------------------------
(* Properties.                                                             *)

TypeOK ==
    /\ target \in Seq(Version)
    /\ \A i \in 1 .. Len(target) - 1 : target[i] < target[i + 1]
    /\ p.pc \in {"idle", "rendered", "sending"}
    /\ br.open => Threshold > 0 /\ br.failures >= Threshold
    /\ p.pc # "idle" => p.through \in Data /\ p.through >= p.cursor
    /\ \A i \in 1 .. Len(net) : net[i].from <= net[i].through /\ net[i].prev < net[i].from

\* From the first message a client applied after its baseline to the last, nothing
\* is missing, whatever was lost, skipped by the breaker or replayed after a restart:
\* the next message it hears says it follows one the client never saw
\* (Pipeline::publish, NearTimeReader::poll: prev_published_through).
NoHole ==
    cl.first # None => \A v \in cl.first .. cl.last : v \in Data => cl.applied[v] > 0

\* No source version's rows are applied twice, nor on top of a baseline that already
\* holds them (target_version, the offset a restart resumes from).
AppliedOnce ==
    \A v \in Version : cl.applied[v] <= 1 /\ (Mode = "commit" /\ cl.applied[v] > 0 => v > cl.held)

=============================================================================
