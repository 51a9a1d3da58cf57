----------------------------- MODULE ExactlyOnce -----------------------------
(***************************************************************************)
(* What a Delta pipeline promises (README.md, "How exactly-once works" and *)
(* "Bad rows and broken streams"), with nothing of how it does it: the     *)
(* source's commits are taken in order, a run of them at a time; the rows  *)
(* of a run reach the target in the step that moves the offset past them,  *)
(* once; and a row the target refuses has been recorded elsewhere before   *)
(* the offset passes it.                                                   *)
(***************************************************************************)
EXTENDS Naturals, Sequences

CONSTANTS
    Commits,         \* source commits
    TakesRow,        \* the commits that yield a row of the target
    HasReject,       \* the commits that yield a row it refuses
    StartingVersion  \* the first version to take

VARIABLES
    published,  \* the source's commits; version v is published[v + 1]
    position,   \* the next version to take
    copies,     \* how often each version's rows are in the target
    recorded    \* versions whose rejects are recorded

vars == <<published, position, copies, recorded>>

Init ==
    /\ published = << >>
    /\ position = StartingVersion
    /\ copies = << >>
    /\ recorded = {}

Publish(c) ==
    /\ published' = Append(published, c)
    /\ copies' = Append(copies, 0)
    /\ UNCHANGED <<position, recorded>>

\* Rejects are recorded ahead of the offset, possibly more than once.
Record(vs) ==
    /\ recorded' = recorded \cup vs
    /\ UNCHANGED <<published, position, copies>>

\* The versions from position to e are delivered, and the offset with them.
Deliver(e) ==
    /\ {v \in position .. e : published[v + 1] \in HasReject} \subseteq recorded
    /\ position' = e + 1
    /\ copies' = [i \in 1 .. Len(published) |->
                    IF i - 1 \in position .. e /\ published[i] \in TakesRow
                    THEN copies[i] + 1 ELSE copies[i]]
    /\ UNCHANGED <<published, recorded>>

Next ==
    \/ \E c \in Commits : Publish(c)
    \/ \E vs \in SUBSET (0 .. Len(published) - 1) : Record(vs)
    \/ \E e \in position .. Len(published) - 1 : Deliver(e)

Spec == Init /\ [][Next]_vars

=============================================================================
