--------------------------- MODULE MCKafkaPipeline ---------------------------
(* Instances of KafkaPipeline for TLC.                                     *)
EXTENDS KafkaPipeline, TLC

CONSTANTS p1, p2, p3

NoHoles  == {}
OneHole  == {<<p1, 1>>}
Nothing0 == << >>
NoEntry  == [p \in Partition |-> None]
One      == [p \in Partition |-> 1]
Two      == [p \in Partition |-> 2]
Uneven   == [p \in Partition |-> IF p = p1 THEN 1 ELSE 2]

\* kafka-delta-ingest wrote p1 to offset 1 and p2 to 0, and p2's txn has expired,
\* which the config acknowledges.  p3 is empty when ddi comes, and may not stay so.
KdiTarget ==
    << [by |-> "kdi", txn |-> [p \in Partition |-> IF p = p1 THEN 1 ELSE None],
        rows |-> [p \in Partition |-> CASE p = p1 -> {0, 1} [] p = p2 -> {0} [] OTHER -> {}],
        marker |-> FALSE] >>
KdiEntry == [p \in Partition |-> IF p = p2 THEN 1 ELSE None]
KdiHigh  == [p \in Partition |-> CASE p = p1 -> 3 [] p = p2 -> 2 [] OTHER -> 0]

Symmetric == Permutations(Member)

=============================================================================
