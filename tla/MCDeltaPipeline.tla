--------------------------- MODULE MCDeltaPipeline ---------------------------
(* Instances of DeltaPipeline for TLC.                                     *)
EXTENDS DeltaPipeline, TLC

\* Source commits: a row the target takes; one it takes and one it refuses;
\* only refused rows, in two files; rows the transform filters out; an OPTIMIZE.
Plain    == [class |-> "Data", files |-> 1, dv |-> FALSE, good |-> TRUE, bad |-> FALSE]
Mixed    == [class |-> "Data", files |-> 1, dv |-> FALSE, good |-> TRUE, bad |-> TRUE]
Rejected == [class |-> "Data", files |-> 2, dv |-> FALSE, good |-> FALSE, bad |-> TRUE]
Filtered == [class |-> "Data", files |-> 1, dv |-> FALSE, good |-> FALSE, bad |-> FALSE]
Optimize == [class |-> "Compaction", files |-> 0, dv |-> FALSE, good |-> FALSE, bad |-> FALSE]
Vacuum   == [class |-> "NoData", files |-> 0, dv |-> FALSE, good |-> FALSE, bad |-> FALSE]
Update   == [class |-> "Change", files |-> 1, dv |-> FALSE, good |-> TRUE, bad |-> FALSE]
Delete   == [class |-> "Change", files |-> 0, dv |-> FALSE, good |-> FALSE, bad |-> FALSE]
Oversize == [class |-> "Data", files |-> 3, dv |-> FALSE, good |-> TRUE, bad |-> FALSE]
Vectored == [class |-> "Data", files |-> 1, dv |-> TRUE, good |-> TRUE, bad |-> FALSE]

CommitsDq     == {Mixed, Rejected, Update}
CommitsIgnore == {Mixed, Delete, Update}
CommitsAll    == {Plain, Mixed, Rejected, Filtered, Optimize, Vacuum, Update, Oversize, Vectored}
CommitsTrail  == {Plain, Optimize}

Symmetric == Permutations(Proc)

=============================================================================
