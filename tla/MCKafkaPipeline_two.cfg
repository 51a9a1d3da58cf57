\* Two members, two partitions: batches that carry a partition they did not read.
CONSTANTS
    p1 = p1
    p2 = p2
    p3 = p3
    m1 = m1
    m2 = m2
    Member = {m1, m2}
    Partition = {p1, p2}
    Holes <- NoHoles
    Explicit <- NoEntry
    Rest = "earliest"
    Inherited <- Nothing0
    AllowReplay = FALSE
    FailsAt = {"handle", "offsets", "watermarks"}
    InitHigh <- Uneven
    MaxHigh = 1
    MaxLow = 0
    MaxFaults = 2
SPECIFICATION Spec
SYMMETRY Symmetric
INVARIANTS EveryCommitContinues
