\* Two members, one partition with a hole, retention, every fault.
CONSTANTS
    p1 = p1
    p2 = p2
    p3 = p3
    m1 = m1
    m2 = m2
    Member = {m1, m2}
    Partition = {p1}
    Holes <- OneHole
    Explicit <- NoEntry
    Rest = "earliest"
    Inherited <- Nothing0
    AllowReplay = FALSE
    FailsAt = {"handle", "offsets", "watermarks"}
    InitHigh <- Two
    MaxHigh = 3
    MaxLow = 1
    MaxFaults = 3
SPECIFICATION Spec
SYMMETRY Symmetric
INVARIANTS TypeOK EveryCommitContinues NeverStuck
