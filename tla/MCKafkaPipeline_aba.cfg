\* The operator moves an offset and moves it back while a member commits.
CONSTANTS
    p1 = p1
    p2 = p2
    p3 = p3
    m1 = m1
    m2 = m2
    Member = {m1}
    Partition = {p1}
    Holes <- NoHoles
    Explicit <- NoEntry
    Rest = "earliest"
    Inherited <- Nothing0
    AllowReplay = TRUE
    FailsAt = {}
    InitHigh <- Two
    MaxHigh = 2
    MaxLow = 0
    MaxFaults = 2
SPECIFICATION Spec
INVARIANTS EveryCommitContinues
