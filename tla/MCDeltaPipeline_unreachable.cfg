\* What an unreachable resume point says about the rows owed.
CONSTANTS
    p1 = p1
    Proc = {p1}
    Commits <- CommitsTrail
    ChangePolicy = "Fail"
    StartingVersion = 0
    MaxFiles = 2
    HasDq = TRUE
    MaxSource = 3
    MaxForeign = 0
    MaxFaults = 1
SPECIFICATION Spec
INVARIANTS UnreachableMeansLoss
