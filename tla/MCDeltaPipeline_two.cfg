\* Two daemons on one app_id, a data-quality table, crashes and lost acks.
CONSTANTS
    p1 = p1
    p2 = p2
    Proc = {p1, p2}
    Commits <- CommitsDq
    ChangePolicy = "SkipChangeCommits"
    StartingVersion = 0
    MaxFiles = 2
    HasDq = TRUE
    MaxSource = 3
    MaxForeign = 0
    MaxFaults = 2
SPECIFICATION Spec
SYMMETRY Symmetric
INVARIANTS TypeOK GapFreePrefix NoDoubleApply RejectsNeverLost
PROPERTIES OffsetMonotone
