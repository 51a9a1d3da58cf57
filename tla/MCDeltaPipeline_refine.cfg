\* The daemons implement the abstract pipeline.
CONSTANTS
    p1 = p1
    p2 = p2
    Proc = {p1, p2}
    Commits <- CommitsIgnore
    ChangePolicy = "IgnoreChanges"
    StartingVersion = 1
    MaxFiles = 2
    HasDq = TRUE
    MaxSource = 3
    MaxForeign = 1
    MaxFaults = 1
SPECIFICATION Spec
PROPERTIES Implements
