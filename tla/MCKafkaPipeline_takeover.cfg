\* Taking over from kafka-delta-ingest.
CONSTANTS
    p1 = p1
    p2 = p2
    p3 = p3
    m1 = m1
    m2 = m2
    Member = {m1, m2}
    Partition = {p1, p2, p3}
    Holes <- NoHoles
    Explicit <- KdiEntry
    Rest = "earliest"
    Inherited <- KdiTarget
    AllowReplay = FALSE
    FailsAt = {"handle"}
    InitHigh <- KdiHigh
    MaxHigh = 1
    MaxLow = 0
    MaxFaults = 1
SPECIFICATION Spec
SYMMETRY Symmetric
INVARIANTS RowsOnce OneMarker
PROPERTIES OffsetsForward
