\* A Kafka member's parts and the process around the pipelines, each in its own behaviours.
SPECIFICATION Spec
CONSTANTS
  c1 = c1
  c2 = c2
  c3 = c3
  NoCap = NoCap
  NoCaller = NoCaller
INVARIANTS
  TypeOK
  CleanHandoff
  TargetGuarded
  Foretold
  NewestFound
  Quarantined
  Supervised
  ClientsInformed
  LookupsPinned
  TablesWhole
  RowsKept
PROPERTIES
  StepsTruthful
CHECK_DEADLOCK FALSE
SYMMETRY Symmetry
