\* What happens to tables and to rows on their way, and what is configured, each component in its own behaviours.
SPECIFICATION Spec
INVARIANTS
  TypeOK
  HandedOver
  MergedOnce
  GrainExact
  MessagesAccounted
  ValuesKept
  QueriesMean
  BadRowsFound
  WithinMachine
  ConfiguredApart
PROPERTIES
  NeverUndone
CHECK_DEADLOCK FALSE
