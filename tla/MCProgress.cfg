\* What must happen in the end, under the fairness of tasks and services.
SPECIFICATION FairSpec
CONSTANTS
  NoCaller = NoCaller
  NoCap = NoCap
  p1 = p1
PROPERTIES
  RowsArrive
  MessagesArrive
  GroupSettles
  ProcessSettles
CHECK_DEADLOCK FALSE
