\* Any operation, with crashes of either process.
CONSTANT
  Operations = {"publish", "mutate", "verify"}
SPECIFICATION FairSpec
CHECK_DEADLOCK FALSE
INVARIANTS
  ReportIsTruthful
  NothingLeftBehind
PROPERTIES
  OrphanCancels
  OperationEnds
