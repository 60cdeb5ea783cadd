\* The user confirms "Force close" after the worker has entered its commit.
CONSTANT
  Operations = {"publish", "mutate"}
SPECIFICATION Spec
CHECK_DEADLOCK FALSE
PROPERTY
  ZoneNotForceClosed
