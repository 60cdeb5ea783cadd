\* One file that grows between the two stats of the scan.
CONSTANTS
  NumFiles = 1
  MaxSize = 2
  MaxVersion = 2
SPECIFICATION Spec
CHECK_DEADLOCK FALSE
PROPERTY
  OutputComplete
