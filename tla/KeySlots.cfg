\* Two operations on a container with a Duress password; the second
\* consecutive change meets the generation limit.
CONSTANTS
  Procs = {p1, p2}
  Passwords = {first, second, third, duress}
  InitialPassword = first
  DuressPassword = duress
  NoPassword = NoPassword
  NoProc = NoProc
  MaxGeneration = 2
SYMMETRY ProcSymmetry
SPECIFICATION Spec
CHECK_DEADLOCK FALSE
INVARIANTS
  TypeOK
  NeverLockedOut
  DuressNeverUnlocks
  RefusedLeavesNoTrace
  AcknowledgedIsDurable
PROPERTY
  WipedStaysWiped
