\* Every route, under fair scheduling of the threads.
CONSTANT
  Routes = {"help", "container", "pack"}
SPECIFICATION FairSpec
CHECK_DEADLOCK FALSE
INVARIANTS
  ResultMeansOver
  NoSecretsAtWork
PROPERTIES
  DriveReleased
  WindowAnswers
