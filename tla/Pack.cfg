\* Two files of up to two chunks, each rewritten at most once.
CONSTANTS
  NumFiles = 2
  MaxSize = 2
  MaxVersion = 2
SPECIFICATION Spec
CHECK_DEADLOCK FALSE
INVARIANTS
  TypeOK
  OutputNotTorn
  AllOrNothing
PROPERTIES
  PublishesAtomically
