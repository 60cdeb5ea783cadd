SPECIFICATION CliSpec
CONSTANTS
  Letters <- MCLetters
  MaxVersion = 4
  Current = 2
INVARIANTS LeavesNothing InstalledIsGenuine
PROPERTIES DirectoryKept ForeignKept InterruptAnswered
