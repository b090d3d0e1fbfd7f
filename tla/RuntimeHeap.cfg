SPECIFICATION Spec
CONSTANTS
  Base = 1
  PageWords = 13
  MaxPages = 2
  Magic = 99
  Counts = 4
  Width = 2
  Mask = 2
  Words <- MCWords
  Lengths = {0}
INVARIANTS MemoryOK ListInOrder OneOwner Counted
PROPERTIES ImplementsRow ImplementsStore OnlyMemoryTraps
