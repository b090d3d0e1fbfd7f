SPECIFICATION TreeSpec
CONSTANTS
  Base = 1
  PageWords = 49
  MaxPages = 1
  Magic = 99
  Counts = 1
  Width = 2
  Mask = 3
  Words <- MCWords
  Lengths = {}
  Builds = 3
INVARIANTS OneOwner
PROPERTIES ImplementsStore CallsEnd
