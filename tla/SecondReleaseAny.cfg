SPECIFICATION AnyHostSpec
CONSTANTS
  Base = 1
  PageWords = 26
  MaxPages = 1
  Magic = 99
  Counts = 1
  Width = 2
  Mask = 2
  Words <- MCWords
  Lengths = {0}
PROPERTIES SecondReleaseTraps
