SPECIFICATION Spec
CONSTANTS
  HeapBase = 1
  FirstSize = 10
  MemoryLimit = 26
  Wrap = 64
  FloatLimit = 9
  MaxWidth = 8
  Magic = 50
  Lines <- MCLines
  MaxArgs = 4
  MaxResults = 4
  MaxTimed = 2
  Exits = {0, 3}
  Returned <- MCReturned
  Touch <- MCTouch
  Commands <- MCCommands
  IdLimit = 2
  MaxCommands = 4
INVARIANTS OutcomeRecorded DisposedOnce WholeLines ArgsIntact CallsAsSent SameCall
PROPERTIES SessionAnswers
