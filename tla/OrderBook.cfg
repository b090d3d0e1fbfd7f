SPECIFICATION Spec
CONSTANTS
  Commands <- MCCommands
  slots = 3
  maxPrice = 2
  maxQty = 4
  MaxId = 4
VIEW View
INVARIANTS ChainsHoldSlots
PROPERTIES ImplementsLists
