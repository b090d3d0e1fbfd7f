SPECIFICATION Spec
CONSTANTS
  Names = {a, b, c}
  Inputs <- MCInputs
  Outputs = {1}
  Junk = {7}
  Contents <- MCContents
  Images = {1}
  Pointers = {p1, p2}
  Handles = {h1}
  Arrays = {x1}
  Null = Null
  MaxEntries = 3
  MaxInputs = 1
  MaxQueue = 2
  Compute <- MCCompute
SYMMETRY Symmetry
INVARIANTS TypeOK TableOwns QueueLive NoAlias HostFreed
PROPERTIES FaultStops ImplementsStore
