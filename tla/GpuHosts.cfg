SPECIFICATION BothSpec
CONSTANTS
  Names = {a, b}
  Inputs <- MCInputs
  Outputs = {0}
  Junk = {2}
  Half = 2
  Fill = 1
  Requests <- MCRequests
  Contents <- MCContents
  Images = {1}
  Pointers = {p1, p2}
  Handles = {h1}
  Arrays = {x1, x2}
  Null = Null
  MaxEntries = 2
  MaxInputs = 0
  MaxQueue = 2
  Compute <- MCCompute
  WebSpecs <- MCWebSpecs
  WebOutputs = {2}
  WebContents <- MCWebContents
  Buffers = {b1, b2, b3}
  Pipelines = {q1}
  WebRequests <- MCWebRequests
  WebInputs = 1
  WebCompute <- MCWebCompute
INVARIANTS RunsPrint WebOneOwner
PROPERTIES WebImplementsStore WorksEnd
