SPECIFICATION Spec
CONSTANTS
  Header = 6
  Base = 1
  Limit = 41
  Needs = {1, 2, 4}
INVARIANTS BlocksIn Separate Tiled Merged
