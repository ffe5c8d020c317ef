CONSTANTS
  Deltas <- MCDeltas
SPECIFICATION Spec
INVARIANTS
  AddSubMatchesInteger
