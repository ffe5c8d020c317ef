CONSTANTS
  Deltas <- MCDeltas
  MaxSteps = 3
SPECIFICATION Spec
\* The walk stops after MaxSteps steps.
CHECK_DEADLOCK FALSE
INVARIANTS
  AddSubComposes
