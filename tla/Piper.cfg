SPECIFICATION Spec
CONSTANTS
  MaxCancels = 2
  MaxFaults = 2
INVARIANTS HandlesOwned
PROPERTIES WarmBeforeUse Recovers
