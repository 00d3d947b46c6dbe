SPECIFICATION Spec
CONSTANTS
  Manifest <- Release
  Entry = 1
  FullSize = 2
  MaxFaults = 2
INVARIANTS TreesKept InstalledComplete
PROPERTIES RetrySucceeds
