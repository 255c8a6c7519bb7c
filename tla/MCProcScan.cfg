SPECIFICATION Spec
CONSTANTS
  MaxPid = 2
  Clones <- TwoClones
  Expire = 2
  MaxBirths = 2
  MaxFaults = 1
  MaxTime = 2
INVARIANTS OwnData Census NotStale
PROPERTIES EveryScanEnds
