CONSTANTS
  Options = {"network", "process", "public_host"}
  Sections <- TwoSections
  Public = "public_host"

SPECIFICATION Spec

INVARIANT NoDataRace
INVARIANT MutexesSignal
INVARIANT MethodMatchesLink
PROPERTY FlagsStable
PROPERTY LeftBehindForGood
PROPERTY CycleSpec
PROPERTY LinkSpec
PROPERTY GatheredIsHandedOver
PROPERTY StartedAutoPushReturns
