CONSTANTS
  MaxRequests = 2
  MaxHosts = 2
  TypedKeys = {}

SPECIFICATION Spec

INVARIANT OneKeyPerMachine
