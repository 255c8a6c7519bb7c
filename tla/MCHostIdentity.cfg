CONSTANTS
  MaxRequests = 3
  MaxHosts = 2
  TypedKeys = {3}

SPECIFICATION Spec

INVARIANT IdentityPersisted
INVARIANT ServerKeysAgree
INVARIANT NoUseAfterFree
INVARIANT SingleHost
PROPERTY IdentitySticks
