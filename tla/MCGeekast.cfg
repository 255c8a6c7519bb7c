SPECIFICATION GeekastSpec
CONSTANTS
  Options = {"public_host"}
  Sections <- OneSection
  Public = "public_host"
  MaxRequests = 2
  MaxHosts = 1
  TypedKeys = {0}
VIEW WithoutHistory
INVARIANTS HandedOverOnce FirstPushIsHttp
PROPERTIES KeySpec
