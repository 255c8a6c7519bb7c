CONSTANTS
  Options = {"public_host"}
  Sections <- NoSections
  Public = "public_host"

SPECIFICATION Spec

PROPERTY AutoPushReturns
