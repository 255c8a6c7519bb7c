SPECIFICATION FairHandshakeSpec
CONSTANT Servers <- SomeServers
INVARIANTS NoSurprise GivesUpWithReason StallsOnlyWhen OnlineMeansLoggedIn
PROPERTY ServedLinkRecovers
