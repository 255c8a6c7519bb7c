SPECIFICATION FairSpec

INVARIANT LinkTrue
INVARIANT StaysDownOnlyWhenRefused
INVARIANT RetryOnlyWhenDown
PROPERTY LinkSpec
PROPERTY LinkRecovers
