CONSTANTS
    Candidates <- MCCandidates
    Rank <- MCRank
    ZeroPorts = {}
    MaxLocations = 1
    MaxProbes = 2
    DefaultLoc = DefaultLoc
    Absent = Absent

SPECIFICATION Spec

INVARIANTS
    TypeOK
    TestingHasProbe
    TestingOnlyListed

PROPERTIES
    TestingResolves
