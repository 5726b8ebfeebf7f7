SPECIFICATION Spec
CONSTANTS
    k1 = k1  k2 = k2  r1 = r1  r2 = r2
    Requests = {r1, r2}
    Kids = {k1, k2}
    Kinds = {"consent", "portal"}
    Usable <- MCUsable
    FirstSets <- MCFirstSets
    Hour = 1
    Timeout = 1
    MaxTime = 3
    MaxRotations = 1
    None = None
INVARIANTS
    TypeOK
    AcceptedWasPublished
    RejectedOnlyWhenNew
PROPERTIES
    EveryVerificationEnds
