SPECIFICATION CompatSpec
CONSTANTS
    r1 = r1  r2 = r2   v1 = v1  v2 = v2  v3 = v3
    Requests = {r1, r2}
    Versions = {v1, v2, v3}
    Stored = {v1}
    None = None
    Documents <- MCDocuments
    Unparsable = Unparsable
    Depth = 3
INVARIANTS
    TypeOK
    ActivationServes
    UpgradesKeepQueries
PROPERTIES
    EveryActivationEnds
