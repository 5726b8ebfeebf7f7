SPECIFICATION Spec
CONSTANTS
    drp = drp  rgd = rgd  dmt = dmt
    Types <- MCTypes
    Queries <- MCQueries
    Worlds <- MCWorlds
    Records <- MCRecords
    Mappings <- MCMappings
    Providers = {drp, rgd, dmt}
    None = None
INVARIANTS
    RequestsComplete
    AnswerMatches
CHECK_DEADLOCK FALSE
