SPECIFICATION Spec
CONSTANTS
    r1 = r1  r2 = r2  app1 = app1  sch1 = sch1
    subA = subA  subS = subS
    Requests = {r1, r2}
    Applications = {app1}
    Schemas = {sch1}
    ApplicationSubmissions = {subA}
    SchemaSubmissions = {subS}
    None = None
INVARIANTS
    TypeOK
    AllOrNothing
    SuccessIsComplete
PROPERTIES
    EveryRequestAnswered
    ImplementsLifecycle
