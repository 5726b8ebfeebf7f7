SPECIFICATION Spec
CONSTANTS
    r1 = r1  r2 = r2  owner = owner  ada = ada  bob = bob  app = app
    f1 = f1  f2 = f2
    Requests = {r1, r2}
    Owners = {owner}
    Emails = {ada, bob}
    Apps = {app}
    FieldLists = {f1, f2}
    ConsentTypes = {"realtime"}
    GrantDurations = {"PT1H"}
    PendingTimeout <- MCPendingTimeout
    GrantLength <- MCGrantLength
    CreateRequests <- MCCreateRequests
    Lookups <- MCLookups
    PortalRequests <- MCPortalRequests
    None = None
    MaxRecords = 2
    MaxTime = 2
SYMMETRY Interchangeable
INVARIANTS
    TypeOK
    ApprovedByOwner
    DeadlinesMatchStatus
    AnswersTheRequest
    ActiveRowsDistinct
    ReplacedHasSuccessor
PROPERTIES
    NoStaleApprovalServed
    ImplementsLedger
