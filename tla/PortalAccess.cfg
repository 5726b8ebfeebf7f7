SPECIFICATION Spec
CONSTANTS
    root = root  ada = ada  bot = bot  m1 = m1  m2 = m2
    sch = sch  app = app  ssub = ssub  asub = asub  r1 = r1  r2 = r2
    Requests = {r1, r2}
    Users = {ada, bot, root}
    MemberIds = {m1, m2}
    Schemas = {sch}
    SchemaSubmissions = {ssub}
    Applications = {app}
    ApplicationSubmissions = {asub}
    Tokens <- MCTokens
    Mode = "fail_open_admin_system"
    None = None
    Deleted = Deleted
    MaxRows = 2
SYMMETRY Interchangeable
INVARIANTS
    TypeOK
    OwnerOrAdminWrites
    ReadOnlyRolesNeverWrite
    OnlyOwnRowsServed
