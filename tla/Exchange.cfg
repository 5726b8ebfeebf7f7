SPECIFICATION ExchangeSpec
CONSTANTS
    q1 = q1  p1 = p1  c1 = c1  c2 = c2  app = app  ann = ann  ben = ben  name = name
    car = car  nic = nic  drp = drp  dmt = dmt  personName = personName
    vehicle = vehicle  v1 = v1  citizen = citizen
    Queries = {q1}
    Apps = {app}
    Owners = {ann, ben}
    Fields = {name, car}
    ArgNames = {nic}
    Columns = {personName, vehicle}
    Sources = {drp, dmt}
    Keys = {drp, dmt}
    Schemas = {v1}
    Questions <- MCQuestions
    SourceOf <- MCSourceOf
    KeyOf <- MCKeyOf
    ArgOf <- MCArgOf
    ColumnOf <- MCColumnOf
    FallbackSchema = v1
    Registered = {drp, dmt}
    Unbounded = {}
    Consents <- MCConsents
    PolicyRequests = {p1}
    FieldOwners = {citizen}
    GrantLength <- MCGrantLength
    MetadataRequests <- MCMetadataRequests
    FieldSets <- MCFieldSets
    ConsentIds = {c1, c2}
    MaxRows = 2
    MaxTime = 1
    None = None
SYMMETRY Interchangeable
PROPERTIES
    ReleaseIsBacked
