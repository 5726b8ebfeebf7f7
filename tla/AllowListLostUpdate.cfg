SPECIFICATION Spec
CONSTANTS
    r1 = r1  r2 = r2  name = name  nic = nic  car = car  a1 = a1  a2 = a2  citizen = citizen  drp = drp  dmt = dmt
    Requests = {r1, r2}
    Fields = {name, nic, car}
    Schemas = {drp, dmt}
    SchemaOf <- MCSchemaOf
    Apps = {a1, a2}
    Owners = {citizen}
    GrantLength <- MCGrantLength
    MetadataRequests <- MCMetadataRequests
    FieldSets <- MCFieldSets
    None = None
    MaxRows = 2
    MaxTime = 0
PROPERTY OtherGrantsKept
