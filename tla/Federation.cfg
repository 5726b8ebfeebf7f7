SPECIFICATION Spec
CONSTANTS
    q1 = q1  app = app  ann = ann  ben = ben  name = name  car = car  nic = nic
    regno = regno  drp = drp  drpNew = drpNew  dmt = dmt  drpKey = drpKey
    dmtKey = dmtKey  personName = personName  newName = newName
    vehicle = vehicle  v1 = v1  v2 = v2
    Queries = {q1}
    Apps = {app}
    Owners = {ann, ben}
    Fields = {name, car}
    ArgNames = {nic, regno}
    Columns = {personName, newName, vehicle}
    Sources = {drp, drpNew, dmt}
    Keys = {drpKey, dmtKey}
    Schemas = {v1, v2}
    Questions <- MCQuestions
    SourceOf <- MCSourceOf
    KeyOf <- MCKeyOf
    ArgOf <- MCArgOf
    ColumnOf <- MCColumnOf
    FallbackSchema = v1
    Registered = {drp, drpNew, dmt}
    Unbounded = {dmt}
    Consents <- MCConsents
    None = None
INVARIANTS
    TypeOK
    OneSubject
    AnswerComplete
PROPERTIES
    Gate
    EveryQueryAnswered
