SPECIFICATION Spec
CONSTANTS
    u1 = u1  u2 = u2  r1 = r1  r2 = r2
    name = name  phone = phone  v1 = v1  v2 = v2  ada = ada  bob = bob
    Requests = {r1, r2}
    Users = {u1, u2}
    Emails = {ada, bob}
    Fields = {name, phone}
    Values = {v1, v2}
    Creations <- MCCreations
    Updates <- MCUpdates
    None = None
    Deleted = Deleted
SYMMETRY Interchangeable
INVARIANTS
    TypeOK
    MembersComplete
    ProfilesAgree
