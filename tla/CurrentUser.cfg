CONSTANTS
    Client = {c1, c2}
    User = {u1, u2}
    Email = {e1, e2}
    Data = {member, admin}
    None = None
    Caller = {r1}
    Allowed = {admin}
SPECIFICATION CurrentSpec
SYMMETRY Symmetry
INVARIANTS
    TypeOK
    UniqueEmail
    RequestOK
PROPERTIES
    TableSpec
    VerdictDeserved
