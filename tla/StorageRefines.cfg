CONSTANTS
    Client = {c1, c2, c3}
    Uri = {u1, u2}
SPECIFICATION Spec
INVARIANTS
    TypeOK
    IssuedIntact
    StorageInv
PROPERTY StoreSpec
