CONSTANTS
    Client = {c1, c2}
    Uri = {u1}
SPECIFICATION Spec
INVARIANT DomainErrors
