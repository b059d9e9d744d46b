CONSTANTS
    Thread = {t1, t2, t3}
    Factory = {repository, storage}
    None = None
SPECIFICATION FairSpec
INVARIANTS
    TypeOK
    RegistryReady
    OneEach
PROPERTIES
    Settles
    LosersLeave
