CONSTANTS
    p1 = p1
    p2 = p2
    t1 = t1
    t2 = t2
    t3 = t3
    local = local
    s3 = s3
    dir = dir
    var = var
    None = None
    Backend = {local, s3}
    Registered = {local}
    HardDefault = local
    Path = {dir, var}
    Stored <- Documents
    Env <- WrongEnv
    DotEnv <- RightFile
    FieldDefault <- InSettings
    Proc = {p1}
    Task = {t1, t2}
    Home <- Both
    TTL = 1
    Latency = 1
    MaxWrites = 2
    MaxListeners <- NoListener
SPECIFICATION Spec
INVARIANT ReadYourWrites
