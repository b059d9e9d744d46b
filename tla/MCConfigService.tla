--------------------------- MODULE MCConfigService ---------------------------
(* Instances of ConfigService and BackendFactory for TLC.                  *)
EXTENDS BackendFactory, TLC

CONSTANTS p1, p2, t1, t2, t3, local, s3, dir, var

\* t1 and t2 in one process, each in its own, two against one.
Both     == t1 :> p1 @@ t2 :> p1
OneEach  == t1 :> p1 @@ t2 :> p2
TwoOne   == t1 :> p1 @@ t2 :> p1 @@ t3 :> p2

\* Listeners in no process, or two in p1.
NoListener == [p \in Proc |-> 0]
InP1       == p1 :> 2 @@ p2 :> 0

\* At startup the document names a backend nobody has registered; then it has no
\* `active`, then no base_path.  STORAGE_ACTIVE is wrong, .env is not.
Dict(active, path) == [active |-> active, base_path |-> path]
Documents  == [v \in Version |-> CASE v = 0 -> Dict(s3, dir)
                                   [] v = 1 -> Dict(None, dir)
                                   [] OTHER -> Dict(local, None)]
WrongEnv   == Dict(s3, None)
RightFile  == Dict(local, None)
InSettings == Dict(local, var)
=============================================================================
