CONSTANTS
    User = {u1}
    Req = {r1, r2}
    Grant = {g1, g2}
    None = None
    SubTicks = 2
    RefreshLife = 2
    MaxSec = 3
    MaxLost = 0
SPECIFICATION Spec
PROPERTY LogoutFinal
