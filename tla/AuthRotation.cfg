CONSTANTS
    User = {u1}
    Req = {r1, r2}
    Grant = {g1, g2, g3}
    None = None
    SubTicks = 1
    RefreshLife = 2
    MaxSec = 1
    MaxLost = 1
SPECIFICATION Spec
SYMMETRY Symmetry
INVARIANTS
    RevokedBeforeIssued
    OneRotation
PROPERTIES
    RotationSpec
    RevokedStaysOut
    DeletedStaysOut
