SPECIFICATION Spec
CONSTANTS
    s1 = s1
    s2 = s2
    u1 = u1
    Users = {u1}
    Founders = {}
    Sessions = {s1, s2}
    MaxWrites = 3
SYMMETRY Interchangeable
INVARIANT TypeOK LiveSinceChange SingleUse NoWayIn
PROPERTY AccountsKeepKeys
CHECK_DEADLOCK FALSE
