SPECIFICATION Spec
CONSTANTS
    s1 = s1
    s2 = s2
    w1 = w1
    w2 = w2
    x1 = x1
    x2 = x2
    u1 = u1
    u2 = u2
    Sessions = {s1, s2}
    Sweepers = {w1}
    Setups = {x1}
    Users = {u1}
    CancelAny = {}
    MinLead = 0
    SmtpEnabled = FALSE
    Undeliverable = {}
    EditTargets = {"AVAILABLE", "RESERVED", "MAINTENANCE"}
    MaxTime = 2
    MaxRows = 2
    MailCap = 2
SYMMETRY Interchangeable
INVARIANTS TypeOK OverlapNeedsRace NoOrphan StatusExplained
PROPERTY RowsAreHistory
CHECK_DEADLOCK FALSE
