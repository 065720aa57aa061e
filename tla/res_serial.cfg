SPECIFICATION FairSpec
CONSTANTS
    s1 = s1
    s2 = s2
    w1 = w1
    w2 = w2
    x1 = x1
    x2 = x2
    u1 = u1
    u2 = u2
    Sessions = {s1}
    Sweepers = {w1}
    Setups = {x1}
    Users = {u1}
    CancelAny = {}
    MinLead = 0
    SmtpEnabled = TRUE
    Undeliverable = {}
    EditTargets = {"MAINTENANCE"}
    MaxTime = 2
    MaxRows = 2
    MailCap = 1
INVARIANT NoticesBounded
PROPERTY ImplementsCalendar ExpiredIsReleased
CHECK_DEADLOCK FALSE
