SPECIFICATION Spec
CONSTANTS
    x1 = x1
    x2 = x2
    x3 = x3
    f1 = f1
    f2 = f2
    c1 = c1
    c2 = c2
    v1 = v1
    v2 = v2
    v3 = v3
    u1 = u1
    s1 = s1
    s2 = s2
    Null = Null
    NoBase = NoBase
    Values = {v1, v2, v3}
    Custom = {c1, c2}
    Stock <- MCStock
    u2 = u2
    Users = {u1, u2}
    Holds <- MCHolds
    Deciders <- MCDeciders
    Setups = {x1, x2}
    Fixed = {f1, f2}
    Template <- PlainTemplate
    Legacy = {x1}
    Sessions = {s1}
    ColumnLists <- Mixed
    EditValues = {v3}
    Serviced = {x1}
    MaxRequests = 2
INVARIANT LedgerExplains
PROPERTY ImplementsExchange
CHECK_DEADLOCK FALSE
