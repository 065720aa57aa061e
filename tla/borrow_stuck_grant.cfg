SPECIFICATION Spec
CONSTANTS
    s1 = s1
    s2 = s2
    w1 = w1
    w2 = w2
    x1 = x1
    x2 = x2
    g1 = g1
    g2 = g2
    u1 = u1
    u2 = u2
    u3 = u3
    NoEnd = NoEnd
    Groups = {g1, g2}
    GroupOf <- MCGroupOf
    GroupsOf <- MCGroupsOf
    Routed <- MCRouted
    Owners = {}
    Users = {u1, u2}
    Sessions = {s1, s2}
    Sweepers = {}
    Setups = {x1}
    EndTimes = {NoEnd}
    MaxTime = 0
    MaxRequests = 1
INVARIANT GrantReturnable
CHECK_DEADLOCK FALSE
