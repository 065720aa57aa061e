SPECIFICATION FairSpec
CONSTANTS
    s1 = s1
    g1 = g1
    g2 = g2
    g3 = g3
    g4 = g4
    u1 = u1
    u2 = u2
    u3 = u3
    x1 = x1
    x2 = x2
    NoGroup = NoGroup
    Groups = {g1, g2, g3, g4}
    Users = {u1, u2, u3}
    Setups = {x1, x2}
    Sessions = {s1}
    Staff <- MCStaff
    Chart <- MCChart
    Held <- MCHeld
    Postings <- MCPostings
    NewEdges <- MCNewEdges
    MaxChanges = 2
    MaxRequests = 1
INVARIANT TypeOK WalkIsClosure RoutedMayDecide
PROPERTY DecidedByEntitled DeletedWasEmpty WalkEnds
CHECK_DEADLOCK FALSE
