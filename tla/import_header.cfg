SPECIFICATION Spec
CONSTANTS
    s1 = s1
    s2 = s2
    p1 = p1
    p2 = p2
    p3 = p3
    i1 = i1
    i2 = i2
    i3 = i3
    c1 = c1
    c2 = c2
    c3 = c3
    c4 = c4
    bios = bios
    yes = yes
    Checked = yes
    user = user
    Mandatory = {user}
    a1 = a1
    a2 = a2
    a3 = a3
    m1 = m1
    m2 = m2
    m3 = m3
    n1 = n1
    serial = serial
    rack = rack
    Rack = Rack
    v1 = v1
    v2 = v2
    Null = Null
    Unborn = Unborn
    Gone = Gone
    Kept = Kept
    Products = {p1, p2, p3}
    Ids = {i1, i2, i3}
    ColumnIds = {c1, c2, c3, c4}
    Ips = {a1, a2, a3}
    Hosts = {m1, m2, m3}
    Owners = {n1}
    Headers = {serial, bios, user, rack, Rack}
    Norm <- MCNorm
    Values = {v1, v2, yes}
    Sessions = {s1}
    Books <- MCCapital
    FirstProducts = {p1, p2}
    FirstSetups <- MCFirstSetups
    FirstColumns <- MCFirstColumns
    Rows <- MCRows
    Entries = {v2, yes}
    Revisions <- MCRevisions
    NewColumns <- MCNewColumns
    MaxEdits = 2
    MaxUploads = 1
CHECK_DEADLOCK FALSE
PROPERTY AcceptedIsImported
