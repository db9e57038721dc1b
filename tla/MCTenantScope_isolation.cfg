SPECIFICATION MCSpec
CONSTANTS
    t1 = t1
    t2 = t2
    t3 = t3
    c1 = c1
    c2 = c2
    o1 = o1
    o2 = o2
    o3 = o3
    o4 = o4
    i1 = i1
    i2 = i2
    i3 = i3
    k1 = k1
    k2 = k2
    None = None
    Tenants <- ThreeTenants
    Callers <- TwoCallers
    Clients <- FourClients
    Ids <- ThreeIds
    Connections <- TwoConnections
    MaxCached = 2
SYMMETRY Alike
CHECK_DEADLOCK FALSE
INVARIANTS
    CacheSound
    RowsStayInside
    ReadsStayInside
PROPERTY LiveClientsStay
