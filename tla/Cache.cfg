SPECIFICATION Spec
CONSTANTS
    i1 = i1
    i2 = i2
    u1 = u1
    g1 = g1
    g2 = g2
    k1 = k1
    Model = "Session"
    Ids = {i1, i2}
    Grants = {g1, g2}
    Uids = {u1}
    UserCodes = {k1}
    UidOf <- MCUidOf
    UserCodeOf <- MCUserCodeOf
    None = None
    Ttls <- Limits
    MaxTime = 3
    MaxKeys = 2
INVARIANT TypeOK
PROPERTY RevokeKills
PROPERTY ImplementsAdapter
