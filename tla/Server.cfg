SPECIFICATION FairSpec
CONSTANTS
    Conns = {c1, c2}
    MaxStarts = 2
    MaxCloses = 3
INVARIANT TypeOK
INVARIANT ServesWhole
PROPERTY ImplementsContract
INVARIANT ResolvedIsClosed
PROPERTY ForcedCloseSettles
\* The process may end.
CHECK_DEADLOCK FALSE
