SPECIFICATION Spec
CONSTANTS
    Anchors <- MCAnchors
    Peers <- MCPeers
    Times <- MCTimes
INVARIANT TypeOK
INVARIANT AdaptsWholePrefix
PROPERTY HandlersAreOneStep
PROPERTY Terminates
CHECK_DEADLOCK FALSE
