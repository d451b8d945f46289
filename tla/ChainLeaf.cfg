SPECIFICATION Spec
CONSTANTS
    Anchors <- MCAnchors
    Peers <- MCPeers
    Times <- MCTimes
INVARIANT AuthorizedLeafInTime
CHECK_DEADLOCK FALSE
