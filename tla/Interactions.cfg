SPECIFICATION Spec
CONSTANTS
    Anchors <- MCAnchors
    Peers <- MCPeers
    Conns = {c1, c2}
    Reqs = {r1, r2}
    Flows = {f}
    NoAccount = NoAccount
    MaxTime = 1
    TransparentSignin = TRUE
    TransparentConsent = FALSE
INVARIANT TypeOK
INVARIANT AuthorizedWasAccepted
INVARIANT AccountKnown
INVARIANT LoginIsOwn
INVARIANT OneReply
INVARIANT ConsentKeepsLogin
SYMMETRY Symmetry
PROPERTY ImplementsSignOn
