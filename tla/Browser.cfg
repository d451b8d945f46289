SPECIFICATION BrowserSpec
CONSTANTS
    Anchors <- MCAnchors
    Peers <- MCPeers
    Conns = {c1, c2}
    Tabs = {t1}
    Reqs = {t1}
    Flows = {t1}
    NoAccount = NoAccount
    MaxTime = 1
    TransparentSignin = FALSE
    TransparentConsent = FALSE
    LogoutToggle = "false"
INVARIANT BrowserTypeOK
INVARIANT ByTheUser
INVARIANT SignedOutIsLoggedOut
PROPERTY GetsThrough
PROPERTY FlowEnds
