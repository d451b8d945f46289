SPECIFICATION BrowserSpec
CONSTANTS
    Anchors <- MCAnchors
    Peers <- MCPeers
    Conns = {c1}
    Tabs = {t1}
    Reqs = {t1}
    Flows = {t1}
    NoAccount = NoAccount
    MaxTime = 1
    TransparentSignin = TRUE
    TransparentConsent = TRUE
    LogoutToggle = "true"
INVARIANT SignedOutIsLoggedOut
