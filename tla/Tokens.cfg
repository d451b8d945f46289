SPECIFICATION TokenSpec
CONSTANTS
    Anchors <- MCAnchors
    Peers <- MCPeers
    Conns = {c1}
    Reqs = {r1}
    Flows = {f}
    NoAccount = NoAccount
    MaxTime = 5
    MsPerSec = 2
    Ttl <- MCTtl
    TransparentSignin = FALSE
    TransparentConsent = TRUE
INVARIANT AnswersAccepted
INVARIANT TokenTypeOK
INVARIANT ClampedTokensDieWithCert
INVARIANT TokenOwnerAccepted
