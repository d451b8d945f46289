SPECIFICATION Spec
CONSTANTS
    Certs <- MCCerts
    Adaptable <- MCAdaptable
    Padded <- MCPadded
    Paths <- MCPaths
    Texts <- MCTexts
    c1 = c1
    c2 = c2
    c3 = c3
    c4 = c4
    Missing = Missing
    MaxReplaced = 2
INVARIANT TypeOK
INVARIANT DamageIsLocal
INVARIANT ChainTrustsMore
INVARIANT ListenerTrustsMore
