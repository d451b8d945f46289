SPECIFICATION FieldsSpec
CONSTANTS
    ClientCerts <- MCClientCerts
    NoValue = NoValue
INVARIANT FieldsTypeOK
INVARIANT OneOctetRead
INVARIANT StoredWhole
INVARIANT IdentifiersTold
INVARIANT ClaimsFollowScope
