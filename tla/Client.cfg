SPECIFICATION Spec
CONSTANTS
    first = first
    second = second
    Windows = {first, second}
    Users = {alice, bob}
    Nobody = Nobody
    MaxRequests = 2
    MaxLoads = 3
    MaxPolls <- MCMaxPolls
INVARIANT TypeOK
INVARIANT ShownIsTrue
PROPERTY ServerStateShown
