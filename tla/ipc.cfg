SPECIFICATION FairSpec
CONSTANTS
    v1 = v1
    v2 = v2
    Client = {k1, k2}
    Connection = {c1, c2}
    NoOne = NoOne
    Vin = {v1, v2}
    ValidVin = {v1, v2}
    NoVin = NoVin
    SealFirst = TRUE
    Request <- MCRequest
    MaxCalls = 2
INVARIANTS
    TypeOK
    SuccessIsKept
    ReadsAreCurrent
PROPERTIES
    ImplementsServiceLife
    CallsDrain
    MutexIsGivenBack
    EveryCallReturns
    MutexComesFree
CHECK_DEADLOCK FALSE
