\* A save of the protection file may fail.
SPECIFICATION Spec
CONSTANTS
    Absent = Absent
    Torn = Torn
    NoUid = NoUid
    Faults = {"save"}
    Process = {daemon}
    TakeTurns = TRUE
    Vin = {v1, v2}
    ValidVin = {v1, v2}
    LegacyVin = {}
    Coding = {}
    Info = {}
    Uid = {u1}
    SeReads = {u1}
    ConfigReads = {u1}
    TestBuild = TRUE
    EnableWriteProtection = TRUE
    CountMod = 2
PROPERTY BoundVinNeedsAuthorization
