\* A disk that may cut a file short.
SPECIFICATION Spec
CONSTANTS
    Absent = Absent
    Torn = Torn
    NoUid = NoUid
    Faults = {"torn"}
    Process = {daemon}
    TakeTurns = TRUE
    Vin = {v1, v2}
    ValidVin = {v1, v2}
    LegacyVin = {}
    Coding = {c1, c2}
    Info = {}
    Uid = {u1}
    SeReads = {u1}
    ConfigReads = {u1}
    TestBuild = TRUE
    EnableWriteProtection = TRUE
    CountMod = 2
PROPERTY ConfigSuccessIsStored
