\* A production line that keeps sending VINs; faults and crashes come and go.
SPECIFICATION FairSpec
CONSTANTS
    Absent = Absent
    Torn = Torn
    NoUid = NoUid
    Faults = {"init", "save", "crash"}
    Process = {daemon}
    TakeTurns = TRUE
    Vin = {v1, v2}
    ValidVin = {v1, v2}
    LegacyVin = {v1}
    Coding = {c1}
    Info = {}
    Uid = {u1}
    SeReads = {u1}
    ConfigReads = {u1, NoUid}
    TestBuild = TRUE
    EnableWriteProtection = TRUE
    CountMod = 2
PROPERTY EventuallySealed
