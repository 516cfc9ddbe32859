\* A production line that keeps sending VINs, and a crash before the answer.
SPECIFICATION FairSpec
CONSTANTS
    Absent = Absent
    Torn = Torn
    NoUid = NoUid
    Faults = {"crash"}
    Process = {daemon}
    TakeTurns = TRUE
    Vin = {v1}
    ValidVin = {v1}
    LegacyVin = {}
    Coding = {}
    Info = {}
    Uid = {u1}
    SeReads = {u1}
    ConfigReads = {u1}
    TestBuild = TRUE
    EnableWriteProtection = TRUE
    CountMod = 2
PROPERTY FailedWriteCanBeRetried
