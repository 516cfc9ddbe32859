\* The daemon and prov_cli on one store, a sound disk.
SPECIFICATION Spec
CONSTANTS
    Absent = Absent
    Torn = Torn
    NoUid = NoUid
    Faults = {}
    Process = {daemon, prov_cli}
    TakeTurns = FALSE
    Vin = {v1, v2}
    ValidVin = {v1, v2}
    LegacyVin = {}
    Coding = {}
    Info = {}
    Uid = {u1}
    SeReads = {u1}
    ConfigReads = {u1}
    TestBuild = TRUE
    EnableWriteProtection = TRUE
    CountMod = 2
PROPERTY FrozenOnceProtected
