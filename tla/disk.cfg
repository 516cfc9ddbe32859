\* The daemon and prov_cli in turns, every fault of the disk, crashes anywhere.
SPECIFICATION Spec
CONSTANTS
    Absent = Absent
    Torn = Torn
    NoUid = NoUid
    Faults = {"init", "save", "torn", "read", "crash"}
    Process = {daemon, prov_cli}
    TakeTurns = TRUE
    Vin = {v1, v2, bad}
    ValidVin = {v1, v2}
    LegacyVin = {v1}
    Coding = {c1, c2}
    Info = {i1, i2}
    Uid = {u1}
    SeReads = {u1}
    ConfigReads = {u1, NoUid}
    TestBuild = TRUE
    EnableWriteProtection = TRUE
    CountMod = 3
PROPERTIES
    VinSuccessIsStored
    InfoSuccessIsStored
    SealsItsOwnVin
SYMMETRY DataSymmetry
