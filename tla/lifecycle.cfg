\* Three connection threads: one in the service, two queued on its mutex.
SPECIFICATION FairSpec
CONSTANTS
    Connection = {c1, c2, c3}
    NoOne = NoOne
INVARIANTS
    TypeOK
    NoUseAfterFree
    NothingDangles
    FailedStartLeavesNothing
    JoinIsNeverStuck
PROPERTIES
    WritesQuiesce
    JoinDrains
    ImplementsServiceLife
    ShutdownCompletes
