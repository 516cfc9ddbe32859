---------------------------- MODULE UidProvider ----------------------------
(***************************************************************************)
(* The ECU UID providers: the secure element first, the configuration only *)
(* in a test build.  A read is found with a UID or fails with a PROV code. *)
(***************************************************************************)
CONSTANTS
    NoUid,        \* an empty UID or a missing configuration key
    Uid,          \* the UIDs a source may give
    SeReads,      \* what read_from_se may answer, NoUid when it fails
    ConfigReads,  \* what ecu.uid may hold when it is read, NoUid when missing
    TestBuild     \* TEST_ENVIRONMENT is defined

ASSUME UidAssumption ==
    /\ NoUid \notin Uid
    /\ SeReads \subseteq Uid \cup {NoUid}
    /\ ConfigReads \subseteq Uid \cup {NoUid}
    /\ TestBuild \in BOOLEAN

\* ecu_uid.cpp answers false on every platform.
SeHardwarePresent == FALSE

Found(uid)   == [uid |-> uid, code |-> "SUCCESS"]
Missing(code) == [uid |-> NoUid, code |-> code]

UidReadFrom(reads, code) ==
    {IF uid = NoUid THEN Missing(code) ELSE Found(uid) : uid \in reads}

ReadUidDetailed ==
    IF SeHardwarePresent
    THEN UidReadFrom(SeReads, "SE_UID_READ_FAILED")
    ELSE IF TestBuild
         THEN UidReadFrom(ConfigReads, "SE_MISSING_CONFIG_NOT_FOUND")
         ELSE {Missing("SE_MISSING_PRODUCTION_FAIL_CLOSED")}
=============================================================================
