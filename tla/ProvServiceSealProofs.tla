----------------------- MODULE ProvServiceSealProofs ------------------------
(***************************************************************************)
(* Proofs about the seal of ProvService: what it ends for the process that *)
(* set it, what it is worth to the others that open the store, and that a  *)
(* production build never comes to it.                                     *)
(***************************************************************************)
EXTENDS ProvServiceCallProofs

-----------------------------------------------------------------------------
(* Any number of processes on the store.                                   *)

\* A running call is a call of an initialized service.
RunsInitialized(p) == pc[p] \notin {"down", "idle"} => initialized[p]

RunInv == \A p \in Process : RunsInitialized(p)

LEMMA OwnRunStep ==
    ASSUME TypeOK, NEW p \in Process, RunsInitialized(p), Call(p) \/ Step(p) \/ Life(p)
    PROVE  RunsInitialized(p)'
<1> USE DEF RunsInitialized
<1>1. ASSUME NEW v \in Vin, WriteVin(p, v) \/ AuthorizeRewrite(p, v)
      PROVE  RunsInitialized(p)'
  BY <1>1, Labelled, FlowLabelled DEF WriteVin, AuthorizeRewrite, RefuseVin, Refuses
<1>2. ASSUME NEW c \in Coding, WriteVehicleConfig(p, c) PROVE RunsInitialized(p)'
  BY <1>2, Labelled DEF WriteVehicleConfig, RefuseData, Accepts, Refuses
<1>3. ASSUME NEW i \in Info, WriteProductionInfo(p, i) PROVE RunsInitialized(p)'
  BY <1>3, Labelled DEF WriteProductionInfo, RefuseData, Accepts, Refuses
<1>4. ASSUME NEW op \in QueryOps, Query(p, op) PROVE RunsInitialized(p)'
  BY <1>4, Labelled DEF Query
<1>5. CASE Step(p)
  <2>1. initialized' = initialized
    BY <1>5 DEF Step, ReadExisting, SaveVinWritten, SaveBound, WriteBinding, VerifyWrite,
                SetWriteProtection, Finish, ReadBackConfig, MarkVerified, ReadBackInfo
  <2>2. pc[p] \notin {"down", "idle"}
    BY <1>5 DEF Step, ReadExisting, SaveVinWritten, SaveBound, VerifyWrite,
                SetWriteProtection, Finish, ReadBackConfig, MarkVerified, ReadBackInfo
  <2> QED BY <2>1, <2>2
<1>6. CASE ProcessStart(p) \/ Stop(p) \/ Crash(p)
  BY <1>6, Labelled DEF ProcessStart, Stop, Crash, Forget
<1>7. CASE Initialize(p) \/ BeginShutdown(p)
  BY <1>7 DEF Initialize, BeginShutdown
<1> QED BY <1>1, <1>2, <1>3, <1>4, <1>5, <1>6, <1>7 DEF Call, Life

LEMMA RunNext == TypeOK /\ RunInv /\ [Next]_vars => RunInv'
<1> SUFFICES ASSUME TypeOK, RunInv, [Next]_vars, NEW q \in Process
             PROVE  RunsInitialized(q)'
  BY DEF RunInv
<1>1. CASE UNCHANGED vars
  BY <1>1 DEF vars, RunInv, RunsInitialized
<1>2. ASSUME NEW p \in Process, Call(p) \/ Step(p) \/ Life(p)
      PROVE  RunsInitialized(q)'
  <2>1. CASE p = q
    BY <1>2, <2>1, OwnRunStep DEF RunInv
  <2>2. CASE p # q
    BY <1>2, <2>2, OthersStay DEF Own, RunInv, RunsInitialized
  <2> QED BY <2>1, <2>2
<1> QED BY <1>1, <1>2 DEF Next

LEMMA RunsAreInitialized == Spec => []RunInv
<1>1. Init => RunInv
  BY DEF Init, RunInv, RunsInitialized
<1> QED BY <1>1, RunNext, TypeCorrect, PTL DEF Spec

\* What a sealed store allows a process whose flag is not stale.
LEMMA FreshProcessWritesNothing ==
    ASSUME "torn" \notin Faults, TypeOK, RunInv, FlagFollowsFile, protectionFile = "1",
           NEW p \in Process, Call(p) \/ Step(p) \/ Life(p)
    PROVE  UNCHANGED files
<1>1. /\ initialized[p] => writeProtected[p]
      /\ pc[p] \notin {"down", "idle"} => initialized[p]
  BY DEF FlagFollowsFile, RunInv, RunsInitialized
<1>2. CASE SetWriteProtection(p)
  <2>1. PICK write \in Save(protectionFile, "1") : protectionFile' = write.file
    BY <1>2 DEF SetWriteProtection
  <2>2. protectionFile' = "1"
    BY <2>1, SaveOutcomes
  <2> QED BY <1>2, <2>2 DEF SetWriteProtection, files
<1> QED BY <1>1, <1>2, ClosedFlagWritesNothing

\* A seal that every initialized process knows of ends all writing, and
\* stays known to all.
SealHoldsForFreshFlags ==
    [][protectionFile = "1" /\ FlagFollowsFile => UNCHANGED files /\ FlagFollowsFile']_vars

(***************************************************************************)
(* Any number of processes on one store, the daemon and prov_cli among     *)
(* them, with refused saves, failing starts and crashes: once the store is *)
(* sealed and every initialized process has the flag to go with it, no     *)
(* file changes for good, whoever starts later.  A process that read the   *)
(* protection file before the seal was set is the only way around it; the  *)
(* run stale_protection shows that way (protected_storage.cpp:21-25).      *)
(***************************************************************************)
THEOREM StaleFlagIsTheOnlyWay ==
    ASSUME "read" \notin Faults, "torn" \notin Faults
    PROVE  Spec => SealHoldsForFreshFlags
<1>1. ASSUME TypeOK, RunInv, [Next]_vars, protectionFile = "1", FlagFollowsFile
      PROVE  UNCHANGED files /\ FlagFollowsFile'
  <2>1. CASE UNCHANGED vars
    BY <1>1, <2>1 DEF vars, FlagFollowsFile, files
  <2>2. ASSUME NEW p \in Process, Call(p) \/ Step(p) \/ Life(p)
        PROVE  UNCHANGED files /\ FlagFollowsFile'
    <3>1. UNCHANGED files
      BY <1>1, <2>2, FreshProcessWritesNothing
    <3>2. initialized'[p] => writeProtected'[p]
      BY <1>1, <2>2, FlagStaysClosed
    <3>3. ASSUME NEW q \in Process, q # p PROVE initialized'[q] => writeProtected'[q]
      BY <1>1, <2>2, <3>3, OthersStay DEF Own, FlagFollowsFile
    <3> QED BY <3>1, <3>2, <3>3 DEF FlagFollowsFile
  <2> QED BY <1>1, <2>1, <2>2 DEF Next
<1> QED BY <1>1, TypeCorrect, RunsAreInitialized, PTL DEF Spec, SealHoldsForFreshFlags

-----------------------------------------------------------------------------
(* Processes that take turns: what the seal ends.                          *)

\* The places a write reaches only through a save the flag let pass.
PastFirstSave == {"saveBound", "verify", "protect", "readConfig", "markVerified", "readInfo"}

\* Behind the seal no write is past its first save, but for the call that
\* set it and has not answered yet.
ClosedInv ==
    \A p \in Process :
        /\ pc[p] = "protect" => EnableWriteProtection
        /\ protectionFile = "1" =>
              pc[p] \notin PastFirstSave /\ (pc[p] = "finish" => acked = Absent)

LEMMA ProtectIsConfigured ==
    ASSUME TypeOK, NEW p \in Process, Call(p) \/ Step(p) \/ Life(p),
           pc[p] = "protect" => EnableWriteProtection
    PROVE  pc'[p] = "protect" => EnableWriteProtection
<1>1. CASE Call(p)
  BY <1>1, Labelled, FlowLabelled DEF Call, WriteVin, AuthorizeRewrite, RefuseVin,
     WriteVehicleConfig, WriteProductionInfo, RefuseData, Query
<1>2. CASE VerifyWrite(p)
  BY <1>2, Labelled DEF VerifyWrite, AfterVerify
<1>3. CASE Step(p) /\ ~VerifyWrite(p)
  BY <1>3, Labelled DEF Step, ReadExisting, SaveVinWritten, SaveBound, WriteBinding,
     SetWriteProtection, Finish, ReadBackConfig, MarkVerified, ReadBackInfo
<1>4. CASE Life(p)
  BY <1>4, Labelled DEF Life, ProcessStart, Initialize, BeginShutdown, Stop, Crash, Forget
<1> QED BY <1>1, <1>2, <1>3, <1>4

\* Behind the seal a write gets nowhere.
LEMMA NoWayPastTheSeal ==
    ASSUME TypeOK, SealInv, NEW p \in Process, Call(p) \/ Step(p) \/ Life(p),
           protectionFile = "1", pc[p] \notin PastFirstSave
    PROVE  /\ pc'[p] \notin PastFirstSave
           /\ pc'[p] = "finish" => pc[p] = "finish" /\ acked' = acked
<1>1. initialized[p] => writeProtected[p]
  BY DEF SealInv, FlagFollowsFile
<1>2. pc[p] \notin {"down", "idle"} => writeProtected[p]
  BY <1>1 DEF SealInv, FlightInv, CallsAreAdmitted
<1> USE DEF PastFirstSave
<1>3. CASE \/ \E v \in Vin : WriteVin(p, v) \/ AuthorizeRewrite(p, v)
           \/ \E op \in QueryOps : Query(p, op)
  BY <1>3, Labelled, FlowLabelled DEF WriteVin, AuthorizeRewrite, RefuseVin, Query
<1>4. CASE \/ \E c \in Coding : WriteVehicleConfig(p, c)
           \/ \E i \in Info : WriteProductionInfo(p, i)
  BY <1>1, <1>4, Labelled
     DEF WriteVehicleConfig, WriteProductionInfo, RefuseData, Accepts, Refuses
<1>5. CASE SaveVinWritten(p)
  <2>1. PICK write \in ProtectedWrite(p, bindingFile, draft[p]) :
          ~write.ok => Return(p, "VIN_WRITE_FAILED")
    BY <1>5 DEF SaveVinWritten, WriteBinding
  <2>2. ~write.ok
    BY <1>2, <1>5, ProtectedWriteOutcomes DEF SaveVinWritten
  <2> QED BY <2>1, <2>2, Labelled
<1>6. CASE ReadExisting(p) \/ Finish(p)
  BY <1>6, Labelled DEF ReadExisting, Finish
<1>7. CASE \/ SaveBound(p) \/ VerifyWrite(p) \/ SetWriteProtection(p)
           \/ ReadBackConfig(p) \/ MarkVerified(p) \/ ReadBackInfo(p)
  BY <1>7 DEF SaveBound, VerifyWrite, SetWriteProtection, ReadBackConfig, MarkVerified, ReadBackInfo
<1>8. CASE ProcessStart(p) \/ Stop(p) \/ Crash(p)
  BY <1>8, Labelled DEF ProcessStart, Stop, Crash, Forget
<1>9. CASE Initialize(p) \/ BeginShutdown(p)
  BY <1>9 DEF Initialize, BeginShutdown
<1> QED BY <1>3, <1>4, <1>5, <1>6, <1>7, <1>8, <1>9 DEF Call, Step, Life

LEMMA ClosedNext ==
    ASSUME TakeTurns, "torn" \notin Faults,
           TypeOK, TurnInv, SealInv, AckInv, ClosedInv, [Next]_vars
    PROVE  ClosedInv'
<1>1. CASE UNCHANGED vars
  BY <1>1 DEF vars, files, ClosedInv
<1> SUFFICES ASSUME NEW p \in Process, Call(p) \/ Step(p) \/ Life(p)
             PROVE  ClosedInv'
  BY <1>1 DEF Next
<1>2. \A q \in Process : q # p => pc'[q] = "down"
  BY StepsAlone DEF Alone
<1>3. pc'[p] = "protect" => EnableWriteProtection
  BY ProtectIsConfigured DEF ClosedInv
<1>4. CASE protectionFile = "1"
  <2>1. pc[p] \notin PastFirstSave /\ (pc[p] = "finish" => acked = Absent)
    BY <1>4 DEF ClosedInv
  <2>2. /\ pc'[p] \notin PastFirstSave
        /\ pc'[p] = "finish" => acked' = Absent
    BY <1>4, <2>1, NoWayPastTheSeal
  <2> QED BY <1>2, <1>3, <2>2 DEF ClosedInv, PastFirstSave
<1>5. CASE protectionFile # "1" /\ protectionFile' = "1"
  <2>1. SetWriteProtection(p)
    BY <1>5, SealedBySealing DEF SealInv
  <2>2. pc'[p] \in {"finish", "idle"} /\ acked' = acked /\ pc[p] = "protect"
    BY <2>1, Labelled DEF SetWriteProtection
  <2>3. acked = Absent
    BY <1>5, <2>2 DEF ClosedInv, AckInv, AckedVinKept
  <2> QED BY <1>2, <1>3, <2>2, <2>3 DEF ClosedInv, PastFirstSave
<1>6. CASE protectionFile' # "1"
  BY <1>2, <1>3, <1>6 DEF ClosedInv
<1> QED BY <1>4, <1>5, <1>6

(***************************************************************************)
(* Once the store is sealed, the call that sealed it is the last write to  *)
(* be answered with SUCCESS, of processes that take turns on a disk that   *)
(* can be read and cuts no file short, for any VINs, codings and infos and *)
(* any number of calls, restarts and crashes: an authorized rewrite does   *)
(* not succeed either, and if the sealing call dies before its answer none *)
(* ever comes.                                                             *)
(***************************************************************************)
THEOREM SealEndsWritingCorrect ==
    ASSUME TakeTurns, "read" \notin Faults, "torn" \notin Faults
    PROVE  Spec => SealEndsWriting
<1>1. Init => ClosedInv
  BY DEF Init, ClosedInv, PastFirstSave
<1>2. Init => AckInv
  BY DEF Init, AckInv, FinishIsSealed, AckedVinKept
<1>3. TypeOK /\ SealInv /\ AckInv /\ [Next]_vars => AckInv'
  BY AckNext
<1>4. TypeOK /\ TurnInv /\ SealInv /\ AckInv /\ ClosedInv /\ [Next]_vars => ClosedInv'
  BY ClosedNext
<1>5. ASSUME TypeOK, CallInv, ClosedInv, [Next]_vars
      PROVE  \A p \in Process : protectionFile = "1" /\ Succeeds(p, WriteOps) =>
                acked = Absent /\ pc[p] = "finish"
  <2> SUFFICES ASSUME NEW p \in Process, protectionFile = "1", Succeeds(p, WriteOps)
               PROVE  acked = Absent /\ pc[p] = "finish"
    OBVIOUS
  <2>1. pc[p] \in {"finish", "markVerified", "readInfo"}
    BY <1>5, SuccessIsAnswered DEF Finish, MarkVerified, ReadBackInfo
  <2> QED BY <1>5, <2>1 DEF ClosedInv, PastFirstSave
<1> QED BY <1>1, <1>2, <1>3, <1>4, <1>5, TypeCorrect, TurnsAreTaken, SealCorrect, CallsAreKnown, PTL
        DEF Spec, SealEndsWriting

-----------------------------------------------------------------------------
(* A production build.                                                     *)

\* No binding flow runs.
NoFlow == \A p \in Process : pc[p] \notin BindingLabels

LEMMA NoFlowStep ==
    ASSUME TestBuild = FALSE, TypeOK, NoFlow, [Next]_vars
    PROVE  NoFlow' /\ UNCHANGED <<bindingFile, protectionFile, acked>>
<1>1. CASE UNCHANGED vars
  BY <1>1 DEF vars, files, NoFlow
<1> SUFFICES ASSUME NEW p \in Process, Call(p) \/ Step(p) \/ Life(p)
             PROVE  NoFlow' /\ UNCHANGED <<bindingFile, protectionFile, acked>>
  BY <1>1 DEF Next
<1> USE DEF BindingLabels
<1>2. pc[p] \notin BindingLabels
  BY DEF NoFlow
<1>3. \A read \in ReadUidDetailed : read.uid = NoUid
  BY DEF ReadUidDetailed, SeHardwarePresent, Missing
<1>4. UNCHANGED <<bindingFile, protectionFile, acked>>
  <2>1. ~ \E q \in Process : \/ SaveVinWritten(q) \/ SaveBound(q)
                             \/ SetWriteProtection(q) \/ Finish(q)
    BY DEF NoFlow, SaveVinWritten, SaveBound, SetWriteProtection, Finish
  <2> QED BY <2>1, SeenSteps
<1>5. pc'[p] \notin BindingLabels
  <2>1. ASSUME NEW v \in Vin, WriteVin(p, v) \/ AuthorizeRewrite(p, v)
        PROVE  pc'[p] \notin BindingLabels
    BY <1>3, <2>1, Labelled DEF WriteVin, AuthorizeRewrite, RefuseVin, BeginBindingFlow
  <2>2. CASE \/ \E c \in Coding : WriteVehicleConfig(p, c)
             \/ \E i \in Info : WriteProductionInfo(p, i)
             \/ \E op \in QueryOps : Query(p, op)
    BY <2>2, Labelled DEF WriteVehicleConfig, WriteProductionInfo, RefuseData, Query
  <2>3. CASE Step(p)
    BY <1>2, <2>3, Labelled DEF Step, ReadExisting, SaveVinWritten, SaveBound, VerifyWrite,
       SetWriteProtection, Finish, ReadBackConfig, MarkVerified, ReadBackInfo
  <2>4. CASE Life(p)
    BY <1>2, <2>4, Labelled
       DEF Life, ProcessStart, Initialize, BeginShutdown, Stop, Crash, Forget
  <2> QED BY <2>1, <2>2, <2>3, <2>4 DEF Call
<1>6. ASSUME NEW q \in Process, q # p PROVE pc'[q] = pc[q]
  BY <1>6, OthersStay DEF Own
<1> QED BY <1>4, <1>5, <1>6 DEF NoFlow

(***************************************************************************)
(* A build for production binds no vehicle: without a secure element, and  *)
(* ecu_uid.cpp knows none, read_uid_detailed fails closed, so that neither *)
(* write_vin nor authorize_rewrite ever writes the binding or seals the    *)
(* store, whatever the configuration says about ecu.uid, for any number of *)
(* processes and any faults (se_uid_provider.cpp:17-29).                   *)
(***************************************************************************)
THEOREM ProductionFailsClosed ==
    ASSUME TestBuild = FALSE
    PROVE  Spec => [][UNCHANGED <<bindingFile, protectionFile, acked>>]_vars
<1>1. Init => NoFlow
  BY DEF Init, NoFlow, BindingLabels
<1>2. TypeOK /\ NoFlow /\ [Next]_vars =>
        NoFlow' /\ UNCHANGED <<bindingFile, protectionFile, acked>>
  BY NoFlowStep
<1> QED BY <1>1, <1>2, TypeCorrect, PTL DEF Spec
=============================================================================
