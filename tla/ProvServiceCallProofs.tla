----------------------- MODULE ProvServiceCallProofs ------------------------
(***************************************************************************)
(* Proofs about the calls of ProvService: what an answer says of the store *)
(* and of the life of the service.                                         *)
(***************************************************************************)
EXTENDS ProvServiceProofs

-----------------------------------------------------------------------------
(* The call of a process is its own.                                       *)

(***************************************************************************)
(* A running write is the call its label says, and of the VIN of its       *)
(* draft; only a running write waits for its answer.                       *)
(***************************************************************************)
CallOf(p) ==
    /\ call[p].op \in WriteOps /\ call[p].answer = "pending" => pc[p] \notin {"down", "idle"}
    /\ pc[p] \in BindingLabels =>
          call[p].op \in BindingOps /\ call[p].arg = draft[p].vin
    /\ pc[p] \in {"readConfig", "markVerified"} => call[p].op = "write_vehicle_config"
    /\ pc[p] = "readInfo" => call[p].op = "write_production_info"

CallInv == \A p \in Process : CallOf(p)

LEMMA OwnCallStep ==
    ASSUME TypeOK, NEW p \in Process, CallOf(p), Call(p) \/ Step(p) \/ Life(p)
    PROVE  CallOf(p)'
<1> USE DEF TypeOK, CallOf, BindingLabels, WriteOps, BindingOps, Goto, Answer, Begin, Return
<1>1. ASSUME NEW v \in Vin, WriteVin(p, v) PROVE CallOf(p)'
  <2>1. \/ RefuseVin(p, "write_vin", v)
        \/ BeginBindingFlow(p, "write_vin", v)
        \/ Answer(p, "write_vin", v, "VIN_CONFLICT_UNAUTHORIZED")
    BY <1>1 DEF WriteVin
  <2>2. CASE BeginBindingFlow(p, "write_vin", v)
    <3>1. PICK read \in ReadUidDetailed :
            \/ Answer(p, "write_vin", v, read.code)
            \/ /\ Begin(p, "write_vin", v, "establish")
               /\ draft' = [draft EXCEPT ![p] = NewBinding(v, read.uid)]
      BY <2>2 DEF BeginBindingFlow
    <3>2. read.code # "pending"
      BY UidOutcomes DEF Codes
    <3> QED BY <3>1, <3>2 DEF NewBinding
  <2> QED BY <2>1, <2>2 DEF RefuseVin
<1>2. ASSUME NEW v \in Vin, AuthorizeRewrite(p, v) PROVE CallOf(p)'
  <2>1. \/ RefuseVin(p, "authorize_rewrite", v)
        \/ BeginBindingFlow(p, "authorize_rewrite", v)
        \/ Answer(p, "authorize_rewrite", v, "VIN_CONFLICT_UNAUTHORIZED")
    BY <1>2 DEF AuthorizeRewrite
  <2>2. CASE BeginBindingFlow(p, "authorize_rewrite", v)
    <3>1. PICK read \in ReadUidDetailed :
            \/ Answer(p, "authorize_rewrite", v, read.code)
            \/ /\ Begin(p, "authorize_rewrite", v, "establish")
               /\ draft' = [draft EXCEPT ![p] = NewBinding(v, read.uid)]
      BY <2>2 DEF BeginBindingFlow
    <3>2. read.code # "pending"
      BY UidOutcomes DEF Codes
    <3> QED BY <3>1, <3>2 DEF NewBinding
  <2> QED BY <2>1, <2>2 DEF RefuseVin
<1>3. ASSUME NEW c \in Coding, WriteVehicleConfig(p, c) PROVE CallOf(p)'
  <2>1. \/ Begin(p, "write_vehicle_config", c, "readConfig")
        \/ \E code \in Codes : Answer(p, "write_vehicle_config", c, code)
    BY <1>3 DEF WriteVehicleConfig, RefuseData, Codes
  <2> QED BY <2>1 DEF Codes
<1>4. ASSUME NEW i \in Info, WriteProductionInfo(p, i) PROVE CallOf(p)'
  BY <1>4 DEF WriteProductionInfo, RefuseData
<1>5. ASSUME NEW op \in QueryOps, Query(p, op) PROVE CallOf(p)'
  BY <1>5 DEF Query, QueryOps
<1>6. ASSUME ReadExisting(p) PROVE CallOf(p)'
  BY <1>6 DEF ReadExisting
<1>7. ASSUME SaveVinWritten(p) PROVE CallOf(p)'
  BY <1>7 DEF SaveVinWritten, WriteBinding
<1>8. ASSUME SaveBound(p) PROVE CallOf(p)'
  BY <1>8 DEF SaveBound, WriteBinding
<1>9. ASSUME VerifyWrite(p) PROVE CallOf(p)'
  BY <1>9 DEF VerifyWrite, AfterVerify
<1>10. ASSUME SetWriteProtection(p) PROVE CallOf(p)'
  BY <1>10 DEF SetWriteProtection
<1>11. ASSUME Finish(p) PROVE CallOf(p)'
  BY <1>11 DEF Finish
<1>12. ASSUME ReadBackConfig(p) PROVE CallOf(p)'
  BY <1>12 DEF ReadBackConfig
<1>13. ASSUME MarkVerified(p) PROVE CallOf(p)'
  BY <1>13 DEF MarkVerified
<1>14. ASSUME ReadBackInfo(p) PROVE CallOf(p)'
  BY <1>14 DEF ReadBackInfo, InfoReadBack
<1>15. ASSUME ProcessStart(p) PROVE CallOf(p)'
  BY <1>15 DEF ProcessStart
<1>16. ASSUME Initialize(p) PROVE CallOf(p)'
  BY <1>16 DEF Initialize
<1>17. ASSUME BeginShutdown(p) PROVE CallOf(p)'
  BY <1>17 DEF BeginShutdown
<1>18. ASSUME Stop(p) PROVE CallOf(p)'
  BY <1>18 DEF Stop, Forget, NoCall
<1>19. ASSUME Crash(p) PROVE CallOf(p)'
  BY <1>19 DEF Crash, Forget, NoCall
<1> QED
  BY <1>1, <1>2, <1>3, <1>4, <1>5, <1>6, <1>7, <1>8, <1>9, <1>10, <1>11, <1>12, <1>13, <1>14,
     <1>15, <1>16, <1>17, <1>18, <1>19
     DEF Call, Step, Life

LEMMA CallNext == TypeOK /\ CallInv /\ [Next]_vars => CallInv'
<1> SUFFICES ASSUME TypeOK, CallInv, [Next]_vars, NEW q \in Process PROVE CallOf(q)'
  BY DEF CallInv
<1>1. CASE UNCHANGED vars
  BY <1>1 DEF vars, CallInv, CallOf
<1>2. ASSUME NEW p \in Process, Call(p) \/ Step(p) \/ Life(p) PROVE CallOf(q)'
  <2>1. CASE q = p
    BY <1>2, <2>1, OwnCallStep DEF CallInv
  <2>2. CASE q # p
    BY <1>2, <2>2, OthersStay DEF CallInv, CallOf, Own
  <2> QED BY <2>1, <2>2
<1> QED BY <1>1, <1>2 DEF Next

LEMMA CallsAreKnown == Spec => []CallInv
<1>1. Init => CallInv
  BY DEF Init, NoCall, CallInv, CallOf, WriteOps, BindingOps, BindingLabels
<1> QED BY <1>1, CallNext, TypeCorrect, PTL DEF Spec

-----------------------------------------------------------------------------
(* What SUCCESS says.                                                      *)

(***************************************************************************)
(* SUCCESS of a write is given by the last step of its own call.           *)
(***************************************************************************)
LEMMA SuccessIsAnswered ==
    ASSUME TypeOK, CallInv, [Next]_vars, NEW p \in Process, Succeeds(p, WriteOps)
    PROVE  \/ Finish(p) /\ call[p].op \in BindingOps
           \/ MarkVerified(p) /\ call[p].op = "write_vehicle_config"
           \/ ReadBackInfo(p) /\ call[p].op = "write_production_info"
<1> DEFINE Ends == \/ Finish(p) /\ call[p].op \in BindingOps
                   \/ MarkVerified(p) /\ call[p].op = "write_vehicle_config"
                   \/ ReadBackInfo(p) /\ call[p].op = "write_production_info"
<1>1. /\ call[p].op \in WriteOps /\ call[p].answer = "pending"
      /\ call'[p].answer = "SUCCESS"
  BY DEF Succeeds
<1>2. pc[p] \notin {"down", "idle"} /\ CallOf(p)
  BY <1>1 DEF CallInv, CallOf
<1>3. ~ UNCHANGED vars
  BY <1>1 DEF vars
<1>4. PICK q \in Process : Call(q) \/ Step(q) \/ Life(q)
  BY <1>3 DEF Next
<1>5. q = p
  BY <1>1, <1>4, OthersStay DEF Own
<1>6. ~ Call(p)
  BY <1>2 DEF Call, WriteVin, AuthorizeRewrite, WriteVehicleConfig, WriteProductionInfo, Query
<1>7. ~ Life(p)
  BY <1>1, <1>2 DEF Life, ProcessStart, Initialize, BeginShutdown, Stop, Crash, Forget,
                    NoCall, TypeOK
<1>8. Step(p)
  BY <1>4, <1>5, <1>6, <1>7
<1>9. \A answer : Return(p, answer) => call'[p].answer = answer
  BY DEF Return, TypeOK
<1>10. ~ (ReadExisting(p) \/ SaveVinWritten(p) \/ SaveBound(p) \/ VerifyWrite(p))
  BY <1>1, <1>9 DEF ReadExisting, SaveVinWritten, SaveBound, WriteBinding, VerifyWrite
<1>11. ~ (SetWriteProtection(p) \/ ReadBackConfig(p))
  BY <1>1, <1>9 DEF SetWriteProtection, ReadBackConfig
<1>12. Finish(p) \/ MarkVerified(p) \/ ReadBackInfo(p)
  BY <1>8, <1>10, <1>11 DEF Step
<1> QED
  BY <1>2, <1>12 DEF Finish, MarkVerified, ReadBackInfo, CallOf, BindingLabels

(***************************************************************************)
(* SUCCESS of write_vin and authorize_rewrite, on a disk that may fail any *)
(* read and refuse or cut short any save, with crashes anywhere: the file  *)
(* holds a complete binding of the VIN that was asked for.                 *)
(***************************************************************************)
THEOREM VinSuccessIsStoredCorrect ==
    ASSUME TakeTurns
    PROVE  Spec => VinSuccessIsStored
<1>1. ASSUME TypeOK, FlightInv, CallInv, [Next]_vars,
             NEW p \in Process, Succeeds(p, BindingOps)
      PROVE  Bound(bindingFile') /\ bindingFile'.vin = call[p].arg
  <2>1. Finish(p)
    BY <1>1, SuccessIsAnswered DEF Succeeds, WriteOps, BindingOps
  <2>2. pc[p] = "finish" /\ bindingFile' = bindingFile
    BY <2>1 DEF Finish, files
  <2>3. bindingFile = BoundDraft(p) /\ Bound(BoundDraft(p))
    BY <1>1, <2>2, BoundDraftIsBound DEF FlightInv, BindingInFlight, BindingLabels
  <2>4. BoundDraft(p).vin = draft[p].vin
    BY <1>1, <2>2 DEF BoundDraft, TypeOK, LocalsOK, BindingLabels, VehicleBinding
  <2>5. call[p].arg = draft[p].vin
    BY <1>1, <2>2 DEF CallInv, CallOf, BindingLabels
  <2> QED BY <2>2, <2>3, <2>4, <2>5
<1>2. TypeOK /\ FlightInv /\ CallInv /\ [Next]_vars =>
        [\A p \in Process : Succeeds(p, BindingOps) =>
            Bound(bindingFile') /\ bindingFile'.vin = call[p].arg]_vars
  BY <1>1
<1> QED
  BY <1>2, TypeCorrect, FlightCorrect, CallsAreKnown, PTL DEF Spec, VinSuccessIsStored

(***************************************************************************)
(* SUCCESS of write_production_info, for any number of processes and every *)
(* fault of the disk: the file holds that info.                            *)
(***************************************************************************)
THEOREM InfoSuccessIsStoredCorrect == Spec => InfoSuccessIsStored
<1>1. ASSUME TypeOK, CallInv, [Next]_vars,
             NEW p \in Process, Succeeds(p, {"write_production_info"})
      PROVE  infoFile' = call[p].arg
  <2>1. ReadBackInfo(p)
    BY <1>1, SuccessIsAnswered DEF Succeeds, WriteOps, BindingOps
  <2>2. PICK stored \in Load(infoFile) : Return(p, InfoReadBack(stored, call[p].arg))
    BY <2>1 DEF ReadBackInfo
  <2>3. InfoReadBack(stored, call[p].arg) = "SUCCESS"
    BY <1>1, <2>2 DEF Return, TypeOK, Succeeds
  <2>4. stored # Absent /\ stored = call[p].arg
    BY <2>3 DEF InfoReadBack
  <2> QED BY <2>1, <2>4, LoadOutcomes DEF ReadBackInfo, files
<1>2. TypeOK /\ CallInv /\ [Next]_vars =>
        [\A p \in Process : Succeeds(p, {"write_production_info"}) =>
            infoFile' = call[p].arg]_vars
  BY <1>1
<1> QED
  BY <1>2, TypeCorrect, CallsAreKnown, PTL DEF Spec, InfoSuccessIsStored

(***************************************************************************)
(* A call seals only its own VIN, and only a complete binding of it, on    *)
(* any disk and with crashes anywhere.                                     *)
(***************************************************************************)
THEOREM SealsItsOwnVinCorrect ==
    ASSUME TakeTurns
    PROVE  Spec => SealsItsOwnVin
<1>1. ASSUME TypeOK, FlightInv, CallInv, [Next]_vars,
             protectionFile # "1", protectionFile' = "1"
      PROVE  \E p \in Process :
                /\ pc[p] = "protect" /\ Bound(bindingFile)
                /\ bindingFile.vin = call[p].arg
  <2>1. PICK p \in Process : SetWriteProtection(p)
    <3>1. ASSUME NEW p \in Process, SaveVinWritten(p) \/ SaveBound(p) \/ Finish(p)
          PROVE  protectionFile' = protectionFile
      BY <3>1 DEF SaveVinWritten, SaveBound, WriteBinding, Finish, files
    <3> QED BY <1>1, <3>1, SeenSteps
  <2>2. pc[p] = "protect"
    BY <2>1 DEF SetWriteProtection
  <2>3. bindingFile = BoundDraft(p) /\ Bound(BoundDraft(p))
    BY <1>1, <2>2, BoundDraftIsBound DEF FlightInv, BindingInFlight, BindingLabels
  <2>4. BoundDraft(p).vin = draft[p].vin
    BY <1>1, <2>2 DEF BoundDraft, TypeOK, LocalsOK, BindingLabels, VehicleBinding
  <2>5. call[p].arg = draft[p].vin
    BY <1>1, <2>2 DEF CallInv, CallOf, BindingLabels
  <2> QED BY <2>2, <2>3, <2>4, <2>5
<1>2. TypeOK /\ FlightInv /\ CallInv /\ [Next]_vars =>
        [protectionFile # "1" /\ protectionFile' = "1" =>
            \E p \in Process :
                /\ pc[p] = "protect" /\ Bound(bindingFile)
                /\ bindingFile.vin = call[p].arg]_vars
  BY <1>1
<1> QED
  BY <1>2, TypeCorrect, FlightCorrect, CallsAreKnown, PTL DEF Spec, SealsItsOwnVin

-----------------------------------------------------------------------------
(* The rewrite counter.                                                    *)

\* The draft about to be saved counts on from what the file holds.
CountInv ==
    \A p \in Process :
        pc[p] = "saveWritten" =>
            draft[p].rewriteCount = CountAfter(bindingFile, draft[p].vin)

(***************************************************************************)
(* Which step brings a process in front of its first save.                 *)
(***************************************************************************)
LEMMA BeforeFirstSave ==
    ASSUME TakeTurns, TypeOK, TurnInv, [Next]_vars, NEW p \in Process, pc'[p] = "saveWritten"
    PROVE  \/ ReadExisting(p)
           \/ pc[p] = "saveWritten" /\ UNCHANGED <<bindingFile, draft>>
<1>1. CASE UNCHANGED vars
  BY <1>1 DEF vars, files
<1>2. CASE Next
  <2>1. Call(p) \/ Step(p) \/ Life(p)
    BY <1>2, StepsAlone DEF Next, Alone
  <2>2. ~ Call(p)
    BY Labelled, FlowLabelled
       DEF Call, WriteVin, AuthorizeRewrite, RefuseVin, WriteVehicleConfig,
           WriteProductionInfo, RefuseData, Query
  <2>3. CASE Step(p)
    BY <2>3, Labelled
       DEF Step, SaveVinWritten, SaveBound, WriteBinding, VerifyWrite, AfterVerify,
           SetWriteProtection, Finish, ReadBackConfig, MarkVerified, ReadBackInfo
  <2>4. CASE Life(p)
    BY <2>4, Labelled
       DEF Life, ProcessStart, Initialize, BeginShutdown, Stop, Crash, Forget, files
  <2> QED BY <2>1, <2>2, <2>3, <2>4
<1> QED BY <1>1, <1>2

LEMMA CountNext ==
    ASSUME TakeTurns, "read" \notin Faults, TypeOK, TurnInv, CountInv, [Next]_vars
    PROVE  CountInv'
<1> SUFFICES ASSUME NEW p \in Process, pc'[p] = "saveWritten"
             PROVE  draft'[p].rewriteCount = CountAfter(bindingFile', draft'[p].vin)
  BY DEF CountInv, CountAfter, IsBinding
<1>1. CASE pc[p] = "saveWritten" /\ UNCHANGED <<bindingFile, draft>>
  BY <1>1 DEF CountInv
<1>2. CASE ReadExisting(p)
  <2>1. PICK existing \in Load(bindingFile) :
          draft' = [draft EXCEPT ![p].rewriteCount = CountAfter(existing, draft[p].vin)]
    BY <1>2 DEF ReadExisting
  <2>2. draft[p] \in VehicleBinding /\ bindingFile' = bindingFile
    BY <1>2 DEF ReadExisting, TypeOK, LocalsOK, BindingLabels, files
  <2>3. /\ draft'[p].rewriteCount = CountAfter(existing, draft[p].vin)
        /\ draft'[p].vin = draft[p].vin
    BY <2>1, <2>2 DEF TypeOK, VehicleBinding
  <2>4. CountAfter(existing, draft[p].vin) = CountAfter(bindingFile, draft[p].vin)
    <3>1. CASE bindingFile = Torn
      BY <3>1, LoadOutcomes DEF CountAfter, IsBinding
    <3>2. CASE bindingFile # Torn
      BY <3>2, LoadOutcomes
    <3> QED BY <3>1, <3>2
  <2> QED BY <2>2, <2>3, <2>4
<1> QED BY <1>1, <1>2, BeforeFirstSave

(***************************************************************************)
(* Retries and crashes included, each rewrite of a VIN is counted once, by *)
(* the save that begins it, for every width of the counter.                *)
(***************************************************************************)
THEOREM RewritesAreCountedCorrect ==
    ASSUME TakeTurns, "read" \notin Faults
    PROVE  Spec => RewritesAreCounted
<1> DEFINE Counts ==
      IsBinding(bindingFile) /\ IsBinding(bindingFile')
        /\ bindingFile' # bindingFile /\ bindingFile'.vin = bindingFile.vin =>
          bindingFile'.rewriteCount =
              IF bindingFile'.state = "VIN_WRITTEN"
              THEN (bindingFile.rewriteCount + 1) % CountMod
              ELSE bindingFile.rewriteCount
<1>1. Init => CountInv
  BY DEF Init, CountInv
<1>2. TypeOK /\ TurnInv /\ CountInv /\ [Next]_vars => CountInv'
  BY CountNext
<1>3. ASSUME TypeOK, FlightInv, CountInv, [Next]_vars PROVE Counts
  <2> SUFFICES ASSUME IsBinding(bindingFile), IsBinding(bindingFile'),
                      bindingFile' # bindingFile, bindingFile'.vin = bindingFile.vin
               PROVE  bindingFile'.rewriteCount =
                          IF bindingFile'.state = "VIN_WRITTEN"
                          THEN (bindingFile.rewriteCount + 1) % CountMod
                          ELSE bindingFile.rewriteCount
    OBVIOUS
  <2>1. PICK p \in Process : SaveVinWritten(p) \/ SaveBound(p)
    <3>1. ASSUME NEW p \in Process, SetWriteProtection(p) \/ Finish(p)
          PROVE  bindingFile' = bindingFile
      BY <3>1 DEF SetWriteProtection, Finish, files
    <3> QED BY <1>3, <3>1, SeenSteps
  <2>2. pc[p] \in BindingLabels /\ draft[p] \in VehicleBinding /\ draft[p].state = "VIN_WRITTEN"
    BY <1>3, <2>1 DEF SaveVinWritten, SaveBound, TypeOK, LocalsOK, BindingLabels
  <2>3. CASE SaveVinWritten(p)
    <3>1. bindingFile' = draft[p]
      BY <2>3, ProtectedWriteOutcomes DEF SaveVinWritten, WriteBinding, IsBinding
    <3>2. draft[p].rewriteCount = CountAfter(bindingFile, draft[p].vin)
      BY <1>3, <2>3 DEF CountInv, SaveVinWritten
    <3> QED BY <2>2, <3>1, <3>2 DEF CountAfter
  <2>4. CASE SaveBound(p)
    <3>1. bindingFile' = BoundDraft(p)
      BY <2>4, ProtectedWriteOutcomes DEF SaveBound, WriteBinding, IsBinding, BoundDraft
    <3>2. bindingFile = draft[p]
      BY <1>3, <2>4 DEF FlightInv, BindingInFlight, SaveBound, IsBinding
    <3>3. /\ BoundDraft(p).state = "BOUND"
          /\ BoundDraft(p).rewriteCount = draft[p].rewriteCount
      BY <2>2 DEF BoundDraft, VehicleBinding
    <3> QED BY <3>1, <3>2, <3>3
  <2> QED BY <2>1, <2>3, <2>4
<1>4. TypeOK /\ FlightInv /\ CountInv /\ [Next]_vars => [Counts]_vars
  BY <1>3
<1> QED
  BY <1>1, <1>2, <1>4, TypeCorrect, FlightCorrect, TurnsAreTaken, PTL DEF Spec, RewritesAreCounted

-----------------------------------------------------------------------------
(* What a reader is told.                                                  *)

(***************************************************************************)
(* A VIN once answered with SUCCESS is what read_vin answers for good, in  *)
(* this process and after restarts.                                        *)
(***************************************************************************)
THEOREM AckedVinIsReadCorrect ==
    ASSUME TakeTurns, "read" \notin Faults, "torn" \notin Faults
    PROVE  Spec => AckedVinIsRead
<1> DEFINE Reads(p) ==
      EnableWriteProtection /\ acked # Absent /\ initialized[p]
        /\ call' # call /\ pc[p] = "idle" /\ call'[p].op = "read_vin"
          => call'[p].answer = acked
<1>1. ASSUME TypeOK, TurnInv, AckedVinKept, [Next]_vars, NEW p \in Process PROVE Reads(p)
  <2> SUFFICES ASSUME EnableWriteProtection, acked # Absent, initialized[p],
                      call' # call, pc[p] = "idle", call'[p].op = "read_vin"
               PROVE  call'[p].answer = acked
    OBVIOUS
  <2>1. ~ UNCHANGED vars
    BY DEF vars
  <2>2. Call(p) \/ Step(p) \/ Life(p)
    BY <1>1, <2>1, StepsAlone DEF Next, Alone
  <2>3. ~ Step(p)
    BY DEF Step, ReadExisting, SaveVinWritten, SaveBound, VerifyWrite, SetWriteProtection,
           Finish, ReadBackConfig, MarkVerified, ReadBackInfo
  <2>4. ~ Life(p)
    BY <1>1 DEF Life, ProcessStart, Initialize, BeginShutdown, Stop, Crash, Forget, NoCall, TypeOK
  <2>5. \A op, arg, answer : Answer(p, op, arg, answer) =>
          call'[p].op = op /\ call'[p].answer = answer
    BY <1>1 DEF Answer, TypeOK
  <2>6. \A op, arg, label : Begin(p, op, arg, label) => call'[p].op = op
    BY <1>1 DEF Begin, TypeOK
  <2>7. \A v \in Vin : ~ WriteVin(p, v) /\ ~ AuthorizeRewrite(p, v)
    BY <2>5, <2>6 DEF WriteVin, AuthorizeRewrite, RefuseVin, BeginBindingFlow
  <2>8. /\ \A c \in Coding : ~ WriteVehicleConfig(p, c)
        /\ \A i \in Info : ~ WriteProductionInfo(p, i)
    <3>1. ASSUME NEW c \in Coding, WriteVehicleConfig(p, c) PROVE FALSE
      <4>1. \/ \E answer \in Codes : Answer(p, "write_vehicle_config", c, answer)
            \/ Begin(p, "write_vehicle_config", c, "readConfig")
        BY <3>1 DEF WriteVehicleConfig, RefuseData, Codes
      <4> QED BY <4>1, <2>5, <2>6
    <3>2. ASSUME NEW i \in Info, WriteProductionInfo(p, i) PROVE FALSE
      BY <3>2, <2>5, <2>6 DEF WriteProductionInfo, RefuseData
    <3> QED BY <3>1, <3>2
  <2>9. Query(p, "read_vin")
    BY <2>2, <2>3, <2>4, <2>5, <2>7, <2>8 DEF Call, Query
  <2>10. PICK loaded \in Load(bindingFile) :
           Answer(p, "read_vin", Absent, QueryAnswer("read_vin", loaded))
    BY <2>9 DEF Query
  <2>11. IsBinding(bindingFile) /\ bindingFile.vin = acked
    BY <1>1 DEF AckedVinKept, Bound
  <2>12. loaded = bindingFile
    BY <2>11, LoadOutcomes DEF IsBinding
  <2>13. QueryAnswer("read_vin", loaded) = acked
    BY <2>11, <2>12 DEF QueryAnswer
  <2> QED BY <2>5, <2>10, <2>13
<1>2. TypeOK /\ TurnInv /\ AckedVinKept /\ [Next]_vars => [\A p \in Process : Reads(p)]_vars
  BY <1>1
<1> QED
  BY <1>2, TypeCorrect, TurnsAreTaken, AckedVinKeptCorrect, PTL DEF Spec, AckedVinIsRead

-----------------------------------------------------------------------------
(* The two saves of write_vehicle_config.                                  *)

\* Between the read-back and the second save the file holds the coding.
ConfigInv ==
    \A p \in Process :
        pc[p] = "markVerified" =>
            configFile \notin {Absent, Torn} /\ configFile.coding = call[p].arg

(***************************************************************************)
(* Which step brings a process in front of its second save.                *)
(***************************************************************************)
LEMMA BeforeSecondSave ==
    ASSUME TakeTurns, TypeOK, TurnInv, [Next]_vars, NEW p \in Process, pc'[p] = "markVerified"
    PROVE  \/ ReadBackConfig(p)
           \/ pc[p] = "markVerified" /\ UNCHANGED <<configFile, call>>
<1>1. CASE UNCHANGED vars
  BY <1>1 DEF vars, files
<1>2. CASE Next
  <2>1. Call(p) \/ Step(p) \/ Life(p)
    BY <1>2, StepsAlone DEF Next, Alone
  <2>2. ~ Call(p)
    BY Labelled, FlowLabelled
       DEF Call, WriteVin, AuthorizeRewrite, RefuseVin, WriteVehicleConfig,
           WriteProductionInfo, RefuseData, Query
  <2>3. CASE Step(p)
    BY <2>3, Labelled
       DEF Step, ReadExisting, SaveVinWritten, SaveBound, WriteBinding, VerifyWrite,
           AfterVerify, SetWriteProtection, Finish, MarkVerified, ReadBackInfo
  <2>4. CASE Life(p)
    BY <2>4, Labelled
       DEF Life, ProcessStart, Initialize, BeginShutdown, Stop, Crash, Forget, files
  <2> QED BY <2>1, <2>2, <2>3, <2>4
<1> QED BY <1>1, <1>2

LEMMA ConfigNext ==
    ASSUME TakeTurns, TypeOK, TurnInv, ConfigInv, [Next]_vars
    PROVE  ConfigInv'
<1> SUFFICES ASSUME NEW p \in Process, pc'[p] = "markVerified"
             PROVE  configFile' \notin {Absent, Torn} /\ configFile'.coding = call'[p].arg
  BY DEF ConfigInv
<1>1. CASE pc[p] = "markVerified" /\ UNCHANGED <<configFile, call>>
  BY <1>1 DEF ConfigInv
<1>2. CASE ReadBackConfig(p)
  <2>1. PICK stored \in Load(configFile) :
          stored # Absent /\ stored.coding = call[p].arg /\ UNCHANGED call
    BY <1>2, Labelled DEF ReadBackConfig
  <2>2. stored = configFile /\ stored # Torn /\ configFile' = configFile
    BY <1>2, <2>1, LoadOutcomes DEF ReadBackConfig, files
  <2> QED BY <2>1, <2>2
<1> QED BY <1>1, <1>2, BeforeSecondSave

(***************************************************************************)
(* SUCCESS of write_vehicle_config, on a disk that cuts no file short: the *)
(* file holds that coding, although the second save may have failed.       *)
(***************************************************************************)
THEOREM ConfigSuccessIsStoredCorrect ==
    ASSUME TakeTurns, "torn" \notin Faults
    PROVE  Spec => ConfigSuccessIsStored
<1> DEFINE Stored(p) ==
      Succeeds(p, {"write_vehicle_config"}) =>
          configFile' \notin {Absent, Torn} /\ configFile'.coding = call[p].arg
<1>1. Init => ConfigInv
  BY DEF Init, ConfigInv
<1>2. TypeOK /\ TurnInv /\ ConfigInv /\ [Next]_vars => ConfigInv'
  BY ConfigNext
<1>3. ASSUME TypeOK, CallInv, ConfigInv, [Next]_vars,
             NEW p \in Process, Succeeds(p, {"write_vehicle_config"})
      PROVE  configFile' \notin {Absent, Torn} /\ configFile'.coding = call[p].arg
  <2>1. MarkVerified(p)
    BY <1>3, SuccessIsAnswered DEF Succeeds, WriteOps, BindingOps
  <2>2. PICK write \in ProtectedWrite(p, configFile, Config(call[p].arg, TRUE)) :
          configFile' = write.file
    BY <2>1 DEF MarkVerified
  <2>3. write.file \in {configFile, Config(call[p].arg, TRUE)}
    <3>1. \A new : \A outcome \in ProtectedWrite(p, configFile, new) :
            outcome.file \in {configFile, new}
      BY DEF ProtectedWrite, Save, Under, Outcome
    <3> QED BY <2>2, <3>1
  <2>4. configFile \notin {Absent, Torn} /\ configFile.coding = call[p].arg
    BY <1>3, <2>1 DEF ConfigInv, MarkVerified
  <2>5. call[p].arg \in Coding
    BY <1>3, <2>1 DEF TypeOK, LocalsOK, MarkVerified
  <2>6. Config(call[p].arg, TRUE) \in VehicleConfig
    BY <2>5 DEF Config, VehicleConfig
  <2>7. Config(call[p].arg, TRUE) \notin {Absent, Torn}
    BY <2>6, FileAssumption
  <2>8. Config(call[p].arg, TRUE).coding = call[p].arg
    BY DEF Config
  <2> QED BY <2>2, <2>3, <2>4, <2>7, <2>8
<1>4. TypeOK /\ CallInv /\ ConfigInv /\ [Next]_vars => [\A p \in Process : Stored(p)]_vars
  BY <1>3
<1> QED
  BY <1>1, <1>2, <1>4, TypeCorrect, TurnsAreTaken, CallsAreKnown, PTL DEF Spec, ConfigSuccessIsStored

-----------------------------------------------------------------------------
(* The life of a service.                                                  *)

(***************************************************************************)
(* A step of a process is a step of its service's life, or none at all.    *)
(***************************************************************************)
LEMMA OwnStepLives ==
    ASSUME TypeOK, NEW p \in Process, Call(p) \/ Step(p) \/ Life(p)
    PROVE  LifeOf(p)!Next \/ UNCHANGED LifeOf(p)!life
<1> DEFINE After == IF pc'[p] \in {"down", "idle"} THEN pc'[p] ELSE "write"
<1>1. CASE Call(p)
  <2>1. pc[p] = "idle" /\ UNCHANGED <<initialized, shuttingDown>>
    BY <1>1 DEF Call, WriteVin, AuthorizeRewrite, WriteVehicleConfig, WriteProductionInfo, Query
  <2>2. After = "idle" \/ (After = "write" /\ initialized[p] /\ ~shuttingDown[p])
    BY <1>1, Labelled, FlowLabelled
       DEF Call, WriteVin, AuthorizeRewrite, RefuseVin, WriteVehicleConfig,
           WriteProductionInfo, RefuseData, Accepts, Refuses, Query, TypeOK
  <2> QED BY <2>1, <2>2 DEF LifeOf!Next, LifeOf!Admit, LifeOf!Calls, LifeOf!life
<1>2. CASE Step(p)
  <2>1. pc[p] \notin {"down", "idle"} /\ UNCHANGED <<initialized, shuttingDown>>
    BY <1>2 DEF Step, ReadExisting, SaveVinWritten, SaveBound, WriteBinding, VerifyWrite,
               SetWriteProtection, Finish, ReadBackConfig, MarkVerified, ReadBackInfo
  <2>2. After \in {"idle", "write"}
    BY <1>2, Labelled
       DEF Step, ReadExisting, SaveVinWritten, SaveBound, WriteBinding, VerifyWrite, AfterVerify,
           SetWriteProtection, Finish, ReadBackConfig, MarkVerified, ReadBackInfo
  <2> QED BY <2>1, <2>2 DEF LifeOf!Next, LifeOf!Complete, LifeOf!Calls, LifeOf!life
<1>3. CASE ProcessStart(p)
  BY <1>3, Labelled DEF ProcessStart, LifeOf!Next, LifeOf!Create
<1>4. CASE Initialize(p)
  <2>1. /\ pc[p] = "idle" /\ UNCHANGED <<pc, shuttingDown>>
        /\ initialized[p] = FALSE /\ initialized'[p] \in BOOLEAN
    BY <1>4 DEF Initialize, Initializes, Under, TypeOK
  <2> QED BY <2>1 DEF LifeOf!Next, LifeOf!Initialize, LifeOf!life
<1>5. CASE BeginShutdown(p)
  <2>1. /\ pc[p] # "down" /\ UNCHANGED <<pc, initialized>>
        /\ shuttingDown'[p] = TRUE
    BY <1>5 DEF BeginShutdown, TypeOK
  <2> QED BY <2>1 DEF LifeOf!Next, LifeOf!BeginShutdown
<1>6. CASE Stop(p) \/ Crash(p)
  <2>1. pc[p] = "idle" \/ "crash" \in Faults
    BY <1>6 DEF Stop, Crash
  <2>2. pc'[p] = "down" /\ initialized'[p] = FALSE /\ shuttingDown'[p] = FALSE
    BY <1>6, Labelled DEF Stop, Crash, Forget, TypeOK
  <2> QED BY <2>1, <2>2 DEF LifeOf!Next, LifeOf!Halt
<1> QED BY <1>1, <1>2, <1>3, <1>4, <1>5, <1>6 DEF Life

(***************************************************************************)
(* Every service lives as its owner relies on, for any number of processes *)
(* and any faults: what ProvApplication proves of the connection threads.  *)
(***************************************************************************)
THEOREM LivesAsPromisedCorrect == Spec => LivesAsPromised
<1>1. Init => \A p \in Process : LifeOf(p)!Init
  BY DEF Init, LifeOf!Init
<1>2. ASSUME TypeOK, [Next]_vars, NEW q \in Process
      PROVE  LifeOf(q)!Next \/ UNCHANGED LifeOf(q)!life
  <2>1. CASE UNCHANGED vars
    BY <2>1 DEF vars, LifeOf!life
  <2>2. ASSUME NEW p \in Process, Call(p) \/ Step(p) \/ Life(p), p # q
        PROVE  UNCHANGED LifeOf(q)!life
    BY <1>2, <2>2, OthersStay DEF Own, LifeOf!life
  <2> QED BY <1>2, <2>1, <2>2, OwnStepLives DEF Next
<1>3. TypeOK /\ [Next]_vars =>
        [\A p \in Process : LifeOf(p)!Next \/ UNCHANGED LifeOf(p)!life]_vars
  BY <1>2
<1> QED
  BY <1>1, <1>3, TypeCorrect, PTL DEF Spec, LivesAsPromised

=============================================================================
