----------------------- MODULE ProvApplicationProofs -----------------------
(***************************************************************************)
(* Proofs about ProvApplication for every number of connection threads.    *)
(***************************************************************************)
EXTENDS ProvApplicationProps, TLAPS

\* What the threads of the server do to the variables of the main thread.
ThreadStep == \E c \in Connection : Thread(c)

Base == {"store", "uid", "sn"}

-----------------------------------------------------------------------------
(* Types.                                                                  *)

LEMMA TypeInit == Init => TypeOK
  BY ConnectionAssumption
  DEF Init, TypeOK, MainLabels, ThreadLabels, Stages, Component, Operations

\* The stages a rollback starts from have a stage before them.
LEMMA RollbackStages ==
    ASSUME NEW s \in {"ServiceReady", "ProvidersReady", "StoreOpened"}
    PROVE  /\ StageBefore[s] \in Stages
           /\ s = "ServiceReady" => StageBefore[s] = "ProvidersReady" /\ UndoneAt(s) = {"service"}
           /\ s = "ProvidersReady" => StageBefore[s] = "StoreOpened" /\ UndoneAt(s) = {"uid", "sn"}
           /\ s = "StoreOpened" => StageBefore[s] = "None" /\ UndoneAt(s) = {"store"}
  BY DEF StageBefore, UndoneAt, BuiltBy, Stages

(***************************************************************************)
(* Where the main thread stands, with what is constructed there; threads   *)
(* exist only while everything is.                                         *)
(***************************************************************************)
StartInv ==
    /\ main = "openStore" => alive = {} /\ stage = "None"
    /\ main = "makeService" => alive = Base /\ stage = "ProvidersReady"
    /\ main = "initService" => alive = Base \cup {"service"} /\ stage = "ProvidersReady"
    /\ main = "startIpc" =>
          alive = Base \cup {"service"} /\ stage = "ServiceReady" /\ initialized
    /\ main = "failed" => alive \subseteq {"service"} /\ stage = "None"
    /\ main = "exited" => alive = {} /\ stage = "None"
    /\ main \in {"openStore", "makeService", "initService", "failed", "exited"} => ~initialized

RollbackInv ==
    main = "rollback" =>
        /\ stage # "IpcStarted"
        /\ stage = "ServiceReady" => alive = Base \cup {"service"}
        /\ stage = "ProvidersReady" => alive \cup {"service"} = Base \cup {"service"}
        /\ stage = "StoreOpened" => alive \cup {"service"} = {"store", "service"}
        /\ stage = "None" => alive \subseteq {"service"}
        /\ stage # "ServiceReady" => ~initialized

StopInv ==
    /\ main \in {"enterLastStage", "execute"} => alive = Component /\ initialized
    /\ main \in {"quiesce", "stopIpc", "join"} =>
          \/ alive = Component /\ initialized
          \/ alive \subseteq {"service"} /\ ~initialized
    /\ listening =>
          main \in {"enterLastStage", "execute", "quiesce", "stopIpc"} /\ alive = Component
    /\ (\E c \in Connection : thread[c] # "none") =>
          main \in {"enterLastStage", "execute", "quiesce", "stopIpc", "join"} /\ alive = Component

RootInv == StartInv /\ RollbackInv /\ StopInv /\ NothingDangles
-----------------------------------------------------------------------------
(* The steps.                                                              *)

\* What a step of a type-correct state is.
LEMMA StepCases ==
    ASSUME [Next]_vars
    PROVE  \/ OpenStore \/ MakeService \/ InitService \/ StartIpc
           \/ EnterLastStage \/ RollbackInitialization \/ LeaveExecute \/ Quiesce \/ StopIpc
           \/ JoinThreads \/ Release \/ RequestShutdown \/ ExitFailed \/ RunAgain
           \/ ThreadStep
           \/ UNCHANGED vars
  BY DEF Next, Main, ThreadStep

\* A destruction takes its components away, and the flags with the service.
LEMMA DestroyEffect ==
    ASSUME NEW components, Destroy(components)
    PROVE  /\ alive' = alive \ components
           /\ "service" \in components => initialized' = FALSE /\ shuttingDown' = FALSE
           /\ "service" \notin components => UNCHANGED <<initialized, shuttingDown>>
           /\ UNCHANGED mutex
  BY DEF Destroy

\* A thread's step leaves what the main thread owns alone.
LEMMA ThreadFrame ==
    ASSUME NEW c \in Connection, Thread(c)
    PROVE  UNCHANGED <<main, stage, alive, shutdownRequested, listening,
                       initialized, shuttingDown>>
  BY DEF Thread, Accept, Receive, Enter, Serve, Reply, Close, service

\* A thread's step keeps its own types.
LEMMA ThreadTypes ==
    ASSUME TypeOK, NEW c \in Connection, Thread(c)
    PROVE  TypeOK'
<1>1. UNCHANGED <<main, stage, alive, shutdownRequested, listening, initialized, shuttingDown>>
  BY ThreadFrame
<1>2. CASE Accept(c)
  BY <1>1, <1>2, ConnectionAssumption DEF TypeOK, Accept, service, ThreadLabels
<1>3. CASE Enter(c)
  BY <1>1, <1>3, ConnectionAssumption DEF TypeOK, Enter, Locked, ThreadLabels
<1>4. CASE Serve(c)
  BY <1>1, <1>4, ConnectionAssumption DEF TypeOK, Serve, ThreadLabels
<1>5. CASE Reply(c)
  BY <1>1, <1>5, ConnectionAssumption DEF TypeOK, Reply, service, ThreadLabels
<1>6. CASE Close(c)
  BY <1>1, <1>6, ConnectionAssumption DEF TypeOK, Close, service, ThreadLabels
<1>7. CASE \E op \in Operations : Receive(c, op)
  BY <1>1, <1>7, ConnectionAssumption DEF TypeOK, Receive, service, ThreadLabels, Operations
<1>8. QED
  BY <1>2, <1>3, <1>4, <1>5, <1>6, <1>7 DEF Thread

\* A step of the main thread leaves the connection threads alone.
LEMMA MainTypes ==
    ASSUME TypeOK, UNCHANGED <<mutex, thread, request>>,
           main' \in MainLabels, stage' \in Stages, alive' \subseteq Component,
           shutdownRequested' \in BOOLEAN, listening' \in BOOLEAN,
           initialized' \in BOOLEAN, shuttingDown' \in BOOLEAN
    PROVE  TypeOK'
  BY DEF TypeOK

LEMMA TypeNext == TypeOK /\ RootInv /\ [Next]_vars => TypeOK'
<1> SUFFICES ASSUME TypeOK, RootInv, [Next]_vars
             PROVE  TypeOK'
  OBVIOUS

<1>1. CASE OpenStore
  BY <1>1, MainTypes DEF TypeOK, OpenStore, service, connections, MainLabels, Stages, Component
<1>2. CASE MakeService
  BY <1>2, MainTypes DEF TypeOK, MakeService, service, connections, MainLabels, Stages, Component
<1>3. CASE InitService
  BY <1>3, MainTypes DEF TypeOK, InitService, service, connections, MainLabels, Stages, Component
<1>4. CASE StartIpc
  BY <1>4, MainTypes DEF TypeOK, StartIpc, service, connections, MainLabels, Stages, Component
<1>5. CASE RollbackInitialization
  <2>1. UNCHANGED <<mutex, thread, request, shutdownRequested, listening>>
    BY <1>5, DestroyEffect DEF RollbackInitialization, service, connections
  <2>2. CASE stage = "None"
    BY <1>5, <2>1, <2>2, MainTypes
    DEF RollbackInitialization, TypeOK, service, Stages, MainLabels
  <2>3. CASE stage # "None"
    <3>1. stage \in {"ServiceReady", "ProvidersReady", "StoreOpened"}
      BY <1>5, <2>3 DEF RollbackInitialization, RootInv, RollbackInv, TypeOK, Stages
    <3>2. Destroy(UndoneAt(stage)) /\ stage' = StageBefore[stage] /\ main' = main
      BY <1>5, <2>3 DEF RollbackInitialization
    <3>3. stage' \in Stages
      BY <3>1, <3>2, RollbackStages
    <3>4. alive' \subseteq Component /\ initialized' \in BOOLEAN /\ shuttingDown' \in BOOLEAN
      BY <3>2, DestroyEffect DEF TypeOK
    <3>5. QED
      BY <2>1, <3>2, <3>3, <3>4, MainTypes DEF TypeOK
  <2>4. QED
    BY <2>2, <2>3
<1>6. CASE LeaveExecute
  BY <1>6, MainTypes DEF TypeOK, LeaveExecute, service, connections, MainLabels, Stages, Component
<1>7. CASE Quiesce
  BY <1>7, MainTypes DEF TypeOK, Quiesce, service, connections, MainLabels, Stages, Component
<1>8. CASE StopIpc
  BY <1>8, MainTypes DEF TypeOK, StopIpc, service, connections, MainLabels, Stages, Component
<1>9. CASE JoinThreads
  BY <1>9, MainTypes DEF TypeOK, JoinThreads, service, connections, MainLabels, Stages, Component
<1>10. CASE Release
  <2>1. UNCHANGED <<mutex, thread, request, shutdownRequested, listening>>
    BY <1>10, DestroyEffect DEF Release, service, connections
  <2>2. CASE \E k \in DOMAIN ReleaseOrder : IsNext(k) /\ Destroy({ReleaseOrder[k]})
    <3>1. PICK component : Destroy({component})
      BY <2>2
    <3>2. alive' \subseteq Component /\ initialized' \in BOOLEAN /\ shuttingDown' \in BOOLEAN
      BY <3>1, DestroyEffect DEF TypeOK
    <3>3. main' \in MainLabels /\ stage' \in Stages
      BY <1>10 DEF Release, TypeOK, Stages, MainLabels
    <3>4. QED
      BY <2>1, <3>2, <3>3, MainTypes DEF TypeOK
  <2>3. CASE alive' = {} /\ stage' = "None" /\ main' = "exited" /\ UNCHANGED service
    BY <2>1, <2>3, MainTypes DEF TypeOK, service, Stages, MainLabels
  <2>4. QED
    BY <1>10, <2>2, <2>3 DEF Release
<1>11. CASE RequestShutdown
  BY <1>11, MainTypes DEF TypeOK, RequestShutdown, service, connections, MainLabels, Stages, Component
<1>12. CASE ExitFailed
  <2>1. UNCHANGED <<mutex, thread, request, shutdownRequested, listening>>
    BY <1>12, DestroyEffect DEF ExitFailed, service, connections
  <2>2. main' \in MainLabels /\ stage' \in Stages
    BY <1>12 DEF ExitFailed, TypeOK, Stages, MainLabels
  <2>3. alive' \subseteq Component /\ initialized' \in BOOLEAN /\ shuttingDown' \in BOOLEAN
    <3>1. Destroy(alive)
      BY <1>12 DEF ExitFailed
    <3>2. /\ alive' = {}
          /\ \/ initialized' = FALSE /\ shuttingDown' = FALSE
             \/ UNCHANGED <<initialized, shuttingDown>>
      BY <3>1 DEF Destroy
    <3>3. QED
      BY <3>2 DEF TypeOK
  <2>4. QED
    BY <2>1, <2>2, <2>3, MainTypes DEF TypeOK
<1>13. CASE RunAgain
  BY <1>13, MainTypes DEF TypeOK, RunAgain, service, connections, MainLabels, Stages, Component
<1>14. CASE ThreadStep
  BY <1>14, ThreadTypes DEF ThreadStep
<1>15. CASE UNCHANGED vars
  BY <1>15 DEF TypeOK, vars, service, connections
<1>16. CASE EnterLastStage
  BY <1>16, MainTypes DEF TypeOK, EnterLastStage, service, connections, MainLabels, Stages, Component
<1>17. QED
  BY <1>1, <1>2, <1>3, <1>4, <1>5, <1>6, <1>7, <1>8, <1>9, <1>10, <1>11, <1>12, <1>13, <1>14, <1>15,
     <1>16, StepCases

-----------------------------------------------------------------------------
(* Where the main thread stands.                                           *)

LEMMA RootInit == Init => RootInv
  BY DEF Init, RootInv, StartInv, RollbackInv, StopInv, NothingDangles, Component, Base

\* A thread exists only in a complete root, and starts only under a server
\* that listens.
LEMMA ThreadKeepsRoot ==
    ASSUME TypeOK, RootInv, NEW c \in Connection, Thread(c)
    PROVE  RootInv'
<1>1. UNCHANGED <<main, stage, alive, shutdownRequested, listening, initialized, shuttingDown>>
  BY ThreadFrame
<1>2. listening \/ thread[c] # "none"
  BY DEF Thread, Accept, Receive, Enter, Serve, Reply, Close
<1>3. main \in {"enterLastStage", "execute", "quiesce", "stopIpc", "join"} /\ alive = Component
  BY <1>2 DEF RootInv, StopInv
<1>4. StartInv' /\ RollbackInv' /\ NothingDangles'
  BY <1>1 DEF RootInv, StartInv, RollbackInv, NothingDangles, Base
<1>5. StopInv'
  BY <1>1, <1>3 DEF RootInv, StopInv
<1>6. QED
  BY <1>4, <1>5 DEF RootInv

LEMMA RootNext == TypeOK /\ RootInv /\ [Next]_vars => RootInv'
<1> SUFFICES ASSUME TypeOK, RootInv, [Next]_vars
             PROVE  RootInv'
  OBVIOUS
<1> USE DEF RootInv, Base, Component

<1>1. CASE OpenStore
  <2>1. StartInv'
    BY <1>1 DEF OpenStore, StartInv, RollbackInv, StopInv, service, connections
  <2>2. RollbackInv'
    BY <1>1 DEF OpenStore, StartInv, RollbackInv, StopInv, service, connections
  <2>3. StopInv'
    BY <1>1 DEF OpenStore, StartInv, RollbackInv, StopInv, service, connections
  <2>4. NothingDangles'
    BY <1>1 DEF OpenStore, StartInv, RollbackInv, StopInv, NothingDangles, service, connections
  <2>5. QED
    BY <2>1, <2>2, <2>3, <2>4
<1>2. CASE MakeService
  <2>1. StartInv'
    BY <1>2 DEF MakeService, StartInv, RollbackInv, StopInv, service, connections
  <2>2. RollbackInv'
    BY <1>2 DEF MakeService, StartInv, RollbackInv, StopInv, service, connections
  <2>3. StopInv'
    BY <1>2 DEF MakeService, StartInv, RollbackInv, StopInv, service, connections
  <2>4. NothingDangles'
    BY <1>2 DEF MakeService, StartInv, RollbackInv, StopInv, NothingDangles, service, connections
  <2>5. QED
    BY <2>1, <2>2, <2>3, <2>4
<1>3. CASE InitService
  <2>1. StartInv'
    BY <1>3 DEF InitService, StartInv, RollbackInv, StopInv, service, connections
  <2>2. RollbackInv'
    BY <1>3 DEF InitService, StartInv, RollbackInv, StopInv, service, connections
  <2>3. StopInv'
    BY <1>3 DEF InitService, StartInv, RollbackInv, StopInv, service, connections
  <2>4. NothingDangles'
    BY <1>3 DEF InitService, StartInv, RollbackInv, StopInv, NothingDangles, service, connections
  <2>5. QED
    BY <2>1, <2>2, <2>3, <2>4
<1>4. CASE StartIpc
  <2>1. StartInv'
    BY <1>4 DEF StartIpc, StartInv, RollbackInv, StopInv, service, connections
  <2>2. RollbackInv'
    BY <1>4 DEF StartIpc, StartInv, RollbackInv, StopInv, service, connections
  <2>3. StopInv'
    BY <1>4 DEF StartIpc, StartInv, RollbackInv, StopInv, service, connections
  <2>4. NothingDangles'
    BY <1>4 DEF StartIpc, StartInv, RollbackInv, StopInv, NothingDangles, service, connections
  <2>5. QED
    BY <2>1, <2>2, <2>3, <2>4
<1>5. CASE RollbackInitialization
  <2>1. CASE stage = "None"
    BY <1>5, <2>1
    DEF RollbackInitialization, service, connections,
        StartInv, RollbackInv, StopInv, NothingDangles
  <2>2. CASE stage # "None"
    <3>1. stage \in {"ServiceReady", "ProvidersReady", "StoreOpened"}
      BY <1>5, <2>2 DEF RollbackInitialization, RollbackInv, TypeOK, Stages
    <3>2. /\ main = "rollback" /\ main' = "rollback"
          /\ stage' = StageBefore[stage]
          /\ Destroy(UndoneAt(stage))
          /\ UNCHANGED <<listening, thread>>
      BY <1>5, <2>2 DEF RollbackInitialization, connections
    <3>3. RollbackInv' /\ NothingDangles'
      <4>1. CASE stage = "ServiceReady"
        <5>1. /\ stage' = "ProvidersReady" /\ alive' = alive \ {"service"}
              /\ initialized' = FALSE
          BY <3>2, <4>1, RollbackStages, DestroyEffect
        <5>2. QED
          BY <3>2, <4>1, <5>1 DEF RollbackInv, NothingDangles
      <4>2. CASE stage = "ProvidersReady"
        <5>1. /\ stage' = "StoreOpened" /\ alive' = alive \ {"uid", "sn"}
              /\ initialized' = initialized
          BY <3>2, <4>2, RollbackStages, DestroyEffect
        <5>2. QED
          BY <3>2, <4>2, <5>1 DEF RollbackInv, NothingDangles
      <4>3. CASE stage = "StoreOpened"
        <5>1. /\ stage' = "None" /\ alive' = alive \ {"store"}
              /\ initialized' = initialized
          BY <3>2, <4>3, RollbackStages, DestroyEffect
        <5>2. QED
          BY <3>2, <4>3, <5>1 DEF RollbackInv, NothingDangles
      <4>4. QED
        BY <3>1, <4>1, <4>2, <4>3
    <3>4. StartInv' /\ StopInv'
      BY <3>2 DEF StartInv, StopInv
    <3>5. QED
      BY <3>3, <3>4
  <2>3. QED
    BY <2>1, <2>2
<1>6. CASE LeaveExecute
  <2>1. StartInv'
    BY <1>6 DEF LeaveExecute, StartInv, RollbackInv, StopInv, service, connections
  <2>2. RollbackInv'
    BY <1>6 DEF LeaveExecute, StartInv, RollbackInv, StopInv, service, connections
  <2>3. StopInv'
    BY <1>6 DEF LeaveExecute, StartInv, RollbackInv, StopInv, service, connections
  <2>4. NothingDangles'
    BY <1>6 DEF LeaveExecute, StartInv, RollbackInv, StopInv, NothingDangles, service, connections
  <2>5. QED
    BY <2>1, <2>2, <2>3, <2>4
<1>7. CASE Quiesce
  <2>1. StartInv'
    BY <1>7 DEF Quiesce, StartInv, RollbackInv, StopInv, service, connections
  <2>2. RollbackInv'
    BY <1>7 DEF Quiesce, StartInv, RollbackInv, StopInv, service, connections
  <2>3. StopInv'
    BY <1>7 DEF Quiesce, StartInv, RollbackInv, StopInv, service, connections
  <2>4. NothingDangles'
    BY <1>7 DEF Quiesce, StartInv, RollbackInv, StopInv, NothingDangles, service, connections
  <2>5. QED
    BY <2>1, <2>2, <2>3, <2>4
<1>8. CASE StopIpc
  <2>1. StartInv'
    BY <1>8 DEF StopIpc, StartInv, RollbackInv, StopInv, service, connections
  <2>2. RollbackInv'
    BY <1>8 DEF StopIpc, StartInv, RollbackInv, StopInv, service, connections
  <2>3. StopInv'
    BY <1>8 DEF StopIpc, StartInv, RollbackInv, StopInv, service, connections
  <2>4. NothingDangles'
    BY <1>8 DEF StopIpc, StartInv, RollbackInv, StopInv, NothingDangles, service, connections
  <2>5. QED
    BY <2>1, <2>2, <2>3, <2>4
<1>9. CASE JoinThreads
  <2>1. StartInv'
    BY <1>9 DEF JoinThreads, Joined, StartInv, RollbackInv, StopInv, service, connections
  <2>2. RollbackInv'
    BY <1>9 DEF JoinThreads, Joined, StartInv, RollbackInv, StopInv, service, connections
  <2>3. StopInv'
    BY <1>9 DEF JoinThreads, Joined, StartInv, RollbackInv, StopInv, service, connections
  <2>4. NothingDangles'
    BY <1>9 DEF JoinThreads, Joined, StartInv, RollbackInv, StopInv, NothingDangles, service, connections
  <2>5. QED
    BY <2>1, <2>2, <2>3, <2>4
<1>10. CASE Release
  <2>1. /\ main = "release" /\ UNCHANGED <<listening, thread>>
        /\ ~listening /\ \A c \in Connection : thread[c] = "none"
    BY <1>10 DEF Release, StopInv, connections
  <2>2. CASE /\ alive \subseteq {"server"} /\ alive' = {}
             /\ stage' = "None" /\ main' = "exited" /\ UNCHANGED service
    BY <2>1, <2>2 DEF service, StartInv, RollbackInv, StopInv, NothingDangles
  <2>3. CASE /\ \E k \in DOMAIN ReleaseOrder : IsNext(k) /\ Destroy({ReleaseOrder[k]})
             /\ UNCHANGED <<main, stage>>
    <3>1. PICK k \in 1 .. 5 : IsNext(k) /\ Destroy({ReleaseOrder[k]})
      BY <2>3 DEF ReleaseOrder
    <3>2. NothingDangles'
      <4>1. alive' = alive \ {ReleaseOrder[k]}
        BY <3>1, DestroyEffect
      <4>2. CASE k = 1
        BY <3>1, <4>1, <4>2, DestroyEffect DEF ReleaseOrder, NothingDangles
      <4>3. CASE k = 2
        <5>1. "dispatcher" \notin alive /\ initialized' = FALSE
          <6>1. ReleaseOrder[1] = "dispatcher" /\ ReleaseOrder[k] = "service"
            BY <4>3 DEF ReleaseOrder
          <6>2. ReleaseOrder[1] \notin alive
            BY <3>1, <4>3 DEF IsNext
          <6>3. QED
            BY <3>1, <6>1, <6>2, DestroyEffect
        <5>2. QED
          BY <4>1, <5>1 DEF NothingDangles
      <4>4. CASE k \in {3, 4, 5}
        <5>1. "dispatcher" \notin alive /\ "service" \notin alive
          BY <3>1, <4>4 DEF IsNext, ReleaseOrder
        <5>2. ReleaseOrder[k] # "service"
          BY <4>4 DEF ReleaseOrder
        <5>3. initialized' = initialized
          BY <3>1, <5>2, DestroyEffect
        <5>4. QED
          BY <4>1, <5>1, <5>3 DEF NothingDangles
      <4>5. QED
        BY <4>2, <4>3, <4>4
    <3>3. StartInv' /\ RollbackInv' /\ StopInv'
      BY <2>1, <2>3 DEF StartInv, RollbackInv, StopInv
    <3>4. QED
      BY <3>2, <3>3
  <2>4. QED
    BY <1>10, <2>2, <2>3 DEF Release
<1>11. CASE RequestShutdown
  <2>1. StartInv'
    BY <1>11 DEF RequestShutdown, StartInv, RollbackInv, StopInv, service, connections
  <2>2. RollbackInv'
    BY <1>11 DEF RequestShutdown, StartInv, RollbackInv, StopInv, service, connections
  <2>3. StopInv'
    BY <1>11 DEF RequestShutdown, StartInv, RollbackInv, StopInv, service, connections
  <2>4. NothingDangles'
    BY <1>11 DEF RequestShutdown, StartInv, RollbackInv, StopInv, NothingDangles, service, connections
  <2>5. QED
    BY <2>1, <2>2, <2>3, <2>4
<1>12. CASE ExitFailed
  <2>1. /\ main = "failed" /\ main' = "exited" /\ Destroy(alive)
        /\ UNCHANGED <<stage, listening, thread>>
    BY <1>12 DEF ExitFailed, connections
  <2>2. alive' = {} /\ ~initialized'
    BY <2>1 DEF Destroy, StartInv
  <2>3. QED
    BY <2>1, <2>2 DEF StartInv, RollbackInv, StopInv, NothingDangles
<1>13. CASE RunAgain
  <2>1. StartInv'
    BY <1>13 DEF RunAgain, StartInv, RollbackInv, StopInv, service, connections
  <2>2. RollbackInv'
    BY <1>13 DEF RunAgain, StartInv, RollbackInv, StopInv, service, connections
  <2>3. StopInv'
    BY <1>13 DEF RunAgain, StartInv, RollbackInv, StopInv, service, connections
  <2>4. NothingDangles'
    BY <1>13 DEF RunAgain, StartInv, RollbackInv, StopInv, NothingDangles, service, connections
  <2>5. QED
    BY <2>1, <2>2, <2>3, <2>4
<1>14. CASE ThreadStep
  BY <1>14, ThreadKeepsRoot DEF ThreadStep
<1>15. CASE UNCHANGED vars
  BY <1>15 DEF vars, service, connections, StartInv, RollbackInv, StopInv, NothingDangles
<1>16. CASE EnterLastStage
  <2>1. StartInv'
    BY <1>16 DEF EnterLastStage, StartInv, RollbackInv, StopInv, service, connections
  <2>2. RollbackInv'
    BY <1>16 DEF EnterLastStage, StartInv, RollbackInv, StopInv, service, connections
  <2>3. StopInv'
    BY <1>16 DEF EnterLastStage, StartInv, RollbackInv, StopInv, service, connections
  <2>4. NothingDangles'
    BY <1>16 DEF EnterLastStage, NothingDangles, service
  <2>5. QED
    BY <2>1, <2>2, <2>3, <2>4
<1>17. QED
  BY <1>1, <1>2, <1>3, <1>4, <1>5, <1>6, <1>7, <1>8, <1>9, <1>10, <1>11, <1>12, <1>13, <1>14, <1>15,
     <1>16, StepCases

-----------------------------------------------------------------------------
(* The theorems.                                                           *)

LEMMA AppInvariants == Spec => [](TypeOK /\ RootInv)
<1>1. Init => TypeOK /\ RootInv
  BY TypeInit, RootInit
<1>2. TypeOK /\ RootInv /\ [Next]_vars => (TypeOK /\ RootInv)'
  BY TypeNext, RootNext
<1>3. QED
  BY <1>1, <1>2, PTL DEF Spec

(***************************************************************************)
(* Every variable of the root keeps its type, a request lasts from its     *)
(* receipt to its reply, and the mutex belongs to the thread in the        *)
(* service: TypeOK for any number of connections.                          *)
(***************************************************************************)
THEOREM AppTypeCorrect == Spec => []TypeOK
<1>1. TypeOK /\ RootInv => TypeOK
  OBVIOUS
<1>2. QED
  BY <1>1, AppInvariants, PTL

(***************************************************************************)
(* No connection thread runs in a destroyed component, whatever stage the  *)
(* start failed at and whenever the signal comes: NoUseAfterFree.          *)
(***************************************************************************)
THEOREM NoUseAfterFreeCorrect == Spec => []NoUseAfterFree
<1>1. RootInv => NoUseAfterFree
  BY DEF RootInv, StopInv, NoUseAfterFree, Component
<1>2. QED
  BY <1>1, AppInvariants, PTL

(***************************************************************************)
(* No service that may serve and no dispatcher refers to a destroyed       *)
(* component: NothingDangles.                                              *)
(***************************************************************************)
THEOREM NothingDanglesCorrect == Spec => []NothingDangles
<1>1. RootInv => NothingDangles
  BY DEF RootInv
<1>2. QED
  BY <1>1, AppInvariants, PTL

(***************************************************************************)
(* After beginShutdown no further write begins: WritesQuiesce.             *)
(***************************************************************************)
THEOREM WritesQuiesceCorrect == Spec => WritesQuiesce
<1>1. TypeOK /\ RootInv /\ [Next]_vars => [shuttingDown => Writes' \subseteq Writes]_vars
  <2> SUFFICES ASSUME TypeOK, RootInv, [Next]_vars, shuttingDown
               PROVE  Writes' \subseteq Writes
    OBVIOUS
  <2>1. CASE UNCHANGED <<thread, request>>
    BY <2>1 DEF Writes
  <2>2. CASE ThreadStep
    <3>1. PICK c \in Connection : Thread(c)
      BY <2>2 DEF ThreadStep
    <3>2. CASE Enter(c)
      BY <3>2 DEF Enter, Refused, Writes, TypeOK
    <3>3. CASE ~Enter(c)
      BY <3>1, <3>3 DEF Thread, Accept, Receive, Serve, Reply, Close, Writes, TypeOK
    <3>4. QED
      BY <3>2, <3>3
  <2>3. ThreadStep \/ UNCHANGED <<thread, request>>
    BY StepCases DEF vars, connections, OpenStore, MakeService, InitService, StartIpc,
       EnterLastStage, RollbackInitialization, LeaveExecute, Quiesce, StopIpc, JoinThreads, Release,
       RequestShutdown, ExitFailed, RunAgain
  <2>4. QED
    BY <2>1, <2>2, <2>3
<1>2. QED
  BY <1>1, AppInvariants, PTL DEF Spec, WritesQuiesce

(***************************************************************************)
(* A start that failed has given back all but a service that would not     *)
(* initialize: FailedStartLeavesNothing.                                   *)
(***************************************************************************)
THEOREM FailedStartLeavesNothingCorrect == Spec => []FailedStartLeavesNothing
<1>1. RootInv => FailedStartLeavesNothing
  BY DEF RootInv, StartInv, StopInv, FailedStartLeavesNothing
<1>2. QED
  BY <1>1, AppInvariants, PTL

-----------------------------------------------------------------------------
(* The join of the connection threads.                                     *)

(***************************************************************************)
(* The main thread never waits in join for threads that wait for each      *)
(* other, for any number of connections: the safety half of                *)
(* ShutdownCompletes.                                                      *)
(***************************************************************************)
THEOREM JoinIsNeverStuckCorrect == Spec => []JoinIsNeverStuck
<1>1. ASSUME TypeOK, RootInv PROVE JoinIsNeverStuck
  <2> SUFFICES ASSUME main = "join", NEW c \in Connection, thread[c] # "none"
               PROVE  \E d \in Connection :
                        \/ thread[d] \in {"serving", "replying"}
                        \/ thread[d] = "dispatching" /\ mutex = NoOne
                        \/ thread[d] = "reading" /\ ~listening
    BY DEF JoinIsNeverStuck, Joined
  <2>1. ~listening
    BY <1>1 DEF RootInv, StopInv
  <2>2. CASE thread[c] # "dispatching" \/ mutex = NoOne
    BY <1>1, <2>1, <2>2 DEF TypeOK, ThreadLabels
  <2>3. CASE mutex # NoOne
    <3>1. mutex \in Connection /\ thread[mutex] = "serving"
      BY <1>1, <2>3 DEF TypeOK
    <3> QED BY <3>1
  <2> QED BY <2>2, <2>3
<1> QED BY <1>1, AppInvariants, PTL

(***************************************************************************)
(* While the main thread is in join every step of a connection thread      *)
(* brings it nearer to its end, and no thread is added, for any number of  *)
(* connections: with JoinIsNeverStuck, the join ends after at most four    *)
(* steps of each thread.                                                   *)
(***************************************************************************)
THEOREM JoinDrainsCorrect == Spec => JoinDrains
<1>1. ASSUME TypeOK, RootInv, [Next]_vars, main = "join"
      PROVE  \A c \in Connection :
                thread'[c] # thread[c] => StepsLeft[thread'[c]] < StepsLeft[thread[c]]
  <2>1. ~listening
    BY <1>1 DEF RootInv, StopInv
  <2>2. ASSUME NEW d \in Connection, Thread(d)
        PROVE  \A c \in Connection :
                  thread'[c] # thread[c] => StepsLeft[thread'[c]] < StepsLeft[thread[c]]
    <3>1. Enter(d) \/ Serve(d) \/ Reply(d) \/ Close(d)
      BY <2>1, <2>2 DEF Thread, Accept, Receive
    <3>2. /\ \A c \in Connection : c # d => thread'[c] = thread[c]
          /\ StepsLeft[thread'[d]] < StepsLeft[thread[d]]
      BY <1>1, <3>1 DEF TypeOK, Enter, Serve, Reply, Close, StepsLeft
    <3> QED BY <3>2
  <2>3. CASE ~ThreadStep
    <3>1. thread' = thread
      BY <1>1, <2>3, StepCases
      DEF OpenStore, MakeService, InitService, StartIpc, EnterLastStage,
          RollbackInitialization, LeaveExecute, Quiesce, StopIpc, JoinThreads, Release, RequestShutdown, ExitFailed, RunAgain,
          vars, connections
    <3> QED BY <3>1
  <2> QED BY <2>2, <2>3 DEF ThreadStep
<1> QED BY <1>1, AppInvariants, PTL DEF Spec, JoinDrains

-----------------------------------------------------------------------------
(* The root implements ServiceLife.                                        *)

\* Without threads nobody runs in the service.
LEMMA IdleService ==
    ASSUME TypeOK, \A c \in Connection : thread[c] = "none"
    PROVE  mutex = NoOne /\ Status = IF "service" \in alive THEN "idle" ELSE "down"
  BY DEF TypeOK, Status

\* The service's end, when no thread is left.
LEMMA DestroyIsHalt ==
    ASSUME TypeOK, NEW components, Destroy(components),
           "service" \in components => "service" \in alive,
           \A c \in Connection : thread[c] = "none"
    PROVE  Life!Halt \/ UNCHANGED Life!life
<1>1. mutex = NoOne /\ mutex' = NoOne
  BY IdleService, DestroyEffect
<1>2. CASE "service" \in components
  BY <1>1, <1>2, DestroyEffect DEF Life!Halt, Status
<1>3. CASE "service" \notin components
  BY <1>1, <1>3, DestroyEffect DEF Life!life, Status
<1>4. QED
  BY <1>2, <1>3

LEMMA ThreadImplements ==
    ASSUME TypeOK, RootInv, NEW c \in Connection, Thread(c)
    PROVE  Life!Next \/ UNCHANGED Life!life
<1>1. "service" \in alive /\ UNCHANGED <<alive, initialized, shuttingDown>>
  <2>1. listening \/ thread[c] # "none"
    BY DEF Thread, Accept, Receive, Enter, Serve, Reply, Close
  <2>2. QED
    BY <2>1, ThreadFrame DEF RootInv, StopInv, Component
<1>2. CASE Enter(c)
  <2>1. mutex = NoOne /\ request[c] \in Operations
    BY <1>2 DEF Enter, Locked, TypeOK, Operations
  <2>2. CASE Refused(request[c])
    BY <1>1, <1>2, <2>2 DEF Enter, Life!life, Status
  <2>3. CASE ~Refused(request[c])
    <3>1. Life!Admit(request[c])
      BY <1>1, <1>2, <2>1, <2>3, ConnectionAssumption DEF Enter, Refused, Life!Admit, Status
    <3>2. QED
      BY <2>1, <3>1 DEF Life!Next, Life!Calls, Operations
  <2>4. QED
    BY <2>2, <2>3
<1>3. CASE Serve(c)
  <2>1. mutex = c /\ request[c] \in Operations
    BY <1>3 DEF Serve, TypeOK, Operations
  <2>2. Life!Complete
    BY <1>1, <1>3, <2>1, ConnectionAssumption DEF Serve, Life!Complete, Life!Calls, Operations, Status
  <2>3. QED
    BY <2>2 DEF Life!Next
<1>4. CASE ~Enter(c) /\ ~Serve(c)
  <2>1. UNCHANGED mutex /\ mutex # c
    BY <1>4 DEF Thread, Accept, Receive, Reply, Close, service, TypeOK
  <2>2. mutex \in Connection => request'[mutex] = request[mutex]
    BY <1>4, <2>1 DEF Thread, Accept, Receive, Reply, Close, TypeOK
  <2>3. QED
    BY <1>1, <2>1, <2>2 DEF Life!life, Status, TypeOK
<1>5. QED
  BY <1>2, <1>3, <1>4

LEMMA StepImplements ==
    ASSUME TypeOK, RootInv, [Next]_vars
    PROVE  Life!Next \/ UNCHANGED Life!life
<1> USE DEF Base, Component
<1> DEFINE NoThread == \A c \in Connection : thread[c] = "none"
<1>1. CASE OpenStore
  BY <1>1 DEF OpenStore, service, connections, RootInv, StartInv, Life!life, Status
<1>2. CASE MakeService
  <2>1. NoThread
    BY <1>2 DEF MakeService, RootInv, StopInv
  <2>2. Life!Create
    BY <1>2, <2>1, IdleService
    DEF MakeService, service, RootInv, StartInv, Life!Create, Status
  <2>3. QED
    BY <2>2 DEF Life!Next
<1>3. CASE InitService
  <2>1. NoThread
    BY <1>3 DEF InitService, RootInv, StopInv
  <2>2. Life!Initialize \/ UNCHANGED Life!life
    BY <1>3, <2>1, IdleService
    DEF InitService, connections, RootInv, StartInv, Life!Initialize, Life!life, Status
  <2>3. QED
    BY <2>2 DEF Life!Next
<1>4. CASE StartIpc \/ EnterLastStage
  BY <1>4 DEF StartIpc, EnterLastStage, service, connections, Life!life, Status
<1>5. CASE RollbackInitialization
  <2>1. NoThread
    BY <1>5 DEF RollbackInitialization, RootInv, StopInv
  <2>2. CASE stage = "None"
    BY <1>5, <2>2 DEF RollbackInitialization, service, connections, Life!life, Status
  <2>3. CASE stage # "None"
    <3>1. stage \in {"ServiceReady", "ProvidersReady", "StoreOpened"}
      BY <1>5, <2>3 DEF RollbackInitialization, RootInv, RollbackInv, TypeOK, Stages
    <3>2. Destroy(UndoneAt(stage))
      BY <1>5, <2>3 DEF RollbackInitialization
    <3>3. "service" \in UndoneAt(stage) => "service" \in alive
      BY <1>5, <3>1, RollbackStages DEF RollbackInitialization, RootInv, RollbackInv
    <3>4. QED
      BY <2>1, <3>2, <3>3, DestroyIsHalt DEF Life!Next
  <2>4. QED
    BY <2>2, <2>3
<1>6. CASE Quiesce
  <2>1. CASE "service" \in alive
    <3>1. Status # "down"
      BY <2>1 DEF Status, TypeOK, Operations
    <3>2. Life!BeginShutdown
      BY <1>6, <2>1, <3>1 DEF Quiesce, connections, Life!BeginShutdown, Status
    <3>3. QED
      BY <3>2 DEF Life!Next
  <2>2. CASE "service" \notin alive
    BY <1>6, <2>2 DEF Quiesce, connections, Life!life, Status, TypeOK
  <2>3. QED
    BY <2>1, <2>2
<1>7. CASE Release
  <2>1. NoThread
    BY <1>7 DEF Release, RootInv, StopInv
  <2>2. CASE alive \subseteq {"server"} /\ alive' = {} /\ UNCHANGED service
    BY <1>7, <2>2 DEF Release, service, connections, Life!life, Status
  <2>3. CASE \E k \in DOMAIN ReleaseOrder : IsNext(k) /\ Destroy({ReleaseOrder[k]})
    <3>1. PICK k \in DOMAIN ReleaseOrder : IsNext(k) /\ Destroy({ReleaseOrder[k]})
      BY <2>3
    <3>2. "service" \in {ReleaseOrder[k]} => "service" \in alive
      BY <3>1 DEF IsNext
    <3>3. QED
      BY <2>1, <3>1, <3>2, DestroyIsHalt DEF Life!Next
  <2>4. QED
    BY <1>7, <2>2, <2>3 DEF Release
<1>8. CASE ExitFailed
  <2>1. NoThread
    BY <1>8 DEF ExitFailed, RootInv, StopInv
  <2>2. QED
    BY <1>8, <2>1, DestroyIsHalt DEF ExitFailed, Life!Next
<1>9. CASE \/ LeaveExecute \/ StopIpc \/ JoinThreads \/ RequestShutdown \/ RunAgain
           \/ UNCHANGED vars
  BY <1>9
  DEF LeaveExecute, StopIpc, JoinThreads, RequestShutdown, RunAgain, vars,
      service, connections, Life!life, Status
<1>10. CASE ThreadStep
  BY <1>10, ThreadImplements DEF ThreadStep
<1>11. QED
  BY <1>1, <1>2, <1>3, <1>4, <1>5, <1>6, <1>7, <1>8, <1>9, <1>10, StepCases

(***************************************************************************)
(* The composition root uses its service as ServiceLife has it:            *)
(* ImplementsServiceLife, for any number of connections.                   *)
(***************************************************************************)
THEOREM RootImplementsServiceLife == Spec => ImplementsServiceLife
<1>1. Init => Life!Init
  BY DEF Init, Life!Init, Status
<1>2. TypeOK /\ RootInv /\ [Next]_vars => [Life!Next]_(Life!life)
  BY StepImplements
<1>3. QED
  BY <1>1, <1>2, AppInvariants, PTL DEF Spec, ImplementsServiceLife, Life!Spec
=============================================================================
