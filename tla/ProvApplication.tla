--------------------------- MODULE ProvApplication ---------------------------
(***************************************************************************)
(* The composition root: the main thread builds store, providers, service, *)
(* dispatcher and IPC server, waits for a signal and takes them down again *)
(* while the connection threads of the server are calling the service.     *)
(*                                                                         *)
(* The server and Application::run belong to the framework, which is not   *)
(* in the repository; they are modelled from what ProvApplication says it  *)
(* relies on.                                                              *)
(***************************************************************************)
EXTENDS Naturals, Sequences

CONSTANTS
    Connection,  \* the connection threads of the server
    NoOne        \* nobody holds the mutex of the service

ASSUME ConnectionAssumption == NoOne \notin Connection

Component == {"store", "uid", "sn", "service", "dispatcher", "server"}
Stages == {"None", "StoreOpened", "ProvidersReady", "ServiceReady", "IpcStarted"}
Operations == {"write", "query"}

VARIABLES
    main,               \* where the main thread stands
    stage,              \* init_stage_
    alive,              \* the components that are constructed
    shutdownRequested,  \* a graceful signal arrived
    listening,          \* the server accepts connections and reads requests
    initialized,        \* the service's initialized_
    shuttingDown,       \* the service's shutting_down_
    mutex,              \* the connection that holds the service's mutex_
    thread,             \* where each connection thread stands
    request             \* the operation it was asked for

service == <<initialized, shuttingDown, mutex>>
connections == <<thread, request>>
vars == <<main, stage, alive, shutdownRequested, listening, service, connections>>

MainLabels == {"openStore", "makeService", "initService", "startIpc", "enterLastStage",
               "rollback", "failed", "execute", "quiesce", "stopIpc", "join", "release", "exited"}
ThreadLabels == {"none", "reading", "dispatching", "serving", "replying"}

Init ==
    /\ main = "openStore"
    /\ stage = "None"
    /\ alive = {}
    /\ shutdownRequested = FALSE
    /\ listening = FALSE
    /\ initialized = FALSE
    /\ shuttingDown = FALSE
    /\ mutex = NoOne
    /\ thread = [c \in Connection |-> "none"]
    /\ request = [c \in Connection |-> "none"]

-----------------------------------------------------------------------------
(* initialize.  Creating the providers cannot fail, so StoreOpened is only *)
(* seen on the way back.                                                   *)

OpenStore ==
    /\ main = "openStore"
    /\ \/ /\ alive' = {"store", "uid", "sn"}
          /\ stage' = "ProvidersReady"
          /\ main' = "makeService"
       \/ main' = "failed" /\ UNCHANGED <<alive, stage>>
    /\ UNCHANGED <<shutdownRequested, listening, service, connections>>

MakeService ==
    /\ main = "makeService"
    /\ alive' = alive \cup {"service"}
    /\ main' = "initService"
    /\ UNCHANGED <<stage, shutdownRequested, listening, service, connections>>

\* A service that fails to initialize has not reached its stage yet.
InitService ==
    /\ main = "initService"
    /\ \/ initialized' = TRUE /\ stage' = "ServiceReady" /\ main' = "startIpc"
       \/ main' = "rollback" /\ UNCHANGED <<initialized, stage>>
    /\ UNCHANGED <<alive, shutdownRequested, listening, shuttingDown, mutex, connections>>

\* From here on requests are served, before the last stage is entered.
StartIpc ==
    /\ main = "startIpc"
    /\ \/ /\ alive' = alive \cup {"dispatcher", "server"}
          /\ listening' = TRUE
          /\ main' = "enterLastStage"
       \/ main' = "rollback" /\ UNCHANGED <<alive, listening>>
    /\ UNCHANGED <<stage, shutdownRequested, service, connections>>

EnterLastStage ==
    /\ main = "enterLastStage"
    /\ stage' = "IpcStarted"
    /\ main' = "execute"
    /\ UNCHANGED <<alive, shutdownRequested, listening, service, connections>>

\* The flags live and die with the service.
Destroy(components) ==
    /\ alive' = alive \ components
    /\ IF "service" \in components
       THEN initialized' = FALSE /\ shuttingDown' = FALSE
       ELSE UNCHANGED <<initialized, shuttingDown>>
    /\ UNCHANGED mutex

BuiltBy == [ServiceReady |-> {"service"}, ProvidersReady |-> {"uid", "sn"},
            StoreOpened |-> {"store"}]

StageBefore == [ServiceReady |-> "ProvidersReady", ProvidersReady |-> "StoreOpened",
                StoreOpened |-> "None"]

\* Slip: each stage gives up what the one before it built.
UndoneAtStale(s) == IF s = "StoreOpened" THEN {} ELSE BuiltBy[StageBefore[s]]

UndoneAt(s) == BuiltBy[s]

RollbackInitialization ==
    /\ main = "rollback"
    /\ \/ /\ stage # "None"
          /\ Destroy(UndoneAt(stage))
          /\ stage' = StageBefore[stage]
          /\ UNCHANGED main
       \/ stage = "None" /\ main' = "failed" /\ UNCHANGED <<stage, alive, service>>
    /\ UNCHANGED <<shutdownRequested, listening, connections>>

-----------------------------------------------------------------------------
(* execute and cleanup.                                                    *)

RequestShutdown ==
    /\ main # "exited"
    /\ ~shutdownRequested
    /\ shutdownRequested' = TRUE
    /\ UNCHANGED <<main, stage, alive, listening, service, connections>>

\* Slip: the main thread waits for the clients to hang up first.
LeaveWhenIdle ==
    /\ \/ main = "execute" /\ shutdownRequested /\ \A c \in Connection : thread[c] = "none"
       \/ main = "failed"
    /\ main' = "quiesce"
    /\ UNCHANGED <<stage, alive, shutdownRequested, listening, service, connections>>

\* waitForShutdown returns; a failed start may be cleaned up as well.
LeaveExecute ==
    /\ \/ main = "execute" /\ shutdownRequested
       \/ main = "failed"
    /\ main' = "quiesce"
    /\ UNCHANGED <<stage, alive, shutdownRequested, listening, service, connections>>

Quiesce ==
    /\ main = "quiesce"
    /\ shuttingDown' = (shuttingDown \/ "service" \in alive)
    /\ main' = "stopIpc"
    /\ UNCHANGED <<stage, alive, shutdownRequested, listening, initialized, mutex, connections>>

\* Slip: the server is waited for without being told to stop.
StopIpcUntold ==
    /\ main = "stopIpc"
    /\ main' = "join"
    /\ UNCHANGED <<stage, alive, shutdownRequested, listening, service, connections>>

StopIpc ==
    /\ main = "stopIpc"
    /\ listening' = FALSE
    /\ main' = "join"
    /\ UNCHANGED <<stage, alive, shutdownRequested, service, connections>>

\* Slip: the threads are told to stop and not waited for.
MayRelease == TRUE

Joined == \A c \in Connection : thread[c] = "none"

JoinThreads ==
    /\ main = "join"
    /\ Joined
    /\ main' = "release"
    /\ UNCHANGED <<stage, alive, shutdownRequested, listening, service, connections>>

\* Slip: the store goes first.
ReleaseStoreFirst == <<"store", "dispatcher", "service", "sn", "uid">>

ReleaseOrder == <<"dispatcher", "service", "sn", "uid", "store">>

IsNext(k) ==
    /\ ReleaseOrder[k] \in alive
    /\ \A j \in 1 .. k - 1 : ReleaseOrder[j] \notin alive

\* The server object stays until the application itself is destroyed.
Release ==
    /\ main = "release"
    /\ \/ /\ \E k \in DOMAIN ReleaseOrder : IsNext(k) /\ Destroy({ReleaseOrder[k]})
          /\ UNCHANGED <<main, stage>>
       \/ /\ alive \subseteq {"server"}
          /\ alive' = {}
          /\ stage' = "None"
          /\ main' = "exited"
          /\ UNCHANGED service
    /\ UNCHANGED <<shutdownRequested, listening, connections>>

\* A failed start that is not cleaned up: the members go with the object.
ExitFailed ==
    /\ main = "failed"
    /\ main' = "exited"
    /\ Destroy(alive)
    /\ UNCHANGED <<stage, shutdownRequested, listening, connections>>

\* The service manager starts the process again.
RunAgain ==
    /\ main = "exited"
    /\ main' = "openStore"
    /\ shutdownRequested' = FALSE
    /\ UNCHANGED <<stage, alive, listening, service, connections>>

-----------------------------------------------------------------------------
(* A connection thread of the server.                                      *)

Accept(c) ==
    /\ listening /\ thread[c] = "none"
    /\ thread' = [thread EXCEPT ![c] = "reading"]
    /\ UNCHANGED <<main, stage, alive, shutdownRequested, listening, service, request>>

Receive(c, op) ==
    /\ listening /\ thread[c] = "reading"
    /\ thread' = [thread EXCEPT ![c] = "dispatching"]
    /\ request' = [request EXCEPT ![c] = op]
    /\ UNCHANGED <<main, stage, alive, shutdownRequested, listening, service>>

\* Slips: writes are let in during the shutdown; the mutex is not taken.
RefusedAlways(op) == ~initialized
LockedNever == FALSE

\* What a call finds once it holds the mutex.
Refused(op) == ~initialized \/ (op = "write" /\ shuttingDown)

Locked == mutex # NoOne

Enter(c) ==
    /\ thread[c] = "dispatching"
    /\ ~Locked
    /\ \/ /\ Refused(request[c])
          /\ thread' = [thread EXCEPT ![c] = "replying"]
          /\ UNCHANGED mutex
       \/ /\ ~Refused(request[c])
          /\ thread' = [thread EXCEPT ![c] = "serving"]
          /\ mutex' = c
    /\ UNCHANGED <<main, stage, alive, shutdownRequested, listening,
                   initialized, shuttingDown, request>>

\* Slip: the lock of the call is not given back.
ServeAndKeepLock(c) ==
    /\ thread[c] = "serving"
    /\ thread' = [thread EXCEPT ![c] = "replying"]
    /\ UNCHANGED <<main, stage, alive, shutdownRequested, listening, service, request>>

Serve(c) ==
    /\ thread[c] = "serving"
    /\ thread' = [thread EXCEPT ![c] = "replying"]
    /\ mutex' = NoOne
    /\ UNCHANGED <<main, stage, alive, shutdownRequested, listening,
                   initialized, shuttingDown, request>>

\* Slip: what was asked for is still there when the next request is read.
ReplyAndKeep(c) ==
    /\ thread[c] = "replying"
    /\ thread' = [thread EXCEPT ![c] = "reading"]
    /\ UNCHANGED <<main, stage, alive, shutdownRequested, listening, service, request>>

Reply(c) ==
    /\ thread[c] = "replying"
    /\ thread' = [thread EXCEPT ![c] = "reading"]
    /\ request' = [request EXCEPT ![c] = "none"]
    /\ UNCHANGED <<main, stage, alive, shutdownRequested, listening, service>>

\* The client hangs up, or the stopped server interrupts the read.
Close(c) ==
    /\ thread[c] = "reading"
    /\ thread' = [thread EXCEPT ![c] = "none"]
    /\ UNCHANGED <<main, stage, alive, shutdownRequested, listening, service, request>>

-----------------------------------------------------------------------------
Main ==
    \/ OpenStore \/ MakeService \/ InitService \/ StartIpc \/ EnterLastStage
    \/ RollbackInitialization \/ LeaveExecute \/ Quiesce \/ StopIpc \/ JoinThreads \/ Release

Thread(c) ==
    \/ Accept(c) \/ Enter(c) \/ Serve(c) \/ Reply(c) \/ Close(c)
    \/ \E op \in Operations : Receive(c, op)

Next == Main \/ RequestShutdown \/ ExitFailed \/ RunAgain \/ \E c \in Connection : Thread(c)

Spec == Init /\ [][Next]_vars

\* A thread goes on with the request it holds and a closed socket ends its
\* read; clients, signals and the service manager owe nothing.
Fairness ==
    /\ WF_vars(Main)
    /\ \A c \in Connection :
        WF_vars(Enter(c) \/ Serve(c) \/ Reply(c) \/ (~listening /\ Close(c)))

FairSpec == Spec /\ Fairness
=============================================================================
