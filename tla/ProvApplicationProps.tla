------------------------ MODULE ProvApplicationProps ------------------------
(***************************************************************************)
(* The properties of ProvApplication.                                      *)
(***************************************************************************)
EXTENDS ProvApplication

(***************************************************************************)
(* Types; a thread has a request from its receipt to its reply, and the    *)
(* mutex belongs to the one thread that runs the service                   *)
(* (prov_service.cpp:99, the lock_guard of every call).                    *)
(***************************************************************************)
TypeOK ==
    /\ main \in MainLabels
    /\ stage \in Stages
    /\ alive \subseteq Component
    /\ shutdownRequested \in BOOLEAN
    /\ listening \in BOOLEAN
    /\ initialized \in BOOLEAN
    /\ shuttingDown \in BOOLEAN
    /\ mutex \in Connection \cup {NoOne}
    /\ thread \in [Connection -> ThreadLabels]
    /\ request \in [Connection -> Operations \cup {"none"}]
    /\ \A c \in Connection : request[c] = "none" <=> thread[c] \in {"none", "reading"}
    /\ \A c \in Connection : thread[c] = "serving" <=> mutex = c

(***************************************************************************)
(* No thread runs in an object that is destroyed: the handler needs the    *)
(* dispatcher and its raw service pointer, a call in the service needs the *)
(* store and the providers it holds by reference, and every thread needs   *)
(* the server (prov_application.h:10-14).                                  *)
(***************************************************************************)
NoUseAfterFree ==
    \A c \in Connection :
        /\ thread[c] # "none" => "server" \in alive
        /\ thread[c] \in {"dispatching", "serving"} => {"dispatcher", "service"} \subseteq alive
        /\ thread[c] = "serving" => {"store", "uid", "sn"} \subseteq alive

(***************************************************************************)
(* A service that can serve has all it refers to, and so does a dispatcher.*)
(* The exception is what prov_application.cpp:107-112 leaves: a service    *)
(* whose initialize failed outlives its store, not initialized and with no *)
(* dispatcher.                                                             *)
(***************************************************************************)
NothingDangles ==
    /\ initialized => {"service", "store", "uid", "sn"} \subseteq alive
    /\ "dispatcher" \in alive => initialized /\ "service" \in alive

(***************************************************************************)
(* A start that fails gives back what it took, the service of a failed     *)
(* ProvService::initialize excepted (prov_application.cpp:156-178).        *)
(***************************************************************************)
FailedStartLeavesNothing ==
    main = "failed" =>
        /\ stage = "None" /\ alive \subseteq {"service"}
        /\ ~initialized /\ ~listening

\* The writes a thread is carrying out in the service.
Writes == {c \in Connection : thread[c] = "serving" /\ request[c] = "write"}

(***************************************************************************)
(* Once beginShutdown has run no further write begins: the write in the    *)
(* service, one at most, ends, and those queued on the mutex are refused   *)
(* (prov_service.h:47, prov_service.cpp:105-108).                          *)
(***************************************************************************)
WritesQuiesce ==
    [][shuttingDown => Writes' \subseteq Writes]_vars

(***************************************************************************)
(* The root uses its service as ServiceLife has it, calls of all           *)
(* connection threads together: what ProvService takes for granted when it *)
(* runs one call at a time and stops between calls.                        *)
(***************************************************************************)
Status ==
    IF "service" \notin alive THEN "down"
    ELSE IF mutex = NoOne THEN "idle" ELSE request[mutex]

Life == INSTANCE ServiceLife WITH MayCrash <- FALSE, status <- Status

ImplementsServiceLife == Life!Spec

(***************************************************************************)
(* The main thread never waits in join for threads that wait for each      *)
(* other: while one is left, the mutex is free for a queued request, or    *)
(* its holder is serving, or some thread only has its reply to send or its *)
(* interrupted read to leave (prov_application.cpp:203-206).               *)
(***************************************************************************)
JoinIsNeverStuck ==
    main = "join" /\ ~Joined =>
        \E c \in Connection :
            \/ thread[c] \in {"serving", "replying"}
            \/ thread[c] = "dispatching" /\ mutex = NoOne
            \/ thread[c] = "reading" /\ ~listening

\* What a connection thread has before it until it ends.
StepsLeft == [none |-> 0, reading |-> 1, replying |-> 2, serving |-> 3, dispatching |-> 4]

(***************************************************************************)
(* While the main thread is in join, what its threads do leads to their    *)
(* end: none is added, none takes up another request, and a request that   *)
(* was accepted is answered once and no more (prov_application.cpp:203).   *)
(***************************************************************************)
JoinDrains ==
    [][main = "join" =>
        \A c \in Connection :
            thread'[c] # thread[c] => StepsLeft[thread'[c]] < StepsLeft[thread[c]]]_vars

(***************************************************************************)
(* A signal brings the process down, whatever stage it is in and whatever  *)
(* the connection threads are doing: no thread that is joined waits for    *)
(* the main thread (prov_application.cpp:196-216).                         *)
(***************************************************************************)
ShutdownCompletes == shutdownRequested ~> main = "exited"
=============================================================================
