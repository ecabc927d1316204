------------------------------ MODULE Lifecycle ------------------------------
(***************************************************************************)
(* Start-up and shutdown: main.cpp, workmanager/controller.cpp and the     *)
(* Init functions it calls.  Three threads of control share the            *)
(* Controller: main, the thread that runs Controller::Run (with the        *)
(* workers of the thrift server) and the thread that runs                  *)
(* QosSendDaemon::Start.  What a request or a round of the daemon does is  *)
(* in the modules of the handlers; here it only matters that it uses the   *)
(* connection pool.                                                        *)
(***************************************************************************)
EXTENDS Integers

CONSTANT Workers   \* threads of the thrift server, thread_cnt in conf.cfg

VARIABLES
  main,         \* where main() is, or how the process has ended
  exit_code,    \* what main() returns
  stopped,      \* main.cpp: set by the signal handler
  stop_,        \* Controller::stop_
  server_,      \* Controller::server_: has the pointer been set?
  interrupted,  \* the thrift server has been told to stop
  pool_,        \* Database::pool_
  run,          \* the thread of Controller::Run
  busy,         \* workers that process a request
  hung,         \* workers among them whose request never ends
  qos,          \* the thread of QosSendDaemon::Start
  qos_stop      \* QosSendDaemon::stop_

vars == <<main, exit_code, stopped, stop_, server_, interrupted, pool_, run, busy, hung, qos, qos_stop>>

\* Terminated: an exception nobody catches, of C++ or of libzdb.  NullServer: the assertion of
\* boost::shared_ptr when a null pointer is dereferenced.
Ends == {"Exit", "Terminated", "NullServer"}

MainLabels ==
  {"Log", "ReadFile", "Database", "SendHelper", "Qos", "ThriftServer", "SpawnRun", "SpawnQos",
   "Wait", "Stop", "StopServer", "StopQos", "JoinRun", "JoinQos", "Destroy"} \cup Ends

Alive == main \notin Ends

-----------------------------------------------------------------------------
(* main, up to the start of the threads.                                   *)

\* Log.Init only fails on a null file name, which main never passes.
LogInit ==
  /\ main = "Log"
  /\ main' = "ReadFile"
  /\ UNCHANGED <<exit_code, stopped, stop_, server_, interrupted, pool_, run, busy, hung, qos, qos_stop>>

\* config.readFile throws when the file is missing or malformed.
ReadFile ==
  /\ main = "ReadFile"
  /\ main' \in {"Database", "Terminated"}
  /\ UNCHANGED <<exit_code, stopped, stop_, server_, interrupted, pool_, run, busy, hung, qos, qos_stop>>

\* A step of Controller::Init.  When it fails, main returns -1 and the destructor
\* of the Controller calls Stop, since stop_ is still false.
InitStep(here, next) ==
  /\ main = here
  /\ \/ main' = next /\ UNCHANGED exit_code
     \/ main' = "Stop" /\ exit_code' = -1
  /\ UNCHANGED <<stopped, stop_, server_, interrupted, run, busy, hung, qos>>

\* The configuration is read and the pool is started.  The exceptions of libzdb are
\* not C++ exceptions: the catch does not see the one ConnectionPool_start throws.
InitDatabase ==
  /\ \/ InitStep("Database", "SendHelper")
     \/ /\ main = "Database" /\ main' = "Terminated"
        /\ UNCHANGED <<exit_code, stopped, stop_, server_, interrupted, run, busy, hung, qos>>
  /\ pool_' = IF main' = "SendHelper" THEN "open" ELSE pool_
  /\ UNCHANGED qos_stop

InitSendHelper == InitStep("SendHelper", "Qos") /\ UNCHANGED <<pool_, qos_stop>>

InitQos ==
  /\ InitStep("Qos", "ThriftServer")
  /\ qos_stop' = IF main' = "ThriftServer" THEN FALSE ELSE qos_stop
  /\ UNCHANGED pool_

\* port, time-outs and thread count; then the managers get the database.
InitServer == InitStep("ThriftServer", "SpawnRun") /\ UNCHANGED <<pool_, qos_stop>>

SpawnRun ==
  /\ main = "SpawnRun"
  /\ run' = "Build"
  /\ main' = "SpawnQos"
  /\ UNCHANGED <<exit_code, stopped, stop_, server_, interrupted, pool_, busy, hung, qos, qos_stop>>

SpawnQos ==
  /\ main = "SpawnQos"
  /\ qos' = "Test"
  /\ main' = "Wait"
  /\ UNCHANGED <<exit_code, stopped, stop_, server_, interrupted, pool_, run, busy, hung, qos_stop>>

-----------------------------------------------------------------------------
(* Signals and shutdown.                                                   *)

\* SIGINT, SIGQUIT or SIGTERM, at any time.
sig_int ==
  /\ Alive
  /\ ~stopped
  /\ stopped' = TRUE
  /\ UNCHANGED <<main, exit_code, stop_, server_, interrupted, pool_, run, busy, hung, qos, qos_stop>>

Wait ==
  /\ main = "Wait"
  /\ stopped
  /\ main' = "Stop"
  /\ UNCHANGED <<exit_code, stopped, stop_, server_, interrupted, pool_, run, busy, hung, qos, qos_stop>>

\* Controller::Stop, in three steps.
Stop ==
  /\ main = "Stop"
  /\ stop_' = TRUE
  /\ main' = "StopServer"
  /\ UNCHANGED <<exit_code, stopped, server_, interrupted, pool_, run, busy, hung, qos, qos_stop>>

\* TServerSocket::interrupt writes to the socket pair that listen() makes; before that
\* it has nothing to write to and the stop is lost.
StopServer ==
  /\ main = "StopServer"
  /\ \/ server_ /\ run = "Accept" /\ interrupted' = TRUE /\ main' = "StopQos"
     \/ server_ /\ run # "Accept" /\ main' = "StopQos" /\ UNCHANGED interrupted
     \/ ~server_ /\ main' = "NullServer" /\ UNCHANGED interrupted
  /\ UNCHANGED <<exit_code, stopped, stop_, server_, pool_, run, busy, hung, qos, qos_stop>>

\* Mutant: the daemon is not told.
StopQos_Forgotten ==
  /\ main = "StopQos"
  /\ main' = IF exit_code = 0 THEN "JoinRun" ELSE "Destroy"
  /\ UNCHANGED <<exit_code, stopped, stop_, server_, interrupted, pool_, run, busy, hung, qos, qos_stop>>

StopQos ==
  /\ main = "StopQos"
  /\ qos_stop' = TRUE
  /\ main' = IF exit_code = 0 THEN "JoinRun" ELSE "Destroy"
  /\ UNCHANGED <<exit_code, stopped, stop_, server_, interrupted, pool_, run, busy, hung, qos>>

JoinRun ==
  /\ main = "JoinRun"
  /\ run = "Ended"
  /\ main' = "JoinQos"
  /\ UNCHANGED <<exit_code, stopped, stop_, server_, interrupted, pool_, run, busy, hung, qos, qos_stop>>

\* Mutant: main does not wait for the daemon, which may sleep for check_interval.
JoinQos_NoWait ==
  /\ main = "JoinQos"
  /\ main' = "Destroy"
  /\ UNCHANGED <<exit_code, stopped, stop_, server_, interrupted, pool_, run, busy, hung, qos, qos_stop>>

JoinQos ==
  /\ main = "JoinQos"
  /\ qos = "Ended"
  /\ main' = "Destroy"
  /\ UNCHANGED <<exit_code, stopped, stop_, server_, interrupted, pool_, run, busy, hung, qos, qos_stop>>

\* ~Controller finds stop_ set; its members are destroyed, the pool among them.
Destroy ==
  /\ main = "Destroy"
  /\ pool_' = "freed"
  /\ main' = "Exit"
  /\ UNCHANGED <<exit_code, stopped, stop_, server_, interrupted, run, busy, hung, qos, qos_stop>>

-----------------------------------------------------------------------------
(* Controller::Run and the thrift server (external: serve listens, hands   *)
(* each accepted client to a worker, and when it is told to stop waits for *)
(* its workers; see StopServer for a stop that comes before listen).       *)

\* The constructors may throw: Run returns and server_ stays null.
RunBuild ==
  /\ Alive
  /\ run = "Build"
  /\ \/ server_' = TRUE /\ run' = "Listen"
     \/ run' = "Ended" /\ UNCHANGED server_
  /\ UNCHANGED <<main, exit_code, stopped, stop_, interrupted, pool_, busy, hung, qos, qos_stop>>

\* serve is called outside the try block: a port in use ends the process.
RunListen ==
  /\ Alive
  /\ run = "Listen"
  /\ \/ run' = "Accept" /\ UNCHANGED main
     \/ main' = "Terminated" /\ UNCHANGED run
  /\ UNCHANGED <<exit_code, stopped, stop_, server_, interrupted, pool_, busy, hung, qos, qos_stop>>

Accept(w) ==
  /\ Alive
  /\ run = "Accept"
  /\ w \notin busy
  /\ busy' = busy \cup {w}
  /\ UNCHANGED <<main, exit_code, stopped, stop_, server_, interrupted, pool_, run, hung, qos, qos_stop>>

\* The handler returns; the client goes away, read_timeout expires or the stop ends
\* the wait for its next request.
Finish(w) ==
  /\ Alive
  /\ w \in busy \ hung
  /\ busy' = busy \ {w}
  /\ UNCHANGED <<main, exit_code, stopped, stop_, server_, interrupted, pool_, run, hung, qos, qos_stop>>

\* The handler never returns: it spins in GetConnection, the pool being used up, or
\* waits for an access server in a call that has no time-out.
Hang(w) ==
  /\ Alive
  /\ w \in busy \ hung
  /\ hung' = hung \cup {w}
  /\ UNCHANGED <<main, exit_code, stopped, stop_, server_, interrupted, pool_, run, busy, qos, qos_stop>>

Interrupted ==
  /\ Alive
  /\ run = "Accept"
  /\ interrupted
  /\ run' = "Drain"
  /\ UNCHANGED <<main, exit_code, stopped, stop_, server_, interrupted, pool_, busy, hung, qos, qos_stop>>

Drained ==
  /\ Alive
  /\ run = "Drain"
  /\ busy = {}
  /\ run' = "Ended"
  /\ UNCHANGED <<main, exit_code, stopped, stop_, server_, interrupted, pool_, busy, hung, qos, qos_stop>>

-----------------------------------------------------------------------------
(* QosSendDaemon::Start: while (!stop_) { a round; sleep }                 *)

QosTest ==
  /\ Alive
  /\ qos = "Test"
  /\ qos' = IF qos_stop THEN "Ended" ELSE "Round"
  /\ UNCHANGED <<main, exit_code, stopped, stop_, server_, interrupted, pool_, run, busy, hung, qos_stop>>

QosRound ==
  /\ Alive
  /\ qos = "Round"
  /\ qos' = "Sleep"
  /\ UNCHANGED <<main, exit_code, stopped, stop_, server_, interrupted, pool_, run, busy, hung, qos_stop>>

\* The same two waits, in a round of the daemon.
QosHang ==
  /\ Alive
  /\ qos = "Round"
  /\ qos' = "Hung"
  /\ UNCHANGED <<main, exit_code, stopped, stop_, server_, interrupted, pool_, run, busy, hung, qos_stop>>

QosWake ==
  /\ Alive
  /\ qos = "Sleep"
  /\ qos' = "Test"
  /\ UNCHANGED <<main, exit_code, stopped, stop_, server_, interrupted, pool_, run, busy, hung, qos_stop>>

-----------------------------------------------------------------------------
\* The constructors of the globals, of the Controller and of its members.
Init ==
  /\ main = "Log"
  /\ exit_code = 0
  /\ stopped = FALSE
  /\ stop_ = FALSE
  /\ server_ = FALSE
  /\ interrupted = FALSE
  /\ pool_ = "none"
  /\ run = "none"
  /\ busy = {}
  /\ hung = {}
  /\ qos = "none"
  /\ qos_stop = FALSE

MainStep ==
  \/ LogInit \/ ReadFile
  \/ InitDatabase \/ InitSendHelper \/ InitQos \/ InitServer
  \/ SpawnRun \/ SpawnQos
  \/ Wait \/ Stop \/ StopServer \/ StopQos
  \/ JoinRun \/ JoinQos \/ Destroy

RunStep == RunBuild \/ RunListen \/ Interrupted \/ Drained

QosStep == QosTest \/ QosRound \/ QosWake

Next ==
  \/ MainStep
  \/ sig_int
  \/ RunStep
  \/ \E w \in Workers : Accept(w) \/ Finish(w) \/ Hang(w)
  \/ QosStep
  \/ QosHang

\* The operating system runs every thread, and a request that does not hang ends
\* (read_timeout).  Clients and operators owe nothing.
Spec ==
  /\ Init /\ [][Next]_vars
  /\ WF_vars(MainStep) /\ WF_vars(RunStep) /\ WF_vars(QosStep)
  /\ \A w \in Workers : WF_vars(Finish(w))

-----------------------------------------------------------------------------
\* Every variable has its type.
TypeOK ==
  /\ main \in MainLabels
  /\ exit_code \in {0, -1}
  /\ stopped \in BOOLEAN /\ stop_ \in BOOLEAN /\ server_ \in BOOLEAN
  /\ interrupted \in BOOLEAN /\ qos_stop \in BOOLEAN
  /\ pool_ \in {"none", "open", "freed"}
  /\ run \in {"none", "Build", "Listen", "Accept", "Drain", "Ended"}
  /\ busy \subseteq Workers
  /\ hung \subseteq busy
  /\ qos \in {"none", "Test", "Round", "Hung", "Sleep", "Ended"}

\* A worker or the daemon never uses the connection pool before Database::Init has
\* started it or after ~Database has freed it, whenever the signal comes and
\* whatever the threads are doing then.
PoolOutlivesUsers == busy # {} \/ qos \in {"Round", "Hung"} => pool_ = "open"

\* A request or a round of the daemon has got stuck for good.
Hanging == hung # {} \/ qos = "Hung"

\* Once Stop has reached the server and the daemon, the process ends: neither join
\* waits for ever, although requests are running and the daemon may be asleep.  What
\* can hold it is a request or a round that hangs for good.
ShutdownEnds == main = "JoinRun" /\ interrupted ~> main \in Ends \/ Hanging

\* The same of every Stop.  It does not hold: a signal between the assignment of
\* server_ and listen() is lost, and the join waits for ever (LostStop.cfg).
EveryStopEnds == main = "JoinRun" ~> main \in Ends \/ Hanging

\* Why the pool outlives its users: threads start after Init has succeeded and have
\* ended when main comes to the destructors.
Starting == {"Log", "ReadFile", "Database", "SendHelper", "Qos", "ThriftServer", "SpawnRun"}
Stopping == {"Stop", "StopServer", "StopQos"}

NoThreads == run = "none" /\ qos = "none" /\ busy = {}

LifecycleInv ==
  /\ main \in Starting => NoThreads
  /\ main \in Stopping /\ exit_code = -1 => NoThreads
  /\ main \in (Starting \ {"Log", "ReadFile", "Database"})
                \cup {"SpawnQos", "Wait", "JoinRun", "JoinQos"} => pool_ = "open"
  /\ main \in Stopping /\ exit_code = 0 => pool_ = "open"
  /\ exit_code = -1 => main \in Stopping \cup {"Destroy"} \cup Ends
  /\ busy # {} => run \in {"Accept", "Drain"}
  /\ main = "JoinQos" => run = "Ended"
  /\ main = "Destroy" => run \in {"none", "Ended"} /\ qos \in {"none", "Ended"}
  /\ PoolOutlivesUsers

\* What main says of a failed Init (return -1) and sig_int of a signal (service
\* stopping): the process leaves through main.  Stop finds a server to stop.
StopFindsServer == main # "NullServer"
=============================================================================
