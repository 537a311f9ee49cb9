---------------------------- MODULE ServerLifecycle ----------------------------
(***************************************************************************)
(* How the server starts and how a signal ends it: Server (server.cpp),    *)
(* its IoThreads (common/io_thread.hpp) and the threads of DatabaseWorker. *)
(* Thread 0 is m_MainIo, where signals and accepted connections are        *)
(* handled; threads 1..NumIo are m_IoThreads.                              *)
(*                                                                         *)
(* m_IoThreads is a vector that the main thread fills while handleStop may *)
(* already run over it; handleStop is taken to see the elements that were  *)
(* there when its loop began.                                              *)
(***************************************************************************)
EXTENDS Integers

CONSTANTS
    NumIo,         \* m_IoPoolSize, option io_workers
    Workers,       \* threads of DatabaseWorker
    EarlySignals   \* TRUE: a signal may come before the server has started

ASSUME NumIoAssumption == NumIo \in Nat \ {0}
ASSUME SignalsAssumption == EarlySignals \in BOOLEAN

VARIABLES
    pc,          \* where Server::run is
    created,     \* length of m_IoThreads
    joined,      \* how many of m_IoThreads have been joined
    thread,      \* the threads of the IoThreads
    stopped,     \* the stopped flag of their io_services
    worker,      \* the threads of DatabaseWorker
    signal,      \* SIGINT, SIGTERM or SIGQUIT
    toStop,      \* the IoThreads handleStop still has to stop
    g_NeedStop

vars == <<pc, created, joined, thread, stopped, worker, signal, toStop, g_NeedStop>>

IoThreads == 0..NumIo
Starting == {"start_main", "push_io", "start_io", "run_db", "accept"}
Joining == {"join_db", "join_main", "join_io"}
ThreadStates == {"none", "running", "in_handler", "ended"}

TypeOK ==
    /\ pc \in Starting \cup Joining \cup {"exited"}
    /\ created \in 0..NumIo
    /\ joined \in 0..NumIo
    /\ thread \in [IoThreads -> ThreadStates]
    /\ stopped \in [IoThreads -> BOOLEAN]
    /\ worker \in [Workers -> ThreadStates]
    /\ signal \in {"none", "raised", "handled"}
    /\ toStop \subseteq 1..NumIo
    /\ g_NeedStop \in BOOLEAN

Init ==
    /\ pc = "start_main"
    /\ created = 0
    /\ joined = 0
    /\ thread = [k \in IoThreads |-> "none"]
    /\ stopped = [k \in IoThreads |-> FALSE]
    /\ worker = [w \in Workers |-> "none"]
    /\ signal = "none"
    /\ toStop = {}
    /\ g_NeedStop = FALSE

--------------------------------------------------------------------------------
(* Server::run *)

\* IoThread::start resets the io_service, which takes back an earlier stop.
start(k) ==
    /\ stopped' = [stopped EXCEPT ![k] = FALSE]
    /\ thread' = [thread EXCEPT ![k] = "running"]

startMainIo ==
    /\ pc = "start_main"
    /\ start(0)
    /\ pc' = "push_io"
    /\ UNCHANGED <<created, joined, worker, signal, toStop, g_NeedStop>>

pushIoThread ==
    /\ pc = "push_io"
    /\ created' = created + 1
    /\ pc' = "start_io"
    /\ UNCHANGED <<joined, thread, stopped, worker, signal, toStop, g_NeedStop>>

startIoThread ==
    /\ pc = "start_io"
    /\ start(created)
    /\ pc' = IF created = NumIo THEN "run_db" ELSE "push_io"
    /\ UNCHANGED <<created, joined, worker, signal, toStop, g_NeedStop>>

runDb ==
    /\ pc = "run_db"
    /\ worker' = [w \in Workers |-> "running"]
    /\ pc' = "accept"
    /\ UNCHANGED <<created, joined, thread, stopped, signal, toStop, g_NeedStop>>

startAccept ==
    /\ pc = "accept"
    /\ pc' = "join_db"
    /\ UNCHANGED <<created, joined, thread, stopped, worker, signal, toStop, g_NeedStop>>

joinDb ==
    /\ pc = "join_db"
    /\ \A w \in Workers : worker[w] = "ended"
    /\ pc' = "join_main"
    /\ UNCHANGED <<created, joined, thread, stopped, worker, signal, toStop, g_NeedStop>>

joinMainIo ==
    /\ pc = "join_main"
    /\ thread[0] = "ended"
    /\ pc' = "join_io"
    /\ UNCHANGED <<created, joined, thread, stopped, worker, signal, toStop, g_NeedStop>>

hasEnded_Mutant(k) == thread[k] # "in_handler"
hasEnded(k) == thread[k] = "ended"

joinIoThread ==
    /\ pc = "join_io"
    /\ hasEnded(joined + 1)
    /\ joined' = joined + 1
    /\ pc' = IF joined' = NumIo THEN "exited" ELSE "join_io"
    /\ UNCHANGED <<created, thread, stopped, worker, signal, toStop, g_NeedStop>>

--------------------------------------------------------------------------------
(* The signal *)

\* The signal set is registered when the Server is constructed.
raise ==
    /\ signal = "none"
    /\ EarlySignals \/ pc \notin Starting
    /\ signal' = "raised"
    /\ UNCHANGED <<pc, created, joined, thread, stopped, worker, toStop, g_NeedStop>>

threadsToStop == 1..created

\* Server::handleStop on thread 0: the flag, the main io_service, then one IoThread
\* after the other.
handleStop ==
    /\ signal = "raised"
    /\ thread[0] = "running" /\ ~stopped[0]
    /\ signal' = "handled"
    /\ g_NeedStop' = TRUE
    /\ stopped' = [stopped EXCEPT ![0] = TRUE]
    /\ toStop' = threadsToStop
    /\ thread' = [thread EXCEPT ![0] = "in_handler"]
    /\ UNCHANGED <<pc, created, joined, worker>>

handleStop_next ==
    /\ thread[0] = "in_handler"
    /\ IF toStop = {}
       THEN /\ thread' = [thread EXCEPT ![0] = "running"]
            /\ UNCHANGED <<stopped, toStop>>
       ELSE \E k \in toStop :
            /\ \A j \in toStop : k <= j
            /\ stopped' = [stopped EXCEPT ![k] = TRUE]
            /\ toStop' = toStop \ {k}
            /\ UNCHANGED thread
    /\ UNCHANGED <<pc, created, joined, worker, signal, g_NeedStop>>

--------------------------------------------------------------------------------
(* The other threads *)

\* A handler of a connection; if it throws, IoThread::run goes on as if it returned.
handlerStarts(k) ==
    /\ pc \notin Starting
    /\ thread[k] = "running" /\ ~stopped[k]
    /\ thread' = [thread EXCEPT ![k] = "in_handler"]
    /\ UNCHANGED <<pc, created, joined, stopped, worker, signal, toStop, g_NeedStop>>

handlerEnds(k) ==
    /\ thread[k] = "in_handler"
    /\ thread' = [thread EXCEPT ![k] = "running"]
    /\ UNCHANGED <<pc, created, joined, stopped, worker, signal, toStop, g_NeedStop>>

\* The io_service always has work: run() returns only when it is stopped.
threadEnds(k) ==
    /\ thread[k] = "running" /\ stopped[k]
    /\ thread' = [thread EXCEPT ![k] = "ended"]
    /\ UNCHANGED <<pc, created, joined, stopped, worker, signal, toStop, g_NeedStop>>

\* processQueue looks at g_NeedStop between two tasks; the tasks left are dropped.
workerTakesTask(w) ==
    /\ worker[w] = "running" /\ ~g_NeedStop
    /\ worker' = [worker EXCEPT ![w] = "in_handler"]
    /\ UNCHANGED <<pc, created, joined, thread, stopped, signal, toStop, g_NeedStop>>

workerEndsTask(w) ==
    /\ worker[w] = "in_handler"
    /\ worker' = [worker EXCEPT ![w] = "running"]
    /\ UNCHANGED <<pc, created, joined, thread, stopped, signal, toStop, g_NeedStop>>

workerEnds(w) ==
    /\ worker[w] = "running" /\ g_NeedStop
    /\ worker' = [worker EXCEPT ![w] = "ended"]
    /\ UNCHANGED <<pc, created, joined, thread, stopped, signal, toStop, g_NeedStop>>

--------------------------------------------------------------------------------

run ==
    \/ startMainIo \/ pushIoThread \/ startIoThread \/ runDb \/ startAccept
    \/ joinDb \/ joinMainIo \/ joinIoThread

Next ==
    \/ run
    \/ raise
    \/ handleStop
    \/ handleStop_next
    \/ \E k \in 1..NumIo : handlerStarts(k) \/ handlerEnds(k)
    \/ \E k \in IoThreads : threadEnds(k)
    \/ \E w \in Workers : workerTakesTask(w) \/ workerEndsTask(w) \/ workerEnds(w)

\* Every thread runs on, and every handler and every task comes to its end.
Fairness ==
    /\ WF_vars(run)
    /\ WF_vars(handleStop)
    /\ WF_vars(handleStop_next)
    /\ \A k \in 1..NumIo : WF_vars(handlerEnds(k))
    /\ \A k \in IoThreads : WF_vars(threadEnds(k))
    /\ \A w \in Workers : WF_vars(workerEndsTask(w)) /\ WF_vars(workerEnds(w))

Spec == Init /\ [][Next]_vars

FairSpec == Spec /\ Fairness

--------------------------------------------------------------------------------
(* Properties *)

\* When run returns, which destroys the Server, a signal was handled and no thread
\* is left that could use its members.
ExitIsClean ==
    pc = "exited" =>
        /\ signal = "handled" /\ g_NeedStop /\ toStop = {}
        /\ \A k \in IoThreads : thread[k] = "ended"
        /\ \A w \in Workers : worker[w] = "ended"

\* handleStop, "stopped by signal": after a signal the server comes to its end.
StopsOnSignal == signal = "raised" ~> pc = "exited"
================================================================================
