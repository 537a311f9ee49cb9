------------------------- MODULE ServerLifecycleProofs -------------------------
(* Proofs about ServerLifecycle, for any number of threads and for signals at   *)
(* any time: when Server::run returns, no thread is left; and about             *)
(* LocationLookup, which implements it: a lookup alone gets its own answer.     *)
EXTENDS LocationLookup, SequenceTheorems, TLAPS

\* Where run is while it starts and joins the threads.
RunInv ==
    /\ pc = "start_main" => thread[0] = "none" /\ created = 0
    /\ pc = "push_io" => created < NumIo
    /\ pc = "start_io" => created > 0 /\ thread[created] = "none"
    /\ \A k \in 1..NumIo : k > created => thread[k] = "none"
    /\ joined > 0 => pc \in {"join_io", "exited"}
    /\ pc = "join_io" => joined < NumIo
    /\ pc = "exited" => joined = NumIo

\* A thread that was joined has ended, and no action starts it again.
JoinInv ==
    /\ \A k \in 1..joined : thread[k] = "ended"
    /\ pc \in {"join_main", "join_io", "exited"} => \A w \in Workers : worker[w] = "ended"
    /\ pc \in {"join_io", "exited"} => thread[0] = "ended"

\* Thread 0 ends only when handleStop is through.
StopInv ==
    /\ stopped[0] => signal = "handled" /\ g_NeedStop
    /\ thread[0] = "ended" => stopped[0]
    /\ toStop # {} => thread[0] = "in_handler"

IInv == TypeOK /\ RunInv /\ JoinInv /\ StopInv

\* The steps of the main thread keep the inductive invariant.
LEMMA RunKeeps ==
    ASSUME IInv, run
    PROVE  IInv'
<1> USE NumIoAssumption
<1> USE DEF IInv, TypeOK, RunInv, JoinInv, StopInv, Starting, Joining, ThreadStates, IoThreads
<1>1. CASE startMainIo
  BY <1>1 DEF startMainIo, start
<1>2. CASE pushIoThread
  BY <1>2 DEF pushIoThread
<1>3. CASE startIoThread
  BY <1>3 DEF startIoThread, start
<1>4. CASE runDb
  BY <1>4 DEF runDb
<1>5. CASE startAccept
  BY <1>5 DEF startAccept
<1>6. CASE joinDb
  BY <1>6 DEF joinDb
<1>7. CASE joinMainIo
  BY <1>7 DEF joinMainIo
<1>8. CASE joinIoThread
  BY <1>8 DEF joinIoThread, hasEnded
<1> QED BY <1>1, <1>2, <1>3, <1>4, <1>5, <1>6, <1>7, <1>8 DEF run

\* The signal and the other threads keep it: only a running thread ends.
LEMMA OthersKeep ==
    ASSUME IInv, Next, ~run
    PROVE  IInv'
<1> USE NumIoAssumption
<1> USE DEF IInv, TypeOK, RunInv, JoinInv, StopInv, Starting, Joining, ThreadStates, IoThreads
<1>1. CASE raise
  BY <1>1 DEF raise
<1>2. CASE handleStop
  BY <1>2 DEF handleStop, threadsToStop
<1>3. CASE handleStop_next
  <2>1. CASE toStop = {}
    BY <1>3, <2>1 DEF handleStop_next
  <2>2. CASE toStop # {}
    <3>1. PICK k \in toStop :
             /\ stopped' = [stopped EXCEPT ![k] = TRUE]
             /\ toStop' = toStop \ {k}
             /\ UNCHANGED thread
      BY <1>3, <2>2 DEF handleStop_next
    <3>2. thread[0] = "in_handler" /\ k \in 1..NumIo
          /\ UNCHANGED <<pc, created, joined, worker, signal, g_NeedStop>>
      BY <1>3 DEF handleStop_next
    <3>3. TypeOK'
      BY <3>1, <3>2
    <3>4. RunInv' /\ JoinInv' /\ StopInv'
      BY <3>1, <3>2
    <3> QED BY <3>3, <3>4
  <2> QED BY <2>1, <2>2
<1>4. ASSUME NEW k \in 1..NumIo, handlerStarts(k) \/ handlerEnds(k) PROVE IInv'
  <2>1. /\ thread' = [thread EXCEPT ![k] = thread'[k]]
        /\ thread[k] \in {"running", "in_handler"} /\ thread'[k] \in {"running", "in_handler"}
        /\ UNCHANGED <<pc, created, joined, stopped, worker, signal, toStop, g_NeedStop>>
    BY <1>4 DEF handlerStarts, handlerEnds
  <2>2. TypeOK'
    BY <2>1
  <2>3. RunInv'
    BY <2>1
  <2>4. JoinInv'
    BY <2>1
  <2>5. StopInv'
    BY <2>1
  <2> QED BY <2>2, <2>3, <2>4, <2>5
<1>5. ASSUME NEW k \in IoThreads, threadEnds(k) PROVE IInv'
  <2>1. /\ thread' = [thread EXCEPT ![k] = "ended"]
        /\ thread[k] = "running" /\ stopped[k]
        /\ UNCHANGED <<pc, created, joined, stopped, worker, signal, toStop, g_NeedStop>>
    BY <1>5 DEF threadEnds
  <2>2. TypeOK'
    BY <2>1
  <2>3. RunInv'
    BY <2>1
  <2>4. JoinInv'
    BY <2>1
  <2>5. StopInv'
    BY <2>1
  <2> QED BY <2>2, <2>3, <2>4, <2>5
<1>6. ASSUME NEW w \in Workers, workerTakesTask(w) \/ workerEndsTask(w) \/ workerEnds(w)
      PROVE  IInv'
  BY <1>6 DEF workerTakesTask, workerEndsTask, workerEnds
<1> QED BY <1>1, <1>2, <1>3, <1>4, <1>5, <1>6 DEF Next

\* The inductive invariant holds initially ...
LEMMA LifecycleInit == Init => IInv
<1> SUFFICES ASSUME Init PROVE IInv
  OBVIOUS
<1>1. TypeOK
  <2>1. thread \in [IoThreads -> ThreadStates] /\ worker \in [Workers -> ThreadStates]
    BY DEF Init, ThreadStates
  <2>2. stopped \in [IoThreads -> BOOLEAN]
    BY DEF Init
  <2>3. created \in 0..NumIo /\ joined \in 0..NumIo
    BY NumIoAssumption DEF Init
  <2>4. pc \in Starting /\ signal = "none" /\ toStop = {} /\ g_NeedStop \in BOOLEAN
    BY DEF Init, Starting
  <2> QED BY <2>1, <2>2, <2>3, <2>4 DEF TypeOK
<1>2. RunInv /\ JoinInv /\ StopInv
  BY NumIoAssumption DEF Init, RunInv, JoinInv, StopInv, IoThreads
<1> QED BY <1>1, <1>2 DEF IInv

\* ... and every step keeps it.
LEMMA LifecycleInductive == IInv /\ [Next]_vars => IInv'
<1>1. CASE UNCHANGED vars
  BY <1>1 DEF vars, IInv, TypeOK, RunInv, JoinInv, StopInv
<1> QED BY <1>1, RunKeeps, OthersKeep

\* Server::run returns only after a signal, with every thread ended, whenever the
\* signal came and whatever the threads were doing.
THEOREM CleanExit == Spec => []ExitIsClean
<1>1. IInv => ExitIsClean
  BY NumIoAssumption DEF IInv, TypeOK, RunInv, JoinInv, StopInv, ExitIsClean, IoThreads
<1> QED BY <1>1, LifecycleInit, LifecycleInductive, PTL DEF Spec

--------------------------------------------------------------------------------
(* LocationLookup *)

Conn == [asked : Seq(Pool), unread : 0..2, open : BOOLEAN, answered : BOOLEAN]

\* The variables of the lookups; LookupTypeOK says less about conns and result.
LookupTypes ==
    /\ lookups \in 0..MaxLookups
    /\ call \in [Pool -> {"none", "connect", "send", "read", "done"}]
    /\ conns \in Seq(Conn)
    /\ socket \in 0..Len(conns)
    /\ mine \in [Pool -> 0..Len(conns)]
    /\ at \in [Pool -> 0..Len(conns)]
    /\ result \in [Pool -> Seq(Pool \X (1..2))]
    /\ overlapped \in [Pool -> BOOLEAN]

\* A service that answers closes the connection, and answers only who asked.
ConnInv ==
    \A j \in DOMAIN conns :
        /\ conns[j].answered => ~conns[j].open /\ conns[j].asked # <<>>
        /\ ~conns[j].answered => conns[j].unread = 0

Drained(j) == ~conns[j].open /\ conns[j].unread = 0

\* _socket is the last connection, and nothing is left to read from it but by the
\* thread that opened it.
SocketInv ==
    socket # 0 =>
        /\ socket = Len(conns)
        /\ Drained(socket) \/ \E k \in Pool : call[k] \in {"send", "read"} /\ mine[k] = socket

CallInv ==
    \A k \in Pool :
        /\ call[k] # "none" => thread[k] = "in_handler"
        /\ call[k] \in {"none", "connect"} => mine[k] = 0 /\ result[k] = <<>>
        /\ at[k] # 0 => call[k] = "read" /\ at[k] >= mine[k]

OverlapInv ==
    \A j, k \in Pool : j # k /\ Calling(j) /\ Calling(k) => overlapped[k]

\* What read has appended so far of the answer on the connection c.
Progress(k, c) ==
    IF ~c.answered \/ c.unread = 2 THEN <<>>
    ELSE IF c.unread = 1 THEN <<<<k, 2>>>> ELSE Whole(k)

LoneInv ==
    \A k \in Pool : call[k] # "none" /\ ~overlapped[k] =>
        /\ mine[k] = 0 => result[k] = <<>>
        /\ mine[k] # 0 =>
              /\ result[k] = Progress(k, conns[mine[k]])
              /\ conns[mine[k]].asked \in {<<>>, <<k>>}
              /\ call[k] = "send" => conns[mine[k]].asked = <<>>
              /\ call[k] \in {"send", "read"} => mine[k] = socket
              /\ call[k] = "done" => Drained(mine[k])
        /\ at[k] \in {0, socket}

LookupInv == LookupTypes /\ ConnInv /\ SocketInv /\ CallInv /\ OverlapInv /\ LoneInv

\* A step of LookupNext is a step of the lifecycle or none: get_city_by_ip runs
\* inside of a handler, which it ends only by an exception.
LEMMA LookupIsInHandler == LookupNext => [Next]_vars
<1> SUFFICES ASSUME LookupNext PROVE [Next]_vars
  OBVIOUS
<1>1. CASE run \/ raise \/ handleStop \/ handleStop_next
  BY <1>1 DEF Next
<1>2. ASSUME NEW k \in Pool, otherHandler(k) \/ userCreate(k) \/ endHandler(k)
      PROVE  Next
  BY <1>2 DEF Next, Pool, otherHandler, userCreate, endHandler
<1>3. ASSUME NEW k \in Pool, get_city_by_ip(k)
      PROVE  [Next]_vars
  BY <1>3 DEF Next, Pool, get_city_by_ip, resolveFails, connects, connectThrows, handlerThrows,
              send, readStarts, readsPiece, readsEof
<1>4. CASE service
  BY <1>4 DEF service, answers, gives_up
<1> QED BY <1>1, <1>2, <1>3, <1>4 DEF LookupNext, Next


\* Also with handlers that look locations up the server exits with no thread left.
THEOREM LookupCleanExit == LookupSpec => []ExitIsClean
<1>1. [LookupNext]_allvars => [Next]_vars
  BY LookupIsInHandler DEF allvars
<1>2. LookupSpec => Spec
  BY <1>1, PTL DEF LookupSpec, LookupInit, Spec
<1> QED BY <1>2, CleanExit, PTL

\* No step of another thread takes a thread out of its handler.
LEMMA HandlersGoOn ==
    ASSUME IInv, NEW k \in Pool, thread[k] = "in_handler",
           \/ run \/ raise \/ handleStop \/ handleStop_next
           \/ \E j \in Pool : handlerStarts(j)
           \/ \E j \in Pool \ {k} : handlerEnds(j)
           \/ \E j \in IoThreads : threadEnds(j)
           \/ \E w \in Workers : workerTakesTask(w) \/ workerEndsTask(w) \/ workerEnds(w)
           \/ UNCHANGED vars
    PROVE  thread'[k] = "in_handler"
<1>0. /\ thread \in [IoThreads -> ThreadStates]
      /\ k \in IoThreads /\ k # 0
      /\ pc = "start_io" => thread[created] = "none"
  BY NumIoAssumption DEF IInv, TypeOK, RunInv, IoThreads, Pool
<1>1. CASE run
  BY <1>0, <1>1 DEF run, startMainIo, pushIoThread, startIoThread, start, runDb, startAccept, joinDb,
                    joinMainIo, joinIoThread
<1>2. CASE raise \/ handleStop \/ handleStop_next
  BY <1>0, <1>2 DEF raise, handleStop, handleStop_next
<1>3. CASE \/ \E j \in Pool : handlerStarts(j)
           \/ \E j \in Pool \ {k} : handlerEnds(j)
           \/ \E j \in IoThreads : threadEnds(j)
  BY <1>0, <1>3 DEF handlerStarts, handlerEnds, threadEnds
<1>4. CASE \/ \E w \in Workers : workerTakesTask(w) \/ workerEndsTask(w) \/ workerEnds(w)
           \/ UNCHANGED vars
  BY <1>4 DEF workerTakesTask, workerEndsTask, workerEnds, vars
<1> QED BY <1>1, <1>2, <1>3, <1>4

\* Steps that are no part of a lookup.
LEMMA OtherStepsKeep ==
    ASSUME LookupInv, UNCHANGED lookup,
           \A k \in Pool : thread[k] = "in_handler" => thread'[k] = "in_handler"
    PROVE  LookupInv'
<1>1. LookupTypes' /\ ConnInv' /\ SocketInv' /\ OverlapInv'
  BY DEF LookupInv, lookup, LookupTypes, ConnInv, SocketInv, Drained, OverlapInv, Calling
<1>2. CallInv'
  BY DEF LookupInv, lookup, CallInv
<1>3. LoneInv'
  BY DEF LookupInv, lookup, LoneInv, Drained, Progress
<1> QED BY <1>1, <1>2, <1>3 DEF LookupInv

\* A handler begins a lookup, and both it and those under way know of each other.
LEMMA UserCreateKeeps ==
    ASSUME IInv, LookupInv, NEW k \in Pool, userCreate(k)
    PROVE  LookupInv'
<1>0. /\ thread[k] = "running" /\ thread'[k] = "in_handler" /\ call[k] = "none"
      /\ \A j \in Pool : thread[j] = "in_handler" => thread'[j] = "in_handler"
      /\ call' = [call EXCEPT ![k] = "connect"]
      /\ lookups' = lookups + 1 /\ lookups < MaxLookups
      /\ UNCHANGED <<mine, at, result, conns, socket>>
  <2>1. handlerStarts(k) /\ thread[k] = "running" /\ thread'[k] = "in_handler"
    BY DEF userCreate, handlerStarts, IInv, TypeOK, IoThreads, Pool
  <2>2. \A j \in Pool : thread[j] = "in_handler" => thread'[j] = "in_handler"
    BY <2>1, HandlersGoOn
  <2> QED BY <2>1, <2>2 DEF userCreate, LookupInv, CallInv
<1>1. /\ overlapped' \in [Pool -> BOOLEAN]
      /\ \A j \in Pool \ {k} : overlapped'[j] = (overlapped[j] \/ Calling(j))
      /\ overlapped'[k] = (\E j \in Pool \ {k} : Calling(j))
  <2>1. PICK others : /\ others = {j \in Pool \ {k} : Calling(j)}
                      /\ overlapped' = [j \in Pool |-> IF j = k THEN others # {}
                                                       ELSE overlapped[j] \/ j \in others]
    BY DEF userCreate
  <2>2. \A j \in Pool \ {k} : j \in others <=> Calling(j)
    BY <2>1
  <2>3. overlapped \in [Pool -> BOOLEAN]
    BY DEF LookupInv, LookupTypes
  <2>4. \A j \in Pool : (IF j = k THEN others # {} ELSE overlapped[j] \/ j \in others) \in BOOLEAN
    BY <2>3
  <2>5. overlapped' \in [Pool -> BOOLEAN]
    BY <2>1, <2>4
  <2>6. overlapped'[k] = (\E j \in Pool \ {k} : Calling(j))
    BY <2>1, <2>2
  <2>7. \A j \in Pool \ {k} : overlapped'[j] = (overlapped[j] \/ Calling(j))
    BY <2>1, <2>2
  <2> QED BY <2>5, <2>6, <2>7
<1>2. call' \in [Pool -> {"none", "connect", "send", "read", "done"}]
      /\ call'[k] = "connect" /\ \A j \in Pool \ {k} : call'[j] = call[j]
  BY <1>0 DEF LookupInv, LookupTypes
<1>3. LookupTypes'
  BY <1>0, <1>1, <1>2, MaxLookupsAssumption DEF LookupInv, LookupTypes
<1>4. ConnInv' /\ SocketInv'
  BY <1>0, <1>2 DEF LookupInv, ConnInv, SocketInv, Drained
<1>5. CallInv'
  BY <1>0, <1>2 DEF LookupInv, CallInv
<1>6. OverlapInv'
  BY <1>1, <1>2 DEF LookupInv, OverlapInv, Calling
<1>7. LoneInv'
  <2>1. ASSUME NEW j \in Pool \ {k}, ~overlapped'[j] PROVE ~overlapped[j]
    BY <1>1, <2>1
  <2>2. mine[k] = 0 /\ result[k] = <<>> /\ at[k] = 0
    BY <1>0 DEF LookupInv, CallInv
  <2> QED BY <1>0, <1>2, <2>1, <2>2 DEF LookupInv, LoneInv, Drained, Progress
<1> QED BY <1>3, <1>4, <1>5, <1>6, <1>7 DEF LookupInv

\* A handler returns or throws: its locals are gone, and it was not reading.
LEMMA ClearLocalsKeeps ==
    ASSUME IInv, LookupInv, NEW k \in Pool, call[k] # "read", call[k] # "send", handlerEnds(k),
           clearLocals(k), socket' \in {0, socket}, UNCHANGED <<lookups, at, conns>>,
           \A j \in Pool : socket' # socket /\ Calling(j) /\ j # k => overlapped[j]
    PROVE  LookupInv'
<1>0. \A j \in Pool \ {k} : thread[j] = "in_handler" => thread'[j] = "in_handler"
  BY HandlersGoOn
<1>1. /\ call' \in [Pool -> {"none", "connect", "send", "read", "done"}]
      /\ mine' \in [Pool -> 0..Len(conns)] /\ result' \in [Pool -> Seq(Pool \X (1..2))]
      /\ overlapped' \in [Pool -> BOOLEAN]
      /\ call'[k] = "none" /\ mine'[k] = 0 /\ result'[k] = <<>> /\ at[k] = 0
      /\ \A j \in Pool \ {k} : /\ call'[j] = call[j] /\ mine'[j] = mine[j]
                               /\ result'[j] = result[j] /\ overlapped'[j] = overlapped[j]
  BY DEF clearLocals, LookupInv, LookupTypes, CallInv
<1>2. LookupTypes'
  BY <1>1 DEF LookupInv, LookupTypes
<1>3. ConnInv' /\ SocketInv'
  BY <1>1 DEF LookupInv, ConnInv, SocketInv, Drained
<1>4. CallInv' /\ OverlapInv'
  BY <1>0, <1>1 DEF LookupInv, CallInv, OverlapInv, Calling
<1>5. LoneInv'
  <2> SUFFICES ASSUME NEW j \in Pool \ {k}, call[j] # "none", ~overlapped[j]
               PROVE  LoneInv!(j)'
    BY <1>1 DEF LoneInv
  <2>1. socket' = socket \/ call[j] = "done"
    BY DEF Calling
  <2>2. at[j] \in {0, socket'}
    BY <2>1 DEF LookupInv, LoneInv, CallInv
  <2>3. /\ call'[j] = call[j] /\ mine'[j] = mine[j] /\ result'[j] = result[j]
        /\ overlapped'[j] = overlapped[j] /\ conns' = conns /\ at' = at
    BY <1>1
  <2>4. LoneInv!(j)
    BY DEF LookupInv, LoneInv
  <2>5. Progress(j, conns[mine[j]])' = Progress(j, conns[mine[j]]) /\ Drained(mine[j])' = Drained(mine[j])
    BY <2>3 DEF Progress, Drained
  <2> QED BY <2>1, <2>2, <2>3, <2>4, <2>5
<1> QED BY <1>2, <1>3, <1>4, <1>5 DEF LookupInv

\* The steps of connect: a name that does not resolve, or a connection of its own.
LEMMA ConnectKeeps ==
    ASSUME LookupInv, NEW k \in Pool, resolveFails(k) \/ connects(k)
    PROVE  LookupInv'
<1>0. /\ UNCHANGED vars /\ call[k] = "connect" /\ mine[k] = 0 /\ result[k] = <<>> /\ at[k] = 0
      /\ call' \in [Pool -> {"none", "connect", "send", "read", "done"}] /\ call'[k] = "send"
      /\ \A j \in Pool \ {k} : call'[j] = call[j]
      /\ UNCHANGED <<lookups, at, result, overlapped>>
  BY DEF resolveFails, connects, LookupInv, LookupTypes, CallInv
<1>1. OverlapInv'
  BY <1>0 DEF LookupInv, OverlapInv, Calling
<1>2. CASE resolveFails(k)
  <2>0. UNCHANGED <<mine, conns, socket>>
    BY <1>2 DEF resolveFails
  <2>1. LookupTypes' /\ ConnInv'
    BY <1>0, <2>0 DEF LookupInv, LookupTypes, ConnInv
  <2>2. SocketInv' /\ CallInv'
    BY <1>0, <2>0 DEF LookupInv, SocketInv, CallInv, Drained, vars
  <2>3. LoneInv'
    BY <1>0, <2>0 DEF LookupInv, LoneInv, Drained, Progress
  <2> QED BY <1>1, <2>1, <2>2, <2>3 DEF LookupInv
<1>3. CASE connects(k)
  <2>0. PICK c : c = [asked |-> <<>>, unread |-> 0, open |-> TRUE, answered |-> FALSE]
    OBVIOUS
  <2>1. c \in Conn /\ c.asked = <<>> /\ c.unread = 0 /\ c.open /\ ~c.answered
    BY <2>0 DEF Conn
  <2>2. conns \in Seq(Conn) /\ conns' = Append(conns, c)
    BY <1>3, <2>0 DEF connects, LookupInv, LookupTypes
  <2>3. /\ conns' \in Seq(Conn) /\ Len(conns') = Len(conns) + 1 /\ Len(conns) \in Nat
        /\ DOMAIN conns = 1..Len(conns) /\ DOMAIN conns' = 1..Len(conns')
        /\ \A j \in DOMAIN conns : conns'[j] = conns[j]
        /\ conns'[Len(conns')] = c
    BY <2>1, <2>2
  <2>4. /\ socket' = Len(conns') /\ mine' \in [Pool -> 0..Len(conns')] /\ mine'[k] = socket'
        /\ \A j \in Pool \ {k} : mine'[j] = mine[j]
    BY <1>3, <2>3 DEF connects, LookupInv, LookupTypes
  <2>5. LookupTypes'
    BY <1>0, <2>3, <2>4 DEF LookupInv, LookupTypes
  <2>6. ConnInv'
    BY <2>1, <2>3 DEF LookupInv, ConnInv
  <2>7. SocketInv' /\ CallInv'
    BY <1>0, <2>4 DEF LookupInv, SocketInv, CallInv, vars
  <2>8. LoneInv'
    <3>1. CASE Calling(k) /\ overlapped[k]
      <4> SUFFICES ASSUME NEW j \in Pool \ {k}, call[j] # "none", ~overlapped[j]
                   PROVE  LoneInv!(j)'
        BY <1>0, <3>1 DEF LoneInv
      <4>1. call[j] = "done"
        BY <3>1 DEF LookupInv, OverlapInv, Calling
      <4>2. at[j] = 0 /\ (mine[j] # 0 => mine[j] \in DOMAIN conns)
        BY <2>3, <4>1 DEF LookupInv, LookupTypes, CallInv
      <4> QED BY <1>0, <2>3, <2>4, <4>1, <4>2 DEF LookupInv, LoneInv, Drained, Progress
    <3>2. CASE ~overlapped[k]
      <4> SUFFICES ASSUME NEW j \in Pool, call'[j] # "none", ~overlapped[j]
                   PROVE  LoneInv!(j)'
        BY <1>0 DEF LoneInv
      <4>1. CASE j = k
        <5>1. Progress(k, c) = <<>>
          BY <2>1 DEF Progress
        <5> QED BY <1>0, <2>1, <2>3, <2>4, <4>1, <5>1 DEF Drained
      <4>2. CASE j # k
        <5>1. call[j] = "done"
          BY <1>0, <3>2, <4>2 DEF LookupInv, OverlapInv, Calling
        <5>2. at[j] = 0 /\ (mine[j] # 0 => mine[j] \in DOMAIN conns)
          BY <2>3, <5>1 DEF LookupInv, LookupTypes, CallInv
        <5> QED BY <1>0, <2>3, <2>4, <4>2, <5>1, <5>2 DEF LookupInv, LoneInv, Drained, Progress
      <4> QED BY <4>1, <4>2
    <3> QED BY <1>0, <3>1, <3>2 DEF Calling
  <2> QED BY <1>1, <2>5, <2>6, <2>7, <2>8 DEF LookupInv
<1> QED BY <1>2, <1>3

\* The fields of a connection, and those of an asked one.
LEMMA ConnFields ==
    ASSUME NEW c \in Conn
    PROVE  /\ c.asked \in Seq(Pool) /\ c.unread \in 0..2
           /\ c.open \in BOOLEAN /\ c.answered \in BOOLEAN
           /\ \A q \in Seq(Pool) : [c EXCEPT !.asked = q] \in Conn
BY DEF Conn



\* A connection the service has closed is one still.
LEMMA ConnAnswered ==
    ASSUME NEW c \in Conn, NEW o \in BOOLEAN, NEW u \in 0..2, NEW a \in BOOLEAN
    PROVE  [c EXCEPT !.open = o, !.unread = u, !.answered = a] \in Conn
BY DEF Conn

\* A request appended is not the empty sequence.
LEMMA AppendAsked ==
    ASSUME NEW q \in Seq(Pool), NEW k \in Pool
    PROVE  /\ Append(q, k) \in Seq(Pool)
           /\ Append(q, k) # <<>>
           /\ q = <<>> => Append(q, k) = <<k>>
<1>1. Len(Append(q, k)) = Len(q) + 1 /\ Len(q) \in Nat /\ Append(q, k) \in Seq(Pool)
  OBVIOUS
<1>2. Append(q, k) # <<>>
  BY <1>1
<1>3. Append(<<>>, k) = <<k>>
  OBVIOUS
<1> QED BY <1>1, <1>2, <1>3

\* The request reaches the service when the connection of _socket is still open.
LEMMA SendKeeps ==
    ASSUME LookupInv, NEW k \in Pool, send(k)
    PROVE  LookupInv'
<1>0. /\ UNCHANGED vars /\ call[k] = "send" /\ at[k] = 0
      /\ call' \in [Pool -> {"none", "connect", "send", "read", "done"}] /\ call'[k] = "read"
      /\ \A j \in Pool \ {k} : call'[j] = call[j]
      /\ UNCHANGED <<lookups, mine, at, result, overlapped, socket>>
  BY DEF send, LookupInv, LookupTypes, CallInv
<1>1. /\ conns \in Seq(Conn) /\ DOMAIN conns = 1..Len(conns) /\ Len(conns) \in Nat
      /\ socket # 0 => socket \in DOMAIN conns
  BY DEF LookupInv, LookupTypes
<1>2. /\ conns' \in Seq(Conn) /\ Len(conns') = Len(conns) /\ DOMAIN conns' = DOMAIN conns
      /\ \A j \in DOMAIN conns : j # socket => conns'[j] = conns[j]
      /\ \A j \in DOMAIN conns : /\ conns'[j].unread = conns[j].unread
                                 /\ conns'[j].open = conns[j].open
                                 /\ conns'[j].answered = conns[j].answered
                                 /\ conns'[j].asked = conns[j].asked
                                    \/ conns'[j].asked = Append(conns[j].asked, k)
  <2>1. CASE socket # 0 /\ conns[socket].open
    <3>0. conns[socket] \in Conn
      BY <1>1, <2>1
    <3>1. /\ conns[socket].asked \in Seq(Pool)
          /\ Append(conns[socket].asked, k) \in Seq(Pool)
      BY <3>0, ConnFields, AppendAsked
    <3>2. PICK c : c = [conns[socket] EXCEPT !.asked = Append(@, k)]
      OBVIOUS
    <3>3. /\ c \in Conn /\ c.asked = Append(conns[socket].asked, k)
          /\ c.unread = conns[socket].unread /\ c.open = conns[socket].open
          /\ c.answered = conns[socket].answered
      <4>1. c \in Conn
        BY <3>0, <3>1, <3>2, ConnFields
      <4> QED BY <3>0, <3>2, <4>1 DEF Conn
    <3>4. conns' = [conns EXCEPT ![socket] = c]
      BY <2>1, <3>2 DEF send
    <3>5. \A j \in DOMAIN conns : conns'[j] = IF j = socket THEN c ELSE conns[j]
      BY <1>1, <3>4
    <3>6. conns' \in Seq(Conn) /\ Len(conns') = Len(conns) /\ DOMAIN conns' = DOMAIN conns
      BY <1>1, <2>1, <3>3, <3>4
    <3> QED BY <3>3, <3>5, <3>6
  <2>2. CASE ~(socket # 0 /\ conns[socket].open)
    BY <1>1, <2>2 DEF send
  <2> QED BY <2>1, <2>2
<1>3. LookupTypes' /\ OverlapInv'
  BY <1>0, <1>2 DEF LookupInv, LookupTypes, OverlapInv, Calling
<1>4. ConnInv'
  <2>1. \A j \in DOMAIN conns : Append(conns[j].asked, k) # <<>>
    BY <1>1, ConnFields, AppendAsked
  <2> QED BY <1>1, <1>2, <2>1 DEF LookupInv, ConnInv
<1>5. SocketInv' /\ CallInv'
  BY <1>0, <1>1, <1>2 DEF LookupInv, SocketInv, CallInv, Drained, vars
<1>6. LoneInv'
  <2> SUFFICES ASSUME NEW j \in Pool, call'[j] # "none", ~overlapped[j]
               PROVE  LoneInv!(j)'
    BY <1>0 DEF LoneInv
  <2>0. mine[j] # 0 => mine[j] \in DOMAIN conns
    BY <1>1 DEF LookupInv, LookupTypes
  <2>1. CASE j = k
    <3>1. CASE mine[k] = 0
      BY <1>0, <2>1, <3>1 DEF LookupInv, LoneInv
    <3>2. CASE mine[k] # 0
      <4>1. conns[mine[k]].asked = <<>> /\ mine[k] = socket
            /\ result[k] = Progress(k, conns[mine[k]])
        BY <1>0, <2>1, <3>2 DEF LookupInv, LoneInv
      <4>2. Append(<<>>, k) = <<k>>
        BY AppendAsked
      <4>3. conns'[mine[k]].asked \in {<<>>, <<k>>}
        BY <1>2, <2>0, <2>1, <3>2, <4>1, <4>2
      <4> QED BY <1>0, <1>2, <2>0, <2>1, <3>2, <4>1, <4>3 DEF Progress
    <3> QED BY <3>1, <3>2
  <2>2. CASE j # k
    <3>1. call[j] = "done"
      BY <1>0, <2>2 DEF LookupInv, OverlapInv, Calling
    <3>2. at[j] = 0
      BY <3>1 DEF LookupInv, CallInv
    <3>3. CASE mine[j] = 0
      BY <1>0, <2>2, <3>1, <3>2, <3>3 DEF LookupInv, LoneInv
    <3>4. CASE mine[j] # 0
      <4>1. Drained(mine[j]) /\ LoneInv!(j)
        BY <3>1, <3>4 DEF LookupInv, LoneInv
      <4>2. conns'[mine[j]] = conns[mine[j]]
        BY <1>1, <2>0, <3>4, <4>1 DEF send, Drained
      <4> QED BY <1>0, <2>2, <3>1, <3>2, <3>4, <4>1, <4>2 DEF Drained, Progress
    <3> QED BY <3>3, <3>4
  <2> QED BY <2>1, <2>2
<1> QED BY <1>3, <1>4, <1>5, <1>6 DEF LookupInv

\* Two pieces in the order they were read.
LEMMA AppendTwo ==
    ASSUME NEW a, NEW b
    PROVE  Append(<<a>>, b) = <<a, b>>
<1>1. /\ Append(<<a>>, b) \in Seq({a, b}) /\ Len(Append(<<a>>, b)) = 2
      /\ Append(<<a>>, b)[1] = a /\ Append(<<a>>, b)[2] = b
  OBVIOUS
<1>2. <<a, b>> \in Seq({a, b}) /\ Len(<<a, b>>) = 2 /\ <<a, b>>[1] = a /\ <<a, b>>[2] = b
  OBVIOUS
<1>3. \A i \in 1..2 : Append(<<a>>, b)[i] = <<a, b>>[i]
  BY <1>1, <1>2
<1> QED BY <1>1, <1>2, <1>3, SeqEqual

\* One connection changes.
LEMMA ConnsExcept ==
    ASSUME conns \in Seq(Conn), NEW i \in DOMAIN conns, NEW c \in Conn,
           conns' = [conns EXCEPT ![i] = c]
    PROVE  /\ conns' \in Seq(Conn) /\ Len(conns') = Len(conns) /\ DOMAIN conns' = DOMAIN conns
           /\ conns'[i] = c
           /\ \A j \in DOMAIN conns : j # i => conns'[j] = conns[j]
OBVIOUS

\* read begins on the connection that _socket has at that time.
LEMMA ReadStartsKeeps ==
    ASSUME LookupInv, NEW k \in Pool, readStarts(k)
    PROVE  LookupInv'
<1>0. /\ UNCHANGED vars /\ call[k] = "read" /\ socket # 0
      /\ at' \in [Pool -> 0..Len(conns)] /\ at'[k] = socket
      /\ \A j \in Pool \ {k} : at'[j] = at[j]
      /\ UNCHANGED <<lookups, call, mine, result, overlapped, conns, socket>>
  BY DEF readStarts, LookupInv, LookupTypes
<1>1. LookupTypes' /\ ConnInv' /\ SocketInv' /\ OverlapInv'
  BY <1>0 DEF LookupInv, LookupTypes, ConnInv, SocketInv, Drained, OverlapInv, Calling
<1>2. CallInv'
  <2>1. socket >= mine[k]
    BY <1>0 DEF LookupInv, LookupTypes, SocketInv
  <2> QED BY <1>0, <2>1 DEF LookupInv, CallInv, vars
<1>3. LoneInv'
  BY <1>0 DEF LookupInv, LoneInv, Drained, Progress
<1> QED BY <1>1, <1>2, <1>3 DEF LookupInv

\* A thread that reads undisturbed reads from its own connection, or there is
\* nothing to read.
LEMMA LoneReader ==
    ASSUME LookupInv, NEW k \in Pool, at[k] # 0
    PROVE  /\ call[k] = "read" /\ at[k] \in DOMAIN conns
           /\ \A j \in Pool \ {k} : call[j] # "none" /\ ~overlapped[j] =>
                  call[j] = "done" /\ at[j] = 0
           /\ socket # 0 /\ mine[k] = socket => at[k] = socket
           /\ ~overlapped[k] /\ mine[k] # 0 => mine[k] = at[k] /\ at[k] = socket
           /\ ~overlapped[k] /\ mine[k] = 0 => Drained(at[k])
<1>1. call[k] = "read" /\ at[k] \in DOMAIN conns
  BY DEF LookupInv, LookupTypes, CallInv
<1>2. \A j \in Pool \ {k} : call[j] # "none" /\ ~overlapped[j] => call[j] = "done" /\ at[j] = 0
  BY <1>1 DEF LookupInv, OverlapInv, Calling, CallInv
<1>3. socket # 0 /\ mine[k] = socket => at[k] = socket
  BY <1>1 DEF LookupInv, LookupTypes, SocketInv, CallInv
<1>4. ~overlapped[k] /\ mine[k] # 0 => mine[k] = at[k] /\ at[k] = socket
  BY <1>1, <1>3 DEF LookupInv, LoneInv
<1>5. ASSUME ~overlapped[k], mine[k] = 0 PROVE Drained(at[k])
  <2>1. at[k] = socket
    BY <1>1, <1>5 DEF LookupInv, LoneInv
  <2>2. \A j \in Pool \ {k} : ~Calling(j)
    BY <1>1, <1>5 DEF LookupInv, OverlapInv, Calling
  <2> QED BY <1>5, <2>1, <2>2 DEF LookupInv, SocketInv, Calling
<1> QED BY <1>1, <1>2, <1>3, <1>4, <1>5

\* read_some returns a piece of an answer.
LEMMA ReadsPieceKeeps ==
    ASSUME LookupInv, NEW k \in Pool, readsPiece(k)
    PROVE  LookupInv'
<1>a. PICK i : i = at[k]
  OBVIOUS
<1>b. PICK c : c = [conns[i] EXCEPT !.unread = @ - 1]
  OBVIOUS
<1>c. PICK piece : piece = <<conns[i].asked[1], conns[i].unread>>
  OBVIOUS
<1>0. /\ UNCHANGED vars /\ i # 0 /\ conns[i].unread > 0
      /\ at' \in [Pool -> 0..Len(conns)] /\ at'[k] = 0
      /\ \A j \in Pool \ {k} : at'[j] = at[j]
      /\ UNCHANGED <<lookups, call, mine, overlapped, socket>>
  BY <1>a DEF readsPiece, moreAfterPiece, LookupInv, LookupTypes
<1>1. i \in DOMAIN conns /\ conns \in Seq(Conn) /\ conns[i] \in Conn /\ call[k] = "read"
  BY <1>a, <1>0, LoneReader DEF LookupInv, LookupTypes
<1>2. /\ conns[i].answered /\ ~conns[i].open /\ conns[i].asked # <<>>
      /\ conns[i].unread \in 1..2 /\ conns[i].asked \in Seq(Pool)
  BY <1>0, <1>1, ConnFields DEF LookupInv, ConnInv
<1>3. /\ c \in Conn /\ c.unread = conns[i].unread - 1 /\ c.asked = conns[i].asked
      /\ c.answered /\ ~c.open
  <2>1. conns[i] \in Conn /\ conns[i].unread - 1 \in 0..2
    BY <1>1, <1>2
  <2>2. /\ c \in Conn /\ c.asked = conns[i].asked /\ c.unread = conns[i].unread - 1
        /\ c.open = conns[i].open /\ c.answered = conns[i].answered
    BY <1>b, <2>1 DEF Conn
  <2> QED BY <1>2, <2>2
<1>4. conns' = [conns EXCEPT ![i] = c] /\ result' = [result EXCEPT ![k] = Append(@, piece)]
  BY <1>a, <1>b, <1>c DEF readsPiece
<1>5. /\ conns' \in Seq(Conn) /\ Len(conns') = Len(conns) /\ DOMAIN conns' = DOMAIN conns
      /\ conns'[i] = c
      /\ \A j \in DOMAIN conns : j # i => conns'[j] = conns[j]
  BY <1>1, <1>3, <1>4, ConnsExcept
<1>6. /\ result' \in [Pool -> Seq(Pool \X (1..2))] /\ result'[k] = Append(result[k], piece)
      /\ \A j \in Pool \ {k} : result'[j] = result[j]
  <2>1. conns[i].asked[1] \in Pool
    BY <1>2
  <2>2. piece \in Pool \X (1..2)
    BY <1>c, <1>2, <2>1
  <2>3. result \in [Pool -> Seq(Pool \X (1..2))] /\ result[k] \in Seq(Pool \X (1..2))
    BY DEF LookupInv, LookupTypes
  <2>4. Append(result[k], piece) \in Seq(Pool \X (1..2))
    BY <2>2, <2>3
  <2> QED BY <1>4, <2>3, <2>4
<1>7. LookupTypes' /\ OverlapInv'
  BY <1>0, <1>5, <1>6 DEF LookupInv, LookupTypes, OverlapInv, Calling
<1>8. ConnInv'
  BY <1>2, <1>3, <1>5 DEF LookupInv, ConnInv
<1>9. SocketInv' /\ CallInv'
  <2>1. Drained(socket) /\ socket # 0 => Drained(socket)'
    <3>1. socket # 0 => socket \in DOMAIN conns
      BY <1>1 DEF LookupInv, LookupTypes
    <3> QED BY <1>0, <1>5, <3>1 DEF Drained
  <2>2. SocketInv'
    BY <1>0, <1>5, <2>1 DEF LookupInv, SocketInv
  <2>3. CallInv'
    BY <1>0, <1>1, <1>6 DEF LookupInv, CallInv, vars
  <2> QED BY <2>2, <2>3
<1>10. LoneInv'
  <2> SUFFICES ASSUME NEW j \in Pool, call[j] # "none", ~overlapped[j]
               PROVE  LoneInv!(j)'
    BY <1>0 DEF LoneInv
  <2>0. LoneInv!(j) /\ (mine[j] # 0 => mine[j] \in DOMAIN conns)
    BY DEF LookupInv, LoneInv, LookupTypes
  <2>1. CASE j = k
    <3>1. mine[k] # 0
      BY <1>a, <1>0, <2>1, LoneReader DEF Drained
    <3>2. mine[k] = i /\ i = socket
      BY <1>a, <1>0, <2>1, <3>1, LoneReader
    <3>3. conns[i].asked = <<k>> /\ result[k] = Progress(k, conns[i])
      BY <1>2, <2>0, <2>1, <3>1, <3>2
    <3>4. piece = <<k, conns[i].unread>>
      BY <1>c, <3>3
    <3>5. result'[k] = Progress(k, c)
      <4>1. CASE conns[i].unread = 2
        <5>1. result[k] = <<>> /\ Progress(k, c) = <<<<k, 2>>>>
          BY <1>2, <1>3, <3>3, <4>1 DEF Progress
        <5>2. Append(<<>>, <<k, 2>>) = <<<<k, 2>>>>
          OBVIOUS
        <5> QED BY <1>6, <3>4, <4>1, <5>1, <5>2
      <4>2. CASE conns[i].unread = 1
        <5>1. result[k] = <<<<k, 2>>>> /\ Progress(k, c) = Whole(k)
          BY <1>2, <1>3, <3>3, <4>2 DEF Progress
        <5>2. Append(<<<<k, 2>>>>, <<k, 1>>) = <<<<k, 2>>, <<k, 1>>>>
          BY AppendTwo
        <5> QED BY <1>6, <3>4, <4>2, <5>1, <5>2 DEF Whole
      <4> QED BY <1>2, <4>1, <4>2
    <3> QED BY <1>0, <1>1, <1>3, <1>5, <2>1, <3>1, <3>2, <3>3, <3>5
  <2>2. CASE j # k
    <3>1. call[j] = "done" /\ at[j] = 0
      BY <1>a, <1>0, <2>2, LoneReader
    <3>2. mine[j] # 0 => Drained(mine[j]) /\ mine[j] # i
      BY <1>0, <2>0, <3>1 DEF Drained
    <3> QED BY <1>0, <1>5, <1>6, <2>0, <2>2, <3>1, <3>2 DEF Drained, Progress
  <2> QED BY <2>1, <2>2
<1> QED BY <1>7, <1>8, <1>9, <1>10 DEF LookupInv

\* read_some returns end of file, which ends the lookup.
LEMMA ReadsEofKeeps ==
    ASSUME LookupInv, NEW k \in Pool, readsEof(k)
    PROVE  LookupInv'
<1>0. /\ UNCHANGED vars /\ at[k] # 0 /\ Drained(at[k])
      /\ call' \in [Pool -> {"none", "connect", "send", "read", "done"}] /\ call'[k] = "done"
      /\ \A j \in Pool \ {k} : call'[j] = call[j]
      /\ at' \in [Pool -> 0..Len(conns)] /\ at'[k] = 0
      /\ \A j \in Pool \ {k} : at'[j] = at[j]
      /\ UNCHANGED <<lookups, mine, result, overlapped, conns, socket>>
  BY DEF readsEof, Drained, LookupInv, LookupTypes
<1>1. call[k] = "read"
  BY <1>0, LoneReader
<1>2. LookupTypes' /\ ConnInv' /\ OverlapInv'
  BY <1>0, <1>1 DEF LookupInv, LookupTypes, ConnInv, OverlapInv, Calling
<1>3. SocketInv'
  <2>1. mine[k] = socket /\ socket # 0 => Drained(socket)
    BY <1>0, LoneReader
  <2> QED BY <1>0, <2>1 DEF LookupInv, SocketInv, Drained
<1>4. CallInv'
  BY <1>0, <1>1 DEF LookupInv, CallInv, vars
<1>5. LoneInv'
  <2> SUFFICES ASSUME NEW j \in Pool, call'[j] # "none", ~overlapped[j]
               PROVE  LoneInv!(j)'
    BY <1>0 DEF LoneInv
  <2>0. LoneInv!(j)
    BY <1>0, <1>1 DEF LookupInv, LoneInv
  <2>1. CASE j = k
    <3>1. mine[k] # 0 => Drained(mine[k])
      BY <1>0, <2>1, LoneReader
    <3> QED BY <1>0, <1>1, <2>0, <2>1, <3>1 DEF Drained, Progress
  <2>2. CASE j # k
    BY <1>0, <2>0, <2>2 DEF Drained, Progress
  <2> QED BY <2>1, <2>2
<1> QED BY <1>2, <1>3, <1>4, <1>5 DEF LookupInv

\* The service answers or gives up: what a thread has read so far is not touched.
LEMMA ServiceKeeps ==
    ASSUME LookupInv, NEW i \in DOMAIN conns, answers(i) \/ gives_up(i)
    PROVE  LookupInv'
<1>0. UNCHANGED <<vars, lookups, call, mine, at, result, overlapped, socket>> /\ conns[i].open
  BY DEF answers, gives_up
<1>1. conns \in Seq(Conn) /\ conns[i] \in Conn
  BY DEF LookupInv, LookupTypes
<1>2. ~conns[i].answered /\ conns[i].unread = 0
  BY <1>0 DEF LookupInv, ConnInv
<1>3. PICK c \in Conn :
         /\ conns' = [conns EXCEPT ![i] = c]
         /\ c.asked = conns[i].asked /\ ~c.open
         /\ \/ c.answered /\ c.unread = 2 /\ c.asked # <<>>
            \/ ~c.answered /\ c.unread = 0
  <2>1. CASE answers(i)
    <3>1. PICK c : c = [conns[i] EXCEPT !.open = FALSE, !.unread = 2, !.answered = TRUE]
      OBVIOUS
    <3>2. c \in Conn /\ c.asked = conns[i].asked /\ ~c.open /\ c.answered /\ c.unread = 2
      <4>1. conns[i] \in Conn
        BY <1>1
      <4>2. c \in Conn
        <5>1. 2 \in 0..2
          OBVIOUS
        <5> QED BY <3>1, <4>1, <5>1, ConnAnswered, Zenon
      <4>3. c.asked = conns[i].asked /\ c.unread = 2 /\ c.open = FALSE /\ c.answered = TRUE
        BY <3>1, <4>1, Zenon DEF Conn
      <4> QED BY <4>2, <4>3
    <3>3. conns' = [conns EXCEPT ![i] = c] /\ conns[i].asked # <<>>
      BY <1>1, <2>1, <3>1 DEF answers
    <3> QED BY <3>2, <3>3
  <2>2. CASE gives_up(i)
    <3>1. PICK c : c = [conns[i] EXCEPT !.open = FALSE]
      OBVIOUS
    <3>2. c \in Conn /\ c.asked = conns[i].asked /\ ~c.open /\ ~c.answered /\ c.unread = 0
      BY <1>1, <1>2, <3>1 DEF Conn
    <3>3. conns' = [conns EXCEPT ![i] = c]
      BY <1>1, <2>2, <3>1 DEF gives_up
    <3> QED BY <3>2, <3>3
  <2> QED BY <2>1, <2>2
<1>4. /\ conns' \in Seq(Conn) /\ Len(conns') = Len(conns) /\ DOMAIN conns' = DOMAIN conns
      /\ conns'[i] = c
      /\ \A j \in DOMAIN conns : j # i => conns'[j] = conns[j]
  BY <1>1, <1>3, ConnsExcept
<1>5. LookupTypes' /\ OverlapInv' /\ CallInv'
  BY <1>0, <1>4 DEF LookupInv, LookupTypes, OverlapInv, Calling, CallInv, vars
<1>6. ConnInv'
  BY <1>3, <1>4 DEF LookupInv, ConnInv
<1>7. \A j \in DOMAIN conns : Drained(j) => j # i /\ Drained(j)'
  BY <1>0, <1>4 DEF Drained
<1>8. SocketInv'
  <2>1. socket # 0 => socket \in DOMAIN conns
    BY DEF LookupInv, LookupTypes
  <2> QED BY <1>0, <1>4, <1>7, <2>1 DEF LookupInv, SocketInv
<1>9. LoneInv'
  <2> SUFFICES ASSUME NEW j \in Pool, call[j] # "none", ~overlapped[j]
               PROVE  LoneInv!(j)'
    BY <1>0 DEF LoneInv
  <2>0. LoneInv!(j) /\ (mine[j] # 0 => mine[j] \in DOMAIN conns)
    BY DEF LookupInv, LoneInv, LookupTypes
  <2>1. CASE mine[j] = i
    <3>1. Progress(j, conns[i]) = <<>> /\ Progress(j, c) = <<>>
      BY <1>2, <1>3 DEF Progress
    <3> QED BY <1>0, <1>3, <1>4, <1>7, <2>0, <2>1, <3>1
  <2>2. CASE mine[j] # i
    BY <1>0, <1>4, <1>7, <2>0, <2>2
  <2> QED BY <2>1, <2>2
<1> QED BY <1>5, <1>6, <1>8, <1>9 DEF LookupInv

\* Every step keeps the invariants of the lifecycle and of the lookups.
LEMMA LookupInductive ==
    ASSUME IInv, LookupInv, [LookupNext]_allvars
    PROVE  IInv' /\ LookupInv'
<1>1. IInv'
  BY LookupIsInHandler, LifecycleInductive DEF allvars
<1>2. LookupInv'
  <2>1. CASE \/ (run \/ raise \/ handleStop \/ handleStop_next) /\ unchanged_lookup
             \/ \E k \in Pool : otherHandler(k)
             \/ \E k \in IoThreads : threadEnds(k) /\ unchanged_lookup
             \/ \E w \in Workers :
                   (workerTakesTask(w) \/ workerEndsTask(w) \/ workerEnds(w)) /\ unchanged_lookup
             \/ UNCHANGED allvars
    <3>1. UNCHANGED lookup
      BY <2>1 DEF unchanged_lookup, otherHandler, allvars
    <3>2. \A k \in Pool : thread[k] = "in_handler" => thread'[k] = "in_handler"
      BY <2>1, HandlersGoOn DEF otherHandler, allvars
    <3> QED BY <3>1, <3>2, OtherStepsKeep
  <2>2. ASSUME NEW k \in Pool, userCreate(k) PROVE LookupInv'
    BY <2>2, UserCreateKeeps
  <2>3. ASSUME NEW k \in Pool, endHandler(k) PROVE LookupInv'
    BY <2>3, ClearLocalsKeeps DEF endHandler, Calling
  <2>4. ASSUME NEW k \in Pool, connectThrows(k) PROVE LookupInv'
    <3>1. \A j \in Pool : Calling(j) /\ j # k => overlapped[j]
      BY <2>4 DEF connectThrows, Calling, LookupInv, OverlapInv
    <3> QED BY <2>4, <3>1, ClearLocalsKeeps DEF connectThrows, handlerThrows
  <2>5. ASSUME NEW k \in Pool, get_city_by_ip(k), ~connectThrows(k) PROVE LookupInv'
    BY <2>5, ConnectKeeps, SendKeeps, ReadStartsKeeps, ReadsPieceKeeps, ReadsEofKeeps
       DEF get_city_by_ip
  <2>6. CASE service
    BY <2>6, ServiceKeeps DEF service
  <2> QED BY <2>1, <2>2, <2>3, <2>4, <2>5, <2>6 DEF LookupNext
<1> QED BY <1>1, <1>2

\* The invariants hold in every state of the server with its lookups.
LEMMA LookupInvariant == LookupSpec => [](IInv /\ LookupInv)
<1>1. LookupInit => IInv /\ LookupInv
  <2> SUFFICES ASSUME LookupInit PROVE IInv /\ LookupInv
    OBVIOUS
  <2>1. IInv
    BY LifecycleInit DEF LookupInit
  <2>2. LookupTypes
    BY MaxLookupsAssumption DEF LookupInit, LookupTypes
  <2>3. ConnInv /\ SocketInv /\ CallInv /\ OverlapInv /\ LoneInv
    BY DEF LookupInit, ConnInv, SocketInv, CallInv, OverlapInv, Calling, LoneInv
  <2> QED BY <2>1, <2>2, <2>3 DEF LookupInv
<1> QED BY <1>1, LookupInductive, PTL DEF LookupSpec

\* A lookup keeps to its handler's thread and to connections that were opened.
THEOREM LookupTypeCorrect == LookupSpec => []LookupTypeOK
<1>1. IInv /\ LookupInv => LookupTypeOK
  <2> SUFFICES ASSUME IInv, LookupInv PROVE LookupTypeOK
    OBVIOUS
  <2>1. \A j \in DOMAIN conns : conns[j].unread \in 0..2 /\ conns[j].asked \in Seq(Pool)
    BY ConnFields DEF LookupInv, LookupTypes
  <2> QED BY <2>1 DEF IInv, LookupInv, LookupTypes, CallInv, LookupTypeOK
<1> QED BY <1>1, LookupInvariant, PTL

\* get_city_by_ip shares one socket without a lock, yet whoever runs alone reads its
\* own answer, whole, or nothing, whatever earlier lookups left behind in the socket.
THEOREM LoneLookupCorrect == LookupSpec => []LoneLookup
<1>1. LookupInv => LoneLookup
  <2> SUFFICES ASSUME LookupInv, NEW k \in Pool, call[k] = "done", ~overlapped[k]
               PROVE  result[k] = IF mine[k] # 0 /\ conns[mine[k]].answered THEN Whole(k) ELSE <<>>
    BY DEF LoneLookup
  <2>1. LoneInv!(k)
    BY DEF LookupInv, LoneInv
  <2> QED BY <2>1 DEF Drained, Progress
<1> QED BY <1>1, LookupInvariant, PTL
================================================================================
