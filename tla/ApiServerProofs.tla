---------------------------- MODULE ApiServerProofs ----------------------------
(* Proofs about ApiServer for any connections, workers and bounds: a        *)
(* connection that did not turn idle has one operation pending at a time    *)
(* and one response for each request.                                       *)
EXTENDS ApiServer, TLAPS

\* What the two properties say of one connection.
Good(c) == ~idled[c] => Serial(c) /\ RepliesMatch(c)

\* The inductive invariant.  Serial and RepliesMatch hold each other up: a request
\* is read only when nothing is pending, which is when all replies are out.
IInv == TypeOK /\ \A c \in Conns : Good(c)

--------------------------------------------------------------------------------
(* The queue *)

\* The queue after putTask: one more task, for t.conn.
LEMMA PutTask ==
    ASSUME TypeOK, NEW t \in Task, putTask(t)
    PROVE  /\ queue' \in Seq(Task)
           /\ \A i : i \in DOMAIN queue' <=> i \in DOMAIN queue \/ i = Len(queue) + 1
           /\ \A i \in DOMAIN queue : queue'[i] = queue[i]
           /\ queue'[Len(queue) + 1] = t
BY DEF TypeOK, putTask

\* A connection whose own state a step leaves alone stays good when its tasks are
\* the same.
LEMMA Untouched ==
    ASSUME NEW c \in Conns, Good(c),
           reads'[c] = reads[c], writes'[c] = writes[c],
           peer'[c] = "connecting" => peer[c] = "connecting",
           armed'[c] = armed[c], expired'[c] = expired[c],
           idled'[c] = idled[c], taken'[c] = taken[c], replied'[c] = replied[c],
           looping'[c] = looping[c],
           \A i : i \in Queued(c)' <=> i \in Queued(c),
           \A i \in Queued(c) : queue'[i] = queue[i],
           \A w : w \in Processed(c)' <=> w \in Processed(c),
           \A w \in Processed(c) : working'[w] = working[w]
    PROVE  Good(c)'
<1>1. InWork(c)' <=> InWork(c)
  BY DEF InWork
<1>2. Pending(c)' = Pending(c)
  BY DEF Pending
<1>3. Serial(c) => Serial(c)'
  BY <1>1, <1>2 DEF Serial
<1>4. RepliesMatch(c) => RepliesMatch(c)'
  BY <1>1, <1>2 DEF RepliesMatch
<1> QED BY <1>3, <1>4 DEF Good

\* A step that leaves the queue and the workers alone leaves the tasks alone.
LEMMA SameTasks ==
    ASSUME UNCHANGED tasks, NEW c \in Conns
    PROVE  /\ \A i : i \in Queued(c)' <=> i \in Queued(c)
           /\ \A i \in Queued(c) : queue'[i] = queue[i]
           /\ \A w : w \in Processed(c)' <=> w \in Processed(c)
           /\ \A w \in Processed(c) : working'[w] = working[w]
           /\ InWork(c)' <=> InWork(c)
BY DEF tasks, Queued, Processed, InWork

\* Putting a task of another connection leaves a connection's tasks alone.
LEMMA OthersTask ==
    ASSUME TypeOK, NEW t \in Task, putTask(t), UNCHANGED working, NEW c \in Conns, t.conn # c
    PROVE  /\ \A i : i \in Queued(c)' <=> i \in Queued(c)
           /\ \A i \in Queued(c) : queue'[i] = queue[i]
           /\ \A w : w \in Processed(c)' <=> w \in Processed(c)
           /\ \A w \in Processed(c) : working'[w] = working[w]
BY PutTask DEF Queued, Processed

--------------------------------------------------------------------------------
(* Types *)

\* startWrite adds one write of its kind to its connection and changes no other.
LEMMA WriteType ==
    ASSUME TypeOK, NEW c \in Conns, NEW k \in WriteKinds, startWrite(c, k)
    PROVE  /\ writes' \in [Conns -> [WriteKinds -> Nat]]
           /\ \A d \in Conns : d # c => writes'[d] = writes[d]
           /\ writes'[c][k] = writes[c][k] + 1
           /\ \A l \in WriteKinds : l # k => writes'[c][l] = writes[c][l]
BY DEF TypeOK, startWrite

\* endWrite takes one write of its kind from its connection and changes no other.
LEMMA EndWriteType ==
    ASSUME TypeOK, NEW c \in Conns, NEW k \in WriteKinds, endWrite(c, k)
    PROVE  /\ writes' \in [Conns -> [WriteKinds -> Nat]]
           /\ \A d \in Conns : d # c => writes'[d] = writes[d]
           /\ writes'[c][k] = writes[c][k] - 1
           /\ writes[c][k] > 0
           /\ \A l \in WriteKinds : l # k => writes'[c][l] = writes[c][l]
BY DEF TypeOK, endWrite

\* What routing a request leaves to the variables it may change.
Routes(c, req) ==
    \/ reject(c, req) \/ startIdle(c, req) \/ submit(c, req)
    \/ locationThrows(c, req) \/ locationLoops(c, req)

\* Routing a request keeps the types.
LEMMA RouteType ==
    ASSUME TypeOK, NEW c \in Conns, NEW req \in Requests, req.resource # "malformed", Routes(c, req)
    PROVE  /\ command' \in [Conns -> Commands] /\ auth' \in [Conns -> BOOLEAN]
           /\ writes' \in [Conns -> [WriteKinds -> Nat]]
           /\ armed' \in [Conns -> BOOLEAN] /\ expired' \in [Conns -> Nat]
           /\ queue' \in Seq(Task)
           /\ idled' \in [Conns -> BOOLEAN] /\ replied' \in [Conns -> Nat]
<1>3. req \in Request
  BY RequestsAssumption
<1>5. /\ command' \in [Conns -> Commands]
      /\ auth' \in [Conns -> BOOLEAN]
  <2>1. CASE parse_meta(c, req)
    <3>1. command' \in [Conns -> Commands]
      BY <1>3, <2>1 DEF TypeOK, parse_meta, Request, Resources, Commands
    <3>2. parsedAuth(c, req) \subseteq BOOLEAN
      BY <1>3 DEF parsedAuth, TypeOK, Request
    <3>3. auth' \in [Conns -> BOOLEAN]
      BY <2>1, <3>2 DEF TypeOK, parse_meta
    <3> QED BY <3>1, <3>3
  <2>2. CASE locationThrows(c, req) \/ locationLoops(c, req)
    BY <2>2 DEF TypeOK, locationThrows, locationLoops
  <2> QED BY <2>1, <2>2 DEF Routes, reject, startIdle, submit
<1>6. /\ writes' \in [Conns -> [WriteKinds -> Nat]]
      /\ armed' \in [Conns -> BOOLEAN] /\ expired' \in [Conns -> Nat]
      /\ queue' \in Seq(Task)
      /\ idled' \in [Conns -> BOOLEAN] /\ replied' \in [Conns -> Nat]
  <2>1. CASE reject(c, req)
    <3>1. startWrite(c, "response")
      BY <2>1 DEF reject, respond
    <3>2. replied' \in [Conns -> Nat]
      BY <2>1 DEF reject, respond, TypeOK
    <3> QED BY <2>1, <3>1, <3>2, WriteType DEF TypeOK, reject, timer, WriteKinds
  <2>2. CASE startIdle(c, req)
    <3>1. startWrite(c, "ack")
      BY <2>2 DEF startIdle
    <3>2. armed' \in [Conns -> BOOLEAN] /\ idled' \in [Conns -> BOOLEAN]
      BY <2>2 DEF startIdle, TypeOK
    <3> QED BY <2>2, <3>1, <3>2, WriteType DEF TypeOK, startIdle, WriteKinds
  <2>3. CASE submit(c, req)
    <3>1. [conn |-> c, cmd |-> req.resource, auth |-> req.auth, ping |-> FALSE] \in Task
      BY <1>3, <2>3 DEF submit, Task, Commands, Request
    <3> QED BY <2>3, <3>1, PutTask DEF TypeOK, submit, timer
  <2>4. CASE locationThrows(c, req) \/ locationLoops(c, req)
    BY <2>4 DEF TypeOK, locationThrows, locationLoops, timer
  <2> QED BY <2>1, <2>2, <2>3, <2>4 DEF Routes
<1> QED BY <1>5, <1>6

\* Reading and routing a request keeps the types.
LEMMA RequestReadType ==
    ASSUME TypeOK, NEW c \in Conns, requestFromClientReadHandler(c)
    PROVE  TypeOK'
<1>1. PICK req : req = Head(inbox[c])
  OBVIOUS
<1>2. inbox[c] \in Seq(Requests) /\ inbox[c] # <<>>
  BY DEF TypeOK, requestFromClientReadHandler
<1>3. req \in Requests /\ Tail(inbox[c]) \in Seq(Requests)
  BY <1>1, <1>2
<1>4. /\ req.resource # "malformed"
      /\ reads' \in [Conns -> Nat]
      /\ inbox' \in [Conns -> Seq(Requests)]
      /\ taken' \in [Conns -> Nat]
  BY <1>1, <1>2, <1>3 DEF TypeOK, requestFromClientReadHandler
<1>5. Routes(c, req)
  BY <1>1 DEF requestFromClientReadHandler, Routes
<1>6. looping' \in [Conns -> Lookups \cup {NoTask}]
  BY <1>1 DEF requestFromClientReadHandler, locationLoops, TypeOK
<1>7. UNCHANGED <<peer, sent, pingDue, working, io, readError>>
  BY DEF requestFromClientReadHandler
<1> QED BY <1>3, <1>4, <1>5, <1>6, <1>7, RouteType DEF TypeOK

\* A handler that loops is that of a request that can be routed.
LEMMA LocationReturnsType ==
    ASSUME TypeOK, NEW c \in Conns, locationReturns(c)
    PROVE  TypeOK'
<1>1. PICK req \in Requests : req = looping[c] /\ req.resource # "malformed"
  BY DEF TypeOK, locationReturns, Lookups
<1>2. Routes(c, req)
  BY <1>1 DEF locationReturns, Routes
<1>3. looping' \in [Conns -> Lookups \cup {NoTask}]
  BY DEF TypeOK, locationReturns
<1>4. UNCHANGED <<peer, sent, inbox, reads, pingDue, working, io, taken, readError>>
  BY DEF locationReturns
<1> QED BY <1>1, <1>2, <1>3, <1>4, RouteType DEF TypeOK

\* getTask takes the first task: the others move up by one.
LEMMA GetTask ==
    ASSUME TypeOK, NEW w \in Workers, getTask(w)
    PROVE  /\ Len(queue) \in Nat /\ Len(queue) > 0
           /\ queue[1] \in Task /\ queue[1] # NoTask
           /\ working' = [working EXCEPT ![w] = queue[1]]
           /\ queue' \in Seq(Task)
           /\ DOMAIN queue = 1..Len(queue)
           /\ DOMAIN queue' = 1..(Len(queue) - 1)
           /\ \A i \in DOMAIN queue' : queue'[i] = queue[i + 1]
<1>1. /\ queue \in Seq(Task) /\ queue # <<>>
      /\ queue' = Tail(queue)
      /\ working' = [working EXCEPT ![w] = Head(queue)]
  BY DEF TypeOK, getTask
<1>2. Len(queue) \in Nat /\ Len(queue) > 0 /\ Head(queue) = queue[1] /\ queue[1] \in Task
  BY <1>1
<1> QED BY <1>1, <1>2, NoTaskAssumption

\* The task a worker has is a task, of one of the connections.
LEMMA TaskInWork ==
    ASSUME TypeOK, NEW w \in Workers, working[w] # NoTask
    PROVE  working[w] \in Task /\ working[w].conn \in Conns
BY DEF TypeOK, Task

\* Every action keeps the types.
LEMMA TypeInductive ==
    ASSUME TypeOK, [Next]_vars
    PROVE  TypeOK'
<1>1. CASE UNCHANGED vars
  BY <1>1 DEF TypeOK, vars, conn, timer, tasks, thread, history
<1>2. ASSUME NEW c \in Conns, ConnStep(c) PROVE TypeOK'
  <2>1. CASE handshakeDone(c)
    BY <2>1 DEF TypeOK, handshakeDone, timer, tasks, thread, history
  <2>2. CASE handshakeFails(c)
    BY <2>2 DEF TypeOK, handshakeFails, timer, tasks, thread
  <2>3. ASSUME NEW req \in Requests, peerSends(c, req) PROVE TypeOK'
    <3>1. sent' \in 0..MaxRequests
      BY <2>3, BoundsAssumption DEF TypeOK, peerSends
    <3>2. inbox' \in [Conns -> Seq(Requests)]
      BY <2>3 DEF TypeOK, peerSends
    <3> QED BY <2>3, <3>1, <3>2 DEF TypeOK, peerSends, timer, tasks, thread, history
  <2>4. CASE peerCloses(c)
    BY <2>4 DEF TypeOK, peerCloses, timer, tasks, thread, history
  <2>5. CASE requestFromClientReadHandler(c)
    BY <2>5, RequestReadType
  <2>14. CASE locationReturns(c)
    BY <2>14, LocationReturnsType
  <2>6. CASE readFails(c)
    <3>1. inbox' \in [Conns -> Seq(Requests)]
      <4>1. CASE UNCHANGED inbox
        BY <4>1 DEF TypeOK
      <4>2. CASE inbox[c] # <<>> /\ inbox' = [inbox EXCEPT ![c] = Tail(@)]
        <5>1. inbox[c] \in Seq(Requests)
          BY DEF TypeOK
        <5>2. Tail(inbox[c]) \in Seq(Requests)
          BY <4>2, <5>1
        <5> QED BY <4>2, <5>2 DEF TypeOK
      <4> QED BY <2>6, <4>1, <4>2 DEF readFails
    <3>2. /\ reads' = [reads EXCEPT ![c] = @ - 1] /\ reads[c] > 0
          /\ readError' = [readError EXCEPT ![c] = TRUE]
          /\ UNCHANGED <<peer, sent, writes, pingDue, command, auth, timer, tasks, thread,
                         taken, replied, idled>>
      BY <2>6 DEF readFails
    <3>3. reads' \in [Conns -> Nat]
      BY <3>2 DEF TypeOK
    <3>4. readError' \in [Conns -> BOOLEAN]
      BY <3>2 DEF TypeOK
    <3>5. UNCHANGED <<peer, sent, writes, pingDue, command, auth, armed, expired, queue, working, io,
                      looping, taken, replied, idled>>
      BY <3>2 DEF timer, tasks, thread
    <3> QED BY <3>1, <3>3, <3>4, <3>5 DEF TypeOK
  <2>7. CASE responseToClientWroteHandler(c)
    <3>1. endWrite(c, "response") /\ "response" \in WriteKinds
      BY <2>7 DEF responseToClientWroteHandler, WriteKinds
    <3>2. writes' \in [Conns -> [WriteKinds -> Nat]]
      BY <3>1, EndWriteType
    <3>3. reads' \in [Conns -> Nat]
      BY <2>7 DEF TypeOK, responseToClientWroteHandler
    <3>4. UNCHANGED <<peer, sent, inbox, pingDue, command, auth, armed, expired, queue, working, io,
                      looping, taken, replied, idled, readError>>
      BY <2>7 DEF responseToClientWroteHandler, timer, tasks, thread, history
    <3> QED BY <3>2, <3>3, <3>4 DEF TypeOK
  <2>8. CASE idleAckWrote(c)
    <3>1. endWrite(c, "ack") /\ "ack" \in WriteKinds
      BY <2>8 DEF idleAckWrote, WriteKinds
    <3> QED BY <2>8, <3>1, EndWriteType DEF TypeOK, idleAckWrote, timer, tasks, thread, history
  <2>9. CASE messagesWrote(c)
    <3>1. endWrite(c, "messages") /\ "messages" \in WriteKinds
      BY <2>9 DEF messagesWrote, WriteKinds
    <3> QED BY <2>9, <3>1, EndWriteType DEF TypeOK, messagesWrote, timer, tasks, thread, history
  <2>10. CASE messagesFail(c)
    <3>1. endWrite(c, "messages") /\ "messages" \in WriteKinds
      BY <2>10 DEF messagesFail, WriteKinds
    <3> QED BY <2>10, <3>1, EndWriteType DEF TypeOK, messagesFail, tasks, thread, history
  <2>11. CASE timerExpires(c)
    BY <2>11 DEF TypeOK, timerExpires, conn, tasks, thread, history
  <2>12. CASE timerWaitTaskResultHandler(c)
    <3>1. [conn |-> c, cmd |-> command[c], auth |-> auth[c], ping |-> pingDue[c]] \in Task
      BY DEF TypeOK, Task
    <3>2. queue' \in Seq(Task)
      BY <2>12, <3>1, PutTask DEF timerWaitTaskResultHandler
    <3> QED BY <2>12, <3>2 DEF TypeOK, timerWaitTaskResultHandler, thread, history
  <2>13. CASE pingBecomesDue(c)
    BY <2>13 DEF TypeOK, pingBecomesDue, timer, tasks, thread, history
  <2> QED BY <1>2, <2>1, <2>2, <2>3, <2>4, <2>5, <2>6, <2>7, <2>8, <2>9, <2>10,
             <2>11, <2>12, <2>13, <2>14 DEF ConnStep
<1>3. ASSUME NEW w \in Workers, getTask(w) PROVE TypeOK'
  BY <1>3, GetTask DEF TypeOK, getTask, conn, timer, thread, history
<1>4. ASSUME NEW w \in Workers, processTask(w) PROVE TypeOK'
  <2>1. PICK t : t = working[w]
    OBVIOUS
  <2>2. t \in Task /\ t.conn \in Conns
    BY <1>4, <2>1, TaskInWork DEF processTask
  <2>3. ASSUME finish(w) PROVE working' \in [Workers -> Task \cup {NoTask}]
    BY <2>3 DEF TypeOK, finish
  <2>4. CASE sendAnswer(w, t)
    <3>1. startWrite(t.conn, "response") /\ "response" \in WriteKinds
      BY <2>4 DEF sendAnswer, respond, WriteKinds
    <3>2. replied' \in [Conns -> Nat]
      BY <2>2, <2>4 DEF sendAnswer, respond, TypeOK
    <3> QED BY <2>2, <2>3, <2>4, <3>1, <3>2, WriteType DEF TypeOK, sendAnswer, timer, thread
  <2>5. CASE sendMessagesToIdleConn(w, t)
    <3>1. startWrite(t.conn, "messages") /\ "messages" \in WriteKinds
      BY <2>5 DEF sendMessagesToIdleConn, WriteKinds
    <3> QED BY <2>2, <2>3, <2>5, <3>1, WriteType
            DEF TypeOK, sendMessagesToIdleConn, timer, thread, history
  <2>6. CASE noAnswer(w, t)
    BY <2>3, <2>6 DEF TypeOK, noAnswer, conn, timer, thread, history
  <2> QED BY <1>4, <2>1, <2>4, <2>5, <2>6 DEF processTask
<1> QED BY <1>1, <1>2, <1>3, <1>4 DEF Next

\* Every variable keeps its type: the counters of pending operations never run
\* below zero, and the tasks are those of connections.
THEOREM ApiTypeCorrect == Spec => []TypeOK
<1>1. Init => TypeOK
  BY BoundsAssumption DEF Init, TypeOK, Commands
<1>2. TypeOK /\ [Next]_vars => TypeOK'
  BY TypeInductive
<1> QED BY <1>1, <1>2, PTL DEF Spec

--------------------------------------------------------------------------------
(* A step of one connection *)

\* A handler of a connection leaves the other connections good: it changes its own
\* fields, and the tasks it adds are its own.
LEMMA OthersKeep ==
    ASSUME TypeOK, NEW c \in Conns, ConnStep(c), NEW d \in Conns, d # c, Good(d)
    PROVE  Good(d)'
<1>1. /\ reads'[d] = reads[d] /\ peer'[d] = peer[d]
      /\ armed'[d] = armed[d] /\ expired'[d] = expired[d]
      /\ idled'[d] = idled[d] /\ taken'[d] = taken[d] /\ replied'[d] = replied[d]
      /\ writes'[d] = writes[d] /\ looping'[d] = looping[d]
  BY DEF TypeOK, ConnStep, handshakeDone, handshakeFails, peerSends, peerCloses,
         requestFromClientReadHandler, reject, startIdle, submit, locationThrows, respond,
         locationLoops, locationReturns,
         startWrite, endWrite, readFails, responseToClientWroteHandler, idleAckWrote,
         messagesWrote, messagesFail, timerExpires, timerWaitTaskResultHandler,
         pingBecomesDue, conn, timer, tasks, thread, history
<1>2. \/ UNCHANGED tasks
      \/ UNCHANGED working /\ \E t \in Task : putTask(t) /\ t.conn = c
  <2>1. CASE requestFromClientReadHandler(c)
    <3>1. PICK req : req = Head(inbox[c])
      OBVIOUS
    <3>2. req \in Request
      BY <2>1, <3>1, RequestsAssumption DEF TypeOK, requestFromClientReadHandler
    <3>3. CASE submit(c, req)
      <4>1. [conn |-> c, cmd |-> req.resource, auth |-> req.auth, ping |-> FALSE] \in Task
        BY <3>2, <3>3 DEF submit, Task, Commands, Request
      <4> QED BY <2>1, <3>3, <4>1 DEF submit, requestFromClientReadHandler
    <3> QED BY <2>1, <3>1, <3>3
            DEF requestFromClientReadHandler, reject, startIdle, locationThrows, locationLoops, tasks
  <2>3. CASE locationReturns(c)
    <3>1. PICK req : req = looping[c] /\ req \in Request
      BY <2>3, RequestsAssumption DEF TypeOK, locationReturns, Lookups
    <3>2. CASE submit(c, req)
      <4>1. [conn |-> c, cmd |-> req.resource, auth |-> req.auth, ping |-> FALSE] \in Task
        BY <3>1, <3>2 DEF submit, Task, Commands, Request
      <4> QED BY <2>3, <3>2, <4>1 DEF submit, locationReturns
    <3> QED BY <2>3, <3>1, <3>2 DEF locationReturns, reject, locationThrows, tasks
  <2>2. CASE timerWaitTaskResultHandler(c)
    <3>1. [conn |-> c, cmd |-> command[c], auth |-> auth[c], ping |-> pingDue[c]] \in Task
      BY DEF TypeOK, Task
    <3> QED BY <2>2, <3>1 DEF timerWaitTaskResultHandler
  <2> QED
    BY <2>1, <2>2, <2>3
       DEF ConnStep, handshakeDone, handshakeFails, peerSends, peerCloses, readFails,
           responseToClientWroteHandler, idleAckWrote, messagesWrote, messagesFail,
           timerExpires, pingBecomesDue
<1>3. CASE UNCHANGED tasks
  BY <1>1, <1>3, SameTasks, Untouched
<1>4. ASSUME NEW t \in Task, UNCHANGED working, putTask(t), t.conn = c PROVE Good(d)'
  BY <1>1, <1>4, OthersTask, Untouched
<1> QED BY <1>2, <1>3, <1>4

\* A step in which a connection that is not idle has a request to route and nothing
\* else to do.
AtRequest(c) ==
    /\ ~idled[c] /\ ~InWork(c) /\ Serial(c)
    /\ reads'[c] = 0 /\ writes[c]["response"] = 0
    /\ replied[c] \in Nat /\ taken'[c] = replied[c] + 1
    /\ peer' = peer /\ peer[c] # "connecting" /\ working' = working

\* Routing the request leaves the connection good.
LEMMA RouteKeeps ==
    ASSUME TypeOK, NEW c \in Conns, NEW req \in Request, AtRequest(c), Routes(c, req),
           looping'[c] = NoTask \/ locationLoops(c, req), ~idled'[c]
    PROVE  Serial(c)' /\ RepliesMatch(c)'
<1>1. /\ ~idled[c] /\ ~InWork(c) /\ Serial(c)
      /\ reads'[c] = 0 /\ writes[c]["response"] = 0
      /\ replied[c] \in Nat /\ taken'[c] = replied[c] + 1
      /\ peer' = peer /\ peer[c] # "connecting" /\ working' = working
  BY DEF AtRequest
<1>2. /\ \A k \in WriteKinds : writes[c][k] \in Nat
      /\ "response" \in WriteKinds /\ "ack" \in WriteKinds /\ "messages" \in WriteKinds
  BY DEF TypeOK, WriteKinds
<1>3. CASE reject(c, req)
  <2>1. startWrite(c, "response") /\ replied'[c] = replied[c] + 1
    BY <1>1, <1>3 DEF reject, respond, TypeOK
  <2>2. /\ writes'[c]["response"] = 1
        /\ writes'[c]["ack"] = writes[c]["ack"]
        /\ writes'[c]["messages"] = writes[c]["messages"]
    BY <1>1, <1>2, <2>1, WriteType
  <2>3. UNCHANGED tasks /\ UNCHANGED timer
    BY <1>1, <1>3 DEF reject, tasks
  <2>4. looping'[c] = NoTask
    BY <1>1, <2>1 DEF locationLoops
  <2>5. Pending(c)' = 1 /\ ~InWork(c)'
    BY <1>1, <2>2, <2>3, SameTasks DEF Pending
  <2>6. Serial(c)'
    BY <1>1, <2>2, <2>3, <2>4, <2>5, SameTasks DEF Serial, timer
  <2>7. RepliesMatch(c)'
    BY <1>1, <2>1, <2>4, <2>5 DEF RepliesMatch
  <2> QED BY <2>6, <2>7
<1>4. CASE startIdle(c, req)
  BY <1>4 DEF startIdle, TypeOK
<1>5. CASE submit(c, req)
  <2>1. PICK t : t = [conn |-> c, cmd |-> req.resource, auth |-> req.auth, ping |-> FALSE]
    OBVIOUS
  <2>2. t \in Task /\ t.conn = c /\ t.cmd # "idle"
    BY <1>5, <2>1 DEF submit, Task, Commands, Request
  <2>3. putTask(t) /\ UNCHANGED <<writes, timer, replied>>
    BY <1>5, <2>1 DEF submit
  <2>4. looping'[c] = NoTask
    BY <2>2, <2>3, PutTask DEF locationLoops
  <2>5. \A i : i \in Queued(c)' <=> i = Len(queue) + 1
    BY <1>1, <2>2, <2>3, PutTask DEF Queued, InWork
  <2>6. \A w : w \notin Processed(c)'
    BY <1>1 DEF Processed, InWork
  <2>7. Pending(c)' = 0
    BY <1>1, <2>3 DEF Pending
  <2>8. Serial(c)'
    BY <1>1, <2>2, <2>3, <2>4, <2>5, <2>6, <2>7, PutTask DEF Serial, timer
  <2>9. RepliesMatch(c)'
    BY <1>1, <2>3, <2>7 DEF RepliesMatch
  <2> QED BY <2>8, <2>9
<1>6. CASE locationThrows(c, req) \/ locationLoops(c, req)
  <2>1. UNCHANGED <<tasks, timer, writes, replied>>
    BY <1>1, <1>6 DEF locationThrows, locationLoops, tasks
  <2>2. Pending(c)' = 0 /\ ~InWork(c)'
    BY <1>1, <2>1, SameTasks DEF Pending
  <2>3. Serial(c)'
    BY <1>1, <2>1, <2>2, SameTasks DEF Serial, timer
  <2>4. RepliesMatch(c)'
    BY <1>1, <2>1, <2>2 DEF RepliesMatch
  <2> QED BY <2>3, <2>4
<1> QED BY <1>3, <1>4, <1>5, <1>6 DEF Routes

\* A handler leaves its own connection good: a read is pending only when nothing
\* else is, and only a connection that turned idle has timers and polls.
LEMMA OwnKeeps ==
    ASSUME TypeOK, NEW c \in Conns, ConnStep(c), Good(c)
    PROVE  Good(c)'
<1> SUFFICES ASSUME ~idled'[c]
             PROVE  Serial(c)' /\ RepliesMatch(c)'
  BY DEF Good
<1>1. idled[c] => idled'[c]
  BY DEF TypeOK, ConnStep, handshakeDone, handshakeFails, peerSends, peerCloses,
         requestFromClientReadHandler, reject, startIdle, submit, locationThrows,
         locationLoops, locationReturns, readFails, responseToClientWroteHandler, idleAckWrote, messagesWrote,
         messagesFail, timerExpires, timerWaitTaskResultHandler, pingBecomesDue, history
<1>2. ~idled[c] /\ Serial(c) /\ RepliesMatch(c)
  BY <1>1 DEF Good
<1>3. /\ reads[c] \in Nat /\ \A k \in WriteKinds : writes[c][k] \in Nat
      /\ taken[c] \in Nat /\ replied[c] \in Nat
      /\ "response" \in WriteKinds /\ "ack" \in WriteKinds /\ "messages" \in WriteKinds
  BY DEF TypeOK, WriteKinds
<1>4. CASE handshakeDone(c)
  <2>1. /\ peer[c] = "connecting" /\ peer'[c] = "open"
        /\ reads'[c] = 1 /\ writes' = writes
        /\ UNCHANGED <<timer, tasks, looping, history>>
    BY <1>4 DEF handshakeDone, TypeOK, thread
  <2>2. Pending(c) = 0 /\ ~InWork(c) /\ looping[c] = NoTask /\ replied[c] = taken[c]
    BY <1>2, <2>1 DEF Serial, RepliesMatch
  <2>3. Pending(c)' = 1 /\ ~InWork(c)'
    BY <1>3, <2>1, <2>2, SameTasks DEF Pending
  <2>4. Serial(c)'
    BY <1>2, <2>1, <2>2, <2>3, SameTasks DEF Serial, timer, history
  <2>5. RepliesMatch(c)'
    BY <1>2, <2>1, <2>2, <2>3 DEF RepliesMatch, history
  <2> QED BY <2>4, <2>5
<1>5. CASE \/ handshakeFails(c) \/ peerCloses(c) \/ pingBecomesDue(c)
           \/ \E req \in Requests : peerSends(c, req)
  <2>1. /\ reads'[c] = reads[c] /\ writes'[c] = writes[c]
        /\ peer'[c] = "connecting" => peer[c] = "connecting"
        /\ UNCHANGED <<timer, tasks>>
        /\ idled'[c] = idled[c] /\ taken'[c] = taken[c] /\ replied'[c] = replied[c]
        /\ looping'[c] = looping[c]
    BY <1>5 DEF handshakeFails, peerCloses, pingBecomesDue, peerSends, TypeOK, thread, history
  <2>2. armed'[c] = armed[c] /\ expired'[c] = expired[c]
    BY <2>1 DEF timer
  <2>3. Good(c)'
    BY <2>1, <2>2, SameTasks, Untouched
  <2> QED BY <2>3 DEF Good
<1>6. CASE requestFromClientReadHandler(c)
  <2>1. PICK req : req = Head(inbox[c])
    OBVIOUS
  <2>2. /\ reads[c] > 0 /\ reads'[c] = reads[c] - 1
        /\ taken'[c] = taken[c] + 1
        /\ peer' = peer /\ working' = working
    BY <1>2, <1>6 DEF requestFromClientReadHandler, TypeOK
  <2>3. /\ reads[c] = 1 /\ writes[c]["response"] = 0 /\ Pending(c) = 1
        /\ ~InWork(c) /\ replied[c] = taken[c] /\ peer[c] # "connecting" /\ looping[c] = NoTask
    BY <1>2, <1>3, <2>2 DEF Serial, RepliesMatch, Pending
  <2>4. req \in Request
    BY <1>6, <2>1, RequestsAssumption DEF requestFromClientReadHandler, TypeOK
  <2>5. AtRequest(c)
    BY <1>2, <1>3, <2>2, <2>3 DEF AtRequest
  <2>6. /\ Routes(c, req)
        /\ looping'[c] = NoTask \/ locationLoops(c, req)
    BY <1>6, <2>1, <2>3 DEF requestFromClientReadHandler, Routes
  <2> QED BY <2>4, <2>5, <2>6, RouteKeeps
<1>11. CASE locationReturns(c)
  <2>1. PICK req : req = looping[c] /\ req \in Request /\ looping[c] # NoTask
    BY <1>11, RequestsAssumption DEF TypeOK, locationReturns, Lookups
  <2>2. UNCHANGED <<reads, taken, peer, working>>
    BY <1>11 DEF locationReturns
  <2>3. /\ reads[c] = 0 /\ writes[c]["response"] = 0 /\ ~InWork(c)
        /\ taken[c] = replied[c] + 1 /\ peer[c] # "connecting"
    BY <1>2, <1>3, <2>1 DEF Serial, RepliesMatch, Pending
  <2>4. AtRequest(c)
    BY <1>2, <1>3, <2>2, <2>3 DEF AtRequest
  <2>5. Routes(c, req) /\ looping'[c] = NoTask
    BY <1>11, <2>1 DEF locationReturns, Routes, TypeOK
  <2> QED BY <2>1, <2>4, <2>5, RouteKeeps
<1>7. CASE readFails(c)
  <2>1. /\ reads[c] > 0 /\ reads'[c] = reads[c] - 1
        /\ UNCHANGED <<peer, writes, timer, tasks, looping, taken, replied>>
    BY <1>7 DEF readFails, TypeOK, thread
  <2>2. reads[c] = 1 /\ writes[c]["response"] = 0 /\ Pending(c) = 1 /\ ~InWork(c)
        /\ looping[c] = NoTask
        /\ replied[c] = taken[c] /\ peer[c] # "connecting"
    BY <1>2, <1>3, <2>1 DEF Serial, RepliesMatch, Pending
  <2>3. Pending(c)' = 0 /\ ~InWork(c)'
    BY <2>1, <2>2, SameTasks DEF Pending
  <2>4. Serial(c)'
    BY <1>2, <2>1, <2>2, <2>3, SameTasks DEF Serial, timer
  <2>5. RepliesMatch(c)'
    BY <1>3, <2>1, <2>2, <2>3 DEF RepliesMatch
  <2> QED BY <2>4, <2>5
<1>8. CASE responseToClientWroteHandler(c)
  <2>1. /\ endWrite(c, "response") /\ reads'[c] = reads[c] + 1
        /\ UNCHANGED <<peer, timer, tasks, looping, taken, replied>>
    BY <1>8 DEF responseToClientWroteHandler, TypeOK, thread, history
  <2>2. /\ writes'[c]["response"] = writes[c]["response"] - 1
        /\ writes[c]["response"] > 0
        /\ writes'[c]["ack"] = writes[c]["ack"]
        /\ writes'[c]["messages"] = writes[c]["messages"]
    BY <1>3, <2>1, EndWriteType
  <2>3. Pending(c)' = Pending(c) /\ (InWork(c)' <=> InWork(c))
    BY <1>3, <2>1, <2>2, SameTasks DEF Pending
  <2>4. Serial(c)'
    BY <1>2, <2>1, <2>2, <2>3, SameTasks DEF Serial, timer
  <2>5. RepliesMatch(c)'
    BY <1>2, <2>1, <2>3 DEF RepliesMatch
  <2> QED BY <2>4, <2>5
<1>9. ~(idleAckWrote(c) \/ messagesWrote(c) \/ messagesFail(c))
  BY <1>2, <1>3 DEF Serial, idleAckWrote, messagesWrote, messagesFail, endWrite
<1>10. ~(timerExpires(c) \/ timerWaitTaskResultHandler(c))
  BY <1>2 DEF Serial, timerExpires, timerWaitTaskResultHandler
<1> QED BY <1>4, <1>5, <1>6, <1>7, <1>8, <1>9, <1>10, <1>11 DEF ConnStep

--------------------------------------------------------------------------------
(* A step of a worker *)

\* Taking a task from the queue leaves every connection good: its one task is now
\* in work instead of waiting.
LEMMA GetTaskKeeps ==
    ASSUME TypeOK, NEW w \in Workers, getTask(w), NEW d \in Conns, Good(d)
    PROVE  Good(d)'
<1> SUFFICES ASSUME ~idled[d] PROVE Serial(d)' /\ RepliesMatch(d)'
  BY DEF Good, getTask, history
<1>1. Serial(d) /\ RepliesMatch(d)
  BY DEF Good
<1>2. /\ UNCHANGED <<peer, reads, writes, timer, looping, taken, replied>>
      /\ Pending(d)' = Pending(d)
  BY DEF getTask, conn, thread, history, Pending
<1>3. w \notin Processed(d)
  BY DEF getTask, Processed
<1>4. \A v \in Workers : v # w => working'[v] = working[v]
  BY DEF getTask, TypeOK
<1>5. working'[w] = queue[1] /\ queue[1] # NoTask
  BY GetTask DEF TypeOK
<1>6. 1 \in DOMAIN queue
  BY GetTask
<1>7. CASE queue[1].conn = d
  <2>1. 1 \in Queued(d)
    BY <1>6, <1>7 DEF Queued
  <2>2. \A i \in Queued(d) : i = 1
    BY <1>1, <2>1 DEF Serial
  <2>3. Processed(d) = {} /\ queue[1].cmd # "idle" /\ InWork(d)
    BY <1>1, <2>1 DEF Serial, InWork
  <2>4. Queued(d)' = {}
    <3> SUFFICES ASSUME NEW i \in DOMAIN queue', queue'[i].conn = d PROVE FALSE
      BY DEF Queued
    <3>1. i + 1 \in DOMAIN queue /\ queue[i + 1].conn = d /\ i + 1 # 1
      BY GetTask
    <3> QED BY <2>2, <3>1 DEF Queued
  <2>5. \A v : v \in Processed(d)' <=> v = w
    BY <1>4, <1>5, <1>7, <2>3 DEF Processed
  <2>6. InWork(d)'
    BY <2>5 DEF InWork
  <2>7. Serial(d)'
    BY <1>1, <1>2, <1>5, <2>3, <2>4, <2>5, <2>6 DEF Serial, timer
  <2>8. RepliesMatch(d)'
    BY <1>1, <1>2, <2>3, <2>6 DEF RepliesMatch
  <2> QED BY <2>7, <2>8
<1>8. CASE queue[1].conn # d
  <2>1. \A i \in Queued(d)' : i + 1 \in Queued(d) /\ queue'[i] = queue[i + 1] /\ i \in Int
    BY GetTask DEF Queued
  <2>2. \A i \in Queued(d) : i - 1 \in Queued(d)'
    <3> SUFFICES ASSUME NEW i \in Queued(d) PROVE i - 1 \in Queued(d)'
      OBVIOUS
    <3>1. i \in 1..Len(queue) /\ i # 1 /\ queue[i].conn = d
      BY <1>8, GetTask DEF Queued
    <3>2. i - 1 \in DOMAIN queue' /\ queue'[i - 1] = queue[i]
      BY <3>1, GetTask
    <3> QED BY <3>1, <3>2 DEF Queued
  <2>3. \A v : v \in Processed(d)' <=> v \in Processed(d)
    BY <1>3, <1>4, <1>5, <1>8 DEF Processed
  <2>4. \A v \in Processed(d) : working'[v] = working[v]
    BY <1>3, <1>4 DEF Processed
  <2>5. InWork(d)' <=> InWork(d)
    BY <2>1, <2>2, <2>3 DEF InWork
  <2>6. \A i, j \in Queued(d)' : i = j
    <3> SUFFICES ASSUME NEW i \in Queued(d)', NEW j \in Queued(d)' PROVE i = j
      OBVIOUS
    <3>1. i + 1 = j + 1 /\ i \in Int /\ j \in Int
      BY <1>1, <2>1 DEF Serial
    <3> QED BY <3>1
  <2>7. Queued(d)' = {} \/ Processed(d)' = {}
    BY <1>1, <2>1, <2>3 DEF Serial
  <2>8. \A i \in Queued(d)' : queue'[i].cmd # "idle"
    BY <1>1, <2>1 DEF Serial
  <2>9. Serial(d)'
    BY <1>1, <1>2, <2>3, <2>4, <2>5, <2>6, <2>7, <2>8 DEF Serial, timer
  <2>10. RepliesMatch(d)'
    BY <1>1, <1>2, <2>5 DEF RepliesMatch
  <2> QED BY <2>9, <2>10
<1> QED BY <1>7, <1>8

\* Processing a task leaves every connection good: the one task of the request ends
\* in its response, or in nothing.
LEMMA ProcessKeeps ==
    ASSUME TypeOK, NEW w \in Workers, processTask(w), NEW d \in Conns, Good(d)
    PROVE  Good(d)'
<1>1. PICK t : t = working[w]
  OBVIOUS
<1>2. t \in Task /\ t.conn \in Conns /\ t # NoTask
  BY <1>1, TaskInWork DEF processTask
<1>3. /\ finish(w)
      /\ UNCHANGED <<peer, reads, timer, queue, looping, taken, idled>>
      /\ t.conn # d => writes'[d] = writes[d] /\ replied'[d] = replied[d]
  BY <1>1, <1>2 DEF processTask, sendAnswer, sendMessagesToIdleConn, noAnswer, respond,
                    startWrite, conn, thread, history, TypeOK
<1>4. /\ \A v \in Workers : v # w => working'[v] = working[v]
      /\ working'[w] = NoTask
  BY <1>3 DEF finish, TypeOK
<1>5. \A i : i \in Queued(d)' <=> i \in Queued(d)
  BY <1>3 DEF Queued
<1>6. CASE t.conn # d
  <2>1. w \notin Processed(d)
    BY <1>1, <1>6 DEF Processed
  <2>2. \A v : v \in Processed(d)' <=> v \in Processed(d)
    BY <1>4, <2>1 DEF Processed
  <2>3. \A v \in Processed(d) : working'[v] = working[v]
    BY <1>4, <2>1 DEF Processed
  <2> QED BY <1>3, <1>5, <1>6, <2>2, <2>3, Untouched DEF timer
<1>7. CASE t.conn = d
  <2> SUFFICES ASSUME ~idled[d] PROVE Serial(d)' /\ RepliesMatch(d)'
    BY <1>3 DEF Good
  <2>1. Serial(d) /\ RepliesMatch(d)
    BY DEF Good
  <2>2. w \in Processed(d)
    BY <1>1, <1>2, <1>7 DEF Processed
  <2>3. InWork(d) /\ Queued(d) = {} /\ t.cmd # "idle" /\ \A v \in Processed(d) : v = w
    BY <1>1, <2>1, <2>2 DEF Serial, InWork
  <2>4. Queued(d)' = {} /\ Processed(d)' = {}
    BY <1>4, <1>5, <2>3 DEF Processed
  <2>5. ~InWork(d)'
    BY <2>4 DEF InWork
  <2>6. /\ Pending(d) \in Nat /\ reads[d] \in Nat /\ writes[d]["response"] \in Nat
        /\ taken[d] \in Nat /\ replied[d] \in Nat
        /\ "response" \in WriteKinds /\ "ack" \in WriteKinds /\ "messages" \in WriteKinds
    BY DEF TypeOK, WriteKinds, Pending
  <2>7. /\ Pending(d) = 0 /\ peer[d] # "connecting" /\ looping[d] = NoTask /\ taken[d] = replied[d] + 1
    BY <2>1, <2>3, <2>6 DEF Serial, RepliesMatch
  <2>8. CASE sendAnswer(w, t)
    <3>1. startWrite(d, "response") /\ replied'[d] = replied[d] + 1
      BY <1>7, <2>8 DEF sendAnswer, respond, TypeOK
    <3>2. /\ writes'[d]["response"] = writes[d]["response"] + 1
          /\ writes'[d]["ack"] = writes[d]["ack"]
          /\ writes'[d]["messages"] = writes[d]["messages"]
      BY <2>6, <3>1, WriteType
    <3>3. Pending(d)' = 1
      BY <1>3, <2>6, <2>7, <3>2 DEF Pending
    <3>4. Serial(d)'
      BY <1>3, <2>1, <2>4, <2>5, <2>7, <3>2, <3>3 DEF Serial, timer
    <3>5. RepliesMatch(d)'
      BY <1>3, <2>5, <2>6, <2>7, <3>1 DEF RepliesMatch
    <3> QED BY <3>4, <3>5
  <2>9. CASE noAnswer(w, t)
    <3>1. UNCHANGED <<writes, replied>>
      BY <2>9 DEF noAnswer, conn, history
    <3>2. Pending(d)' = 0
      BY <1>3, <2>7, <3>1 DEF Pending
    <3>3. Serial(d)'
      BY <1>3, <2>1, <2>4, <2>5, <2>7, <3>1, <3>2 DEF Serial, timer
    <3>4. RepliesMatch(d)'
      BY <1>3, <2>5, <2>6, <2>7, <3>1, <3>2 DEF RepliesMatch
    <3> QED BY <3>3, <3>4
  <2>10. ~sendMessagesToIdleConn(w, t)
    BY <2>3 DEF sendMessagesToIdleConn
  <2> QED BY <1>1, <2>8, <2>9, <2>10 DEF processTask
<1> QED BY <1>6, <1>7

--------------------------------------------------------------------------------

\* The inductive invariant holds at the start.
LEMMA InitGood == Init => IInv
<1> SUFFICES ASSUME Init PROVE IInv
  OBVIOUS
<1>1. TypeOK
  BY BoundsAssumption DEF Init, TypeOK, Commands
<1>2. ASSUME NEW c \in Conns PROVE Good(c)
  <2>1. /\ peer[c] = "connecting" /\ reads[c] = 0
        /\ \A k \in WriteKinds : writes[c][k] = 0
        /\ ~armed[c] /\ expired[c] = 0 /\ taken[c] = 0 /\ replied[c] = 0 /\ looping[c] = NoTask
    BY DEF Init
  <2>2. Queued(c) = {} /\ Processed(c) = {}
    BY DEF Init, Queued, Processed
  <2>3. Pending(c) = 0 /\ ~InWork(c)
    BY <2>1, <2>2 DEF Pending, InWork, WriteKinds
  <2>4. Serial(c)
    BY <2>1, <2>2, <2>3 DEF Serial, WriteKinds
  <2>5. RepliesMatch(c)
    BY <2>1, <2>3 DEF RepliesMatch
  <2> QED BY <2>4, <2>5 DEF Good
<1> QED BY <1>1, <1>2 DEF IInv

\* Every step keeps the inductive invariant.
LEMMA GoodInductive ==
    ASSUME IInv, [Next]_vars
    PROVE  IInv'
<1>1. TypeOK /\ TypeOK'
  BY TypeInductive DEF IInv
<1>2. ASSUME NEW d \in Conns PROVE Good(d)'
  <2>1. Good(d)
    BY DEF IInv
  <2>2. CASE UNCHANGED vars
    <3>1. UNCHANGED tasks /\ UNCHANGED timer /\ UNCHANGED conn /\ UNCHANGED thread /\ UNCHANGED history
      BY <2>2 DEF vars
    <3> QED BY <2>1, <3>1, SameTasks, Untouched DEF timer, conn, thread, history
  <2>3. ASSUME NEW c \in Conns, ConnStep(c) PROVE Good(d)'
    BY <1>1, <2>1, <2>3, OthersKeep, OwnKeeps
  <2>4. ASSUME NEW w \in Workers, getTask(w) PROVE Good(d)'
    BY <1>1, <2>1, <2>4, GetTaskKeeps
  <2>5. ASSUME NEW w \in Workers, processTask(w) PROVE Good(d)'
    BY <1>1, <2>1, <2>5, ProcessKeeps
  <2> QED BY <2>2, <2>3, <2>4, <2>5 DEF Next
<1> QED BY <1>1, <1>2 DEF IInv

\* A connection that did not turn idle never has two operations pending: no two
\* writes share m_WriteBuffer, no two workers answer it at once.
THEOREM SerialConnections == Spec => []OneOperation
<1>1. IInv /\ [Next]_vars => IInv'
  BY GoodInductive
<1>2. IInv => OneOperation
  BY DEF IInv, Good, OneOperation
<1> QED BY InitGood, <1>1, <1>2, PTL DEF Spec

\* A connection that did not turn idle never gets more responses than it sent
\* requests, and no request is read while one waits for its response.
THEOREM RepliesFollowRequests == Spec => []OneReplyPerRequest
<1>1. IInv /\ [Next]_vars => IInv'
  BY GoodInductive
<1>2. IInv => OneReplyPerRequest
  BY DEF IInv, Good, OneReplyPerRequest
<1> QED BY InitGood, <1>1, <1>2, PTL DEF Spec
================================================================================
