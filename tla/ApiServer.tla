------------------------------- MODULE ApiServer -------------------------------
(***************************************************************************)
(* The life of a connection: ApiClient (server/src/apiclient.cpp) on its   *)
(* IoThread, the task queue, and the DatabaseWorker threads, which answer  *)
(* by starting a write on the connection from their own thread.            *)
(*                                                                         *)
(* A connection is kept alive by its pending operations only: each handler *)
(* and each task holds a shared_ptr to it.  reads, writes, armed, expired, *)
(* queue, working and looping are exactly these references.                *)
(*                                                                         *)
(* An IoThread runs the handlers of all its connections, one after the     *)
(* other: a handler that does not return holds up the others.  The only    *)
(* one that may not is that of /v1/user/create, in LocationClient::read.   *)
(* The socket of that class is the subject of LocationLookup; here any of  *)
(* its outcomes may happen.                                                *)
(*                                                                         *)
(* What a request asks for is reduced to how it is routed and answered;    *)
(* what the database answers, to whether the sender is authenticated.      *)
(***************************************************************************)
EXTENDS Integers, Sequences

CONSTANTS
    Conns,          \* accepted connections
    IoThreads,      \* threads that run the handlers of connections
    Placements,     \* the ways startAccept may give the connections to the IoThreads
    Workers,        \* threads of DatabaseWorker
    Requests,       \* requests the peers send, a subset of Request
    LookupMayFail,  \* TRUE: a lookup of an existing user may fail (SQLException)
    SlowPolls,      \* TRUE: a poll may be in work longer than the polling interval
    NoTask,         \* a worker that waits for a task, a handler that does not loop
    MaxRequests,    \* bound on the requests of all peers together
    MaxQueue,       \* bound on the queue length at which a timer may add a task
    MaxPending      \* bound on the reads, and on the writes of one kind, of a connection

\* command: every resource that is answered by its branch of processQueue;
\* malformed: handleHeaders cannot make a request of it.
Resources == {"idle", "command", "user_create", "group_history", "unknown", "malformed"}

\* valid: the content type and the body pass handler_impl and parse_meta;
\* auth: uid and password are those of a user.
Request == [resource : Resources, valid : BOOLEAN, auth : BOOLEAN]

ASSUME RequestsAssumption == Requests \subseteq Request
ASSUME PlacementsAssumption == Placements \subseteq [Conns -> IoThreads]
ASSUME BoundsAssumption == MaxRequests \in Nat /\ MaxQueue \in Nat /\ MaxPending \in Nat
ASSUME LoadAssumption == LookupMayFail \in BOOLEAN /\ SlowPolls \in BOOLEAN

VARIABLES
    peer,       \* the client at the other end
    sent,       \* number of requests the peers have sent
    inbox,      \* requests that arrived and were not read yet
    reads,      \* pending reads (readCmd)
    writes,     \* pending writes by their handler
    armed,      \* m_Timer has a pending wait
    expired,    \* number of waits that expired and whose handler did not run yet
    pingDue,    \* more than 5 seconds since m_LastClientPing
    command,    \* m_RequestDetails.command
    auth,       \* m_RequestDetails.params: uid and password are those of a user
    queue,      \* m_Queue of DatabaseWorker
    working,    \* the task each worker is processing
    io,         \* the IoThread of each connection
    looping,    \* the request whose handler loops in LocationClient::read
    taken,      \* history: requests read until an idle request was accepted
    replied,    \* history: responses started until then
    idled,      \* history: an idle request was accepted
    readError   \* history: a read failed, "close connect"

conn == <<peer, sent, inbox, reads, writes, pingDue, command, auth>>
timer == <<armed, expired>>
tasks == <<queue, working>>
thread == <<io, looping>>
history == <<taken, replied, idled, readError>>
vars == <<conn, timer, tasks, thread, history>>

WriteKinds == {"response", "ack", "messages"}
Commands == {"none", "idle", "command", "user_create", "group_history"}
Task == [conn : Conns, cmd : Commands, auth : BOOLEAN, ping : BOOLEAN]

ASSUME NoTaskAssumption == NoTask \notin Task \cup Request

\* The requests whose handler asks for the location.
Lookups == {req \in Requests : req.resource = "user_create"}

TypeOK ==
    /\ peer \in [Conns -> {"connecting", "open", "gone"}]
    /\ sent \in 0..MaxRequests
    /\ inbox \in [Conns -> Seq(Requests)]
    /\ reads \in [Conns -> Nat]
    /\ writes \in [Conns -> [WriteKinds -> Nat]]
    /\ armed \in [Conns -> BOOLEAN]
    /\ expired \in [Conns -> Nat]
    /\ pingDue \in [Conns -> BOOLEAN]
    /\ command \in [Conns -> Commands]
    /\ auth \in [Conns -> BOOLEAN]
    /\ queue \in Seq(Task)
    /\ working \in [Workers -> Task \cup {NoTask}]
    /\ io \in Placements
    /\ looping \in [Conns -> Lookups \cup {NoTask}]
    /\ taken \in [Conns -> Nat]
    /\ replied \in [Conns -> Nat]
    /\ idled \in [Conns -> BOOLEAN]
    /\ readError \in [Conns -> BOOLEAN]

Init ==
    /\ peer = [c \in Conns |-> "connecting"]
    /\ sent = 0
    /\ inbox = [c \in Conns |-> <<>>]
    /\ reads = [c \in Conns |-> 0]
    /\ writes = [c \in Conns |-> [k \in WriteKinds |-> 0]]
    /\ armed = [c \in Conns |-> FALSE]
    /\ expired = [c \in Conns |-> 0]
    /\ pingDue = [c \in Conns |-> TRUE]
    /\ command = [c \in Conns |-> "none"]
    /\ auth = [c \in Conns |-> FALSE]
    /\ queue = <<>>
    /\ working = [w \in Workers |-> NoTask]
    /\ io \in Placements
    /\ looping = [c \in Conns |-> NoTask]
    /\ taken = [c \in Conns |-> 0]
    /\ replied = [c \in Conns |-> 0]
    /\ idled = [c \in Conns |-> FALSE]
    /\ readError = [c \in Conns |-> FALSE]

\* The tasks of a connection that wait, and those that are being processed.
Queued(c) == {i \in DOMAIN queue : queue[i].conn = c}

Processed(c) == {w \in Workers : working[w] # NoTask /\ working[w].conn = c}

InWork(c) == Queued(c) # {} \/ Processed(c) # {}

\* A handler that does not return holds up the IoThread of the connection.
Blocked(c) == \E d \in Conns : io[d] = io[c] /\ looping[d] # NoTask

--------------------------------------------------------------------------------
(* The peer and the handshake *)

\* serveSslClient, processClientRequest: the first read starts.
handshakeDone(c) ==
    /\ ~Blocked(c)
    /\ peer[c] = "connecting"
    /\ peer' = [peer EXCEPT ![c] = "open"]
    /\ reads' = [reads EXCEPT ![c] = 1]
    /\ UNCHANGED <<sent, inbox, writes, pingDue, command, auth, timer, tasks, thread, history>>

handshakeFails(c) ==
    /\ ~Blocked(c)
    /\ peer[c] = "connecting"
    /\ peer' = [peer EXCEPT ![c] = "gone"]
    /\ readError' = [readError EXCEPT ![c] = TRUE]
    /\ UNCHANGED <<sent, inbox, reads, writes, pingDue, command, auth, timer, tasks, thread,
                   taken, replied, idled>>

\* A peer may send a request before the previous one is answered.
peerSends(c, req) ==
    /\ peer[c] = "open"
    /\ sent < MaxRequests
    /\ sent' = sent + 1
    /\ inbox' = [inbox EXCEPT ![c] = Append(@, req)]
    /\ UNCHANGED <<peer, reads, writes, pingDue, command, auth, timer, tasks, thread, history>>

peerCloses(c) ==
    /\ peer[c] = "open"
    /\ peer' = [peer EXCEPT ![c] = "gone"]
    /\ UNCHANGED <<sent, inbox, reads, writes, pingDue, command, auth, timer, tasks, thread, history>>

--------------------------------------------------------------------------------
(* ApiClient *)

\* asyncRequest with one of the three handlers.
startWrite(c, k) == writes' = [writes EXCEPT ![c][k] = @ + 1]

\* sendErrorResponse, sendOkResponse and sendMessages end in
\* responseToClientWroteHandler.
respond(c) ==
    /\ startWrite(c, "response")
    /\ replied' = [replied EXCEPT ![c] = IF idled[c] THEN @ ELSE @ + 1]

putTask(t) == queue' = Append(queue, t)

\* The credentials of a request replace those of the connection; a request that
\* parse_meta refuses may have replaced only some of the fields.
parsedAuth(c, req) ==
    IF req.resource = "unknown" THEN {auth[c]}
    ELSE IF req.valid THEN {req.auth} ELSE BOOLEAN

parse_meta(c, req) ==
    /\ command' = [command EXCEPT ![c] =
                      IF req.resource = "unknown" THEN @ ELSE req.resource]
    /\ \E a \in parsedAuth(c, req) : auth' = [auth EXCEPT ![c] = a]

\* What routing one request does: requestFromClientReadHandler after the read
\* succeeded, with v1_handler and handler_impl.
reject_Mutant(c, req) ==
    /\ req.resource = "unknown" \/ ~req.valid
    /\ parse_meta(c, req)
    /\ respond(c)
    /\ putTask([conn |-> c, cmd |-> "command", auth |-> req.auth, ping |-> FALSE])
    /\ UNCHANGED <<timer, idled>>
reject(c, req) ==
    /\ req.resource = "unknown" \/ ~req.valid
    /\ parse_meta(c, req)
    /\ respond(c)
    /\ UNCHANGED <<timer, queue, idled>>

startIdle(c, req) ==
    /\ req.resource = "idle" /\ req.valid
    /\ parse_meta(c, req)
    /\ startWrite(c, "ack")
    /\ armed' = [armed EXCEPT ![c] = TRUE]    \* expires_from_now cancels an earlier wait
    /\ idled' = [idled EXCEPT ![c] = TRUE]
    /\ UNCHANGED <<expired, queue, replied>>

submit(c, req) ==
    /\ req.resource \in {"command", "user_create", "group_history"} /\ req.valid
    /\ parse_meta(c, req)
    /\ putTask([conn |-> c, cmd |-> req.resource, auth |-> req.auth, ping |-> FALSE])
    /\ UNCHANGED <<writes, timer, idled, replied>>

\* get_city_by_ip throws out of the handler, before the body is looked at: it cannot
\* connect, or the answer is not one.  IoThread::run catches and goes on.
locationThrows(c, req) ==
    /\ req \in Lookups
    /\ UNCHANGED <<command, auth, writes, timer, queue, idled, replied>>

\* The name of the service does not resolve, which is only logged: read asks a socket
\* that is not open, again and again.
locationLoops(c, req) ==
    /\ req \in Lookups
    /\ looping' = [looping EXCEPT ![c] = req]
    /\ UNCHANGED <<command, auth, writes, timer, queue, idled, replied>>

requestFromClientReadHandler(c) ==
    /\ ~Blocked(c)
    /\ reads[c] > 0
    /\ inbox[c] # <<>>
    /\ LET req == Head(inbox[c])
       IN  /\ req.resource # "malformed"
           /\ reads' = [reads EXCEPT ![c] = @ - 1]
           /\ inbox' = [inbox EXCEPT ![c] = Tail(@)]
           /\ taken' = [taken EXCEPT ![c] = IF idled[c] THEN @ ELSE @ + 1]
           /\ \/ /\ \/ reject(c, req)
                    \/ startIdle(c, req)
                    \/ submit(c, req)
                    \/ locationThrows(c, req)
                 /\ UNCHANGED looping
              \/ locationLoops(c, req)
    /\ UNCHANGED <<peer, sent, pingDue, working, io, readError>>

\* Another IoThread, with a lookup of its own, has opened the socket they share: read
\* comes to an end of file there, and the handler goes on.
locationReturns(c) ==
    /\ looping[c] # NoTask
    /\ IoThreads # {io[c]}
    /\ \/ reject(c, looping[c])
       \/ submit(c, looping[c])
       \/ locationThrows(c, looping[c])
    /\ looping' = [looping EXCEPT ![c] = NoTask]
    /\ UNCHANGED <<peer, sent, inbox, reads, pingDue, working, io, taken, readError>>

\* The same handler with an error: it returns, "close connect".
readFails(c) ==
    /\ ~Blocked(c)
    /\ reads[c] > 0
    /\ \/ peer[c] = "gone" /\ UNCHANGED inbox    \* what was not read is lost
       \/ /\ inbox[c] # <<>> /\ Head(inbox[c]).resource = "malformed"
          /\ inbox' = [inbox EXCEPT ![c] = Tail(@)]
    /\ reads' = [reads EXCEPT ![c] = @ - 1]
    /\ readError' = [readError EXCEPT ![c] = TRUE]
    /\ UNCHANGED <<peer, sent, writes, pingDue, command, auth, timer, tasks, thread,
                   taken, replied, idled>>

endWrite_Mutant(c, k) == writes' = [writes EXCEPT ![c][k] = @ - 1]
endWrite(c, k) ==
    /\ writes[c][k] > 0
    /\ writes' = [writes EXCEPT ![c][k] = @ - 1]

\* The response was written or the write failed: the next request is read.
responseToClientWroteHandler_Mutant(c) ==
    /\ ~Blocked(c)
    /\ writes[c]["response"] > 0
    /\ \/ /\ endWrite(c, "response")
          /\ reads' = [reads EXCEPT ![c] = @ + 1]
          /\ UNCHANGED replied
       \/ /\ replied' = [replied EXCEPT ![c] = IF idled[c] THEN @ ELSE @ + 1]
          /\ UNCHANGED <<reads, writes>>
    /\ UNCHANGED <<peer, sent, inbox, pingDue, command, auth, timer, tasks, thread, taken, idled, readError>>
responseToClientWroteHandler(c) ==
    /\ ~Blocked(c)
    /\ endWrite(c, "response")
    /\ reads[c] < MaxPending
    /\ reads' = [reads EXCEPT ![c] = @ + 1]
    /\ UNCHANGED <<peer, sent, inbox, pingDue, command, auth, timer, tasks, thread, history>>

\* The handler of the write sendOkResponseAndStartIdle starts ignores errors.
idleAckWrote(c) ==
    /\ ~Blocked(c)
    /\ endWrite(c, "ack")
    /\ UNCHANGED <<peer, sent, inbox, reads, pingDue, command, auth, timer, tasks, thread, history>>

\* A write to a peer that is gone may still succeed, into the socket's buffer.
messagesWrote(c) ==
    /\ ~Blocked(c)
    /\ endWrite(c, "messages")
    /\ UNCHANGED <<peer, sent, inbox, reads, pingDue, command, auth, timer, tasks, thread, history>>

\* m_Timer.cancel() does not take back a wait that expired.  m_Client->cancel()
\* only completes operations that fail anyway, because the peer is gone.
messagesFail_Mutant(c) ==
    /\ ~Blocked(c)
    /\ peer[c] = "gone"
    /\ endWrite(c, "messages")
    /\ UNCHANGED <<peer, sent, inbox, reads, pingDue, command, auth, timer, tasks, thread, history>>
messagesFail(c) ==
    /\ ~Blocked(c)
    /\ peer[c] = "gone"
    /\ endWrite(c, "messages")
    /\ armed' = [armed EXCEPT ![c] = FALSE]
    /\ UNCHANGED <<peer, sent, inbox, reads, pingDue, command, auth, expired, tasks, thread, history>>

\* The wait lasts m_StoragePollingIntervalMs, 200 ms.
timerExpires(c) ==
    /\ armed[c]
    /\ SlowPolls \/ ~InWork(c)
    /\ armed' = [armed EXCEPT ![c] = FALSE]
    /\ expired' = [expired EXCEPT ![c] = @ + 1]
    /\ UNCHANGED <<conn, tasks, thread, history>>

timerWaitTaskResultHandler(c) ==
    /\ ~Blocked(c)
    /\ expired[c] > 0
    /\ Len(queue) < MaxQueue
    /\ expired' = [expired EXCEPT ![c] = @ - 1]
    /\ putTask([conn |-> c, cmd |-> command[c], auth |-> auth[c], ping |-> pingDue[c]])
    /\ pingDue' = [pingDue EXCEPT ![c] = FALSE]
    /\ armed' = [armed EXCEPT ![c] = TRUE]
    /\ UNCHANGED <<peer, sent, inbox, reads, writes, command, auth, working, thread, history>>

pingBecomesDue(c) ==
    /\ ~pingDue[c]
    /\ pingDue' = [pingDue EXCEPT ![c] = TRUE]
    /\ UNCHANGED <<peer, sent, inbox, reads, writes, command, auth, timer, tasks, thread, history>>

--------------------------------------------------------------------------------
(* DatabaseWorker::processQueue *)

getTask(w) ==
    /\ working[w] = NoTask
    /\ queue # <<>>
    /\ working' = [working EXCEPT ![w] = Head(queue)]
    /\ queue' = Tail(queue)
    /\ UNCHANGED <<conn, timer, thread, history>>

finish(w) == working' = [working EXCEPT ![w] = NoTask]

\* Every branch but IDLE answers once, an IDLE task only when lookup_check_pass fails.
sendAnswer(w, t) ==
    /\ \/ t.cmd \in {"command", "user_create"}
       \/ t.cmd = "idle" /\ (~t.auth \/ LookupMayFail)
    /\ writes[t.conn]["response"] < MaxPending
    /\ respond(t.conn)
    /\ finish(w)
    /\ UNCHANGED <<peer, sent, inbox, reads, pingDue, command, auth, timer, queue, thread,
                   taken, idled, readError>>

\* There are new messages, or there are none and it is time to ping.
sendMessagesToIdleConn(w, t) ==
    /\ t.cmd = "idle" /\ t.auth
    /\ writes[t.conn]["messages"] < MaxPending
    /\ startWrite(t.conn, "messages")
    /\ finish(w)
    /\ UNCHANGED <<peer, sent, inbox, reads, pingDue, command, auth, timer, queue, thread, history>>

\* No new message and no ping; no branch at all for CHAT_HISTORY.
noAnswer_Mutant(w, t) ==
    /\ \/ t.cmd = "idle" /\ t.auth /\ ~t.ping
       \/ t.cmd = "group_history"
    /\ finish(w)
    /\ reads' = [reads EXCEPT ![t.conn] = 1]
    /\ UNCHANGED <<peer, sent, inbox, writes, pingDue, command, auth, timer, queue, thread, history>>
noAnswer(w, t) ==
    /\ \/ t.cmd = "idle" /\ t.auth /\ ~t.ping
       \/ t.cmd = "group_history"
    /\ finish(w)
    /\ UNCHANGED <<conn, timer, queue, thread, history>>

processTask(w) ==
    /\ working[w] # NoTask
    /\ \/ sendAnswer(w, working[w])
       \/ sendMessagesToIdleConn(w, working[w])
       \/ noAnswer(w, working[w])

--------------------------------------------------------------------------------

ConnStep(c) ==
    \/ handshakeDone(c)
    \/ handshakeFails(c)
    \/ \E req \in Requests : peerSends(c, req)
    \/ peerCloses(c)
    \/ requestFromClientReadHandler(c)
    \/ locationReturns(c)
    \/ readFails(c)
    \/ responseToClientWroteHandler(c)
    \/ idleAckWrote(c)
    \/ messagesWrote(c)
    \/ messagesFail(c)
    \/ timerExpires(c)
    \/ timerWaitTaskResultHandler(c)
    \/ pingBecomesDue(c)

Next ==
    \/ \E c \in Conns : ConnStep(c)
    \/ \E w \in Workers : getTask(w) \/ processTask(w)

\* The handlers of a connection run on its IoThread as long as there are any and none
\* of them loops; nothing says that a loop is ever left.  The workers poll the queue.
\* The peer owes nothing, but writes to a peer that is
\* gone fail in the end (the connection is reset), and not each time in the moment
\* between the end of the timer's wait and its handler.
Fairness ==
    /\ \A c \in Conns :
           /\ WF_vars(handshakeDone(c) \/ handshakeFails(c))
           /\ WF_vars(requestFromClientReadHandler(c))
           /\ WF_vars(readFails(c))
           /\ WF_vars(responseToClientWroteHandler(c))
           /\ WF_vars(idleAckWrote(c))
           /\ WF_vars(messagesWrote(c) \/ messagesFail(c))
           /\ SF_vars(messagesFail(c) /\ armed[c])
           /\ WF_vars(timerExpires(c))
           /\ WF_vars(timerWaitTaskResultHandler(c))
           /\ WF_vars(pingBecomesDue(c))
    /\ \A w \in Workers :
           /\ WF_vars(getTask(w))
           /\ WF_vars(processTask(w))

Spec == Init /\ [][Next]_vars

FairSpec == Spec /\ Fairness

--------------------------------------------------------------------------------
(* Properties *)

Pending(c) == reads[c] + writes[c]["response"]

\* A connection that did not turn idle has one pending operation at most: the
\* handshake, a read, the handler that loops, the one task of its request, or the
\* write of the response.
\* So no two workers answer it at once, m_WriteBuffer is never overwritten under a
\* pending write, and no second read shares its buffer.
Serial(c) ==
    /\ \A i, j \in Queued(c) : i = j
    /\ \A v, w \in Processed(c) : v = w
    /\ Queued(c) = {} \/ Processed(c) = {}
    /\ Pending(c) <= 1
    /\ Pending(c) = 1 => ~InWork(c)
    /\ looping[c] # NoTask => Pending(c) = 0 /\ ~InWork(c)
    /\ peer[c] = "connecting" => Pending(c) = 0 /\ ~InWork(c) /\ looping[c] = NoTask
    /\ \A i \in Queued(c) : queue[i].cmd # "idle"
    /\ \A w \in Processed(c) : working[w].cmd # "idle"
    /\ writes[c]["ack"] = 0 /\ writes[c]["messages"] = 0
    /\ ~armed[c] /\ expired[c] = 0

OneOperation == \A c \in Conns : ~idled[c] => Serial(c)

\* A connection that did not turn idle gets at most one response for each request
\* it sent, and the next request is not read before the response is under way.
RepliesMatch(c) ==
    /\ replied[c] <= taken[c]
    /\ taken[c] <= replied[c] + 1
    /\ Pending(c) = 1 \/ peer[c] = "connecting" => replied[c] = taken[c]
    /\ InWork(c) \/ looping[c] # NoTask => taken[c] = replied[c] + 1

OneReplyPerRequest == \A c \in Conns : ~idled[c] => RepliesMatch(c)

\* No pending handler and no task refers to the ApiClient: it is destroyed and its
\* socket closed.
Released(c) ==
    /\ peer[c] # "connecting"
    /\ reads[c] = 0
    /\ \A k \in WriteKinds : writes[c][k] = 0
    /\ ~armed[c] /\ expired[c] = 0
    /\ ~InWork(c)
    /\ looping[c] = NoTask

\* Every request of a connection that is not idle is answered, or the connection
\* is closed (CHAT_HISTORY, and a location service that refuses the connection), even
\* while idle connections keep filling the queue and another IoThread hangs in
\* LocationClient::read; unless its own IoThread does.
EveryRequestAnswered ==
    \A c \in Conns :
        (taken[c] > replied[c] /\ ~idled[c])
            ~> (replied[c] >= taken[c] \/ idled[c] \/ Released(c) \/ Blocked(c))

\* When every idle request has valid credentials and the workers keep up with the
\* polls, a connection whose peer is gone is released: a ping fails and cancels the
\* timer, although the wait may have expired and its handler may arm it again.  Only
\* an IoThread that hangs in LocationClient::read keeps its connections.
GoneIsReleased == \A c \in Conns : peer[c] = "gone" ~> (Released(c) \/ Blocked(c))

\* The comment "close connect" where a read failed: the connection comes to its end.
ReadErrorCloses == \A c \in Conns : readError[c] ~> Released(c)
================================================================================
