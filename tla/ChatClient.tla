------------------------------- MODULE ChatClient -------------------------------
(***************************************************************************)
(* The console client (client/src/client.cpp): the two connections m_Http  *)
(* and m_HttpIdle, the handlers that run on its one IoThread, and the      *)
(* commands that the EventsWorker thread sends on m_Http at any time.      *)
(*                                                                         *)
(* net is what boost::asio, OpenSSL and the sockets hold: the operations   *)
(* pending on each connection, the state of its TLS stream, and ready, the *)
(* handlers of ended operations in the order the IoThread runs them.  A    *)
(* handler names a member (m_Http, m_HttpIdle), not the object its         *)
(* operation was started on: after createConnect it acts on the new one.   *)
(*                                                                         *)
(* Two operations of one kind at once on one stream (two writes of         *)
(* m_WriteBuffer, two reads into m_Streambuf, two handshakes) are undefined*)
(* behaviour: net.clashed records it, and nothing is claimed from then on. *)
(*                                                                         *)
(* A request is either a login or another command; the chat mode, which    *)
(* only changes how a line is read, is left out.  The server is external:  *)
(* it answers what it is sent, may go down, and comes back.                *)
(***************************************************************************)
EXTENDS Integers, Sequences, SequencesExt, FiniteSets

CONSTANTS
    Users,        \* registered users
    NoUser,       \* nobody: no user, a password that is nobody's, the id 0
    CmdLineUser,  \* m_User: the user of the command line, or NoUser
    Passwords,    \* the passwords the user types, by the users whose they are
    MaxDowns,     \* bound on the times the server goes down
    MaxInputs     \* bound on the requests the user types

ASSUME UsersAssumption ==
    /\ NoUser \notin Users
    /\ CmdLineUser \in Users \cup {NoUser} /\ Passwords \subseteq Users \cup {NoUser}
ASSUME BoundsAssumption == MaxDowns \in Nat /\ MaxInputs \in Nat

VARIABLES
    server,      \* the server runs
    downs,       \* times it went down
    inputs,      \* requests the user typed
    net,         \* the sockets and their operations, see Net
    idleWire,    \* the credentials of the idle request
    lastCmd,     \* m_LastCmd
    self,        \* m_SelfId
    password,    \* m_Password, by the user whose password it is
    typed,       \* the password onUserInput has sent and not stored yet
    idleState,   \* m_IdleState
    timeout,     \* m_Timeout is waiting
    told,        \* "connection is broken, please relogin" is the last news of the connection
    ackRead      \* history: the acknowledgement was read on the current m_HttpIdle

env == <<server, downs, inputs>>
session == <<lastCmd, self, password, typed, idleState, timeout, told>>
vars == <<env, net, idleWire, session, ackRead>>

Slots == {"http", "idle"}
Ops == {"connect", "handshake", "write", "read"}

People == Users \cup {NoUser}
Request == [cmd : {"none", "login", "other"}, uid : People, ok : BOOLEAN]
NoRequest == [cmd |-> "none", uid |-> NoUser, ok |-> FALSE]

\* ok: the status is 200.
Reply == [cmd : {"none", "login", "other", "ack", "messages"}, uid : People, ok : BOOLEAN]
News(kind, ok) == [cmd |-> kind, uid |-> NoUser, ok |-> ok]
Credentials == [uid : People, pass : People]

Completion == [slot : Slots, op : Ops, ok : BOOLEAN, late : BOOLEAN, reply : Reply]
Stale == [slot : Slots, op : Ops, reply : Reply]
NoSlot == "none"

\* link: the socket's connection, dead when the peer has closed it; tls: the SSL object,
\* which outlives its sockets: its handshake has begun or is done with the peer of this
\* socket, or of one closed since (stuck, foreign); open: m_IsOpen; stale: operations of
\* objects that createConnect has replaced, late when they end; out: m_WriteBuffer of
\* m_Http; wire: requests on m_Http that are not answered yet; news: what the server has
\* of the idle connection; resolving: asyncConnect looks the server's name up.
Net == [link : [Slots -> {"closed", "up", "dead"}],
        tls : [Slots -> {"new", "begun", "done", "stuck", "foreign"}],
        open : [Slots -> BOOLEAN], ops : [Slots -> SUBSET Ops], stale : SUBSET Stale,
        ready : Seq(Completion), out : Request, wire : Seq(Request),
        news : {"none", "asked", "acked"}, resolving : Slots \cup {NoSlot}, clashed : BOOLEAN]

NotTyped == "nothing"

TypeOK ==
    /\ server \in BOOLEAN /\ downs \in 0..MaxDowns /\ inputs \in 0..MaxInputs
    /\ net \in Net
    /\ idleWire \in Credentials
    /\ lastCmd \in {"none", "login", "other"}
    /\ self \in People /\ password \in People /\ typed \in People \cup {NotTyped}
    /\ idleState \in BOOLEAN /\ timeout \in BOOLEAN /\ told \in BOOLEAN /\ ackRead \in BOOLEAN
    \* before its first handshake an object has no other operation than the connect
    /\ \A s \in Slots : net.tls[s] = "new" => net.ops[s] \subseteq {"connect"}

--------------------------------------------------------------------------------
(* Operations on a connection.  Each takes and returns a Net. *)

Ended(s, op, ok, reply) == [slot |-> s, op |-> op, ok |-> ok, late |-> FALSE, reply |-> reply]

Failed(s, op) == Ended(s, op, FALSE, NoRequest)

Failures(s, ops) ==
    LET order == SetToSeq(ops) IN [i \in DOMAIN order |-> Failed(s, order[i])]

Complete(n, s, op, ok, reply) ==
    [n EXCEPT !.ops[s] = @ \ {op}, !.ready = Append(@, Ended(s, op, ok, reply))]

\* The operations of the TLS stream that hold the socket: one at least of those that are
\* pending.  The others wait for it, and try again when it has ended.
Holders(n, s) ==
    {held \in SUBSET (n.ops[s] \ {"connect"}) : held = {} => n.ops[s] \subseteq {"connect"}}

\* close and cancel: a connect and the operations that hold the socket are aborted.
\* Those that have ended keep their result.
Abort(n, s, held) ==
    LET aborted == n.ops[s] \cap (held \cup {"connect"})
    IN  [n EXCEPT !.ops[s] = @ \ aborted, !.ready = @ \o Failures(s, aborted)]

\* The SSL object whose socket is closed goes on where it was.
Interrupted(tls) ==
    CASE tls = "begun" -> "stuck" [] tls = "done" -> "foreign" [] OTHER -> tls

\* The socket of s is gone, and what the server knew of it.
Disconnected(n, s) ==
    [n EXCEPT !.link[s] = "closed",
              !.wire = IF s = "http" THEN <<>> ELSE @,
              !.news = IF s = "idle" THEN "none" ELSE @]

\* RangeConnectOp::start_connect closes the socket, whatever it was doing.
start_connect(n, s, held) ==
    [Disconnected(Abort(n, s, held), s) EXCEPT !.tls[s] = Interrupted(@), !.ops[s] = @ \cup {"connect"},
                                               !.resolving = NoSlot]

\* While the name does not resolve the handler is called at once, sleeps and calls
\* asyncConnect again: the IoThread is here until it does, the socket is as it was.
asyncConnect(n, s) == [n EXCEPT !.resolving = s]

\* createConnect and the assignment: the old object is destroyed, and with it its
\* socket, unless a read or write holds them.
createConnect_Mutant(n, s) == [Disconnected(n, s) EXCEPT !.open[s] = FALSE, !.tls[s] = "new"]
createConnect(n, s) ==
    LET held == n.ops[s] \cap {"write", "read"} # {}
        reply == IF s = "http" /\ n.wire # <<>> THEN Head(n.wire) ELSE NoRequest
        kept == {[slot |-> s, op |-> op, reply |-> reply] : op \in n.ops[s]}
    IN  [Disconnected(n, s) EXCEPT
            !.stale = IF held THEN @ \cup kept ELSE @,
            !.ready = [i \in DOMAIN @ |-> IF @[i].slot = s THEN [@[i] EXCEPT !.late = TRUE] ELSE @[i]]
                      \o Failures(s, IF held THEN {} ELSE n.ops[s]),
            !.ops[s] = {}, !.open[s] = FALSE, !.tls[s] = "new"]

\* An operation of this kind is under way, or a read has ended and its handler has not
\* taken the answer from m_Streambuf.
InUse(n, s, op) ==
    \/ op \in n.ops[s]
    \/ op = "read" /\ \E i \in DOMAIN n.ready : n.ready[i].slot = s /\ n.ready[i].op = "read"

\* A read or write of the TLS stream.  It fails at once before the first handshake, and
\* waits while a handshake or a connect is under way.
Start(n, s, op) ==
    IF n.tls[s] = "new" THEN [n EXCEPT !.ready = Append(@, Failed(s, op))]
    ELSE [n EXCEPT !.ops[s] = @ \cup {op}, !.clashed = @ \/ InUse(n, s, op)]

async_handshake(n, s) ==
    [n EXCEPT !.ops[s] = @ \cup {"handshake"}, !.clashed = @ \/ InUse(n, s, "handshake"),
              !.tls[s] = IF @ = "new" THEN "begun" ELSE @]

asyncRequest(n, s) == Start(n, s, "write")

asyncResponse(n, s) == Start(n, s, "read")

NoNet == [link |-> [s \in Slots |-> "closed"], tls |-> [s \in Slots |-> "new"],
          open |-> [s \in Slots |-> FALSE], ops |-> [s \in Slots |-> {}], stale |-> {},
          ready |-> <<>>, out |-> NoRequest, wire |-> <<>>, news |-> "none",
          resolving |-> NoSlot, clashed |-> FALSE]

\* run: m_Http connects and m_Timeout waits when the IoThread starts.
Init ==
    /\ server \in BOOLEAN
    /\ downs = 0 /\ inputs = 0
    /\ net = start_connect(NoNet, "http", {})
    /\ idleWire = [uid |-> NoUser, pass |-> NoUser]
    /\ lastCmd = "none"
    /\ self = NoUser
    /\ password = CmdLineUser
    /\ typed = NotTyped
    /\ idleState = FALSE
    /\ timeout = TRUE
    /\ told = FALSE
    /\ ackRead = FALSE

--------------------------------------------------------------------------------
(* The server and the network *)

serverGoesDown ==
    /\ server /\ downs < MaxDowns
    /\ server' = FALSE /\ downs' = downs + 1
    /\ net' = [net EXCEPT !.link = [s \in Slots |-> IF @[s] = "up" THEN "dead" ELSE @[s]],
                          !.wire = <<>>, !.news = "none"]
    /\ UNCHANGED <<inputs, idleWire, session, ackRead>>

serverComesBack ==
    /\ ~server
    /\ server' = TRUE
    /\ UNCHANGED <<downs, inputs, net, idleWire, session, ackRead>>

connectEnds(s) ==
    /\ "connect" \in net.ops[s]
    /\ net' = IF server THEN [Complete(net, s, "connect", TRUE, NoRequest) EXCEPT !.link[s] = "up"]
              ELSE Complete(net, s, "connect", FALSE, NoRequest)
    /\ UNCHANGED <<env, idleWire, session, ackRead>>

\* The socket has no connection and will have none.
Broken(n, s) == n.link[s] = "dead" \/ (n.link[s] = "closed" /\ "connect" \notin n.ops[s])

\* A stream whose handshake is done needs nothing of the peer.  One that is stuck waits
\* for the answer to a ClientHello that this peer was never sent.
handshakeEnds(s) ==
    /\ "handshake" \in net.ops[s]
    /\ \/ /\ net.tls[s] \in {"done", "foreign"} \/ (net.tls[s] = "begun" /\ net.link[s] = "up")
          /\ net' = [Complete(net, s, "handshake", TRUE, NoRequest) EXCEPT
                         !.tls[s] = IF @ = "begun" THEN "done" ELSE @]
       \/ /\ net.tls[s] \in {"begun", "stuck"} /\ Broken(net, s)
          /\ net' = Complete(net, s, "handshake", FALSE, NoRequest)
    /\ UNCHANGED <<env, idleWire, session, ackRead>>

\* The request reaches the server; or it is no TLS of this peer's, which closes the
\* connection; or the connection is broken: what is written may fit into the socket's
\* buffer.
writeEnds(s) ==
    /\ "write" \in net.ops[s]
    /\ \/ /\ net.link[s] = "up" /\ net.tls[s] = "done"
          /\ net' = [Complete(net, s, "write", TRUE, NoRequest) EXCEPT
                         !.wire = IF s = "http" THEN Append(@, net.out) ELSE @,
                         !.news = IF s = "idle" /\ @ = "none" THEN "asked" ELSE @]
       \/ /\ net.link[s] = "up" /\ net.tls[s] = "foreign"
          /\ net' = [Complete(net, s, "write", TRUE, NoRequest) EXCEPT !.link[s] = "dead"]
       \/ /\ Broken(net, s)
          /\ \E ok \in {FALSE} \cup {net.link[s] = "dead" /\ net.tls[s] \in {"done", "foreign"}} :
                 net' = Complete(net, s, "write", ok, NoRequest)
    /\ UNCHANGED <<env, idleWire, session, ackRead>>

serverAnswers ==
    /\ "read" \in net.ops["http"] /\ net.link["http"] = "up" /\ net.tls["http"] = "done"
    /\ net.wire # <<>>
    /\ net' = [Complete(net, "http", "read", TRUE, Head(net.wire)) EXCEPT !.wire = Tail(@)]
    /\ UNCHANGED <<env, idleWire, session, ackRead>>

\* First the acknowledgement, then messages and pings, or the error of a poll whose
\* credentials are wrong.
serverNotifies ==
    /\ "read" \in net.ops["idle"] /\ net.link["idle"] = "up" /\ net.tls["idle"] = "done"
    /\ net.news # "none"
    /\ LET accepted == idleWire.uid = idleWire.pass
           news == IF net.news = "acked" THEN News("messages", accepted) ELSE News("ack", TRUE)
       IN  net' = [Complete(net, "idle", "read", TRUE, news) EXCEPT !.news = "acked"]
    /\ UNCHANGED <<env, idleWire, session, ackRead>>

readFails(s) ==
    /\ "read" \in net.ops[s] /\ Broken(net, s)
    /\ net' = Complete(net, s, "read", FALSE, NoRequest)
    /\ UNCHANGED <<env, idleWire, session, ackRead>>

\* An operation of an object that was replaced ends: it fails, or succeeds, a read with
\* the answer.  Its handler belongs to the destroyed AsyncHttpClient (undefined
\* behaviour): it works as if nothing had happened, or the process dies, which ends the
\* behaviour.
staleEnds(o) ==
    /\ o \in net.stale
    /\ \E ok \in IF o.op = "read" /\ o.reply = NoRequest THEN {FALSE} ELSE BOOLEAN :
           net' = [net EXCEPT !.stale = @ \ {o},
                              !.ready = Append(@, [slot |-> o.slot, op |-> o.op, ok |-> ok,
                                                   late |-> TRUE, reply |-> o.reply])]
    /\ UNCHANGED <<env, idleWire, session, ackRead>>

--------------------------------------------------------------------------------
(* EventsWorker: onUserInput *)

sendRequest(n, cmd, request) ==
    /\ lastCmd' = cmd
    /\ net' = [asyncRequest(n, "http") EXCEPT !.out = request]

\* The one thread of the EventsWorker takes the next line when it is done with the last.
Types ==
    /\ typed = NotTyped
    /\ inputs < MaxInputs
    /\ inputs' = inputs + 1

\* LOGIN sends the request first and remembers the password then.
inputLogin(user, pass) ==
    /\ Types
    /\ sendRequest(net, "login", [cmd |-> "login", uid |-> user, ok |-> pass = user])
    /\ typed' = pass
    /\ UNCHANGED <<server, downs, idleWire, self, password, idleState, timeout, told,
                   ackRead>>

rememberPassword ==
    /\ typed # NotTyped
    /\ password' = typed
    /\ typed' = NotTyped
    /\ UNCHANGED <<env, net, idleWire, lastCmd, self, idleState, timeout,
                   told, ackRead>>

\* Every other command that is sent, the lines of a chat included.  Its answer may carry
\* an id, too: REGISTER, which needs no login, that of the new user.
inputRequest(id) ==
    /\ Types
    /\ \E ok \in {TRUE, id # NoUser} :
           sendRequest(net, "other", [cmd |-> "other", uid |-> id, ok |-> ok])
    /\ UNCHANGED <<server, downs, idleWire, self, password, typed, idleState, timeout,
                   told, ackRead>>

--------------------------------------------------------------------------------
(* IoThread: the handler at the head of ready, in a Net without it *)

\* makeConnected sets m_IsOpen, and fails when the socket was closed under a connect that
\* had ended; otherwise the handshake starts.  On a replaced object it starts if a read
\* or write still holds the socket.
handleConnect(n, s, late) ==
    /\ net' = IF late
              THEN IF \E o \in n.stale : o.slot = s /\ o.op \in {"write", "read"}
                   THEN [n EXCEPT !.stale = @ \cup {[slot |-> s, op |-> "handshake", reply |-> NoRequest]}]
                   ELSE asyncConnect(n, s)
              ELSE LET opened == [n EXCEPT !.open[s] = TRUE]
                   IN  IF n.link[s] = "closed" THEN asyncConnect(opened, s) ELSE async_handshake(opened, s)
    /\ UNCHANGED <<idleWire, session, ackRead>>

\* onHttpConnect and onHttpIdleConnect with an error: sleep and try again.
connectAgain_Mutant(n, s) ==
    /\ net' = n
    /\ UNCHANGED <<idleWire, session, ackRead>>
connectAgain_Deaf(n, s) ==
    /\ net' = [n EXCEPT !.ready = Append(@, Failed(s, "connect"))]
    /\ UNCHANGED <<idleWire, session, ackRead>>
connectAgain(n, s) ==
    /\ net' = asyncConnect(n, s)
    /\ UNCHANGED <<idleWire, session, ackRead>>

onHttpConnect(n) ==
    /\ told' = FALSE
    /\ IF CmdLineUser # NoUser
       THEN sendRequest(n, "login", [cmd |-> "login", uid |-> CmdLineUser,
                                     ok |-> password = CmdLineUser])
       ELSE net' = n /\ UNCHANGED lastCmd
    /\ UNCHANGED <<idleWire, self, password, typed, idleState, timeout, ackRead>>

onHttpWrite(n, ok) ==
    /\ net' = IF ok THEN asyncResponse(n, "http") ELSE n
    /\ timeout' = (timeout /\ ok)
    /\ UNCHANGED <<idleWire, lastCmd, self, password, typed, idleState, told,
                   ackRead>>

\* The read failed: a new object, and connect.
onHttpReadError(n) ==
    /\ net' = asyncConnect(createConnect(n, "http"), "http")
    /\ timeout' = FALSE
    /\ UNCHANGED <<idleWire, lastCmd, self, password, typed, idleState, told,
                   ackRead>>

\* Only the answer to LOGIN changes the state.  An answer without an id is read as 0.
onHttpRead(n, reply) ==
    /\ IF reply.ok /\ lastCmd = "login"
       THEN /\ self' = reply.uid
            /\ net' = IF n.open["idle"] THEN n ELSE asyncConnect(n, "idle")
       ELSE net' = n /\ UNCHANGED self
    /\ timeout' = FALSE
    /\ UNCHANGED <<idleWire, lastCmd, password, typed, idleState, told, ackRead>>

onHttpIdleConnect(n) ==
    /\ net' = asyncRequest(n, "idle")
    /\ idleWire' = [uid |-> self, pass |-> password]
    /\ UNCHANGED <<session, ackRead>>

onHttpIdleWrite(n, ok) ==
    /\ net' = IF ok THEN asyncResponse(n, "idle") ELSE n
    /\ UNCHANGED <<idleWire, session, ackRead>>

onHttpIdleReadError_Mutant(n) ==
    /\ told' = TRUE
    /\ net' = asyncConnect(createConnect(createConnect(n, "idle"), "http"), "http")
    /\ ackRead' = FALSE
    /\ UNCHANGED <<idleWire, lastCmd, self, password, typed, idleState, timeout>>
onHttpIdleReadError(n) ==
    /\ told' = TRUE
    /\ idleState' = FALSE
    /\ net' = asyncConnect(createConnect(createConnect(n, "idle"), "http"), "http")
    /\ ackRead' = FALSE
    /\ UNCHANGED <<idleWire, lastCmd, self, password, typed, timeout>>

onHttpIdleRead(n, reply) ==
    /\ idleState' = TRUE
    /\ ackRead' = (ackRead \/ reply.cmd = "ack")
    /\ net' = asyncResponse(n, "idle")
    /\ UNCHANGED <<idleWire, lastCmd, self, password, typed, timeout, told>>

Handle(n, e) ==
    \/ e.op = "connect" /\ e.ok /\ handleConnect(n, e.slot, e.late)
    \/ e.op \in {"connect", "handshake"} /\ ~e.ok /\ connectAgain(n, e.slot)
    \/ e.op = "handshake" /\ e.ok /\ e.slot = "http" /\ onHttpConnect(n)
    \/ e.op = "handshake" /\ e.ok /\ e.slot = "idle" /\ onHttpIdleConnect(n)
    \/ e.op = "write" /\ e.slot = "http" /\ onHttpWrite(n, e.ok)
    \/ e.op = "write" /\ e.slot = "idle" /\ onHttpIdleWrite(n, e.ok)
    \/ e.op = "read" /\ e.slot = "http" /\ ~e.ok /\ onHttpReadError(n)
    \/ e.op = "read" /\ e.slot = "http" /\ e.ok /\ onHttpRead(n, e.reply)
    \/ e.op = "read" /\ e.slot = "idle" /\ ~(e.ok /\ e.reply.ok) /\ onHttpIdleReadError(n)
    \/ e.op = "read" /\ e.slot = "idle" /\ e.ok /\ e.reply.ok /\ onHttpIdleRead(n, e.reply)

runHandler ==
    /\ net.resolving = NoSlot
    /\ net.ready # <<>>
    /\ Handle([net EXCEPT !.ready = Tail(@)], Head(net.ready))
    /\ UNCHANGED env

\* The name of the server resolves, and asyncConnect goes on.
resolved ==
    /\ net.resolving # NoSlot
    /\ \E held \in Holders(net, net.resolving) : net' = start_connect(net, net.resolving, held)
    /\ UNCHANGED <<env, idleWire, session, ackRead>>

\* m_Timeout expires: cancel ends the operations of m_Http, the socket stays open.
timeoutExpires ==
    /\ net.resolving = NoSlot
    /\ timeout
    /\ timeout' = FALSE
    /\ \E held \in Holders(net, "http") : net' = Abort(net, "http", held)
    /\ UNCHANGED <<env, idleWire, lastCmd, self, password, typed, idleState, told, ackRead>>

--------------------------------------------------------------------------------

Network(s) == connectEnds(s) \/ handshakeEnds(s) \/ writeEnds(s) \/ readFails(s)

Next ==
    \/ serverGoesDown
    \/ serverComesBack
    \/ \E s \in Slots : Network(s)
    \/ serverAnswers
    \/ serverNotifies
    \/ \E o \in net.stale : staleEnds(o)
    \/ \E user \in Users, pass \in Passwords : inputLogin(user, pass)
    \/ rememberPassword
    \/ \E id \in People : inputRequest(id)
    \/ runHandler
    \/ resolved
    \/ timeoutExpires

\* The server comes back, its name resolves, the network moves, and the threads of the
\* client run.  The user need not type anything, and an old object need not end.
Fairness ==
    /\ WF_vars(serverComesBack)
    /\ \A s \in Slots : WF_vars(Network(s))
    /\ WF_vars(serverAnswers)
    /\ WF_vars(serverNotifies)
    /\ WF_vars(rememberPassword)
    /\ WF_vars(runHandler)
    /\ WF_vars(resolved)

Spec == Init /\ [][Next]_vars

FairSpec == Spec /\ Fairness

--------------------------------------------------------------------------------
(* Properties *)

\* m_IdleState is TRUE exactly when the acknowledgement was read on the current
\* m_HttpIdle: "this is not message, just ack".  So no batch of messages is taken for
\* the acknowledgement, and no acknowledgement for messages, after any number of
\* broken connections, until operations of one kind meet on a stream.
AckFirst == ~net.clashed => (idleState <=> ackRead)

\* The attempts to connect m_Http: the one that waits for the server's name, those the
\* sockets are at, and those that ended and whose handler will start the next.
Attempts ==
    LET Connecting(o) == o.slot = "http" /\ o.op \in {"connect", "handshake"}
    IN  Cardinality({"http"} \cap {net.resolving})
        + Cardinality(net.ops["http"] \cap {"connect", "handshake"})
        + Cardinality({o \in net.stale : Connecting(o)})
        + Cardinality({i \in DOMAIN net.ready : Connecting(net.ready[i])})

\* The client that has told the user to log in again has not given up connecting:
\* no order of the errors of the two connections loses the attempt.
StillTrying == told /\ ~net.clashed => Attempts > 0

\* One attempt that no other joins connects in the end, however often the server
\* refuses it, unless a handshake was cut off: the retry uses the same SSL object, which
\* then waits for ever.
LoneAttemptConnects ==
    (told /\ Attempts = 1) ~>
        (~told \/ Attempts > 1 \/ net.tls["http"] = "stuck" \/ net.clashed)

\* "connection is broken, please relogin": the client connects again, so that the
\* user can.
CanRelogin == told ~> ~told
================================================================================
