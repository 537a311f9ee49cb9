# GeoChat: a verification project

TLA+ models of the GeoChat server and console client, the TLC runs that check
them on small instances, and TLAPS proofs of what matters most for every size.
`PROJECT.json` lists the components, the runs, the source lines behind every
definition, the hazards, the findings and the theorems.

## The system

GeoChat is a chat over HTTPS. A client posts JSON requests to a server, which
keeps users, chats and messages in memory or in MySQL. A second connection of
the client, the *idle* one, receives new messages: the server polls its storage
for it five times a second.

| Part | Source | State it keeps | Operations |
|---|---|---|---|
| In-memory storage | `server/src/inmemory_dbconn.cpp` | users, chats, membership rows, messages, two autoincrement counters, one mutex | createUser, createChat, addUserToChat, saveMessage, getMessages (marks READ), updateUserHeartBit, lookups |
| MySQL storage | `server/src/mysql_connection.cpp`, `mysql/init.sql` | the same tables in MySQL, one connection, one static mutex | the same, each a series of SQL statements |
| API connection | `server/src/apiclient.cpp` | the details of the last request, the timer, the newest timestamp, the time of the last ping | handshake, read, route, respond, start idle, poll, cancel |
| Database worker | `server/src/database_worker.cpp`, `common/lock_queue.hpp` | the task queue and the threads | putTask, processQueue with one branch for each command |
| Server process | `server/src/server.cpp`, `common/io_thread.hpp` | the IoThreads, the acceptor, g_NeedStop | start, accept, handleStop, join |
| Console client | `client/src/client.cpp`, `event_worker.cpp` | m_Http, m_HttpIdle, m_LastCmd, m_SelfId, m_Password, m_IdleState | commands, the handlers of both connections, reconnect |
| HTTP | `net/client.cpp`, `net/async_connect.hpp` | socket, stream buffer, write buffer | connect, handshake, read headers, body or chunks, write |
| Location service client | `server/src/location_client.cpp` | one socket | get_city_by_ip (blocking) |

How they interact. Every connection belongs to one IoThread, which runs its
handlers. The read handler puts a `db::Task` with a `shared_ptr` to the
connection into the queue; a worker thread takes it, calls the storage several
times (the mutex is free between two calls) and starts the write of the answer
from *its* thread. The end of the write, on the IoThread again, starts the next
read. An idle connection has a timer instead of a read: each time it fires it
puts a poll into the queue and arms itself again. Nothing closes a connection;
it ends when no handler and no task holds it any more.

What is hard here: workers and the IoThread use one connection without a lock;
the timer races the write that should stop it; polls use a timestamp that
another thread is about to advance; messages are stamped before they are
stored; MySQL operations have no transaction; the signal handler races the
start of the threads; HTTP messages come in pieces, and their handlers consume
them with calls that would block the thread they run on; the location lookups
of all connections share one blocking socket; the client's handlers name a *member* (m_Http) that may
have been replaced since the operation was started. `PROJECT.json` has the list
of hazards with their lines.

What makes each part correct:

* storage: unique ids, every user a member of its own inbox, no dangling row, a
  name with one user and one group at most, nothing stored is ever lost;
* MySQL: the same as seen through the mutex, and no damage from failures;
* connection: one operation at a time, one response for each request, released
  when the peer is gone;
* workers: every call of the storage is on rows that exist, a history shows the
  newest messages;
* HTTP: each message is delivered once, whole and in order, however it is cut;
* delivery: nothing twice, nothing missed without a reason, the newest message
  arrives;
* process: ends on a signal, with every thread ended, unless a lookup never ends;
* lookups: those that do not overlap have their own answer;
* client: the acknowledgement of the idle connection is told from messages, and a
  broken connection can be used again.

## The modules

| Module | Models |
|---|---|
| `ChatStorage` | The tables; one action for each operation that writes, atomic because each holds the mutex. Lookups are operators. It is also the abstract specification of the storage. |
| `MysqlStorage` | `MysqlConnection`, one action for each SQL statement. `op` is the operation that holds m_Mutex and how far it is; `abandon` is a statement that throws or a process that dies. `observed` is the state of the tables when the mutex was last free; the refinement mapping is `observed` for the tables of ChatStorage. |
| `ChatService` | The branches of `processQueue` on top of ChatStorage: `pc` and `local` of each worker, one action for each storage call, so that the calls of two workers interleave. Both versions of `selectMessages`, and the history made from them. `storage` is the kind of database; with MySQL any statement may fail. |
| `ApiServer` | Connections, queue and workers. `reads`, `writes`, `armed`, `expired`, `queue`, `working` and `looping` are exactly the references that keep an `ApiClient` alive, so `Released` is its destruction. `io` is the IoThread of each connection: a handler that hangs in the location lookup (`looping`) keeps the others of its thread from running (`Blocked`). Requests are reduced to how they are routed, whether they are valid and whether their credentials hold. |
| `IdleDelivery` | The way of a message: stamped, stored, polled chat by chat, written, and the timestamp of the connection advanced when the write ends. Each statement of MySQL may fail; `getMessages` then returns the newest rows it has read. In memory is the case in which none fails. `clashed` records that a write was started while another used m_WriteBuffer. |
| `ServerLifecycle` | `Server::run`, `handleStop`, `IoThread` and the end of the workers. |
| `LocationLookup` | ServerLifecycle with the handlers that call `get_city_by_ip`: `call` is where each is, `socket` the connection the shared socket stands for, `at` the connection a read is on. |
| `HttpReader` | `asyncResponse` and the handlers behind it. The stream is a sequence of tokens; the "\r\n" of a line is two of them, so that a piece may end inside a delimiter. `Lengths` and `Sizes` are the lengths and chunk sizes that are numbers, and their values. `op` is the pending `asyncRead` with the position its next search starts from; `thread` becomes "blocked" where `read` or `read_until` would wait. |
| `ChatClient` | The client. `net` holds the sockets: what is pending on each, the state of each SSL object (`tls`), what was pending on objects that were replaced (`stale`), and `ready`, the handlers the IoThread will run, in order. The user types at any time. A command sent during a handshake waits in the stream; a retry uses the SSL object of the attempt before. |
| `MC*` | Instances for TLC. |
| `*Proofs` | Theorems and their proofs. |

Definitions whose name has `_Mutant` in it (and `connectAgain_Deaf`) are broken
versions of the definition that follows them: each makes TLC violate the
property `PROJECT.json` lists with it, which shows that the property depends on
the code being right there.

How they compose: ChatService EXTENDS ChatStorage and shows, as `UsesStorage`,
that its steps are steps of it; MysqlStorage implements ChatStorage through a
refinement mapping; LocationLookup EXTENDS ServerLifecycle: its steps are steps
inside of a handler or conjoin a step of it, so that what is proved of
ServerLifecycle is used for it too. ApiServer takes from LocationLookup that a
lookup returns, throws or loops. ApiServer, IdleDelivery and ChatClient take
reads and writes as single steps, which is what HttpReader shows them to be.

External parts, modelled from how the code uses them: the peers of the server,
the server as the client sees it, the location service, the network.

Undefined behaviour. When the client replaces m_Http while a read is pending,
the handler of that read belongs to a destroyed object. `ChatClient!staleEnds`
lets it fail, or work as if nothing had happened; a process that dies ends the
behaviour. Two overlapping writes on an idle connection of the server share
m_WriteBuffer: `OneOperation` shows that only idle connections can have them,
and `IdleDelivery` records them in `clashed`. In the client two operations of
one kind on one stream (a command typed while the login of a reconnect is being
written, an answer awaited twice) are recorded in `net.clashed`. Of what follows
such a clash nothing is claimed, and the runs do not follow it (`UntilClash`).

## The runs

| Run | Bounds | Checks |
|---|---|---|
| `storage` | two names for users and groups to compete for, one message | TypeOK, FreshIds, InboxComplete, References, NameResolution, OnlyGrows |
| `chat_service` | two workers, two users and a third that comes later, a chat, three messages, two seconds, counts of one and two, `max_count` of two bits; in memory, or in MySQL with statements that fail | ServiceTypeOK, HistoryIsNewest, HistoryIsRecent, NoInternalError, UsesStorage |
| `mysql` | one login name and one more chat name, two messages, two failures | MTypeOK, SurvivesFailures, CreatedIsComplete, ImplementsChatStorage |
| `mysql_transaction` | one login name and one more chat name, one failure | UserRowsTogether is **violated** |
| `api` | two connections, on one IoThread or on two, two workers, two requests, polls that keep up | TypeOK, OneOperation, OneReplyPerRequest, EveryRequestAnswered, GoneIsReleased |
| `api_read_error` | one connection, two workers | ReadErrorCloses is **violated** |
| `idle_delivery` | two senders, two chats, two messages, batches of two, two seconds, one poll in work and two writes; a poll may begin while the write of the one before is under way, and every statement may fail | TypeOK, OnlyNew, MissedForAReason, NewestArrives |
| `server_stops` | two IoThreads, one worker, two lookups, the signal after start-up | LookupTypeOK, ExitIsClean, LoneLookup, StopsUnlessStuck |
| `server_early_signal` | three IoThreads, two workers, the signal at any time | StopsOnSignal is **violated** |
| `client` | one user, named on the command line, two requests, the server goes down once | TypeOK, AckFirst, StillTrying, LoneAttemptConnects |
| `client_relogin` | one user, a right and a wrong password, two requests, the server goes down once | CanRelogin is **violated** |
| `http_reader` | two messages of thirteen kinds, or one and the beginning of another, in pieces of at most three tokens | TypeOK, NeverBlocks, WholeAndInOrder, EveryMessageDelivered |

Why the bounds are enough. Two names are what it takes for a user and a group
to meet, and for a name that is free. One login name is enough for MySQL, because the
operations of two names meet only in the counters. Two connections are enough
because a connection meets another one only in the queue, the workers and the
IoThread; one request can turn the connection idle and the other follow it.
`MaxQueue` and `MaxPending` stop the timer of a connection from filling the
queue; in `api` the queue has room for one poll of each connection, and a worker
waits for the end of the last write of messages to the connection, so that
neither bound disables a handler for ever. That is so because the polls of this
run are not refused and the workers keep up with them (`LookupMayFail` and
`SlowPolls` are FALSE): refused polls pile up reads and responses without
end, which is the counterexample of `api_read_error`. The safety properties are
proved for all values of these constants. Two messages of a chat are enough for
a failing statement to leave one out of a batch, and with two seconds a message
may be older, as old, or newer than another; that more than `MaxCount` come at
once is covered by the theorem only. In ChatService two workers are what it takes for a message to be stored out of
order, and three messages for the history to leave one out; `max_count` has two
bits instead of 32, so that twice a count of two is 0, "no limit". The third user
has the name of the chat and a history with himself. Tasks
that are not about messages begin before the first message only (`MaxEarly`):
they do not look at messages, and messages need nothing of users and chats but
that they exist. Two lookups are what it takes to meet on the
socket. Two HTTP messages are what it takes for a piece to hold the end of one
and the beginning of the next; bodies look like delimiters. In the client the
interesting histories
are those with one request under way when the server goes down, a login before
and after it, and a command typed while the login that every reconnect sends is
under way.

CHECK_DEADLOCK FALSE appears where the system may rest: connections that are
closed, a server that has ended, a clock that has reached its bound.

What the runs show.

* *Storage.* The order of the operations, in which many clients take part, never
  breaks an id, a membership or a name. A user and a group may share a name (the
  group first): `NameResolution` says exactly what a name means then.
* *MySQL.* The mutex, which all connections of the process share, makes the
  statements of an operation one step: the other threads see the operations of
  `ChatStorage`, also on top of what failed operations left behind. Failures
  never lead to two users of one name or to dangling rows. But the comment above
  `createUser` promises a transaction that is not there: a user may be left
  without its membership row, and then gets no messages.
* *Workers.* Nothing is ever deleted, so that what a worker looked up is there
  when it uses it, and no interleaving of registrations gives a name two users.
  A MySQL statement that fails looks like a missing row, or like nothing at all: a message
  may be acknowledged and lost, but no call is made on a row that is not there.
  The history read from memory is right although messages are stored out of
  order, because it reads twice as many rows as it shows: each other worker may
  have one message under way. For a count smaller than the number of other
  workers that is not enough. From MySQL it shows the messages of two users
  only as far as they are among the last `2 * count` messages of *all* users.
  A history with oneself is made of the same rows twice: each message is shown
  two times, and the count is used up by half as many messages. Both properties
  count a message as often as it is listed (`Copies`).
* *HTTP.* However the bytes are cut, every message is delivered once, whole and
  in order. The synchronous reads inside the handlers never have to wait: their
  timed part, which would wait for the thread it runs on, is never reached.
* *Connections.* Before a connection turns idle it is serial, whatever the
  workers do, so that answers cannot overlap or be exchanged. With right
  credentials an idle connection whose peer is gone is released by a failing
  ping, although `cancel` may come too late for the timer. With wrong ones it is
  not: see the finding of `api_read_error`. All of this ends for the connections
  of an IoThread whose handler asks for a location and never returns: the name
  of the service does not resolve, and `LocationClient::read` asks a socket that
  is not open for ever. The connections of the other IoThreads, and the workers,
  are not held up.
* *Delivery.* On a connection whose polls do not overlap no message comes twice.
  Messages may be missed, for the reasons `MissedForAReason` lists: timestamps have a resolution
  of a second and are older than the message's place in the storage, a poll
  that finds more than it may take forgets the oldest, and so does one that MySQL
  fails half way through a chat, since it reads the newest message first. Polls
  overlap when the storage, or the write, is slower than the timer, and then the
  same message is sent again. The other properties hold for such connections too,
  until two of their writes are under way at once: nothing keeps a worker from
  replacing m_WriteBuffer under a write, and m_NewestMsgTimestamp may then pass
  messages that never arrived.
* *Process.* A signal after start-up ends the server; one during start-up may
  leave `run` waiting for a thread that nobody stops. The other thing that keeps
  the server from ending is a lookup: `LocationClient::read` loops for ever on a
  socket that is not open. A lookup that meets no other reads its own answer to
  the end or nothing; two that overlap may exchange or mix their answers.
* *Client.* However both connections break, and whatever the user types
  meanwhile, the acknowledgement is told from messages and an attempt to
  reconnect is under way. A lone attempt succeeds in the end, unless the server
  cut off its handshake: the retry takes up the same SSL object in the middle of
  that handshake, and waits for an answer to a ClientHello the new peer was never
  sent. Two attempts, one started by each connection after the same failure,
  abort each other for ever: `asyncConnect` closes the socket before it connects.
  Either way the client never connects again (`client_relogin`; TLC's trace is
  the first, and a run that stops at a stuck SSL object finds the second). There
  is one m_LastCmd for all that is under way on m_Http: the answer to a command
  may be read as that of the login, whose id it then takes; the model has it, and
  no property denies it.

Fairness. Handlers that are due run, since every IoThread is in
`io_service::run` and catches exceptions, unless one of the same IoThread loops
in the location lookup, of which nothing says that it ever ends; workers poll the queue every few
milliseconds; timers expire. TCP delivers, and the owner of a connection reads
again after every message. The location service answers or closes. The peer, the user and the signal owe nothing. In
`ApiServer` strong fairness of a failing write *while the timer is armed* says
that the failure does not fall, each single time, into the microseconds between
the expiry of the timer and its handler. In `IdleDelivery` strong fairness says
that MySQL does not fail each single time: again and again the user is found,
and a chat is read to its end. In `ChatClient` the server comes back, its name
resolves, and the network moves, but operations of replaced objects need not
end. The counterexamples to `CanRelogin` are fair to all of that: the handshake
waits for a peer that waits for it, or the attempts do end, but always after the
socket was closed under them.

## The proofs

`tlapm` checks every proof; nothing is assumed but the named ASSUMEs of the
modules, which the runs evaluate. They say that bounds and times are natural
numbers, that the "no such thing" values are none of the real ones, that the
clock shows times a message may have, that the registered users have different
names, that there are finitely many workers, that an HTTP message is a record of
lines and chunks, and that lengths and chunk sizes that are numbers are natural
ones.

* `ChatStorageProofs`: `TypeCorrect`, `IdsAreFresh`, `InboxesComplete`,
  `ReferencesResolve`, `NamesResolve` and `NeverShrinks` (OnlyGrows), for any
  names, passwords, times and limits. The four invariants are inductive only
  together, with the types: that an inbox stays complete needs that the fresh
  chat id is not in use, and that a name keeps its meaning needs that the chat of
  a user can be told from a group.
* `MysqlStorageProofs`: `MysqlTypeCorrect`, `TablesSurvive` (SurvivesFailures),
  `CreatedUsersComplete` (CreatedIsComplete) and `MysqlImplements`
  (ImplementsChatStorage). The invariant `MInv` says, for each place at which an
  operation can be under the mutex, by what the tables differ from `observed`:
  by the rows the operation has inserted so far, or by the READ marks of the
  messages it has updated so far, and by nothing when the mutex is free. The
  statement that ends an operation is then the step of ChatStorage, and all
  others leave `observed` alone. An operation that is abandoned leaves tables in
  which no id is used twice and no row dangles, whatever statement it was at.
* `ChatServiceProofs`: `ServiceUsesStorage` (UsesStorage), `NoInternalErrors`,
  `ServiceTypeCorrect`, `HistoriesAreNewest` and `HistoriesAreRecent`, for any
  number of workers, messages and bits of `max_count`. The first two rest on what
  is proved of ChatStorage: rows only grow, so what a worker has looked up is
  still there (`ServiceInv`). The histories need a counting argument, `LateInv`:
  the messages that were stored after message i with an earlier timestamp, and
  the workers that still hold one to store, are together fewer than the workers,
  since the clock never goes back and only what was stamped before i was stored
  can be late. So the `2 * count` newest rows hold the `count` newest messages as
  long as `count` is not smaller than the number of other workers.
* `ApiServerProofs`: `ApiTypeCorrect`, `SerialConnections` (OneOperation) and
  `RepliesFollowRequests` (OneReplyPerRequest), for any number of connections,
  workers and requests. `Serial(c)` is stated so that it is inductive: at most
  one task in the queue or in work, at most one read or response, never both, no
  idle task and no timer before the idle request. The argument goes action by
  action: each consumes the one operation it belongs to and starts at most one.
* `IdleDeliveryProofs`: `IdleTypeCorrect`, `WritesAreNew` (OnlyNew) and
  `OnlyMissedForAReason` (MissedForAReason), for any number of senders, chats,
  pollers, writes, messages and any batch size, with any statements failing.
  `IdleInv` follows a message from the storage to the peer: `Taken` says that a
  message a poll passed over has a whole batch of newer ones after it or was left
  out by a statement that failed, `InTime` that the one poll or write under
  way holds only what is newer than everything delivered, and `Passes` that the
  times the connection has passed, or passes when the write under way ends, leave
  no message behind that is neither delivered nor missed for a reason. Only
  `InTime` is restricted to connections whose polls do not overlap; `Passes` is
  to those whose writes did not clash.
* `ServerLifecycleProofs`: `CleanExit` (ExitIsClean), for any number of threads
  and a signal at any time. The invariant relates the program counter of
  `Server::run` to the threads it has joined so far, and a thread that has ended
  never runs again. `LookupCleanExit` shows that a server with lookups exits
  cleanly too; `LookupTypeCorrect` and `LoneLookupCorrect` (LoneLookup) are about
  the shared socket: a lookup that nobody joined is on the connection it opened.
* `HttpReaderProofs`: `ReaderTypeCorrect` and `HandlersNeverBlock` (NeverBlocks),
  for any messages and any way the stream is cut. `ReaderInv` says that the
  search of each `asyncRead` starts at the beginning of the buffer, so that what
  it reports is in the buffer when a handler consumes it. The stream of a message
  is made with the recursive fold of FlattenSeq; what that joins is proved with
  least counterexamples, without induction over an operator.

  `MessagesWholeAndInOrder` (WholeAndInOrder) is about peers whose framing tells
  the truth (`FramedMessages`): a header line is not empty and not a delimiter,
  the announced length is that of the body, and the chunk of size 0 is the last.
  A message that does not begin with a start line, or whose length or chunk size
  is not a number, is framed too; nothing is asked of what follows the error. The
  messages of the run satisfy it (`MCMessagesFramed`). Without it the property is
  false, and not because of the code: no reader can find the end of a body whose
  length is a lie. `Follows` is the inductive invariant: so many messages were
  answered with their outcomes, and the rest of the stream (the buffer, what the
  socket has not returned, and for a message that is cut off what it never will)
  is the next messages, or what is left of the one the chain of handlers is in
  (`Within`): all of it before the header was read (`AtHead`), its body
  (`AtBody`), its chunks from the i-th on (`AtSize`), or the data of the i-th and
  the chunks after it (`AtChunk`), the reply holding the data before them. The
  lemmas about delimiters show that the first one in the stream is where the
  header or the chunk size ends, whatever the bodies hold, and that the buffer has
  it exactly when it has arrived; so each handler takes the part it is due and
  leaves the rest (`HeadersFollow`, `BodyFollow`, `SizeFollow`, `ChunkFollow`). At
  the end of the stream the reader waits only inside of a message that is cut off
  (`WholeNotAwaited`).
* `ChatClientProofs`: `ClientTypeCorrect`, `AckComesFirst` (AckFirst) and
  `NeverGivesUp` (StillTrying), for any users and any number of requests and
  failures of the server. The invariant `ClientInv` is mostly about `net`, so that
  each operation on a socket (`start_connect`, `createConnect`, `Start`,
  `async_handshake`, `Abort`, the end of an operation) is shown once to keep it
  (`Safe`, `Keeps`), and a handler that makes several of them keeps it too
  (`KeepsTrans`). `Good` is the types, with what TypeOK says beyond them: an
  object is `Fresh` until its first handshake, because what was pending on the one
  it replaced is stale. `IdleOk` says that m_HttpIdle has one read at a time, its
  handler included, that none is left on a replaced object, and that messages
  arrive after the acknowledgement was read (`Acks`). `Trying` is an attempt to
  connect m_Http wherever it may be: at the resolver, on the socket, on a replaced
  object, or in a handler that is due. `IdleOk` is claimed until operations of one
  kind meet on a stream: a handler of a replaced object may start a second read of
  m_HttpIdle, and that is such a clash.

Only model-checked: liveness (EveryRequestAnswered, GoneIsReleased,
NewestArrives, StopsUnlessStuck, EveryMessageDelivered, LoneAttemptConnects),
which this prover cannot do. Every invariant and every action property that a
passing run checks is proved.

## Not modelled

* The text of requests and responses (JSON, formatting), the console,
  configuration, logging and vendored code: no state depends on them.
* `TcpClient::connect` and `sync_connect.hpp` with its timer, which nothing
  calls, and the timed part of `read` and `read_until`, which is never reached.
* In HttpReader: chunk extensions and trailers, which the code does not know
  either; a chunk size within two of 2^64; `inflateInit2` running out of memory.
* The rows a half-failed `createUser` leaves, as seen by the branches: ChatService
  lets its first statement fail, MysqlStorage any of them.
* What follows two operations of one kind on one stream, in the client and on an
  idle connection of the server: undefined behaviour.
* The client's chat mode, which only decides whether a line is a command or a
  message, and QUIT, which kills the process; `lookupUserByCity`, which nothing
  calls.

## Plan

1. IdleDelivery with two connections of one user, one after the other: what the
   heartbit of the first makes the second skip.
