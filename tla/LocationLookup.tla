---------------------------- MODULE LocationLookup ----------------------------
(***************************************************************************)
(* ServerLifecycle with what a handler does that creates a user: it asks   *)
(* the location service for the city of the client's address, through the  *)
(* one LocationClient of the server (server/src/location_client.cpp).  The *)
(* calls are synchronous, hold up the IoThread, and share one socket       *)
(* without a lock.                                                         *)
(*                                                                         *)
(* The service answers the first request of a connection in two pieces     *)
(* (the header, and the document that names the city) and closes; or it    *)
(* closes, or resets, without having answered.  A read that is under way   *)
(* when another thread connects the socket again ends on the connection it *)
(* began on; that much of a data race is what the kernel makes of it.      *)
(***************************************************************************)
EXTENDS ServerLifecycle, Sequences

CONSTANTS
    MaxLookups   \* bound on the calls of get_city_by_ip

ASSUME MaxLookupsAssumption == MaxLookups \in Nat

VARIABLES
    lookups,     \* number of calls so far
    call,        \* where the call of get_city_by_ip of each IoThread is
    mine,        \* the connection the call opened, 0 for none
    at,          \* the connection its read_some is on, 0 for none
    result,      \* the pieces read has appended, each with the asker it is for
    overlapped,  \* history: another call ran at the same time
    conns,       \* the connections to the service
    socket       \* the connection of _socket, 0 while it is not open

lookup == <<lookups, call, mine, at, result, overlapped, conns, socket>>
allvars == <<vars, lookup>>

Pool == 1..NumIo
Calling(k) == call[k] \notin {"none", "done"}

LookupTypeOK ==
    /\ TypeOK
    /\ lookups \in 0..MaxLookups
    /\ call \in [Pool -> {"none", "connect", "send", "read", "done"}]
    /\ \A j \in DOMAIN conns : conns[j].unread \in 0..2 /\ conns[j].asked \in Seq(Pool)
    /\ socket \in 0..Len(conns)
    /\ \A k \in Pool :
          /\ mine[k] \in 0..Len(conns) /\ at[k] \in 0..Len(conns)
          /\ call[k] # "none" => thread[k] = "in_handler"
          /\ at[k] # 0 => call[k] = "read"

LookupInit ==
    /\ Init
    /\ lookups = 0
    /\ call = [k \in Pool |-> "none"]
    /\ mine = [k \in Pool |-> 0]
    /\ at = [k \in Pool |-> 0]
    /\ result = [k \in Pool |-> <<>>]
    /\ overlapped = [k \in Pool |-> FALSE]
    /\ conns = <<>>
    /\ socket = 0
--------------------------------------------------------------------------------
(* Handlers *)

\* The handler of a connection; that of /v1/user/create calls get_city_by_ip first.
otherHandler(k) == handlerStarts(k) /\ UNCHANGED lookup

userCreate(k) ==
    /\ handlerStarts(k)
    /\ lookups < MaxLookups
    /\ lookups' = lookups + 1
    /\ call' = [call EXCEPT ![k] = "connect"]
    /\ LET others == {j \in Pool \ {k} : Calling(j)}
       IN  overlapped' = [j \in Pool |-> IF j = k THEN others # {} ELSE overlapped[j] \/ j \in others]
    /\ UNCHANGED <<mine, at, result, conns, socket>>

\* The locals of get_city_by_ip end with the handler.
clearLocals(k) ==
    /\ call' = [call EXCEPT ![k] = "none"]
    /\ mine' = [mine EXCEPT ![k] = 0]
    /\ result' = [result EXCEPT ![k] = <<>>]
    /\ overlapped' = [overlapped EXCEPT ![k] = FALSE]

endHandler(k) ==
    /\ ~Calling(k)
    /\ handlerEnds(k)
    /\ clearLocals(k)
    /\ UNCHANGED <<lookups, at, conns, socket>>
--------------------------------------------------------------------------------
(* LocationClient *)

\* connect: a name that does not resolve is only logged, the socket stays as it is.
resolveFails(k) ==
    /\ call[k] = "connect"
    /\ call' = [call EXCEPT ![k] = "send"]
    /\ UNCHANGED <<vars, lookups, mine, at, result, overlapped, conns, socket>>

\* boost::asio::connect closes the socket and opens it anew.
connects(k) ==
    /\ call[k] = "connect"
    /\ conns' = Append(conns, [asked |-> <<>>, unread |-> 0, open |-> TRUE, answered |-> FALSE])
    /\ socket' = Len(conns')
    /\ mine' = [mine EXCEPT ![k] = Len(conns')]
    /\ call' = [call EXCEPT ![k] = "send"]
    /\ UNCHANGED <<vars, lookups, at, result, overlapped>>

\* IoThread::run catches what a handler throws and goes on.
handlerThrows(k) == handlerEnds(k)

\* ... or leaves it closed and throws.
connectThrows_Mutant(k) ==
    /\ call[k] = "connect"
    /\ handlerThrows(k)
    /\ socket' = 0
    /\ UNCHANGED <<lookups, call, mine, at, result, overlapped, conns>>
connectThrows(k) ==
    /\ call[k] = "connect"
    /\ handlerThrows(k)
    /\ socket' = 0
    /\ clearLocals(k)
    /\ UNCHANGED <<lookups, at, conns>>

\* send ignores errors.
send(k) ==
    /\ call[k] = "send"
    /\ call' = [call EXCEPT ![k] = "read"]
    /\ conns' = IF socket # 0 /\ conns[socket].open
                THEN [conns EXCEPT ![socket].asked = Append(@, k)] ELSE conns
    /\ UNCHANGED <<vars, lookups, mine, at, result, overlapped, socket>>

\* read: read_some of a socket that is not open fails at once and is called again,
\* for as long as no other thread opens the socket.
readStarts(k) ==
    /\ call[k] = "read" /\ at[k] = 0
    /\ socket # 0
    /\ at' = [at EXCEPT ![k] = socket]
    /\ UNCHANGED <<vars, lookups, call, mine, result, overlapped, conns, socket>>

\* read_some returns a piece; the loop goes on.
moreAfterPiece_Mutant(k) == call' = [call EXCEPT ![k] = "done"]
moreAfterPiece(k) == UNCHANGED call

readsPiece(k) ==
    /\ at[k] # 0
    /\ conns[at[k]].unread > 0
    /\ result' = [result EXCEPT ![k] = Append(@, <<conns[at[k]].asked[1], conns[at[k]].unread>>)]
    /\ conns' = [conns EXCEPT ![at[k]].unread = @ - 1]
    /\ at' = [at EXCEPT ![k] = 0]
    /\ moreAfterPiece(k)
    /\ UNCHANGED <<vars, lookups, mine, overlapped, socket>>

\* End of file ends the loop.  A reset is an error once, then end of file.
readsEof_Mutant(k) ==
    /\ at[k] # 0
    /\ conns[at[k]].unread = 0 /\ ~conns[at[k]].open
    /\ at' = [at EXCEPT ![k] = 0]
    /\ UNCHANGED <<vars, lookups, call, mine, result, overlapped, conns, socket>>
readsEof(k) ==
    /\ at[k] # 0
    /\ conns[at[k]].unread = 0 /\ ~conns[at[k]].open
    /\ call' = [call EXCEPT ![k] = "done"]
    /\ at' = [at EXCEPT ![k] = 0]
    /\ UNCHANGED <<vars, lookups, mine, result, overlapped, conns, socket>>

\* The city in the response: the document must be all that follows the header.
Whole(k) == <<<<k, 2>>, <<k, 1>>>>
--------------------------------------------------------------------------------
(* The location service *)

InUse(j) == j = socket \/ \E k \in Pool : at[k] = j

answers(j) ==
    /\ conns[j].open /\ conns[j].asked # <<>>
    /\ conns' = [conns EXCEPT ![j].open = FALSE, ![j].unread = 2, ![j].answered = TRUE]
    /\ UNCHANGED <<vars, lookups, call, mine, at, result, overlapped, socket>>

gives_up(j) ==
    /\ conns[j].open
    /\ conns' = [conns EXCEPT ![j].open = FALSE]
    /\ UNCHANGED <<vars, lookups, call, mine, at, result, overlapped, socket>>

service == \E j \in DOMAIN conns : InUse(j) /\ (answers(j) \/ gives_up(j))
--------------------------------------------------------------------------------
get_city_by_ip(k) ==
    \/ resolveFails(k) \/ connects(k) \/ connectThrows(k) \/ send(k)
    \/ readStarts(k) \/ readsPiece(k) \/ readsEof(k)

unchanged_lookup == UNCHANGED lookup

LookupNext ==
    \/ (run \/ raise \/ handleStop \/ handleStop_next) /\ unchanged_lookup
    \/ \E k \in Pool : otherHandler(k) \/ userCreate(k) \/ endHandler(k) \/ get_city_by_ip(k)
    \/ \E k \in IoThreads : threadEnds(k) /\ unchanged_lookup
    \/ \E w \in Workers :
          (workerTakesTask(w) \/ workerEndsTask(w) \/ workerEnds(w)) /\ unchanged_lookup
    \/ service

LookupSpec == LookupInit /\ [][LookupNext]_allvars

\* As in ServerLifecycle; the service answers or closes every connection.
LookupFairness ==
    /\ WF_allvars(run /\ unchanged_lookup)
    /\ WF_allvars((handleStop \/ handleStop_next) /\ unchanged_lookup)
    /\ \A k \in Pool : WF_allvars(endHandler(k)) /\ WF_allvars(get_city_by_ip(k))
    /\ \A k \in IoThreads : WF_allvars(threadEnds(k) /\ unchanged_lookup)
    /\ \A w \in Workers : WF_allvars((workerEndsTask(w) \/ workerEnds(w)) /\ unchanged_lookup)
    /\ WF_allvars(service)

LookupFairSpec == LookupSpec /\ LookupFairness
--------------------------------------------------------------------------------
(* Properties *)

\* read loops on a socket that is not open.
Stuck(k) == call[k] = "read" /\ at[k] = 0 /\ socket = 0

\* After a signal the server comes to its end unless an IoThread loops in
\* LocationClient::read on a socket that was never opened, or closed by the failed
\* connect of another thread.
StopsUnlessStuck == signal = "raised" ~> (pc = "exited" \/ \E k \in Pool : Stuck(k))

\* A lookup that no other overlapped has its own city or none: all that was read
\* came from the connection it opened, and when the service answered there, it
\* was read to the end.
LoneLookup ==
    \A k \in Pool :
        (call[k] = "done" /\ ~overlapped[k]) =>
            result[k] = IF mine[k] # 0 /\ conns[mine[k]].answered THEN Whole(k) ELSE <<>>
================================================================================
