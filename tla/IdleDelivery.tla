------------------------------ MODULE IdleDelivery ------------------------------
(***************************************************************************)
(* How messages reach the idle connections of one user: the timer of       *)
(* ApiClient puts a poll with the timestamp of the newest message the peer *)
(* has, a worker collects what is newer in each chat of the user, and the  *)
(* end of the write tells the connection which message is the newest now.  *)
(* Timestamps are whole seconds, taken from the clock before the message   *)
(* is stored.  Statements of the storage may fail: MySQL then returns what *)
(* it has read so far.                                                     *)
(*                                                                         *)
(* ApiServer has the other side of the connection: requests, errors and    *)
(* the lifetime of the timer.  Here the credentials are right.             *)
(***************************************************************************)
EXTENDS Integers, Sequences, FiniteSets, FiniteSetsExt

CONSTANTS
    Conns,        \* connections the user's clients make, one after the other or at once
    NumChats,     \* the chats of the user, numbered in the order of lookupChatsForUserId
    Senders,      \* workers that process MESSAGE_SEND and MESSAGE_SEND_CHAT
    Pollers,      \* workers that process IDLE; bounds the polls in work
    Slots,        \* bounds the writes that are under way at once
    MaxCount,     \* get_msg_opt_t::max_count, at most that many messages of a chat in a poll
    NoMessage,
    NoPoll,
    NoWrite,
    MaxClock,     \* bound on the clock
    MaxMessages   \* bound on the messages stamped

ASSUME SizesAssumption == NumChats \in Nat /\ MaxCount \in Nat \ {0}
ASSUME BoundsAssumption == MaxClock \in Nat \ {0} /\ MaxMessages \in Nat

VARIABLES
    clock,        \* time(NULL)
    sending,      \* the message a sender has stamped and not stored yet
    messages,     \* the messages to the user's chats in the order they were stored
    heartbit,     \* the user's heartbit in the storage
    state,        \* of each connection
    first_ts,     \* history: the heartbit the client sent with its idle request
    params_ts,    \* m_RequestDetails.params.ts
    newest,       \* m_NewestMsgTimestamp
    armed,        \* m_Timer is waiting
    polls,        \* the IDLE tasks, queued or in work
    writes,       \* the writes to the connections
    delivered,    \* history: the messages that are known to have reached the peer
    overlapped,   \* history: a poll began before the previous one was over
    clashed,      \* history: a write began while another used m_WriteBuffer
    cut           \* history: messages left out of a list by a statement that failed

store == <<clock, sending, messages, heartbit>>
conn == <<state, first_ts, params_ts, newest, armed>>
history == <<delivered, overlapped, clashed, cut>>
vars == <<store, conn, polls, writes, history>>

Chats == 1..NumChats
Times == 1..MaxClock
Message == [chat : Chats, ts : Times]

\* at: 0 while the task is queued, else the next chat to ask for.
Poll == [conn : Conns, ts : 0..MaxClock, ping : BOOLEAN, at : 0..(NumChats + 1),
         batch : SUBSET (1..MaxMessages)]
\* A write of messages tells the connection the newest timestamp; an answer does not.
Write == [conn : Conns, kind : {"messages", "answer"}, batch : SUBSET (1..MaxMessages),
          max_ts : 0..MaxClock]

ASSUME NoneAssumption == NoMessage \notin Message /\ NoPoll \notin Poll /\ NoWrite \notin Write

TypeOK ==
    /\ clock \in Times
    /\ sending \in [Senders -> Message \cup {NoMessage}]
    /\ messages \in Seq(Message) /\ Len(messages) <= MaxMessages
    /\ heartbit \in 0..MaxClock
    /\ state \in [Conns -> {"new", "login", "idle", "gone"}]
    /\ first_ts \in [Conns -> 0..MaxClock]
    /\ params_ts \in [Conns -> 0..MaxClock]
    /\ newest \in [Conns -> 0..MaxClock]
    /\ armed \in [Conns -> BOOLEAN]
    /\ polls \in [Pollers -> Poll \cup {NoPoll}]
    /\ writes \in [Slots -> Write \cup {NoWrite}]
    /\ delivered \in [Conns -> SUBSET (DOMAIN messages)]
    /\ overlapped \in [Conns -> BOOLEAN]
    /\ clashed \in [Conns -> BOOLEAN]
    /\ cut \in [Conns -> SUBSET (DOMAIN messages)]

Init ==
    /\ clock = 1
    /\ sending = [s \in Senders |-> NoMessage]
    /\ messages = <<>>
    /\ heartbit \in {0, 1}    \* in memory, or NOW() in MySQL
    /\ state = [c \in Conns |-> "new"]
    /\ first_ts = [c \in Conns |-> 0]
    /\ params_ts = [c \in Conns |-> 0]
    /\ newest = [c \in Conns |-> 0]
    /\ armed = [c \in Conns |-> FALSE]
    /\ polls = [p \in Pollers |-> NoPoll]
    /\ writes = [k \in Slots |-> NoWrite]
    /\ delivered = [c \in Conns |-> {}]
    /\ overlapped = [c \in Conns |-> FALSE]
    /\ clashed = [c \in Conns |-> FALSE]
    /\ cut = [c \in Conns |-> {}]

tick ==
    /\ clock < MaxClock
    /\ clock' = clock + 1
    /\ UNCHANGED <<sending, messages, heartbit, conn, polls, writes, history>>

--------------------------------------------------------------------------------
(* MESSAGE_SEND and MESSAGE_SEND_CHAT: the time is taken, then the message  *)
(* is stored under the storage's mutex.                                     *)

stampMessage(s, chat) ==
    /\ sending[s] = NoMessage
    /\ Len(messages) + Cardinality({t \in Senders : sending[t] # NoMessage}) < MaxMessages
    /\ sending' = [sending EXCEPT ![s] = [chat |-> chat, ts |-> clock]]
    /\ UNCHANGED <<clock, messages, heartbit, conn, polls, writes, history>>

saveMessage(s) ==
    /\ sending[s] # NoMessage
    /\ messages' = Append(messages, sending[s])
    /\ sending' = [sending EXCEPT ![s] = NoMessage]
    /\ UNCHANGED <<clock, heartbit, conn, polls, writes, history>>

\* The INSERT fails: the sender is told that all is well.
saveFails(s) ==
    /\ sending[s] # NoMessage
    /\ sending' = [sending EXCEPT ![s] = NoMessage]
    /\ UNCHANGED <<clock, messages, heartbit, conn, polls, writes, history>>

--------------------------------------------------------------------------------
(* The connection *)

PollOf(p, c) == polls[p] # NoPoll /\ polls[p].conn = c
WriteOf(k, c) == writes[k] # NoWrite /\ writes[k].conn = c

\* Nothing waits for the write before: its m_WriteBuffer is replaced under it.
asyncWrite(c, kind, batch, max_ts) ==
    /\ \E k \in Slots : writes[k] = NoWrite
    /\ writes' = [writes EXCEPT ![CHOOSE k \in Slots : writes[k] = NoWrite] =
                     [conn |-> c, kind |-> kind, batch |-> batch, max_ts |-> max_ts]]
    /\ clashed' = [clashed EXCEPT ![c] = @ \/ \E k \in Slots : WriteOf(k, c)]

\* The answer to USER_LOGIN carries the heartbit; the client sends it with the
\* idle request.
login(c) ==
    /\ state[c] = "new"
    /\ state' = [state EXCEPT ![c] = "login"]
    /\ first_ts' = [first_ts EXCEPT ![c] = heartbit]
    /\ UNCHANGED <<store, params_ts, newest, armed, polls, writes, history>>

sendOkResponseAndStartIdle(c) ==
    /\ state[c] = "login"
    /\ state' = [state EXCEPT ![c] = "idle"]
    /\ params_ts' = [params_ts EXCEPT ![c] = first_ts[c]]
    /\ asyncWrite(c, "answer", {}, 0)
    /\ armed' = [armed EXCEPT ![c] = TRUE]
    /\ UNCHANGED <<store, first_ts, newest, polls, delivered, overlapped, cut>>

peerCloses(c) ==
    /\ state[c] = "idle"
    /\ state' = [state EXCEPT ![c] = "gone"]
    /\ UNCHANGED <<store, first_ts, params_ts, newest, armed, polls, writes, history>>

\* Nothing of the connection's last poll is under way.
Quiet(c) ==
    /\ \A p \in Pollers : ~PollOf(p, c)
    /\ \A k \in Slots : ~WriteOf(k, c)

Newer_Mutant(c) == newest[c]
Newer(c) == IF newest[c] > params_ts[c] THEN newest[c] ELSE params_ts[c]

\* A ping is due every 5 seconds; it matters only that it may be.
timerWaitTaskResultHandler_Mutant(c, p, ping) ==
    /\ armed[c]
    /\ polls[p] = NoPoll
    /\ params_ts' = [params_ts EXCEPT ![c] = Newer(c)]
    /\ polls' = [polls EXCEPT ![p] =
                    [conn |-> c, ts |-> Newer(c), ping |-> ping, at |-> 0, batch |-> {}]]
    /\ armed' = [armed EXCEPT ![c] = FALSE]
    /\ overlapped' = [overlapped EXCEPT ![c] = @ \/ ~Quiet(c)]
    /\ UNCHANGED <<store, state, first_ts, newest, writes, delivered, clashed, cut>>
timerWaitTaskResultHandler(c, p, ping) ==
    /\ armed[c]
    /\ polls[p] = NoPoll
    /\ params_ts' = [params_ts EXCEPT ![c] = Newer(c)]
    /\ polls' = [polls EXCEPT ![p] =
                    [conn |-> c, ts |-> Newer(c), ping |-> ping, at |-> 0, batch |-> {}]]
    /\ overlapped' = [overlapped EXCEPT ![c] = @ \/ ~Quiet(c)]
    /\ UNCHANGED <<store, state, first_ts, newest, armed, writes, delivered, clashed, cut>>

--------------------------------------------------------------------------------
(* processQueue, the branch for IDLE *)

\* The user is not found, the lookup having failed: the poll is answered with an error.
lookup_check_pass(p) ==
    /\ polls[p] # NoPoll /\ polls[p].at = 0
    /\ asyncWrite(polls[p].conn, "answer", {}, 0)
    /\ polls' = [polls EXCEPT ![p] = NoPoll]
    /\ UNCHANGED <<store, conn, delivered, overlapped, cut>>

\* The UPDATE may fail; the poll goes on.
updateUserHeartBit(p) ==
    /\ polls[p] # NoPoll /\ polls[p].at = 0
    /\ heartbit' \in {heartbit, clock}
    /\ polls' = [polls EXCEPT ![p].at = 1]
    /\ UNCHANGED <<clock, sending, messages, conn, writes, history>>

\* The messages of a chat that are newer than ts.  The last MaxCount of them are read,
\* the newest first; the statement for row n + 1 fails, or n is MaxCount.
NewMessages(chat, ts) == {i \in DOMAIN messages : messages[i].chat = chat /\ messages[i].ts > ts}

getMessages(chat, ts, n) ==
    LET found == NewMessages(chat, ts)
    IN  {i \in found : Cardinality({j \in found : j > i}) < n}

\* One chat at a time: the storage's mutex is free between two chats.  With n = 0 the
\* lookup of the chat failed, or the SELECT.
pollChat_Mutant(p, n) ==
    /\ polls[p] # NoPoll /\ polls[p].at \in 1..(NumChats + 1)
    /\ polls' = [polls EXCEPT ![p].batch = @ \cup getMessages(polls[p].at, polls[p].ts, n),
                              ![p].at = @ + 1]
    /\ UNCHANGED <<store, conn, writes, history>>
pollChat(p, n) ==
    /\ polls[p] # NoPoll /\ polls[p].at \in Chats
    /\ LET all == getMessages(polls[p].at, polls[p].ts, MaxCount)
           msgs == getMessages(polls[p].at, polls[p].ts, n)
       IN  /\ polls' = [polls EXCEPT ![p].batch = @ \cup msgs, ![p].at = @ + 1]
           /\ cut' = [cut EXCEPT ![polls[p].conn] = IF msgs = {} THEN @ ELSE @ \cup (all \ msgs)]
    /\ UNCHANGED <<store, conn, writes, delivered, overlapped, clashed>>

max_timestamp_Mutant(batch) == clock
max_timestamp(batch) == IF batch = {} THEN 0 ELSE Max({messages[i].ts : i \in batch})

\* sendMessagesToIdleConn, if there is something to send.
pollEnd(p) ==
    /\ polls[p] # NoPoll /\ polls[p].at = NumChats + 1
    /\ IF polls[p].batch # {} \/ polls[p].ping
       THEN asyncWrite(polls[p].conn, "messages", polls[p].batch, max_timestamp(polls[p].batch))
       ELSE UNCHANGED <<writes, clashed>>
    /\ polls' = [polls EXCEPT ![p] = NoPoll]
    /\ UNCHANGED <<store, conn, delivered, overlapped, cut>>

\* The handler of the write.  To a peer that is gone it may still end well; what the
\* peer has of writes that clashed is not known.
writeDone(k, c) ==
    /\ WriteOf(k, c)
    /\ newest' = [newest EXCEPT ![c] = IF writes[k].kind = "messages" THEN writes[k].max_ts ELSE @]
    /\ delivered' = [delivered EXCEPT ![c] =
                        IF state[c] = "idle" /\ ~clashed[c] THEN @ \cup writes[k].batch ELSE @]
    /\ writes' = [writes EXCEPT ![k] = NoWrite]
    /\ UNCHANGED <<store, state, first_ts, params_ts, armed, polls, overlapped, clashed, cut>>

writeFails(k, c) ==
    /\ WriteOf(k, c)
    /\ state[c] = "gone"
    /\ armed' = [armed EXCEPT ![c] = @ /\ writes[k].kind = "answer"]
    /\ writes' = [writes EXCEPT ![k] = NoWrite]
    /\ UNCHANGED <<store, state, first_ts, params_ts, newest, polls, history>>

--------------------------------------------------------------------------------

SendStep(s) ==
    \/ \E chat \in Chats : stampMessage(s, chat)
    \/ saveMessage(s)
    \/ saveFails(s)

ConnStep(c) ==
    \/ login(c)
    \/ sendOkResponseAndStartIdle(c)
    \/ peerCloses(c)
    \/ \E p \in Pollers, ping \in BOOLEAN : timerWaitTaskResultHandler(c, p, ping)

PollStep(p) ==
    \/ lookup_check_pass(p)
    \/ updateUserHeartBit(p)
    \/ \E n \in 0..MaxCount : pollChat(p, n)
    \/ pollEnd(p)

WriteStep(k) == \E c \in Conns : writeDone(k, c) \/ writeFails(k, c)

Next ==
    \/ tick
    \/ \E s \in Senders : SendStep(s)
    \/ \E c \in Conns : ConnStep(c)
    \/ \E p \in Pollers : PollStep(p)
    \/ \E k \in Slots : WriteStep(k)

\* Timers expire, workers go on, and a write to a peer that stays comes to its end.
\* The storage does not fail every time: the user is found, and the messages of each
\* chat are read to the end, again and again.
Fairness ==
    /\ \A c \in Conns :
           WF_vars(\E p \in Pollers, ping \in BOOLEAN : timerWaitTaskResultHandler(c, p, ping))
    /\ \A k \in Slots : WF_vars(WriteStep(k))
    /\ \A p \in Pollers :
           /\ WF_vars(PollStep(p))
           /\ SF_vars(updateUserHeartBit(p))
           /\ \A chat \in Chats : SF_vars(polls[p] # NoPoll /\ polls[p].at = chat /\ pollChat(p, MaxCount))

Spec == Init /\ [][Next]_vars

FairSpec == Spec /\ Fairness

--------------------------------------------------------------------------------
(* Properties *)

ts(i) == messages[i].ts

\* m_NewestMsgTimestamp, "notify client only about new messages": what is written
\* to a connection is newer than all the peer has.  In particular no message is
\* delivered twice on a connection, although a ping resets m_NewestMsgTimestamp.
\* This holds as long as each poll, its write included, is over when the timer fires
\* again; polls that overlap, the storage being slow, send the same message twice.
OnlyNew ==
    \A k \in Slots : \A c \in Conns : (WriteOf(k, c) /\ ~overlapped[c]) =>
        \A i \in writes[k].batch, j \in delivered[c] : ts(i) > ts(j)

\* What the polls of a connection have passed without delivering it.
Missed(c) ==
    {i \in DOMAIN messages : ts(i) > first_ts[c] /\ ts(i) <= params_ts[c]} \ delivered[c]

\* A message is missed only because the peer has another one, of the same second,
\* of another chat, stored before it but stamped after it, or a later one of its chat
\* when more than MaxCount came at once or MySQL failed between the two.  One sender
\* who writes to one chat, a message a second, loses none while no statement fails.
\* It holds for polls that overlap too, but not once two writes have shared
\* m_WriteBuffer: m_NewestMsgTimestamp then passes what never arrived.
MissedForAReason ==
    \A c \in Conns : (state[c] = "idle" /\ ~clashed[c]) =>
        \A i \in Missed(c) : \E j \in delivered[c] :
            /\ ts(j) >= ts(i)
            /\ \/ ts(j) = ts(i)
               \/ messages[j].chat # messages[i].chat
               \/ j < i
               \/ i \in cut[c]
               \/ Cardinality({k \in DOMAIN messages :
                      k > i /\ messages[k].chat = messages[i].chat}) >= MaxCount

\* A message that is newer than all others reaches every idle connection whose
\* client did not have it at login, also one that was stored before the login,
\* and although statements fail, as long as the writes of the connection do not clash.
NewestArrives ==
    \A c \in Conns : \A i \in 1..MaxMessages :
        (state[c] = "idle" /\ i \in DOMAIN messages /\ ts(i) > first_ts[c])
            ~> \/ i \in delivered[c]
               \/ state[c] = "gone"
               \/ clashed[c]
               \/ i \in DOMAIN messages /\ \E j \in DOMAIN messages \ {i} : ts(j) >= ts(i)
================================================================================
