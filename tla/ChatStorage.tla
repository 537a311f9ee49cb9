------------------------------ MODULE ChatStorage ------------------------------
(***************************************************************************)
(* What an AbstractConnection (server/src/database.hpp) promises, as its   *)
(* in-memory implementation InMemoryConnection keeps it: four tables and   *)
(* two autoincrement counters, every operation atomic under m_Mutex.       *)
(*                                                                         *)
(* users and chats are sets of rows (their order is never observable, ids  *)
(* tell rows apart); chatuser and messages are sequences, because a        *)
(* duplicate membership row and the order of messages are observable.      *)
(* Storage paths, ip addresses and cities are payload and left out.        *)
(***************************************************************************)
EXTENDS Integers, Sequences, FiniteSets

CONSTANTS
    Names,            \* user and chat names
    Passwords,        \* encrypted passwords, as stored
    Times,            \* values of time(NULL)
    Counts,           \* values of get_msg_opt_t::max_count; 0 means no limit
    FirstHeartBits,   \* heartbit of a new user: 0 in memory, NOW() in MySQL
    MaxMessages       \* bound on the number of messages stored

ASSUME TimesAssumption == Times \subseteq Nat
ASSUME CountsAssumption == Counts \subseteq Nat
ASSUME HeartBitsAssumption == FirstHeartBits \subseteq Nat
ASSUME MaxMessagesAssumption == MaxMessages \in Nat

VARIABLES
    users,
    chats,
    chatuser,
    messages,
    user_autoincrement,
    chat_autoincrement

vars == <<users, chats, chatuser, messages, user_autoincrement, chat_autoincrement>>

Ids == Nat \ {0}     \* 0 is the id of the empty object every failed lookup returns

User == [id : Ids, self_chat_id : Ids, name : Names, password : Passwords, heartbit : Nat]
Chat == [id : Ids, name : Names]
Chatuser == [chatid : Ids, uid : Ids]
Message == [user_from : Ids, chat_to : Ids, ts : Nat, flags : {"UNREAD", "READ"}]

TypeOK ==
    /\ users \subseteq User
    /\ chats \subseteq Chat
    /\ chatuser \in Seq(Chatuser)
    /\ messages \in Seq(Message)
    /\ user_autoincrement \in Ids
    /\ chat_autoincrement \in Ids

Init ==
    /\ users = {}
    /\ chats = {}
    /\ chatuser = <<>>
    /\ messages = <<>>
    /\ user_autoincrement = 1
    /\ chat_autoincrement = 1

--------------------------------------------------------------------------------
(* Lookups *)

lookupUserByName(name) == {u \in users : u.name = name}

lookupChatByName(name) == {c \in chats : c.name = name}

lookupUserById(id) == {u \in users : u.id = id}     \* {} stands for the empty User

lookupChatById(id) == {c \in chats : c.id = id}

\* The membership rows of a user; a chat listed twice would be polled twice.
lookupChatsForUserId(uid) == {i \in DOMAIN chatuser : chatuser[i].uid = uid}

lookupUsersForChatId(chatid) == {i \in DOMAIN chatuser : chatuser[i].chatid = chatid}

\* Both scans of the message vector run from the newest to the oldest message
\* and stop once max matches are collected: the last max members of S.
Newest(S, max) == {i \in S : max = 0 \/ Cardinality({j \in S : j > i}) < max}

NewMessages(chatid, ts) ==
    {i \in DOMAIN messages : messages[i].chat_to = chatid /\ messages[i].ts > ts}

--------------------------------------------------------------------------------
(* Operations that change the storage *)

updateUserHeartBit(user, ts) ==
    /\ users' = (users \ {user}) \cup {[user EXCEPT !.heartbit = ts]}
    /\ UNCHANGED <<chats, chatuser, messages, user_autoincrement, chat_autoincrement>>

\* Both create operations take the ids from the counters and advance them.
nextChatId_Mutant == chat_autoincrement' = chat_autoincrement
nextChatId == chat_autoincrement' = chat_autoincrement + 1

newMember_Mutant(uid) == chatuser' = chatuser
newMember(uid) == chatuser' = Append(chatuser, [chatid |-> chat_autoincrement, uid |-> uid])

userNameTaken_Mutant(name) == FALSE
userNameTaken(name) == lookupUserByName(name) # {}

\* Only user names are compared: a group chat may already have this name.
createUser(name, pass, hb) ==
    /\ ~userNameTaken(name)
    /\ chats' = chats \cup {[id |-> chat_autoincrement, name |-> name]}
    /\ users' = users \cup {[id |-> user_autoincrement, self_chat_id |-> chat_autoincrement,
                             name |-> name, password |-> pass, heartbit |-> hb]}
    /\ newMember(user_autoincrement)
    /\ nextChatId
    /\ user_autoincrement' = user_autoincrement + 1
    /\ UNCHANGED messages

\* uid is the creator, who becomes a member, or 0 for a chat without members.
hasCreator_Mutant(uid) == TRUE
hasCreator(uid) == uid > 0

createChat(name, uid) ==
    /\ lookupChatByName(name) = {}
    /\ chats' = chats \cup {[id |-> chat_autoincrement, name |-> name]}
    /\ IF hasCreator(uid) THEN newMember(uid) ELSE UNCHANGED chatuser
    /\ nextChatId
    /\ UNCHANGED <<users, messages, user_autoincrement>>

isMember_Mutant(chat, user) == FALSE
isMember(chat, user) ==
    \E i \in DOMAIN chatuser : chatuser[i].chatid = chat.id /\ chatuser[i].uid = user.id

addUserToChat(chat, user) ==
    /\ ~isMember(chat, user)
    /\ chatuser' = Append(chatuser, [chatid |-> chat.id, uid |-> user.id])
    /\ UNCHANGED <<users, chats, messages, user_autoincrement, chat_autoincrement>>

saveMessage(from, to, ts) ==
    /\ Len(messages) < MaxMessages
    /\ messages' = Append(messages, [user_from |-> from, chat_to |-> to,
                                     ts |-> ts, flags |-> "UNREAD"])
    /\ UNCHANGED <<users, chats, chatuser, user_autoincrement, chat_autoincrement>>

\* Returns the messages Newest(NewMessages(chatid, ts), max) and marks them READ.
markRead_Mutant(S) == [i \in DOMAIN messages |->
    [messages[i] EXCEPT !.flags = IF i \in S THEN "READ" ELSE "UNREAD"]]
markRead(S) == [i \in DOMAIN messages |->
    IF i \in S THEN [messages[i] EXCEPT !.flags = "READ"] ELSE messages[i]]

getMessages(chatid, ts, max) ==
    /\ messages' = markRead(Newest(NewMessages(chatid, ts), max))
    /\ UNCHANGED <<users, chats, chatuser, user_autoincrement, chat_autoincrement>>

--------------------------------------------------------------------------------
(* The callers (DatabaseWorker::processQueue) pass rows they looked up.     *)

Next ==
    \/ \E name \in Names, pass \in Passwords, hb \in FirstHeartBits :
           createUser(name, pass, hb)
    \/ \E name \in Names :
           \/ createChat(name, 0)
           \/ \E user \in users : createChat(name, user.id)
    \/ \E chat \in chats, user \in users : addUserToChat(chat, user)
    \/ \E user \in users, ts \in Times : updateUserHeartBit(user, ts)
    \/ \E user \in users, chat \in chats, ts \in Times : saveMessage(user.id, chat.id, ts)
    \/ \E chat \in chats, ts \in Times \cup {0}, max \in Counts : getMessages(chat.id, ts, max)

Spec == Init /\ [][Next]_vars

--------------------------------------------------------------------------------
(* Properties *)

\* An id names one row, and the counters are ahead of every id handed out: no
\* operation hands an id out twice, so a row looked up by id is never another's.
FreshIds ==
    /\ \A u, v \in users : u.id = v.id => u = v
    /\ \A c, d \in chats : c.id = d.id => c = d
    /\ \A u \in users : u.id < user_autoincrement
    /\ \A c \in chats : c.id < chat_autoincrement

\* Every user owns a chat of its own name, shared with no other user, and is a
\* member of it: messages to a user are sent to self_chat_id, but the idle poll
\* looks for them through the membership rows only.
InboxComplete ==
    \A u \in users :
        /\ [id |-> u.self_chat_id, name |-> u.name] \in chats
        /\ \E i \in DOMAIN chatuser : chatuser[i] = [chatid |-> u.self_chat_id, uid |-> u.id]
        /\ \A v \in users : v.self_chat_id = u.self_chat_id => v = u

\* Every membership row and every message refers to rows that exist, and no
\* membership is listed twice (the idle poll would send its messages twice).
References ==
    /\ \A i \in DOMAIN chatuser :
           /\ lookupChatById(chatuser[i].chatid) # {}
           /\ lookupUserById(chatuser[i].uid) # {}
    /\ \A i, j \in DOMAIN chatuser : chatuser[i] = chatuser[j] => i = j
    /\ \A i \in DOMAIN messages :
           /\ lookupChatById(messages[i].chat_to) # {}
           /\ lookupUserById(messages[i].user_from) # {}

SelfChat(chat) == \E u \in users : u.self_chat_id = chat.id

\* A name denotes at most one user and at most one group chat: the answers 500
\* "more than one user with that name" cannot happen, and lookupChatByName finds
\* at most two chats, the second being the self chat of the user of that name.
NameResolution ==
    /\ \A u, v \in users : u.name = v.name => u = v
    /\ \A c, d \in chats :
           (c.name = d.name /\ ~SelfChat(c) /\ ~SelfChat(d)) => c = d

\* No step removes or rewrites what was stored, but for a user's heartbit and a
\* message's flags, and a READ message never becomes UNREAD: rows a worker looked
\* up stay valid while other workers run between its calls.
StorageGrows ==
    /\ \A u \in users : \E v \in users' : v = [u EXCEPT !.heartbit = v.heartbit]
    /\ chats \subseteq chats'
    /\ Len(chatuser) <= Len(chatuser')
    /\ \A i \in DOMAIN chatuser : chatuser'[i] = chatuser[i]
    /\ Len(messages) <= Len(messages')
    /\ \A i \in DOMAIN messages :
           \/ messages'[i] = messages[i]
           \/ messages'[i] = [messages[i] EXCEPT !.flags = "READ"]

OnlyGrows == [][StorageGrows]_vars
================================================================================
