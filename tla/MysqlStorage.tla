------------------------------ MODULE MysqlStorage ------------------------------
(***************************************************************************)
(* MysqlConnection: the tables of ChatStorage in a MySQL database.  Every  *)
(* operation holds the static m_Mutex, so that one operation runs at a     *)
(* time in the whole process; but it is a series of SQL statements that    *)
(* MySQL commits one by one.  A statement may throw (the operation logs    *)
(* the exception and returns an empty result) and the process may die      *)
(* between two of them; the rows already written stay.                     *)
(*                                                                         *)
(* observed is the state of the tables when m_Mutex was last released:     *)
(* what every other thread of the server can see.                          *)
(***************************************************************************)
EXTENDS ChatStorage

CONSTANTS
    Logins,         \* the names users register with; chats take any of Names
    MaxFailures     \* bound on the statements that throw and the crashes

ASSUME MysqlAssumption == Logins \subseteq Names /\ MaxFailures \in Nat

VARIABLES
    op,         \* the operation that holds m_Mutex, and how far it got
    observed,   \* the tables when m_Mutex was last released
    created,    \* names of the users createUser returned, i.e. answered with OK
    failures    \* operations abandoned so far

mvars == <<vars, op, observed, created, failures>>

NoOp == [pc |-> "none"]

Tables == [users |-> users, chats |-> chats, chatuser |-> chatuser, messages |-> messages,
           user_autoincrement |-> user_autoincrement, chat_autoincrement |-> chat_autoincrement]

Ops == {NoOp}
       \cup [pc : {"createUser_chat", "createUser_user", "createUser_chatuser"},
             name : Names, pass : Passwords, chatId : Nat, userId : Nat]
       \cup [pc : {"createChat_chat", "createChat_chatuser"}, name : Names, uid : Nat, chatId : Nat]
       \cup [pc : {"getMessages_update"}, todo : SUBSET (DOMAIN messages)]

MTypeOK ==
    /\ TypeOK
    /\ op \in Ops
    /\ created \subseteq Logins
    /\ failures \in 0..MaxFailures

MInit ==
    /\ Init
    /\ op = NoOp
    /\ observed = Tables
    /\ created = {}
    /\ failures = 0

\* The end of an operation: the guard is destroyed and the mutex released.
Release ==
    /\ op' = NoOp
    /\ observed' = Tables'

\* One statement among several: the mutex stays held.
Continue_Mutant(o) ==
    /\ op' = o
    /\ observed' = Tables
    /\ UNCHANGED <<created, failures>>
Continue(o) ==
    /\ op' = o
    /\ UNCHANGED <<observed, created, failures>>

--------------------------------------------------------------------------------
(* createUser: SELECT, INSERT chat, INSERT user, INSERT chatuser *)

createUser_select_Mutant(name, pass) ==
    /\ op = NoOp
    /\ \A u \in lookupUserByName(name) : lookupChatsForUserId(u.id) = {}
    /\ Continue([pc |-> "createUser_chat", name |-> name, pass |-> pass, chatId |-> 0, userId |-> 0])
    /\ UNCHANGED vars
createUser_select(name, pass) ==
    /\ op = NoOp
    /\ ~userNameTaken(name)
    /\ Continue([pc |-> "createUser_chat", name |-> name, pass |-> pass, chatId |-> 0, userId |-> 0])
    /\ UNCHANGED vars

createUser_insertChat ==
    /\ op.pc = "createUser_chat"
    /\ chats' = chats \cup {[id |-> chat_autoincrement, name |-> op.name]}
    /\ nextChatId
    /\ Continue([op EXCEPT !.pc = "createUser_user", !.chatId = chat_autoincrement])
    /\ UNCHANGED <<users, chatuser, messages, user_autoincrement>>

\* heartbit is NOW()
createUser_insertUser(now) ==
    /\ op.pc = "createUser_user"
    /\ users' = users \cup {[id |-> user_autoincrement, self_chat_id |-> op.chatId,
                             name |-> op.name, password |-> op.pass, heartbit |-> now]}
    /\ user_autoincrement' = user_autoincrement + 1
    /\ Continue([op EXCEPT !.pc = "createUser_chatuser", !.userId = user_autoincrement])
    /\ UNCHANGED <<chats, chatuser, messages, chat_autoincrement>>

createUser_insertChatuser ==
    /\ op.pc = "createUser_chatuser"
    /\ chatuser' = Append(chatuser, [chatid |-> op.chatId, uid |-> op.userId])
    /\ created' = created \cup {op.name}
    /\ UNCHANGED <<users, chats, messages, user_autoincrement, chat_autoincrement, failures>>
    /\ Release

(* createChat: SELECT, INSERT chat, INSERT chatuser if there is a creator *)

createChat_select(name, uid) ==
    /\ op = NoOp
    /\ lookupChatByName(name) = {}
    /\ Continue([pc |-> "createChat_chat", name |-> name, uid |-> uid, chatId |-> 0])
    /\ UNCHANGED vars

createChat_insertChat ==
    /\ op.pc = "createChat_chat"
    /\ chats' = chats \cup {[id |-> chat_autoincrement, name |-> op.name]}
    /\ nextChatId
    /\ UNCHANGED <<users, chatuser, messages, user_autoincrement>>
    /\ IF hasCreator(op.uid)
       THEN Continue([op EXCEPT !.pc = "createChat_chatuser", !.chatId = chat_autoincrement])
       ELSE Release /\ UNCHANGED <<created, failures>>

createChat_insertChatuser ==
    /\ op.pc = "createChat_chatuser"
    /\ chatuser' = Append(chatuser, [chatid |-> op.chatId, uid |-> op.uid])
    /\ UNCHANGED <<users, chats, messages, user_autoincrement, chat_autoincrement, created, failures>>
    /\ Release

(* getMessages: SELECT the newest rows, then UPDATE the flags row by row *)

getMessages_select(chatid, ts, max) ==
    /\ op = NoOp
    /\ LET found == Newest(NewMessages(chatid, ts), max)
       IN  /\ found # {}
           /\ Continue([pc |-> "getMessages_update", todo |-> found])
    /\ UNCHANGED vars

\* Newest first, the order of the SELECT's rows.
getMessages_update ==
    /\ op.pc = "getMessages_update"
    /\ LET i == CHOOSE i \in op.todo : \A j \in op.todo : j <= i
       IN  /\ messages' = markRead({i})
           /\ UNCHANGED <<users, chats, chatuser, user_autoincrement, chat_autoincrement>>
           /\ IF op.todo = {i}
              THEN Release /\ UNCHANGED <<created, failures>>
              ELSE Continue([op EXCEPT !.todo = @ \ {i}])

(* Operations with one statement that writes *)

oneStatement(A) ==
    /\ op = NoOp
    /\ A
    /\ Release
    /\ UNCHANGED <<created, failures>>

updateHeartBit == \E user \in users, ts \in Times : updateUserHeartBit(user, ts)

addUser == \E chat \in chats, user \in users : addUserToChat(chat, user)

save == \E user \in users, chat \in chats, ts \in Times : saveMessage(user.id, chat.id, ts)

\* A statement of op throws, or the process dies while op runs: the rest of op is
\* not executed.  A failed INSERT may have used up an autoincrement value.
abandon_Mutant ==
    /\ op # NoOp
    /\ failures < MaxFailures
    /\ failures' = failures + 1
    /\ UNCHANGED vars
    /\ Release
    /\ created' = IF op.pc = "createUser_chatuser" THEN created \cup {op.name} ELSE created
abandon ==
    /\ op # NoOp
    /\ failures < MaxFailures
    /\ failures' = failures + 1
    /\ \/ UNCHANGED vars
       \/ /\ op.pc \in {"createUser_chat", "createChat_chat"}
          /\ nextChatId
          /\ UNCHANGED <<users, chats, chatuser, messages, user_autoincrement>>
       \/ /\ op.pc = "createUser_user"
          /\ user_autoincrement' = user_autoincrement + 1
          /\ UNCHANGED <<users, chats, chatuser, messages, chat_autoincrement>>
    /\ Release
    /\ UNCHANGED created

MNext ==
    \/ \E name \in Logins, pass \in Passwords : createUser_select(name, pass)
    \/ createUser_insertChat
    \/ \E now \in FirstHeartBits : createUser_insertUser(now)
    \/ createUser_insertChatuser
    \/ \E name \in Names, uid \in {0} \cup {u.id : u \in users} : createChat_select(name, uid)
    \/ createChat_insertChat
    \/ createChat_insertChatuser
    \/ \E chat \in chats, ts \in Times \cup {0}, max \in Counts : getMessages_select(chat.id, ts, max)
    \/ getMessages_update
    \/ oneStatement(updateHeartBit)
    \/ oneStatement(addUser)
    \/ oneStatement(save)
    \/ abandon

MSpec == MInit /\ [][MNext]_mvars

--------------------------------------------------------------------------------
(* Properties *)

Observed == INSTANCE ChatStorage WITH
    users <- observed.users,
    chats <- observed.chats,
    chatuser <- observed.chatuser,
    messages <- observed.messages,
    user_autoincrement <- observed.user_autoincrement,
    chat_autoincrement <- observed.chat_autoincrement

\* What the threads of the server observe of the database is a behaviour of
\* ChatStorage, but for the operations that failed half way: the mutex makes the
\* statements of an operation one step, and also on top of the rows a failed operation
\* left behind every later one does what ChatStorage says.
ImplementsChatStorage ==
    /\ Observed!Init
    /\ [][abandon \/ Observed!Next]_observed

\* Whatever statement fails, and wherever the process dies: ids stay unique,
\* membership rows and messages refer to existing rows, and no name gets a second
\* user, although neither the schema nor a transaction enforces it.
SurvivesFailures ==
    /\ FreshIds
    /\ References
    /\ \A u, v \in users : u.name = v.name => u = v
    /\ \A u \in users : [id |-> u.self_chat_id, name |-> u.name] \in chats

\* A user whose creation was answered with OK has all three rows, for good.
CreatedIsComplete ==
    \A name \in created : \E u \in users :
        /\ u.name = name
        /\ \E i \in DOMAIN chatuser : chatuser[i] = [chatid |-> u.self_chat_id, uid |-> u.id]

\* The comment above createUser: "transaction start", the three inserts,
\* "commit".  Whenever the mutex is free, the rows of a user are all there.
UserRowsTogether == op = NoOp => InboxComplete
================================================================================
