--------------------------- MODULE MysqlStorageProofs ---------------------------
(* Proofs about MysqlStorage, wherever statements fail and the process dies:    *)
(* what the tables keep, and that the statements of an operation, seen from     *)
(* outside the mutex, are the one step ChatStorage says.                        *)
EXTENDS MysqlStorage, ChatStorageProofs

UserOps == [pc : {"createUser_chat", "createUser_user", "createUser_chatuser"},
            name : Names, pass : Passwords, chatId : Nat, userId : Nat]
ChatOps == [pc : {"createChat_chat", "createChat_chatuser"}, name : Names, uid : Nat, chatId : Nat]
ReadOps == [pc : {"getMessages_update"}, todo : SUBSET (DOMAIN messages)]

\* The new user and the new chat of the operation.
NewUser(hb) == [id |-> op.userId, self_chat_id |-> op.chatId, name |-> op.name,
                password |-> op.pass, heartbit |-> hb]
NewChat == [id |-> op.chatId, name |-> op.name]

\* The rows with the flags of S read.
WithRead(rows, S) == [i \in DOMAIN rows |->
    IF i \in S THEN [rows[i] EXCEPT !.flags = "READ"] ELSE rows[i]]

\* The mutex is free, or nothing is written yet.
CleanInv ==
    op = NoOp \/ op.pc \in {"createUser_chat", "createChat_chat"} => observed = Tables

\* The SELECT at the beginning of the operation still tells the truth.
SelectInv ==
    /\ op.pc \in {"createUser_chat", "createUser_user", "createUser_chatuser"} =>
          op.name \in Logins /\ \A u \in observed.users : u.name # op.name
    /\ op.pc \in {"createChat_chat", "createChat_chatuser"} =>
          /\ \A c \in observed.chats : c.name # op.name
          /\ op.uid = 0 \/ \E u \in observed.users : u.id = op.uid

\* The chat is inserted: it is the only row written, and nothing refers to it.
ChatInv ==
    op.pc \in {"createUser_user", "createUser_chatuser", "createChat_chatuser"} =>
        /\ chats = observed.chats \cup {NewChat}
        /\ op.chatId = observed.chat_autoincrement /\ chat_autoincrement = op.chatId + 1
        /\ chatuser = observed.chatuser /\ messages = observed.messages
        /\ \A i \in DOMAIN chatuser : chatuser[i].chatid # op.chatId
        /\ op.pc # "createUser_chatuser" =>
              users = observed.users /\ user_autoincrement = observed.user_autoincrement
        /\ op.pc = "createChat_chatuser" => op.uid > 0

\* The user is inserted.
UserInv ==
    op.pc = "createUser_chatuser" =>
        /\ \E hb \in FirstHeartBits : users = observed.users \cup {NewUser(hb)}
        /\ op.userId = observed.user_autoincrement /\ user_autoincrement = op.userId + 1

\* Of the messages S that were selected, those to do are not marked yet.
ReadInv ==
    op.pc = "getMessages_update" =>
        /\ users = observed.users /\ chats = observed.chats /\ chatuser = observed.chatuser
        /\ user_autoincrement = observed.user_autoincrement
        /\ chat_autoincrement = observed.chat_autoincrement
        /\ op.todo # {}
        /\ \E chat \in observed.chats, ts \in Times \cup {0}, max \in Counts :
              LET S == Observed!Newest(Observed!NewMessages(chat.id, ts), max)
              IN  op.todo \subseteq S /\ messages = WithRead(observed.messages, S \ op.todo)

\* What the tables keep.
TablesInv == TypeOK /\ SurvivesFailures

\* The inductive invariant: the tables, the operation in progress and its difference
\* from what the other threads have observed.
MInv ==
    /\ TablesInv
    /\ op \in Ops /\ created \subseteq Logins /\ failures \in 0..MaxFailures
    /\ CreatedIsComplete
    /\ CleanInv /\ SelectInv /\ ChatInv /\ UserInv /\ ReadInv
--------------------------------------------------------------------------------
(* Statements on the tables *)

\* INSERT INTO chat.
LEMMA InsertChat ==
    ASSUME TablesInv, NEW name \in Names,
           chats' = chats \cup {[id |-> chat_autoincrement, name |-> name]},
           chat_autoincrement' = chat_autoincrement + 1,
           UNCHANGED <<users, chatuser, messages, user_autoincrement>>
    PROVE  TablesInv'
<1>1. PICK c0 : c0 = [id |-> chat_autoincrement, name |-> name]
  OBVIOUS
<1>2. /\ TypeOK /\ FreshIds /\ References /\ c0.id = chat_autoincrement
      /\ chats' = chats \cup {c0} /\ chat_autoincrement \in Nat
      /\ \A c \in chats : c.id \in Nat /\ c.id < chat_autoincrement
  BY <1>1 DEF TablesInv, TypeOK, SurvivesFailures, FreshIds, Chat, Ids
<1>3. TypeOK'
  BY <1>1, <1>2 DEF TypeOK, Chat, Ids
<1>4. FreshIds'
  BY <1>2 DEF FreshIds
<1>5. References'
  BY <1>2 DEF References, lookupChatById, lookupUserById
<1> QED BY <1>2, <1>3, <1>4, <1>5 DEF TablesInv, SurvivesFailures

\* INSERT INTO user, after the chat of the user.
LEMMA InsertUser ==
    ASSUME TablesInv, NEW u0 \in User, u0.id = user_autoincrement,
           [id |-> u0.self_chat_id, name |-> u0.name] \in chats,
           \A u \in users : u.name # u0.name,
           users' = users \cup {u0},
           user_autoincrement' = user_autoincrement + 1,
           UNCHANGED <<chats, chatuser, messages, chat_autoincrement>>
    PROVE  TablesInv'
<1>1. /\ TypeOK /\ FreshIds /\ References /\ user_autoincrement \in Nat
      /\ \A u \in users : u.id \in Nat /\ u.id < user_autoincrement
  BY DEF TablesInv, TypeOK, SurvivesFailures, FreshIds, User, Ids
<1>2. TypeOK'
  BY <1>1 DEF TypeOK, Ids
<1>3. FreshIds'
  BY <1>1 DEF FreshIds
<1>4. References'
  BY <1>1 DEF References, lookupChatById, lookupUserById
<1> QED BY <1>2, <1>3, <1>4 DEF TablesInv, SurvivesFailures

\* INSERT INTO chatuser.
LEMMA InsertMember ==
    ASSUME TablesInv, NEW m0 \in Chatuser, chatuser' = Append(chatuser, m0),
           \E c \in chats : c.id = m0.chatid, \E u \in users : u.id = m0.uid,
           \A i \in DOMAIN chatuser : chatuser[i] # m0,
           UNCHANGED <<users, chats, messages, user_autoincrement, chat_autoincrement>>
    PROVE  TablesInv'
<1>1. TypeOK /\ FreshIds /\ References
  BY DEF TablesInv, SurvivesFailures
<1>2. /\ chatuser' \in Seq(Chatuser)
      /\ DOMAIN chatuser' = DOMAIN chatuser \cup {Len(chatuser) + 1}
      /\ \A i \in DOMAIN chatuser : chatuser'[i] = chatuser[i]
      /\ chatuser'[Len(chatuser) + 1] = m0
      /\ Len(chatuser) + 1 \notin DOMAIN chatuser
  BY <1>1, AppendChatuser DEF TypeOK
<1>3. References'
  <2>1. ASSUME NEW i \in DOMAIN chatuser'
        PROVE  /\ \E c \in chats : c.id = chatuser'[i].chatid
               /\ \E u \in users : u.id = chatuser'[i].uid
    <3>1. CASE i \in DOMAIN chatuser
      BY <1>1, <1>2, <3>1 DEF References, lookupChatById, lookupUserById
    <3>2. CASE i = Len(chatuser) + 1
      BY <1>2, <3>2
    <3> QED BY <1>2, <3>1, <3>2
  <2>2. \A i, j \in DOMAIN chatuser' : chatuser'[i] = chatuser'[j] => i = j
    BY <1>1, <1>2 DEF References
  <2>3. \A i \in DOMAIN messages : /\ lookupChatById(messages[i].chat_to)' # {}
                                   /\ lookupUserById(messages[i].user_from)' # {}
    BY <1>1 DEF References, lookupChatById, lookupUserById
  <2> QED BY <2>1, <2>2, <2>3 DEF References, lookupChatById, lookupUserById
<1>4. TypeOK' /\ FreshIds'
  BY <1>1, <1>2 DEF TypeOK, FreshIds
<1> QED BY <1>3, <1>4 DEF TablesInv, SurvivesFailures

\* UPDATE user: the heartbit.
LEMMA UpdateUser ==
    ASSUME TablesInv, NEW user \in users, NEW ts \in Times, updateUserHeartBit(user, ts)
    PROVE  /\ TablesInv'
           /\ \A u \in users : \E v \in users' :
                  v.id = u.id /\ v.self_chat_id = u.self_chat_id /\ v.name = u.name
<1>1. PICK u0 : u0 = [user EXCEPT !.heartbit = ts]
  OBVIOUS
<1>2. user \in User /\ TypeOK /\ FreshIds /\ References
  BY DEF TablesInv, TypeOK, SurvivesFailures
<1>3. u0.id = user.id /\ u0.self_chat_id = user.self_chat_id /\ u0.name = user.name
  BY <1>1, <1>2 DEF User
<1>4. /\ users' = (users \ {user}) \cup {u0}
      /\ UNCHANGED <<chats, chatuser, messages, user_autoincrement, chat_autoincrement>>
  BY <1>1 DEF updateUserHeartBit
<1>5. TypeOK'
  BY <1>2, TypeInductive DEF Next
<1>6. FreshIds'
  BY <1>2, <1>3, <1>4 DEF FreshIds
<1>7. References'
  <2>1. \A id : lookupUserById(id) # {} => lookupUserById(id)' # {}
    BY <1>3, <1>4 DEF lookupUserById
  <2> QED BY <1>2, <1>4, <2>1 DEF References, lookupChatById
<1>8. /\ \A u, v \in users' : u.name = v.name => u = v
      /\ \A u \in users' : [id |-> u.self_chat_id, name |-> u.name] \in chats'
  <2>1. /\ \A u, v \in users : u.name = v.name => u = v
        /\ \A u \in users : [id |-> u.self_chat_id, name |-> u.name] \in chats
    BY DEF TablesInv, SurvivesFailures
  <2> QED BY <1>3, <1>4, <2>1
<1> QED BY <1>3, <1>4, <1>5, <1>6, <1>7, <1>8 DEF TablesInv, SurvivesFailures

\* INSERT INTO message, and UPDATE message: the flags.
LEMMA WriteMessages ==
    ASSUME TablesInv,
           UNCHANGED <<users, chats, chatuser, user_autoincrement, chat_autoincrement>>,
           \/ \E user \in users, chat \in chats, ts \in Times : saveMessage(user.id, chat.id, ts)
           \/ \E S : messages' = markRead(S)
    PROVE  TablesInv'
<1>1. TypeOK /\ FreshIds /\ References
  BY DEF TablesInv, SurvivesFailures
<1>2. FreshIds'
  BY <1>1 DEF FreshIds
<1>3. TypeOK' /\ \A i \in DOMAIN messages' : /\ \E c \in chats : c.id = messages'[i].chat_to
                                             /\ \E u \in users : u.id = messages'[i].user_from
  <2>1. \A i \in DOMAIN messages : /\ \E c \in chats : c.id = messages[i].chat_to
                                   /\ \E u \in users : u.id = messages[i].user_from
    BY <1>1 DEF References, lookupChatById, lookupUserById
  <2>2. ASSUME NEW user \in users, NEW chat \in chats, NEW ts \in Times,
               saveMessage(user.id, chat.id, ts)
        PROVE  TypeOK' /\ \A i \in DOMAIN messages' : /\ \E c \in chats : c.id = messages'[i].chat_to
                                                      /\ \E u \in users : u.id = messages'[i].user_from
    <3>1. TypeOK'
      BY <1>1, <2>2, TypeInductive DEF Next
    <3>2. PICK m : m = [user_from |-> user.id, chat_to |-> chat.id, ts |-> ts, flags |-> "UNREAD"]
      OBVIOUS
    <3>3. m \in Message /\ m.chat_to = chat.id /\ m.user_from = user.id
      BY <1>1, <3>2, TimesAssumption DEF TypeOK, User, Chat, Message
    <3>4. /\ DOMAIN messages' = DOMAIN messages \cup {Len(messages) + 1}
          /\ messages'[Len(messages) + 1] = m
          /\ \A i \in DOMAIN messages : messages'[i] = messages[i]
      BY <1>1, <2>2, <3>2, <3>3 DEF saveMessage, TypeOK
    <3> QED BY <2>1, <3>1, <3>3, <3>4
  <2>3. ASSUME NEW S, messages' = markRead(S)
        PROVE  TypeOK' /\ \A i \in DOMAIN messages' : /\ \E c \in chats : c.id = messages'[i].chat_to
                                                      /\ \E u \in users : u.id = messages'[i].user_from
    <3>1. /\ messages' \in Seq(Message) /\ DOMAIN messages' = DOMAIN messages
          /\ \A i \in DOMAIN messages : /\ messages'[i].chat_to = messages[i].chat_to
                                        /\ messages'[i].user_from = messages[i].user_from
      BY <1>1, <2>3, MarkReadType
    <3>2. TypeOK'
      BY <1>1, <3>1 DEF TypeOK
    <3> QED BY <2>1, <3>1, <3>2
  <2> QED BY <2>2, <2>3
<1>4. References'
  BY <1>1, <1>3 DEF References, lookupChatById, lookupUserById
<1> QED BY <1>2, <1>3, <1>4 DEF TablesInv, SurvivesFailures

\* An autoincrement value is used up by a statement that fails.
LEMMA SkipIds ==
    ASSUME TablesInv, UNCHANGED <<users, chats, chatuser, messages>>,
           user_autoincrement' \in {user_autoincrement, user_autoincrement + 1},
           chat_autoincrement' \in {chat_autoincrement, chat_autoincrement + 1}
    PROVE  TablesInv'
<1>1. /\ TypeOK /\ FreshIds /\ References
      /\ (\A u \in users : u.id \in Nat) /\ (\A c \in chats : c.id \in Nat)
      /\ user_autoincrement \in Nat /\ chat_autoincrement \in Nat
  BY DEF TablesInv, SurvivesFailures, TypeOK, User, Chat, Ids
<1>2. TypeOK'
  BY <1>1 DEF TypeOK, Ids
<1>3. FreshIds'
  BY <1>1 DEF FreshIds
<1>4. References'
  BY <1>1 DEF References, lookupChatById, lookupUserById
<1> QED BY <1>2, <1>3, <1>4 DEF TablesInv, SurvivesFailures

\* A user that is complete stays so: rows are only added, and a row of user keeps its
\* ids and its name.
LEMMA CompleteStays ==
    ASSUME CreatedIsComplete, UNCHANGED created,
           \A u \in users : \E v \in users' :
               v.id = u.id /\ v.self_chat_id = u.self_chat_id /\ v.name = u.name,
           \A i \in DOMAIN chatuser : i \in DOMAIN chatuser' /\ chatuser'[i] = chatuser[i]
    PROVE  CreatedIsComplete'
<1> SUFFICES ASSUME NEW name \in created
             PROVE  \E u \in users' :
                        /\ u.name = name
                        /\ \E i \in DOMAIN chatuser' :
                               chatuser'[i] = [chatid |-> u.self_chat_id, uid |-> u.id]
  BY DEF CreatedIsComplete
<1>1. PICK u \in users : u.name = name /\ \E i \in DOMAIN chatuser :
                              chatuser[i] = [chatid |-> u.self_chat_id, uid |-> u.id]
  BY DEF CreatedIsComplete
<1>2. PICK i \in DOMAIN chatuser : chatuser[i] = [chatid |-> u.self_chat_id, uid |-> u.id]
  BY <1>1
<1>3. PICK v \in users' : v.id = u.id /\ v.self_chat_id = u.self_chat_id /\ v.name = u.name
  OBVIOUS
<1>4. chatuser'[i] = [chatid |-> v.self_chat_id, uid |-> v.id] /\ i \in DOMAIN chatuser'
  BY <1>2, <1>3
<1> QED BY <1>1, <1>3, <1>4
--------------------------------------------------------------------------------
(* The operation in progress *)

\* What an operation holds is told by its pc.
LEMMA OpShape ==
    ASSUME op \in Ops
    PROVE  /\ op # NoOp => op.pc # "none"
           /\ op = NoOp => op.pc = "none"
           /\ op.pc \in {"createUser_chat", "createUser_user", "createUser_chatuser"} => op \in UserOps
           /\ op.pc \in {"createChat_chat", "createChat_chatuser"} => op \in ChatOps
           /\ op.pc = "getMessages_update" => op \in ReadOps
           /\ op.pc \in {"none", "createUser_chat", "createUser_user", "createUser_chatuser",
                         "createChat_chat", "createChat_chatuser", "getMessages_update"}
<1>0. NoOp.pc = "none"
  BY DEF NoOp
<1>1. CASE op = NoOp
  BY <1>0, <1>1
<1>2. CASE op \in UserOps
  <2>1. op.pc \in {"createUser_chat", "createUser_user", "createUser_chatuser"}
    BY <1>2 DEF UserOps
  <2> QED BY <1>0, <1>2, <2>1
<1>3. CASE op \in ChatOps
  <2>1. op.pc \in {"createChat_chat", "createChat_chatuser"}
    BY <1>3 DEF ChatOps
  <2> QED BY <1>0, <1>3, <2>1
<1>4. CASE op \in ReadOps
  <2>1. op.pc = "getMessages_update"
    BY <1>4 DEF ReadOps
  <2> QED BY <1>0, <1>4, <2>1
<1> QED BY <1>1, <1>2, <1>3, <1>4 DEF Ops, UserOps, ChatOps, ReadOps

\* The end of an operation, whatever it did to the tables.
LEMMA ReleaseKeeps ==
    ASSUME MInv, TablesInv', CreatedIsComplete', Release,
           created' \subseteq Logins, failures' \in 0..MaxFailures
    PROVE  MInv'
<1>1. op' = NoOp /\ op'.pc = "none" /\ observed' = Tables'
  BY DEF Release, NoOp
<1>2. CleanInv' /\ SelectInv' /\ ChatInv' /\ UserInv' /\ ReadInv'
  BY <1>1 DEF CleanInv, SelectInv, ChatInv, UserInv, ReadInv
<1>3. op' \in Ops'
  BY <1>1 DEF Ops
<1> QED BY <1>2, <1>3 DEF MInv

\* The operations with one statement, and those that fail.
LEMMA OneStepKeeps ==
    ASSUME MInv,
           \/ oneStatement(updateHeartBit) \/ oneStatement(addUser) \/ oneStatement(save)
           \/ abandon
    PROVE  MInv'
<1>1. TablesInv /\ CreatedIsComplete /\ TypeOK /\ created \subseteq Logins /\ failures \in 0..MaxFailures
  BY DEF MInv, TablesInv
<1>2. CASE oneStatement(updateHeartBit)
  <2>1. PICK user \in users, ts \in Times : updateUserHeartBit(user, ts)
    BY <1>2 DEF oneStatement, updateHeartBit
  <2>2. TablesInv' /\ CreatedIsComplete'
    BY <1>1, <1>2, <2>1, UpdateUser, CompleteStays DEF updateUserHeartBit, oneStatement
  <2> QED BY <1>1, <1>2, <2>2, ReleaseKeeps DEF oneStatement
<1>3. CASE oneStatement(addUser)
  <2>1. PICK chat \in chats, user \in users : addUserToChat(chat, user)
    BY <1>3 DEF oneStatement, addUser
  <2>2. PICK m0 : m0 = [chatid |-> chat.id, uid |-> user.id]
    OBVIOUS
  <2>3. /\ m0 \in Chatuser /\ m0.chatid = chat.id /\ m0.uid = user.id
        /\ chatuser' = Append(chatuser, m0) /\ \A i \in DOMAIN chatuser : chatuser[i] # m0
        /\ UNCHANGED <<users, chats, messages, user_autoincrement, chat_autoincrement>>
    BY <1>1, <2>1, <2>2 DEF addUserToChat, isMember, TypeOK, User, Chat, Chatuser
  <2>4. TablesInv'
    BY <1>1, <2>3, InsertMember
  <2>5. CreatedIsComplete'
    <3>1. \A i \in DOMAIN chatuser : i \in DOMAIN chatuser' /\ chatuser'[i] = chatuser[i]
      BY <1>1, <2>3, AppendChatuser DEF TypeOK
    <3> QED BY <1>1, <1>3, <2>3, <3>1, CompleteStays DEF oneStatement
  <2> QED BY <1>1, <1>3, <2>4, <2>5, ReleaseKeeps DEF oneStatement
<1>4. CASE oneStatement(save)
  <2>1. /\ UNCHANGED <<users, chats, chatuser, user_autoincrement, chat_autoincrement>>
        /\ \E user \in users, chat \in chats, ts \in Times : saveMessage(user.id, chat.id, ts)
    BY <1>4 DEF oneStatement, save, saveMessage
  <2>2. TablesInv'
    BY <1>1, <2>1, WriteMessages
  <2>3. CreatedIsComplete'
    BY <1>1, <1>4, <2>1, CompleteStays DEF oneStatement
  <2> QED BY <1>1, <1>4, <2>2, <2>3, ReleaseKeeps DEF oneStatement
<1>5. CASE abandon
  <2>1. /\ UNCHANGED <<users, chats, chatuser, messages, created>>
        /\ user_autoincrement' \in {user_autoincrement, user_autoincrement + 1}
        /\ chat_autoincrement' \in {chat_autoincrement, chat_autoincrement + 1}
        /\ failures' = failures + 1 /\ failures < MaxFailures /\ Release
    BY <1>5 DEF abandon, nextChatId, vars
  <2>2. TablesInv' /\ CreatedIsComplete'
    BY <1>1, <2>1, SkipIds, CompleteStays
  <2>3. failures' \in 0..MaxFailures
    BY <1>1, <2>1, MysqlAssumption
  <2> QED BY <1>1, <2>1, <2>2, <2>3, ReleaseKeeps
<1> QED BY <1>2, <1>3, <1>4, <1>5

\* SELECT: the first statement of createUser and createChat.
LEMMA SelectKeeps ==
    ASSUME MInv,
           \/ \E name \in Logins, pass \in Passwords : createUser_select(name, pass)
           \/ \E name \in Names, uid \in {0} \cup {u.id : u \in users} : createChat_select(name, uid)
    PROVE  MInv'
<1>1. /\ op = NoOp /\ observed = Tables /\ observed.users = users /\ observed.chats = chats
      /\ UNCHANGED <<vars, observed, created, failures>>
  BY DEF MInv, CleanInv, createUser_select, createChat_select, Continue, Tables
<1>2. TablesInv' /\ created' \subseteq Logins /\ failures' \in 0..MaxFailures /\ CreatedIsComplete'
      /\ Tables' = Tables
  <2>1. UNCHANGED <<users, chats, chatuser, messages, user_autoincrement, chat_autoincrement>>
    BY <1>1 DEF vars
  <2>2. TablesInv'
    BY <1>1, <2>1, SkipIds DEF MInv
  <2>3. CreatedIsComplete'
    BY <1>1, <2>1, CompleteStays DEF MInv
  <2> QED BY <1>1, <2>1, <2>2, <2>3 DEF MInv, Tables
<1>3. ASSUME NEW name \in Logins, NEW pass \in Passwords, createUser_select(name, pass)
      PROVE  MInv'
  <2>1. /\ op' = [pc |-> "createUser_chat", name |-> name, pass |-> pass, chatId |-> 0, userId |-> 0]
        /\ \A u \in users : u.name # name /\ name \in Names
    BY <1>3, MysqlAssumption DEF createUser_select, Continue, userNameTaken, lookupUserByName
  <2>2. op' \in UserOps /\ op'.pc = "createUser_chat" /\ op'.name = name
    BY <2>1, MysqlAssumption DEF UserOps
  <2>3. op' \in Ops'
    BY <2>2 DEF Ops, UserOps
  <2>4. CleanInv' /\ SelectInv' /\ ChatInv' /\ UserInv' /\ ReadInv'
    BY <1>1, <1>2, <2>1, <2>2 DEF CleanInv, SelectInv, ChatInv, UserInv, ReadInv
  <2> QED BY <1>2, <2>3, <2>4 DEF MInv
<1>4. ASSUME NEW name \in Names, NEW uid \in {0} \cup {u.id : u \in users}, createChat_select(name, uid)
      PROVE  MInv'
  <2>1. /\ op' = [pc |-> "createChat_chat", name |-> name, uid |-> uid, chatId |-> 0]
        /\ \A c \in chats : c.name # name
    BY <1>4 DEF createChat_select, Continue, lookupChatByName
  <2>2. uid \in Nat
    BY DEF MInv, TablesInv, TypeOK, User, Ids
  <2>3. op' \in ChatOps /\ op'.pc = "createChat_chat" /\ op'.name = name /\ op'.uid = uid
    BY <2>1, <2>2 DEF ChatOps
  <2>4. op' \in Ops'
    BY <2>3 DEF Ops, ChatOps
  <2>5. CleanInv' /\ SelectInv' /\ ChatInv' /\ UserInv' /\ ReadInv'
    BY <1>1, <1>2, <2>1, <2>3 DEF CleanInv, SelectInv, ChatInv, UserInv, ReadInv
  <2> QED BY <1>2, <2>4, <2>5 DEF MInv
<1> QED BY <1>3, <1>4

\* INSERT INTO chat, for a user or for a chat with a creator: no row refers to it yet.
LEMMA InsertChatKeeps ==
    ASSUME MInv, NEW o, op.pc \in {"createUser_chat", "createChat_chat"}, Continue(o),
           chats' = chats \cup {[id |-> chat_autoincrement, name |-> op.name]}, nextChatId,
           UNCHANGED <<users, chatuser, messages, user_autoincrement>>,
           o.name = op.name, o.chatId = chat_autoincrement,
           \/ /\ op.pc = "createUser_chat" /\ o.pc = "createUser_user" /\ o \in UserOps
           \/ /\ op.pc = "createChat_chat" /\ o.pc = "createChat_chatuser" /\ o \in ChatOps
              /\ o.uid = op.uid /\ op.uid > 0
    PROVE  MInv'
<1>1. /\ observed = Tables /\ observed.users = users /\ observed.chats = chats
      /\ observed.chatuser = chatuser /\ observed.messages = messages
      /\ observed.user_autoincrement = user_autoincrement
      /\ observed.chat_autoincrement = chat_autoincrement
      /\ TypeOK /\ op \in Ops /\ SelectInv /\ TablesInv /\ CreatedIsComplete
  BY DEF MInv, CleanInv, TablesInv, Tables
<1>2. op' = o /\ UNCHANGED <<observed, created, failures>>
  BY DEF Continue
<1>3. op.name \in Names
  BY <1>1, OpShape DEF UserOps, ChatOps
<1>4. TablesInv'
  BY <1>1, <1>3, InsertChat DEF nextChatId
<1>5. CreatedIsComplete'
  BY <1>1, <1>2, CompleteStays
<1>6. op' \in Ops'
  BY <1>2 DEF Ops, UserOps, ChatOps
<1>7. CleanInv' /\ UserInv' /\ ReadInv'
  <2>1. op' # NoOp
    BY <1>2 DEF NoOp
  <2> QED BY <1>2, <2>1 DEF CleanInv, UserInv, ReadInv
<1>8. SelectInv'
  BY <1>1, <1>2 DEF SelectInv
<1>9. ChatInv'
  <2>1. \A i \in DOMAIN chatuser : chatuser[i].chatid # chat_autoincrement
    BY <1>1 DEF TablesInv, TypeOK, SurvivesFailures, FreshIds, References, lookupChatById, Chat, Ids
  <2> QED BY <1>1, <1>2, <2>1 DEF ChatInv, NewChat, nextChatId
<1> QED BY <1>2, <1>4, <1>5, <1>6, <1>7, <1>8, <1>9 DEF MInv

\* The second statement of createUser, and of createChat with a creator.
LEMMA SecondStatementKeeps ==
    ASSUME MInv, createUser_insertChat \/ (createChat_insertChat /\ hasCreator(op.uid))
    PROVE  MInv'
<1>1. op \in Ops /\ chat_autoincrement \in Nat
  BY DEF MInv, TablesInv, TypeOK, Ids
<1>2. CASE createUser_insertChat
  <2>1. PICK o : o = [op EXCEPT !.pc = "createUser_user", !.chatId = chat_autoincrement]
    OBVIOUS
  <2>2. op \in UserOps /\ op.pc = "createUser_chat" /\ Continue(o)
    BY <1>1, <1>2, <2>1, OpShape DEF createUser_insertChat
  <2>3. o \in UserOps /\ o.pc = "createUser_user" /\ o.chatId = chat_autoincrement /\ o.name = op.name
    BY <1>1, <2>1, <2>2 DEF UserOps
  <2> QED BY <1>2, <2>2, <2>3, InsertChatKeeps DEF createUser_insertChat
<1>3. CASE createChat_insertChat /\ hasCreator(op.uid)
  <2>1. PICK o : o = [op EXCEPT !.pc = "createChat_chatuser", !.chatId = chat_autoincrement]
    OBVIOUS
  <2>2. op \in ChatOps /\ op.pc = "createChat_chat" /\ Continue(o) /\ op.uid > 0
    BY <1>1, <1>3, <2>1, OpShape DEF createChat_insertChat, hasCreator
  <2>3. o \in ChatOps /\ o.pc = "createChat_chatuser" /\ o.chatId = chat_autoincrement
        /\ o.name = op.name /\ o.uid = op.uid
    BY <1>1, <2>1, <2>2 DEF ChatOps
  <2> QED BY <1>3, <2>2, <2>3, InsertChatKeeps DEF createChat_insertChat
<1> QED BY <1>2, <1>3

\* createChat without a creator ends with its second statement.
LEMMA LoneChatKeeps ==
    ASSUME MInv, createChat_insertChat, ~hasCreator(op.uid)
    PROVE  MInv'
<1>1. op.name \in Names /\ TablesInv /\ CreatedIsComplete
  BY OpShape DEF createChat_insertChat, ChatOps, MInv
<1>2. TablesInv' /\ CreatedIsComplete' /\ Release /\ UNCHANGED <<created, failures>>
  BY <1>1, InsertChat, CompleteStays DEF createChat_insertChat, nextChatId
<1> QED BY <1>2, ReleaseKeeps DEF MInv

\* INSERT INTO user.
LEMMA InsertUserKeeps ==
    ASSUME MInv, NEW now \in FirstHeartBits, createUser_insertUser(now)
    PROVE  MInv'
<1>1. /\ op.pc = "createUser_user" /\ op \in UserOps /\ TablesInv /\ TypeOK /\ CreatedIsComplete
      /\ ChatInv /\ SelectInv
  BY OpShape DEF createUser_insertUser, MInv, TablesInv
<1>2. PICK u0 : u0 = [id |-> user_autoincrement, self_chat_id |-> op.chatId, name |-> op.name,
                      password |-> op.pass, heartbit |-> now]
  OBVIOUS
<1>3. PICK o : o = [op EXCEPT !.pc = "createUser_chatuser", !.userId = user_autoincrement]
  OBVIOUS
<1>4. /\ users' = users \cup {u0} /\ user_autoincrement' = user_autoincrement + 1
      /\ UNCHANGED <<chats, chatuser, messages, chat_autoincrement>>
      /\ op' = o /\ UNCHANGED <<observed, created, failures>>
  BY <1>2, <1>3 DEF createUser_insertUser, Continue
<1>5. /\ chats = observed.chats \cup {NewChat} /\ chat_autoincrement = op.chatId + 1
      /\ users = observed.users /\ user_autoincrement = observed.user_autoincrement
      /\ op.name \in Logins /\ \A u \in users : u.name # op.name
  BY <1>1 DEF ChatInv, SelectInv
<1>6. /\ user_autoincrement \in Ids /\ op.name \in Names /\ op.pass \in Passwords /\ NewChat \in Chat
      /\ user_autoincrement \in Nat
  BY <1>1, <1>5 DEF TypeOK, UserOps, Ids
<1>7. op.chatId \in Ids
  BY <1>6 DEF Chat, NewChat
<1>8. u0 \in User /\ u0.id = user_autoincrement /\ u0.self_chat_id = op.chatId /\ u0.name = op.name
  BY <1>2, <1>6, <1>7, HeartBitsAssumption DEF User
<1>9. TablesInv'
  BY <1>1, <1>4, <1>5, <1>8, InsertUser DEF NewChat
<1>10. CreatedIsComplete'
  BY <1>1, <1>4, CompleteStays
<1>11. /\ o \in UserOps /\ o.pc = "createUser_chatuser" /\ o.userId = user_autoincrement
       /\ o.chatId = op.chatId /\ o.name = op.name /\ o.pass = op.pass
  BY <1>1, <1>3, <1>6 DEF UserOps
<1>12. op' \in Ops'
  BY <1>4, <1>11 DEF Ops, UserOps
<1>13. CleanInv' /\ ReadInv' /\ SelectInv'
  <2>1. op' # NoOp
    BY <1>4, <1>11 DEF NoOp
  <2> QED BY <1>1, <1>4, <1>11, <2>1 DEF CleanInv, ReadInv, SelectInv
<1>14. ChatInv'
  BY <1>1, <1>4, <1>11 DEF ChatInv, NewChat
<1>15. UserInv'
  <2>1. u0 = NewUser(now)'
    BY <1>2, <1>4, <1>11 DEF NewUser
  <2> QED BY <1>4, <1>5, <1>11, <2>1 DEF UserInv
<1> QED BY <1>4, <1>9, <1>10, <1>12, <1>13, <1>14, <1>15 DEF MInv

\* INSERT INTO chatuser, the last statement of createUser.
LEMMA UserMemberKeeps ==
    ASSUME MInv, createUser_insertChatuser
    PROVE  MInv'
<1>1. /\ op.pc = "createUser_chatuser" /\ op \in UserOps /\ TablesInv /\ TypeOK /\ CreatedIsComplete
      /\ ChatInv /\ SelectInv /\ UserInv
  BY OpShape DEF createUser_insertChatuser, MInv, TablesInv
<1>2. PICK m0 : m0 = [chatid |-> op.chatId, uid |-> op.userId]
  OBVIOUS
<1>3. /\ chatuser' = Append(chatuser, m0) /\ created' = created \cup {op.name}
      /\ UNCHANGED <<users, chats, messages, user_autoincrement, chat_autoincrement, failures>>
      /\ Release
  BY <1>2 DEF createUser_insertChatuser
<1>4. /\ NewChat \in chats /\ \A i \in DOMAIN chatuser : chatuser[i].chatid # op.chatId
  BY <1>1 DEF ChatInv
<1>5. PICK hb \in FirstHeartBits : NewUser(hb) \in users
  BY <1>1 DEF UserInv
<1>6. PICK u \in users : u.id = op.userId /\ u.self_chat_id = op.chatId /\ u.name = op.name
  BY <1>5 DEF NewUser
<1>7. PICK c \in chats : c.id = op.chatId
  BY <1>4 DEF NewChat
<1>8. op.chatId \in Ids /\ op.userId \in Ids
  BY <1>1, <1>6, <1>7 DEF TypeOK, User, Chat
<1>9. m0 \in Chatuser /\ m0.chatid = op.chatId /\ m0.uid = op.userId
  BY <1>2, <1>8 DEF Chatuser
<1>10. \A i \in DOMAIN chatuser : chatuser[i] # m0
  BY <1>4, <1>9
<1>11. TablesInv'
  BY <1>1, <1>3, <1>6, <1>7, <1>9, <1>10, InsertMember
<1>12. /\ \A i \in DOMAIN chatuser : i \in DOMAIN chatuser' /\ chatuser'[i] = chatuser[i]
       /\ Len(chatuser) + 1 \in DOMAIN chatuser' /\ chatuser'[Len(chatuser) + 1] = m0
  BY <1>1, <1>3, <1>9, AppendChatuser DEF TypeOK
<1>13. CreatedIsComplete'
  <2>1. \E i \in DOMAIN chatuser' : chatuser'[i] = [chatid |-> u.self_chat_id, uid |-> u.id]
    BY <1>2, <1>6, <1>12
  <2>2. ASSUME NEW name \in created
        PROVE  \E v \in users :
                   /\ v.name = name
                   /\ \E i \in DOMAIN chatuser' : chatuser'[i] = [chatid |-> v.self_chat_id, uid |-> v.id]
    <3>1. PICK v \in users : v.name = name /\ \E i \in DOMAIN chatuser :
                                 chatuser[i] = [chatid |-> v.self_chat_id, uid |-> v.id]
      BY <1>1 DEF CreatedIsComplete
    <3>2. \E i \in DOMAIN chatuser' : chatuser'[i] = [chatid |-> v.self_chat_id, uid |-> v.id]
      BY <1>12, <3>1
    <3> QED BY <3>1, <3>2
  <2> QED BY <1>3, <1>6, <2>1, <2>2 DEF CreatedIsComplete
<1>14. created' \subseteq Logins /\ failures' \in 0..MaxFailures
  BY <1>1, <1>3 DEF MInv, SelectInv
<1> QED BY <1>3, <1>11, <1>13, <1>14, ReleaseKeeps

\* INSERT INTO chatuser, the last statement of createChat.
LEMMA ChatMemberKeeps ==
    ASSUME MInv, createChat_insertChatuser
    PROVE  MInv'
<1>1. /\ op.pc = "createChat_chatuser" /\ op \in ChatOps /\ TablesInv /\ TypeOK /\ CreatedIsComplete
      /\ ChatInv /\ SelectInv
  BY OpShape DEF createChat_insertChatuser, MInv, TablesInv
<1>2. PICK m0 : m0 = [chatid |-> op.chatId, uid |-> op.uid]
  OBVIOUS
<1>3. /\ chatuser' = Append(chatuser, m0) /\ Release
      /\ UNCHANGED <<users, chats, messages, user_autoincrement, chat_autoincrement, created, failures>>
  BY <1>2 DEF createChat_insertChatuser
<1>4. /\ NewChat \in chats /\ users = observed.users /\ op.uid > 0
      /\ \A i \in DOMAIN chatuser : chatuser[i].chatid # op.chatId
  BY <1>1 DEF ChatInv
<1>5. PICK u \in users : u.id = op.uid
  <2>1. op.uid # 0
    BY <1>1, <1>4 DEF ChatOps
  <2> QED BY <1>1, <1>4, <2>1 DEF SelectInv
<1>6. PICK c \in chats : c.id = op.chatId
  BY <1>4 DEF NewChat
<1>7. op.chatId \in Ids /\ op.uid \in Ids
  BY <1>1, <1>5, <1>6 DEF TypeOK, User, Chat
<1>8. m0 \in Chatuser /\ m0.chatid = op.chatId /\ m0.uid = op.uid
  BY <1>2, <1>7 DEF Chatuser
<1>9. \A i \in DOMAIN chatuser : chatuser[i] # m0
  BY <1>4, <1>8
<1>10. TablesInv'
  BY <1>1, <1>3, <1>5, <1>6, <1>8, <1>9, InsertMember
<1>11. \A i \in DOMAIN chatuser : i \in DOMAIN chatuser' /\ chatuser'[i] = chatuser[i]
  BY <1>1, <1>3, <1>8, AppendChatuser DEF TypeOK
<1>12. CreatedIsComplete'
  BY <1>1, <1>3, <1>11, CompleteStays
<1> QED BY <1>3, <1>10, <1>12, ReleaseKeeps DEF MInv

\* One more message is marked.
LEMMA MarkNext ==
    ASSUME NEW rows, NEW T, NEW i \in DOMAIN rows, i \notin T, messages = WithRead(rows, T)
    PROVE  markRead({i}) = WithRead(rows, T \cup {i})
<1>1. DOMAIN messages = DOMAIN rows
  BY DEF WithRead
<1>2. ASSUME NEW j \in DOMAIN rows
      PROVE  (IF j \in {i} THEN [messages[j] EXCEPT !.flags = "READ"] ELSE messages[j])
             = IF j \in T \cup {i} THEN [rows[j] EXCEPT !.flags = "READ"] ELSE rows[j]
  <2>1. messages[j] = IF j \in T THEN [rows[j] EXCEPT !.flags = "READ"] ELSE rows[j]
    BY DEF WithRead
  <2>2. CASE j = i
    <3>1. messages[j] = rows[j]
      BY <2>1, <2>2
    <3> QED BY <2>2, <3>1
  <2>3. CASE j # i
    BY <2>1, <2>3
  <2> QED BY <2>2, <2>3
<1> QED BY <1>1, <1>2, Zenon DEF markRead, WithRead

\* The messages a SELECT finds are rows of the table.
LEMMA SelectedRows ==
    ASSUME NEW chatid, NEW ts, NEW max
    PROVE  Observed!Newest(Observed!NewMessages(chatid, ts), max) \subseteq DOMAIN observed.messages
BY DEF Observed!Newest, Observed!NewMessages

\* SELECT: the first statement of getMessages.
LEMMA SelectMessagesKeeps ==
    ASSUME MInv, NEW chat \in chats, NEW ts \in Times \cup {0}, NEW max \in Counts,
           getMessages_select(chat.id, ts, max)
    PROVE  MInv'
<1>1. PICK S : S = Newest(NewMessages(chat.id, ts), max)
  OBVIOUS
<1>2. /\ op = NoOp /\ S # {} /\ op' = [pc |-> "getMessages_update", todo |-> S]
      /\ UNCHANGED <<vars, observed, created, failures>>
  BY <1>1 DEF getMessages_select, Continue
<1>3. UNCHANGED <<users, chats, chatuser, messages, user_autoincrement, chat_autoincrement>>
  BY <1>2 DEF vars
<1>4. /\ observed.users = users /\ observed.chats = chats /\ observed.chatuser = chatuser
      /\ observed.messages = messages /\ observed.user_autoincrement = user_autoincrement
      /\ observed.chat_autoincrement = chat_autoincrement
      /\ TypeOK /\ TablesInv /\ CreatedIsComplete
  BY <1>2 DEF MInv, CleanInv, TablesInv, Tables
<1>5. TablesInv' /\ CreatedIsComplete'
  BY <1>2, <1>3, <1>4, SkipIds, CompleteStays
<1>6. S = Observed!Newest(Observed!NewMessages(chat.id, ts), max)
  <2>1. NewMessages(chat.id, ts) = Observed!NewMessages(chat.id, ts)
    BY <1>4 DEF NewMessages, Observed!NewMessages
  <2>2. \A N : Newest(N, max) = Observed!Newest(N, max)
    <3>1. \A T : Observed!Cardinality(T) = Cardinality(T)
      BY Zenon DEF Cardinality, Observed!Cardinality
    <3> QED BY <3>1 DEF Newest, Observed!Newest
  <2> QED BY <1>1, <2>1, <2>2
<1>7. S \subseteq DOMAIN messages
  BY <1>4, <1>6, SelectedRows
<1>8. op' \in ReadOps' /\ op'.pc = "getMessages_update" /\ op'.todo = S
  BY <1>2, <1>3, <1>7 DEF ReadOps
<1>9. op' \in Ops'
  BY <1>8 DEF Ops, ReadOps
<1>10. CleanInv' /\ SelectInv' /\ ChatInv' /\ UserInv'
  <2>1. op' # NoOp
    BY <1>8 DEF NoOp
  <2> QED BY <1>8, <2>1 DEF CleanInv, SelectInv, ChatInv, UserInv
<1>11. messages = WithRead(messages, S \ S)
  <2>1. messages = [i \in DOMAIN messages |-> messages[i]]
    BY <1>4 DEF TypeOK
  <2>2. \A i : i \notin S \ S
    OBVIOUS
  <2> QED BY <2>1, <2>2, Zenon DEF WithRead
<1>12. S = Observed!Newest(Observed!NewMessages(chat.id, ts), max)'
  BY <1>2, <1>6 DEF Observed!Newest, Observed!NewMessages
<1>13. ReadInv'
  BY <1>2, <1>3, <1>4, <1>8, <1>11, <1>12 DEF ReadInv
<1> QED BY <1>2, <1>5, <1>9, <1>10, <1>13 DEF MInv

\* What one UPDATE of getMessages does: i is the newest message not marked.
Updates(i, S) ==
    /\ i \in op.todo /\ op.todo \subseteq S /\ i \in DOMAIN messages
    /\ messages' = markRead({i})
    /\ messages' = WithRead(observed.messages, S \ (op.todo \ {i}))
    /\ IF op.todo = {i} THEN Release /\ UNCHANGED <<created, failures>>
                        ELSE Continue([op EXCEPT !.todo = @ \ {i}])

\* Every UPDATE marks one of the messages selected.
LEMMA UpdateStep ==
    ASSUME MInv, getMessages_update
    PROVE  \E chat \in observed.chats, ts \in Times \cup {0}, max \in Counts, i \in Nat :
               Updates(i, Observed!Newest(Observed!NewMessages(chat.id, ts), max))
<1>1. op.pc = "getMessages_update" /\ op \in ReadOps /\ ReadInv /\ messages \in Seq(Message)
  BY OpShape DEF getMessages_update, MInv, TablesInv, TypeOK
<1>2. PICK chat, ts, max, S :
          /\ chat \in observed.chats /\ ts \in Times \cup {0} /\ max \in Counts
          /\ S = Observed!Newest(Observed!NewMessages(chat.id, ts), max)
          /\ op.todo \subseteq S /\ messages = WithRead(observed.messages, S \ op.todo)
  BY <1>1 DEF ReadInv
<1>3. PICK i : /\ i = CHOOSE k \in op.todo : \A j \in op.todo : j <= k
               /\ messages' = markRead({i})
               /\ IF op.todo = {i} THEN Release /\ UNCHANGED <<created, failures>>
                                   ELSE Continue([op EXCEPT !.todo = @ \ {i}])
  BY DEF getMessages_update
<1>4. DOMAIN messages = 1..Len(messages) /\ Len(messages) \in Nat
  BY <1>1
<1>5. op.todo \in SUBSET (1..Len(messages)) /\ op.todo # {}
  BY <1>1, <1>4 DEF ReadOps, ReadInv
<1>6. \E m \in op.todo : \A x \in op.todo : x <= m
  BY <1>4, <1>5, LargestExists
<1>7. i \in op.todo
  BY <1>3, <1>6
<1>8. i \in DOMAIN messages /\ i \in Nat /\ i \in DOMAIN observed.messages
  <2>1. DOMAIN messages = DOMAIN observed.messages
    BY <1>2 DEF WithRead
  <2> QED BY <1>4, <1>5, <1>7, <2>1
<1>9. messages' = WithRead(observed.messages, (S \ op.todo) \cup {i})
  <2>1. PICK T : T = S \ op.todo
    OBVIOUS
  <2>2. i \notin T /\ messages = WithRead(observed.messages, T)
    BY <1>2, <1>7, <2>1
  <2>3. markRead({i}) = WithRead(observed.messages, T \cup {i})
    BY <1>8, <2>2, MarkNext
  <2> QED BY <1>3, <2>1, <2>3
<1>10. (S \ op.todo) \cup {i} = S \ (op.todo \ {i})
  BY <1>2, <1>7
<1>11. Updates(i, S)
  BY <1>2, <1>3, <1>7, <1>8, <1>9, <1>10 DEF Updates
<1> QED BY <1>2, <1>8, <1>11

\* UPDATE message, the statements of getMessages after the first.
LEMMA UpdateKeeps ==
    ASSUME MInv, getMessages_update
    PROVE  MInv'
<1>1. /\ op.pc = "getMessages_update" /\ op \in ReadOps /\ ReadInv /\ TablesInv /\ TypeOK
      /\ CreatedIsComplete
      /\ UNCHANGED <<users, chats, chatuser, user_autoincrement, chat_autoincrement>>
  BY OpShape DEF getMessages_update, MInv, TablesInv
<1>2. PICK chat, ts, max, i, S :
          /\ chat \in observed.chats /\ ts \in Times \cup {0} /\ max \in Counts /\ i \in Nat
          /\ S = Observed!Newest(Observed!NewMessages(chat.id, ts), max) /\ Updates(i, S)
  BY UpdateStep
<1>3. TablesInv'
  BY <1>1, <1>2, WriteMessages DEF Updates
<1>4. CASE op.todo = {i}
  <2>1. Release /\ UNCHANGED <<created, failures>>
    BY <1>2, <1>4 DEF Updates
  <2>2. CreatedIsComplete'
    BY <1>1, <2>1, CompleteStays
  <2> QED BY <1>3, <2>1, <2>2, ReleaseKeeps DEF MInv
<1>5. CASE op.todo # {i}
  <2>1. PICK o : o = [op EXCEPT !.todo = @ \ {i}]
    OBVIOUS
  <2>2. op' = o /\ UNCHANGED <<observed, created, failures>>
    BY <1>2, <1>5, <2>1 DEF Updates, Continue
  <2>3. CreatedIsComplete'
    BY <1>1, <2>2, CompleteStays
  <2>4. DOMAIN messages' = DOMAIN messages
    BY <1>1, <1>2, MarkReadType DEF Updates
  <2>5. o.pc = "getMessages_update" /\ o.todo = op.todo \ {i} /\ o.todo \subseteq DOMAIN messages
        /\ o = [pc |-> "getMessages_update", todo |-> op.todo \ {i}]
    BY <1>1, <2>1 DEF ReadOps
  <2>6. op' \in Ops'
    BY <2>2, <2>4, <2>5 DEF Ops
  <2>7. CleanInv' /\ SelectInv' /\ ChatInv' /\ UserInv'
    <3>1. op' # NoOp
      BY <2>2, <2>5 DEF NoOp
    <3> QED BY <2>2, <2>5, <3>1 DEF CleanInv, SelectInv, ChatInv, UserInv
  <2>8. o.todo # {} /\ o.todo \subseteq S /\ messages' = WithRead(observed.messages, S \ o.todo)
    BY <1>2, <1>5, <2>5 DEF Updates
  <2>9. S = Observed!Newest(Observed!NewMessages(chat.id, ts), max)'
    BY <1>2, <2>2 DEF Observed!Newest, Observed!NewMessages
  <2>10. ReadInv'
    <3>1. /\ users = observed.users /\ chats = observed.chats /\ chatuser = observed.chatuser
          /\ user_autoincrement = observed.user_autoincrement
          /\ chat_autoincrement = observed.chat_autoincrement
      BY <1>1 DEF ReadInv
    <3>2. /\ users' = observed'.users /\ chats' = observed'.chats /\ chatuser' = observed'.chatuser
          /\ user_autoincrement' = observed'.user_autoincrement
          /\ chat_autoincrement' = observed'.chat_autoincrement /\ op'.todo # {}
      BY <1>1, <2>2, <2>8, <3>1
    <3>3. op'.todo \subseteq S /\ messages' = WithRead(observed'.messages, S \ op'.todo)
      BY <2>2, <2>8
    <3>4. chat \in observed'.chats /\ ts \in Times \cup {0} /\ max \in Counts
      BY <1>2, <2>2
    <3> QED BY <2>9, <3>2, <3>3, <3>4 DEF ReadInv
  <2> QED BY <1>1, <1>3, <2>2, <2>3, <2>6, <2>7, <2>10 DEF MInv
<1> QED BY <1>4, <1>5
--------------------------------------------------------------------------------
(* The invariant *)

\* Every statement keeps it.
LEMMA MysqlInductive ==
    ASSUME MInv, [MNext]_mvars
    PROVE  MInv'
<1>1. CASE UNCHANGED mvars
  <2>1. UNCHANGED <<users, chats, chatuser, messages, user_autoincrement, chat_autoincrement, op,
                    observed, created, failures>>
    BY <1>1 DEF mvars, vars
  <2>2. TablesInv' /\ CreatedIsComplete'
    BY <2>1, SkipIds, CompleteStays DEF MInv
  <2>3. op' \in Ops' /\ Tables' = Tables
    BY <2>1 DEF MInv, Ops, Tables
  <2>4. CleanInv' /\ SelectInv' /\ ChatInv' /\ UserInv'
    BY <2>1, <2>3 DEF MInv, CleanInv, SelectInv, ChatInv, UserInv, NewChat, NewUser
  <2>5. ReadInv'
    <3>1. \A chat, ts, max : Observed!Newest(Observed!NewMessages(chat.id, ts), max)'
                             = Observed!Newest(Observed!NewMessages(chat.id, ts), max)
      BY <2>1 DEF Observed!Newest, Observed!NewMessages
    <3>2. ReadInv
      BY DEF MInv
    <3>3. CASE op.pc # "getMessages_update"
      BY <2>1, <3>3 DEF ReadInv
    <3>4. CASE op.pc = "getMessages_update"
      <4>1. PICK chat, ts, max, S :
                /\ chat \in observed.chats /\ ts \in Times \cup {0} /\ max \in Counts
                /\ S = Observed!Newest(Observed!NewMessages(chat.id, ts), max)
                /\ op.todo \subseteq S /\ messages = WithRead(observed.messages, S \ op.todo)
        BY <3>2, <3>4 DEF ReadInv
      <4>2. S = Observed!Newest(Observed!NewMessages(chat.id, ts), max)'
        BY <3>1, <4>1
      <4> QED BY <2>1, <3>2, <3>4, <4>1, <4>2 DEF ReadInv
    <3> QED BY <3>3, <3>4
  <2> QED BY <2>1, <2>2, <2>3, <2>4, <2>5 DEF MInv
<1>2. CASE MNext
  <2>1. createChat_insertChat => MInv'
    BY SecondStatementKeeps, LoneChatKeeps
  <2> QED BY <1>2, <2>1, SelectKeeps, SecondStatementKeeps, InsertUserKeeps, UserMemberKeeps,
             ChatMemberKeeps, SelectMessagesKeeps, UpdateKeeps, OneStepKeeps DEF MNext
<1> QED BY <1>1, <1>2

\* It holds in every state.
LEMMA MysqlInvariant == MSpec => []MInv
<1>1. ASSUME MInit PROVE MInv
  <2>1. /\ users = {} /\ chats = {} /\ chatuser = <<>> /\ messages = <<>> /\ op = NoOp
        /\ user_autoincrement = 1 /\ chat_autoincrement = 1
        /\ observed = Tables /\ created = {} /\ failures = 0
    BY <1>1 DEF MInit, Init
  <2>2. TablesInv /\ CreatedIsComplete
    BY <2>1 DEF TablesInv, TypeOK, Ids, SurvivesFailures, FreshIds, References, CreatedIsComplete
  <2>3. op.pc = "none"
    BY <2>1 DEF NoOp
  <2>4. CleanInv /\ SelectInv /\ ChatInv /\ UserInv /\ ReadInv
    BY <2>1, <2>3 DEF CleanInv, SelectInv, ChatInv, UserInv, ReadInv
  <2>5. op \in Ops /\ failures \in 0..MaxFailures
    BY <2>1, MysqlAssumption DEF Ops
  <2> QED BY <2>1, <2>2, <2>4, <2>5 DEF MInv
<1>2. MInv /\ [MNext]_mvars => MInv'
  BY MysqlInductive
<1> QED BY <1>1, <1>2, PTL DEF MSpec

\* MTypeOK: the tables and the operation in progress are well typed.
THEOREM MysqlTypeCorrect == MSpec => []MTypeOK
<1>1. MInv => MTypeOK
  BY DEF MInv, TablesInv, MTypeOK
<1> QED BY <1>1, MysqlInvariant, PTL

\* SurvivesFailures: whatever statement throws and wherever the process dies, ids
\* stay unique, references resolve, and a name keeps one user, with its chat.
THEOREM TablesSurvive == MSpec => []SurvivesFailures
<1>1. MInv => SurvivesFailures
  BY DEF MInv, TablesInv
<1> QED BY <1>1, MysqlInvariant, PTL

\* CreatedIsComplete: a user whose creation was answered with OK has all rows.
THEOREM CreatedUsersComplete == MSpec => []CreatedIsComplete
<1>1. MInv => CreatedIsComplete
  BY DEF MInv
<1> QED BY <1>1, MysqlInvariant, PTL
--------------------------------------------------------------------------------
(* The refinement *)

\* The last statement of createUser shows all rows at once: createUser.
LEMMA CreateUserObserved ==
    ASSUME MInv, createUser_insertChatuser
    PROVE  Observed!Next
<1>1. /\ op.pc = "createUser_chatuser" /\ op \in UserOps /\ ChatInv /\ SelectInv /\ UserInv
  BY OpShape DEF createUser_insertChatuser, MInv
<1>2. PICK hb \in FirstHeartBits : users = observed.users \cup {NewUser(hb)}
  BY <1>1 DEF UserInv
<1>3. /\ observed.users' = users /\ observed.chats' = chats
      /\ observed.chatuser' = Append(chatuser, [chatid |-> op.chatId, uid |-> op.userId])
      /\ observed.messages' = messages /\ observed.user_autoincrement' = user_autoincrement
      /\ observed.chat_autoincrement' = chat_autoincrement
  BY DEF createUser_insertChatuser, Release, Tables
<1>4. /\ chats = observed.chats \cup {NewChat}
      /\ op.chatId = observed.chat_autoincrement /\ chat_autoincrement = op.chatId + 1
      /\ op.userId = observed.user_autoincrement /\ user_autoincrement = op.userId + 1
      /\ chatuser = observed.chatuser /\ messages = observed.messages
      /\ \A u \in observed.users : u.name # op.name
  BY <1>1 DEF ChatInv, UserInv, SelectInv
<1>5. Observed!createUser(op.name, op.pass, hb)
  BY <1>2, <1>3, <1>4 DEF Observed!createUser, Observed!userNameTaken, Observed!lookupUserByName,
                          Observed!newMember, Observed!nextChatId, NewUser, NewChat
<1>6. op.name \in Names /\ op.pass \in Passwords
  BY <1>1 DEF UserOps
<1> QED BY <1>5, <1>6 DEF Observed!Next

\* So does the last statement of createChat: createChat.
LEMMA CreateChatObserved ==
    ASSUME MInv, createChat_insertChatuser \/ (createChat_insertChat /\ ~hasCreator(op.uid))
    PROVE  Observed!Next
<1>1. op \in ChatOps /\ op.name \in Names /\ op.uid \in Nat /\ ChatInv /\ SelectInv /\ CleanInv
      /\ op.pc \in {"createChat_chat", "createChat_chatuser"}
  BY OpShape DEF createChat_insertChat, createChat_insertChatuser, MInv, ChatOps
<1>2. CASE createChat_insertChatuser
  <2>1. /\ observed.users' = users /\ observed.chats' = chats
        /\ observed.chatuser' = Append(chatuser, [chatid |-> op.chatId, uid |-> op.uid])
        /\ observed.messages' = messages /\ observed.user_autoincrement' = user_autoincrement
        /\ observed.chat_autoincrement' = chat_autoincrement
    BY <1>2 DEF createChat_insertChatuser, Release, Tables
  <2>2. /\ chats = observed.chats \cup {NewChat}
        /\ op.chatId = observed.chat_autoincrement /\ chat_autoincrement = op.chatId + 1
        /\ users = observed.users /\ user_autoincrement = observed.user_autoincrement
        /\ chatuser = observed.chatuser /\ messages = observed.messages
        /\ \A c \in observed.chats : c.name # op.name
        /\ op.uid > 0 /\ \E u \in observed.users : u.id = op.uid
    BY <1>1, <1>2 DEF ChatInv, SelectInv, createChat_insertChatuser
  <2>3. Observed!createChat(op.name, op.uid)
    BY <2>1, <2>2 DEF Observed!createChat, Observed!lookupChatByName, Observed!hasCreator,
                      Observed!newMember, Observed!nextChatId, NewChat
  <2> QED BY <1>1, <2>2, <2>3 DEF Observed!Next
<1>3. CASE createChat_insertChat /\ ~hasCreator(op.uid)
  <2>1. op.uid = 0 /\ op.pc = "createChat_chat"
    BY <1>1, <1>3 DEF hasCreator, createChat_insertChat
  <2>2. /\ observed.users = users /\ observed.chats = chats /\ observed.chatuser = chatuser
        /\ observed.messages = messages /\ observed.user_autoincrement = user_autoincrement
        /\ observed.chat_autoincrement = chat_autoincrement
        /\ \A c \in observed.chats : c.name # op.name
    BY <1>1, <2>1 DEF CleanInv, SelectInv, Tables
  <2>3. /\ observed.users' = users /\ observed.chatuser' = chatuser /\ observed.messages' = messages
        /\ observed.chats' = chats \cup {[id |-> chat_autoincrement, name |-> op.name]}
        /\ observed.user_autoincrement' = user_autoincrement
        /\ observed.chat_autoincrement' = chat_autoincrement + 1
    BY <1>3 DEF createChat_insertChat, nextChatId, Release, Tables
  <2>4. Observed!createChat(op.name, 0)
    BY <2>2, <2>3 DEF Observed!createChat, Observed!lookupChatByName, Observed!hasCreator,
                      Observed!nextChatId
  <2> QED BY <1>1, <2>4 DEF Observed!Next
<1> QED BY <1>2, <1>3

\* The last UPDATE shows all messages that were selected as read: getMessages.
LEMMA GetMessagesObserved ==
    ASSUME MInv, getMessages_update
    PROVE  Observed!Next \/ UNCHANGED observed
<1>1. PICK chat, ts, max, i, S :
          /\ chat \in observed.chats /\ ts \in Times \cup {0} /\ max \in Counts /\ i \in Nat
          /\ S = Observed!Newest(Observed!NewMessages(chat.id, ts), max) /\ Updates(i, S)
  BY UpdateStep
<1>2. CASE op.todo # {i}
  BY <1>1, <1>2 DEF Updates, Continue
<1>3. CASE op.todo = {i}
  <2>1. op.pc = "getMessages_update" /\ ReadInv
    BY DEF MInv, getMessages_update
  <2>2. /\ observed.users = users /\ observed.chats = chats /\ observed.chatuser = chatuser
        /\ observed.user_autoincrement = user_autoincrement
        /\ observed.chat_autoincrement = chat_autoincrement
    BY <2>1 DEF ReadInv
  <2>3. Release /\ messages' = WithRead(observed.messages, S \ (op.todo \ {i}))
    BY <1>1, <1>3 DEF Updates
  <2>4. S \ (op.todo \ {i}) = S
    BY <1>3
  <2>5. /\ observed.users' = users /\ observed.chats' = chats /\ observed.chatuser' = chatuser
        /\ observed.messages' = WithRead(observed.messages, S)
        /\ observed.user_autoincrement' = user_autoincrement
        /\ observed.chat_autoincrement' = chat_autoincrement
    BY <2>3, <2>4 DEF Release, Tables, getMessages_update
  <2>6. Observed!markRead(S) = WithRead(observed.messages, S)
    BY Zenon DEF Observed!markRead, WithRead
  <2>7. Observed!getMessages(chat.id, ts, max)
    BY <1>1, <2>2, <2>5, <2>6 DEF Observed!getMessages
  <2> QED BY <1>1, <2>7 DEF Observed!Next
<1> QED BY <1>2, <1>3

\* The operations with one statement are those of ChatStorage.
LEMMA OneStatementObserved ==
    ASSUME MInv, oneStatement(updateHeartBit) \/ oneStatement(addUser) \/ oneStatement(save)
    PROVE  Observed!Next
<1>1. /\ observed.users = users /\ observed.chats = chats /\ observed.chatuser = chatuser
      /\ observed.messages = messages /\ observed.user_autoincrement = user_autoincrement
      /\ observed.chat_autoincrement = chat_autoincrement
  <2>1. observed = Tables
    BY DEF MInv, CleanInv, oneStatement
  <2> QED BY <2>1 DEF Tables
<1>2. /\ observed.users' = users' /\ observed.chats' = chats' /\ observed.chatuser' = chatuser'
      /\ observed.messages' = messages' /\ observed.user_autoincrement' = user_autoincrement'
      /\ observed.chat_autoincrement' = chat_autoincrement'
  BY DEF oneStatement, Release, Tables
<1>3. CASE oneStatement(updateHeartBit)
  <2>1. PICK user \in users, ts \in Times : updateUserHeartBit(user, ts)
    BY <1>3 DEF oneStatement, updateHeartBit
  <2>2. Observed!updateUserHeartBit(user, ts)
    BY <1>1, <1>2, <2>1 DEF updateUserHeartBit, Observed!updateUserHeartBit
  <2> QED BY <1>1, <2>2 DEF Observed!Next
<1>4. CASE oneStatement(addUser)
  <2>1. PICK chat \in chats, user \in users : addUserToChat(chat, user)
    BY <1>4 DEF oneStatement, addUser
  <2>2. Observed!addUserToChat(chat, user)
    BY <1>1, <1>2, <2>1 DEF addUserToChat, isMember, Observed!addUserToChat, Observed!isMember
  <2> QED BY <1>1, <2>2 DEF Observed!Next
<1>5. CASE oneStatement(save)
  <2>1. PICK user \in users, chat \in chats, ts \in Times : saveMessage(user.id, chat.id, ts)
    BY <1>5 DEF oneStatement, save
  <2>2. Observed!saveMessage(user.id, chat.id, ts)
    BY <1>1, <1>2, <2>1 DEF saveMessage, Observed!saveMessage
  <2> QED BY <1>1, <2>2 DEF Observed!Next
<1> QED BY <1>3, <1>4, <1>5

\* ImplementsChatStorage: what other threads observe of the statements of an
\* operation is nothing or one step of ChatStorage, also on top of the rows that
\* failed operations left.
THEOREM MysqlImplements == MSpec => ImplementsChatStorage
<1>1. MInit => Observed!Init
  BY DEF MInit, Init, Tables, Observed!Init
<1>2. MInv /\ [MNext]_mvars => [abandon \/ Observed!Next]_observed
  <2> SUFFICES ASSUME MInv, [MNext]_mvars PROVE abandon \/ Observed!Next \/ UNCHANGED observed
    OBVIOUS
  <2>1. CASE UNCHANGED mvars
    BY <2>1 DEF mvars
  <2>2. ASSUME NEW name, NEW pass, createUser_select(name, pass) PROVE UNCHANGED observed
    BY <2>2 DEF createUser_select, Continue
  <2>3. ASSUME NEW name, NEW uid, createChat_select(name, uid) PROVE UNCHANGED observed
    BY <2>3 DEF createChat_select, Continue
  <2>4. ASSUME NEW chatid, NEW ts, NEW max, getMessages_select(chatid, ts, max)
        PROVE  UNCHANGED observed
    BY <2>4 DEF getMessages_select, Continue
  <2>5. ASSUME NEW now, createUser_insertUser(now) PROVE UNCHANGED observed
    BY <2>5 DEF createUser_insertUser, Continue
  <2>6. createUser_insertChat => UNCHANGED observed
    BY DEF createUser_insertChat, Continue
  <2>7. createChat_insertChat => UNCHANGED observed \/ Observed!Next
    BY CreateChatObserved DEF createChat_insertChat, Continue
  <2> QED BY <2>1, <2>2, <2>3, <2>4, <2>5, <2>6, <2>7, CreateUserObserved, CreateChatObserved,
             GetMessagesObserved, OneStatementObserved DEF MNext
<1> QED BY <1>1, <1>2, MysqlInvariant, PTL DEF MSpec, ImplementsChatStorage
================================================================================
