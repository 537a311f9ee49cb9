--------------------------- MODULE ChatStorageProofs ---------------------------
(* Proofs about ChatStorage for any names, times, limits and bounds: its    *)
(* invariants, which are inductive only together, and OnlyGrows.            *)
EXTENDS ChatStorage, WellFoundedInduction, TLAPS

\* The inductive invariant. Each conjunct needs the others: a new id is new only
\* because of FreshIds, InboxComplete survives createUser only because no member
\* row is rewritten, and NameResolution survives it because the chat it inserts
\* is the self chat of the new user.
IInv ==
    /\ TypeOK
    /\ FreshIds
    /\ InboxComplete
    /\ References
    /\ NameResolution

\* A step only appends to chatuser, or leaves it alone.
LEMMA AppendChatuser ==
    ASSUME chatuser \in Seq(Chatuser), NEW r \in Chatuser, chatuser' = Append(chatuser, r)
    PROVE  /\ chatuser' \in Seq(Chatuser)
           /\ DOMAIN chatuser' = DOMAIN chatuser \cup {Len(chatuser) + 1}
           /\ \A i \in DOMAIN chatuser : chatuser'[i] = chatuser[i]
           /\ chatuser'[Len(chatuser) + 1] = r
           /\ Len(chatuser) + 1 \notin DOMAIN chatuser
OBVIOUS

\* A set of row numbers that is not empty has a largest element.
LEMMA LargestExists ==
    ASSUME NEW n \in Nat, NEW T \in SUBSET (1..n), T # {}
    PROVE  \E m \in T : \A x \in T : x <= m
<1>1. PICK U : U = {n - x : x \in T}
  OBVIOUS
<1>2. U \subseteq Nat /\ U # {}
  <2>1. \A x \in T : x \in Nat /\ n - x \in Nat
    OBVIOUS
  <2> QED BY <1>1, <2>1
<1>3. PICK u \in U : \A y \in U : ~(<<y, u>> \in OpToRel(<, Nat))
  BY <1>2, NatLessThanWellFounded, WFMin
<1>4. \A y \in U : ~(y < u)
  BY <1>2, <1>3 DEF OpToRel
<1>5. PICK m \in T : u = n - m
  BY <1>1
<1>6. \A x \in T : ~(n - x < n - m)
  BY <1>1, <1>4, <1>5
<1> QED BY <1>6

\* markRead keeps the length of the sequence and every field but flags.
LEMMA MarkReadType ==
    ASSUME TypeOK, NEW S
    PROVE  /\ markRead(S) \in Seq(Message)
           /\ DOMAIN markRead(S) = DOMAIN messages
           /\ Len(markRead(S)) = Len(messages)
           /\ \A i \in DOMAIN messages :
                  /\ markRead(S)[i].chat_to = messages[i].chat_to
                  /\ markRead(S)[i].user_from = messages[i].user_from
                  /\ \/ markRead(S)[i] = messages[i]
                     \/ markRead(S)[i] = [messages[i] EXCEPT !.flags = "READ"]
<1>1. messages \in Seq(Message) /\ DOMAIN messages = 1..Len(messages) /\ Len(messages) \in Nat
  BY DEF TypeOK
<1>2. ASSUME NEW i \in DOMAIN messages
      PROVE  /\ markRead(S)[i] \in Message
             /\ markRead(S)[i].chat_to = messages[i].chat_to
             /\ markRead(S)[i].user_from = messages[i].user_from
             /\ \/ markRead(S)[i] = messages[i]
                \/ markRead(S)[i] = [messages[i] EXCEPT !.flags = "READ"]
  <2>1. messages[i] \in Message
    BY <1>1
  <2>2. markRead(S)[i] = IF i \in S THEN [messages[i] EXCEPT !.flags = "READ"] ELSE messages[i]
    BY DEF markRead
  <2> QED BY <2>1, <2>2 DEF Message
<1>3. DOMAIN markRead(S) = DOMAIN messages
  BY DEF markRead
<1>4. markRead(S) \in [1..Len(messages) -> Message]
  BY <1>1, <1>2, <1>3, Zenon DEF markRead
<1>5. markRead(S) \in Seq(Message) /\ Len(markRead(S)) = Len(messages)
  BY <1>1, <1>4
<1> QED BY <1>2, <1>3, <1>5

\* Every operation keeps the types.
LEMMA TypeInductive ==
    ASSUME TypeOK, [Next]_vars
    PROVE  TypeOK'
<1> USE TimesAssumption, HeartBitsAssumption DEF TypeOK, Ids
<1>1. ASSUME NEW name \in Names, NEW pass \in Passwords, NEW hb \in FirstHeartBits,
             createUser(name, pass, hb)
      PROVE  TypeOK'
  BY <1>1 DEF createUser, newMember, nextChatId, User, Chat, Chatuser
<1>2. ASSUME NEW name \in Names, createChat(name, 0)
      PROVE  TypeOK'
  BY <1>2 DEF createChat, hasCreator, nextChatId, Chat
<1>3. ASSUME NEW name \in Names, NEW user \in users, createChat(name, user.id)
      PROVE  TypeOK'
  <2>1. [chatid |-> chat_autoincrement, uid |-> user.id] \in Chatuser
    BY DEF User, Chatuser
  <2>2. chats' \subseteq Chat /\ chat_autoincrement' \in Ids
    BY <1>3 DEF createChat, nextChatId, Chat
  <2>3. chatuser' \in Seq(Chatuser)
    BY <1>3, <2>1 DEF createChat, hasCreator, newMember
  <2> QED BY <1>3, <2>2, <2>3 DEF createChat
<1>4. ASSUME NEW chat \in chats, NEW user \in users, addUserToChat(chat, user)
      PROVE  TypeOK'
  <2>1. [chatid |-> chat.id, uid |-> user.id] \in Chatuser
    BY DEF User, Chat, Chatuser
  <2> QED BY <1>4, <2>1 DEF addUserToChat
<1>5. ASSUME NEW user \in users, NEW ts \in Times, updateUserHeartBit(user, ts)
      PROVE  TypeOK'
  BY <1>5 DEF updateUserHeartBit, User
<1>6. ASSUME NEW user \in users, NEW chat \in chats, NEW ts \in Times,
             saveMessage(user.id, chat.id, ts)
      PROVE  TypeOK'
  BY <1>6 DEF saveMessage, User, Chat, Message
<1>7. ASSUME NEW chat \in chats, NEW ts \in Times \cup {0}, NEW max \in Counts,
             getMessages(chat.id, ts, max)
      PROVE  TypeOK'
  BY <1>7, MarkReadType DEF getMessages
<1>8. CASE UNCHANGED vars
  BY <1>8 DEF vars
<1> QED BY <1>1, <1>2, <1>3, <1>4, <1>5, <1>6, <1>7, <1>8 DEF Next

\* Every reachable storage has the declared types, whatever the operations' order.
THEOREM TypeCorrect == Spec => []TypeOK
<1>1. Init => TypeOK
  BY DEF Init, TypeOK, Ids
<1> QED BY <1>1, TypeInductive, PTL DEF Spec

--------------------------------------------------------------------------------
\* The five conjuncts of IInv after createUser.
LEMMA CreateUserKeeps ==
    ASSUME IInv, TypeOK', NEW name \in Names, NEW pass \in Passwords, NEW hb \in Nat,
           createUser(name, pass, hb)
    PROVE  IInv'
<1>a. PICK u0 : u0 = [id |-> user_autoincrement, self_chat_id |-> chat_autoincrement,
                      name |-> name, password |-> pass, heartbit |-> hb]
  OBVIOUS
<1>b. PICK c0 : c0 = [id |-> u0.self_chat_id, name |-> u0.name]
  OBVIOUS
<1>c. PICK m0 : m0 = [chatid |-> u0.self_chat_id, uid |-> u0.id]
  OBVIOUS
<1>d. /\ u0.id = user_autoincrement /\ u0.self_chat_id = chat_autoincrement /\ u0.name = name
      /\ c0.id = chat_autoincrement /\ c0.name = name
      /\ m0.chatid = chat_autoincrement /\ m0.uid = user_autoincrement
  BY <1>a, <1>b, <1>c
<1>1. /\ users' = users \cup {u0}
      /\ chats' = chats \cup {c0}
      /\ chatuser' = Append(chatuser, m0)
      /\ messages' = messages
      /\ chat_autoincrement' = chat_autoincrement + 1
      /\ user_autoincrement' = user_autoincrement + 1
      /\ \A u \in users : u.name # name
  BY <1>a, <1>b, <1>c DEF createUser, newMember, nextChatId, userNameTaken, lookupUserByName
<1>2. m0 \in Chatuser
  BY <1>c, <1>d DEF IInv, TypeOK, Chatuser
<1>3. /\ DOMAIN chatuser' = DOMAIN chatuser \cup {Len(chatuser) + 1}
      /\ \A i \in DOMAIN chatuser : chatuser'[i] = chatuser[i]
      /\ chatuser'[Len(chatuser) + 1] = m0
      /\ Len(chatuser) + 1 \notin DOMAIN chatuser
  BY <1>1, <1>2, AppendChatuser DEF IInv, TypeOK
<1>4. /\ \A u \in users : u.id \in Nat /\ u.id # 0 /\ u.self_chat_id \in Nat
      /\ \A c \in chats : c.id \in Nat
      /\ user_autoincrement \in Nat /\ chat_autoincrement \in Nat
  BY DEF IInv, TypeOK, User, Chat, Ids
<1>5. /\ \A u \in users : u.id < user_autoincrement /\ u.self_chat_id < chat_autoincrement
      /\ \A c \in chats : c.id < chat_autoincrement
  BY <1>4 DEF IInv, FreshIds, InboxComplete
<1>6. FreshIds'
  BY <1>d, <1>1, <1>4, <1>5 DEF IInv, FreshIds
<1>7. InboxComplete'
  <2>1. ASSUME NEW u \in users
        PROVE  \E i \in DOMAIN chatuser' :
                   chatuser'[i] = [chatid |-> u.self_chat_id, uid |-> u.id]
    <3>1. PICK i \in DOMAIN chatuser : chatuser[i] = [chatid |-> u.self_chat_id, uid |-> u.id]
      BY Zenon DEF IInv, InboxComplete
    <3> QED BY <1>3, <3>1
  <2>2. \E i \in DOMAIN chatuser' : chatuser'[i] = [chatid |-> u0.self_chat_id, uid |-> u0.id]
    BY <1>c, <1>3
  <2>3. \A u \in users' : [id |-> u.self_chat_id, name |-> u.name] \in chats'
    <3>1. \A u \in users : [id |-> u.self_chat_id, name |-> u.name] \in chats
      BY Zenon DEF IInv, InboxComplete
    <3> QED BY <1>b, <1>1, <3>1
  <2>4. \A u, v \in users' : v.self_chat_id = u.self_chat_id => v = u
    <3>1. \A u, v \in users : v.self_chat_id = u.self_chat_id => v = u
      BY Zenon DEF IInv, InboxComplete
    <3> QED BY <1>d, <1>1, <1>4, <1>5, <3>1
  <2> QED BY <1>1, <2>1, <2>2, <2>3, <2>4 DEF InboxComplete
<1>8. References'
  <2>1. \A i \in DOMAIN chatuser : chatuser[i].chatid < chat_autoincrement
    BY <1>5 DEF IInv, References, lookupChatById
  <2>2. \A i \in DOMAIN chatuser : chatuser[i] # m0
    BY <1>d, <2>1, <1>4
  <2>3. \A i, j \in DOMAIN chatuser' : chatuser'[i] = chatuser'[j] => i = j
    BY <1>3, <2>2 DEF IInv, References
  <2>4. ASSUME NEW i \in DOMAIN chatuser'
        PROVE  /\ \E c \in chats' : c.id = chatuser'[i].chatid
               /\ \E u \in users' : u.id = chatuser'[i].uid
    <3>1. CASE i \in DOMAIN chatuser
      BY <1>1, <1>3, <3>1 DEF IInv, References, lookupChatById, lookupUserById
    <3>2. CASE i = Len(chatuser) + 1
      BY <1>d, <1>1, <1>3, <3>2
    <3> QED BY <1>3, <3>1, <3>2
  <2>5. \A i \in DOMAIN messages : /\ lookupChatById(messages[i].chat_to)' # {}
                                  /\ lookupUserById(messages[i].user_from)' # {}
    BY <1>1 DEF IInv, References, lookupChatById, lookupUserById
  <2> QED BY <1>1, <2>3, <2>4, <2>5 DEF References, lookupChatById, lookupUserById
<1>9. NameResolution'
  <2>1. SelfChat(c0)' /\ \A c : SelfChat(c) => SelfChat(c)'
    BY <1>d, <1>1 DEF SelfChat
  <2> QED BY <1>d, <1>1, <2>1 DEF IInv, NameResolution
<1> QED BY <1>6, <1>7, <1>8, <1>9 DEF IInv

\* A new membership row between existing rows, as createChat and addUserToChat
\* insert it, disturbs neither the inboxes nor the references.
LEMMA AddMemberKeeps ==
    ASSUME IInv, UNCHANGED <<users, messages>>, chats \subseteq chats',
           NEW m0 \in Chatuser, chatuser' = Append(chatuser, m0),
           \E c \in chats' : c.id = m0.chatid,
           \E u \in users : u.id = m0.uid,
           \A i \in DOMAIN chatuser : chatuser[i] # m0
    PROVE  InboxComplete' /\ References'
<1>1. /\ DOMAIN chatuser' = DOMAIN chatuser \cup {Len(chatuser) + 1}
      /\ \A i \in DOMAIN chatuser : chatuser'[i] = chatuser[i]
      /\ chatuser'[Len(chatuser) + 1] = m0
      /\ Len(chatuser) + 1 \notin DOMAIN chatuser
  BY AppendChatuser DEF IInv, TypeOK
<1>2. InboxComplete'
  <2>1. ASSUME NEW u \in users
        PROVE  \E i \in DOMAIN chatuser' :
                   chatuser'[i] = [chatid |-> u.self_chat_id, uid |-> u.id]
    <3>1. PICK i \in DOMAIN chatuser : chatuser[i] = [chatid |-> u.self_chat_id, uid |-> u.id]
      BY Zenon DEF IInv, InboxComplete
    <3> QED BY <1>1, <3>1
  <2> QED BY <2>1 DEF IInv, InboxComplete
<1>3. References'
  <2>1. ASSUME NEW i \in DOMAIN chatuser'
        PROVE  /\ \E c \in chats' : c.id = chatuser'[i].chatid
               /\ \E u \in users' : u.id = chatuser'[i].uid
    <3>1. CASE i \in DOMAIN chatuser
      BY <1>1, <3>1 DEF IInv, References, lookupChatById, lookupUserById
    <3>2. CASE i = Len(chatuser) + 1
      BY <1>1, <3>2
    <3> QED BY <1>1, <3>1, <3>2
  <2>2. \A i, j \in DOMAIN chatuser' : chatuser'[i] = chatuser'[j] => i = j
    BY <1>1 DEF IInv, References
  <2>3. \A i \in DOMAIN messages : /\ lookupChatById(messages[i].chat_to)' # {}
                                  /\ lookupUserById(messages[i].user_from)' # {}
    BY DEF IInv, References, lookupChatById, lookupUserById
  <2> QED BY <2>1, <2>2, <2>3 DEF References, lookupChatById, lookupUserById
<1> QED BY <1>2, <1>3

\* The conjuncts of IInv after createChat, with a creator or without one.
LEMMA CreateChatKeeps ==
    ASSUME IInv, TypeOK', NEW name \in Names, NEW uid \in Nat,
           uid = 0 \/ \E u \in users : u.id = uid,
           createChat(name, uid)
    PROVE  IInv'
<1>a. PICK c0 : c0 = [id |-> chat_autoincrement, name |-> name]
  OBVIOUS
<1>1. /\ UNCHANGED <<users, messages, user_autoincrement>>
      /\ chats' = chats \cup {c0}
      /\ c0.id = chat_autoincrement /\ c0.name = name
      /\ chat_autoincrement' = chat_autoincrement + 1
      /\ \A c \in chats : c.name # name
  BY <1>a DEF createChat, nextChatId, lookupChatByName
<1>2. /\ \A c \in chats : c.id \in Nat
      /\ chat_autoincrement \in Nat
      /\ \A c \in chats : c.id < chat_autoincrement
  BY DEF IInv, TypeOK, FreshIds, Chat, Ids
<1>3. FreshIds'
  BY <1>1, <1>2 DEF IInv, FreshIds
<1>4. NameResolution'
  <2>1. \A c : SelfChat(c)' <=> SelfChat(c)
    BY <1>1 DEF SelfChat
  <2> QED BY <1>1, <2>1 DEF IInv, NameResolution
<1>5. InboxComplete' /\ References'
  <2>1. CASE uid = 0
    <3>1. UNCHANGED chatuser
      BY <2>1 DEF createChat, hasCreator
    <3>2. InboxComplete'
      BY <1>1, <3>1, Zenon DEF IInv, InboxComplete
    <3>3. References'
      BY <1>1, <3>1 DEF IInv, References, lookupChatById, lookupUserById
    <3> QED BY <3>2, <3>3
  <2>2. CASE uid # 0
    <3>1. PICK m0 : m0 = [chatid |-> chat_autoincrement, uid |-> uid]
      OBVIOUS
    <3>2. m0 \in Chatuser /\ m0.chatid = chat_autoincrement /\ m0.uid = uid
      BY <2>2, <3>1 DEF IInv, TypeOK, Chatuser, Ids
    <3>3. chatuser' = Append(chatuser, m0)
      BY <2>2, <3>1 DEF createChat, hasCreator, newMember
    <3>4. \A i \in DOMAIN chatuser : chatuser[i] # m0
      BY <1>2, <3>2 DEF IInv, References, lookupChatById
    <3> QED BY <1>1, <2>2, <3>2, <3>3, <3>4, AddMemberKeeps
  <2> QED BY <2>1, <2>2
<1> QED BY <1>3, <1>4, <1>5 DEF IInv

\* The conjuncts of IInv after addUserToChat.
LEMMA AddUserKeeps ==
    ASSUME IInv, TypeOK', NEW chat \in chats, NEW user \in users, addUserToChat(chat, user)
    PROVE  IInv'
<1>1. PICK m0 : m0 = [chatid |-> chat.id, uid |-> user.id]
  OBVIOUS
<1>2. m0 \in Chatuser /\ m0.chatid = chat.id /\ m0.uid = user.id
  BY <1>1 DEF IInv, TypeOK, User, Chat, Chatuser
<1>3. /\ UNCHANGED <<users, chats, messages, user_autoincrement, chat_autoincrement>>
      /\ chatuser' = Append(chatuser, m0)
      /\ \A i \in DOMAIN chatuser : chatuser[i] # m0
  BY <1>1, <1>2 DEF addUserToChat, isMember
<1>4. InboxComplete' /\ References'
  BY <1>2, <1>3, AddMemberKeeps
<1>5. FreshIds' /\ NameResolution'
  BY <1>3 DEF IInv, FreshIds, NameResolution, SelfChat
<1> QED BY <1>4, <1>5 DEF IInv

\* The conjuncts of IInv after updateUserHeartBit.
LEMMA HeartBitKeeps ==
    ASSUME IInv, TypeOK', NEW user \in users, NEW ts \in Nat, updateUserHeartBit(user, ts)
    PROVE  IInv'
<1>1. PICK u0 : u0 = [user EXCEPT !.heartbit = ts]
  OBVIOUS
<1>2. user \in User
  BY DEF IInv, TypeOK
<1>3. u0.id = user.id /\ u0.self_chat_id = user.self_chat_id /\ u0.name = user.name
  BY <1>1, <1>2 DEF User
<1>4. /\ users' = (users \ {user}) \cup {u0}
      /\ UNCHANGED <<chats, chatuser, messages, user_autoincrement, chat_autoincrement>>
  BY <1>1 DEF updateUserHeartBit
<1>5. FreshIds'
  BY <1>3, <1>4 DEF IInv, FreshIds
<1>6. InboxComplete'
  <2>1. \A u \in users' : /\ [id |-> u.self_chat_id, name |-> u.name] \in chats
                          /\ \E i \in DOMAIN chatuser :
                                 chatuser[i] = [chatid |-> u.self_chat_id, uid |-> u.id]
    <3>1. \A u \in users : /\ [id |-> u.self_chat_id, name |-> u.name] \in chats
                           /\ \E i \in DOMAIN chatuser :
                                  chatuser[i] = [chatid |-> u.self_chat_id, uid |-> u.id]
      BY Zenon DEF IInv, InboxComplete
    <3> QED BY <1>3, <1>4, <3>1, Zenon
  <2>2. \A u, v \in users' : v.self_chat_id = u.self_chat_id => v = u
    <3>1. \A u, v \in users : v.self_chat_id = u.self_chat_id => v = u
      BY Zenon DEF IInv, InboxComplete
    <3> QED BY <1>3, <1>4, <3>1
  <2> QED BY <1>4, <2>1, <2>2, Zenon DEF InboxComplete
<1>7. References'
  <2>1. \A id : lookupUserById(id) # {} => lookupUserById(id)' # {}
    BY <1>3, <1>4 DEF lookupUserById
  <2> QED BY <1>4, <2>1 DEF IInv, References, lookupChatById
<1>8. NameResolution'
  <2>1. \A c : SelfChat(c)' <=> SelfChat(c)
    BY <1>3, <1>4 DEF SelfChat
  <2> QED BY <1>3, <1>4, <2>1 DEF IInv, NameResolution
<1> QED BY <1>5, <1>6, <1>7, <1>8 DEF IInv

\* The conjuncts of IInv after saveMessage and getMessages.
LEMMA MessagesKeep ==
    ASSUME IInv, TypeOK',
           UNCHANGED <<users, chats, chatuser, user_autoincrement, chat_autoincrement>>,
           \/ \E user \in users, chat \in chats, ts \in Times : saveMessage(user.id, chat.id, ts)
           \/ \E chat \in chats, ts \in Nat, max \in Nat : getMessages(chat.id, ts, max)
    PROVE  IInv'
<1>1. FreshIds' /\ InboxComplete' /\ NameResolution'
  BY DEF IInv, FreshIds, InboxComplete, NameResolution, SelfChat
<1>2. ASSUME NEW i \in DOMAIN messages'
      PROVE  /\ \E c \in chats : c.id = messages'[i].chat_to
             /\ \E u \in users : u.id = messages'[i].user_from
  <2>0. \A j \in DOMAIN messages : /\ \E c \in chats : c.id = messages[j].chat_to
                                  /\ \E u \in users : u.id = messages[j].user_from
    BY DEF IInv, References, lookupChatById, lookupUserById
  <2>1. ASSUME NEW user \in users, NEW chat \in chats, NEW ts \in Times,
               saveMessage(user.id, chat.id, ts)
        PROVE  /\ \E c \in chats : c.id = messages'[i].chat_to
               /\ \E u \in users : u.id = messages'[i].user_from
    <3>1. PICK m : m = [user_from |-> user.id, chat_to |-> chat.id, ts |-> ts, flags |-> "UNREAD"]
      OBVIOUS
    <3>2. messages' = Append(messages, m) /\ m.chat_to = chat.id /\ m.user_from = user.id
      BY <2>1, <3>1 DEF saveMessage
    <3>3. m \in Message
      BY <3>1, TimesAssumption DEF IInv, TypeOK, User, Chat, Message
    <3>4. (i \in DOMAIN messages /\ messages'[i] = messages[i]) \/ messages'[i] = m
      BY <3>2, <3>3 DEF IInv, TypeOK
    <3> QED BY <2>0, <3>2, <3>4
  <2>2. ASSUME NEW chat \in chats, NEW ts \in Nat, NEW max \in Nat, getMessages(chat.id, ts, max)
        PROVE  /\ \E c \in chats : c.id = messages'[i].chat_to
               /\ \E u \in users : u.id = messages'[i].user_from
    <3>1. PICK S : messages' = markRead(S)
      BY <2>2 DEF getMessages
    <3>2. TypeOK
      BY DEF IInv
    <3>3. /\ i \in DOMAIN messages
          /\ messages'[i].chat_to = messages[i].chat_to
          /\ messages'[i].user_from = messages[i].user_from
      BY <3>1, <3>2, MarkReadType
    <3> QED BY <2>0, <3>3
  <2> QED BY <2>1, <2>2
<1>3. References'
  BY <1>2 DEF IInv, References, lookupChatById, lookupUserById
<1> QED BY <1>1, <1>3 DEF IInv

--------------------------------------------------------------------------------
\* Every operation of the storage keeps the inductive invariant.
LEMMA StorageInductive ==
    ASSUME IInv, [Next]_vars
    PROVE  IInv'
<1>0. TypeOK'
  BY TypeInductive DEF IInv
<1>1. ASSUME NEW name \in Names, NEW pass \in Passwords, NEW hb \in FirstHeartBits,
             createUser(name, pass, hb)
      PROVE  IInv'
  BY <1>0, <1>1, CreateUserKeeps, HeartBitsAssumption
<1>2. ASSUME NEW name \in Names, createChat(name, 0)
      PROVE  IInv'
  BY <1>0, <1>2, CreateChatKeeps
<1>3. ASSUME NEW name \in Names, NEW user \in users, createChat(name, user.id)
      PROVE  IInv'
  <2>1. user.id \in Nat
    BY DEF IInv, TypeOK, User, Ids
  <2> QED BY <1>0, <1>3, <2>1, CreateChatKeeps
<1>4. ASSUME NEW chat \in chats, NEW user \in users, addUserToChat(chat, user)
      PROVE  IInv'
  BY <1>0, <1>4, AddUserKeeps
<1>5. ASSUME NEW user \in users, NEW ts \in Times, updateUserHeartBit(user, ts)
      PROVE  IInv'
  BY <1>0, <1>5, HeartBitKeeps, TimesAssumption
<1>6. ASSUME NEW user \in users, NEW chat \in chats, NEW ts \in Times,
             saveMessage(user.id, chat.id, ts)
      PROVE  IInv'
  BY <1>0, <1>6, MessagesKeep DEF saveMessage
<1>7. ASSUME NEW chat \in chats, NEW ts \in Times \cup {0}, NEW max \in Counts,
             getMessages(chat.id, ts, max)
      PROVE  IInv'
  BY <1>0, <1>7, MessagesKeep, TimesAssumption, CountsAssumption DEF getMessages
<1>8. CASE UNCHANGED vars
  BY <1>8 DEF vars, IInv, TypeOK, FreshIds, InboxComplete, References, NameResolution,
              SelfChat, lookupChatById, lookupUserById
<1> QED BY <1>1, <1>2, <1>3, <1>4, <1>5, <1>6, <1>7, <1>8 DEF Next

\* The inductive invariant holds in every reachable storage.
LEMMA StorageInvariant == Spec => []IInv
<1>1. Init => IInv
  BY DEF Init, IInv, TypeOK, Ids, FreshIds, InboxComplete, References, NameResolution
<1> QED BY <1>1, StorageInductive, PTL DEF Spec

\* Whatever the interleaving of the workers' calls, the counters of createUser and
\* createChat never hand an id out twice.
THEOREM IdsAreFresh == Spec => []FreshIds
BY StorageInvariant, PTL DEF IInv

\* Every user that createUser made has an inbox of its own and is a member of it.
THEOREM InboxesComplete == Spec => []InboxComplete
BY StorageInvariant, PTL DEF IInv

\* Every id in a membership row or a message is that of a row that exists, and
\* addUserToChat and createChat never list a member twice.
THEOREM ReferencesResolve == Spec => []References
BY StorageInvariant, PTL DEF IInv

\* Only createUser compares user names and only createChat chat names, yet a name
\* denotes at most one user and at most one group chat.
THEOREM NamesResolve == Spec => []NameResolution
BY StorageInvariant, PTL DEF IInv

\* No operation deletes or rewrites a row, but for heartbits and flags: what a
\* worker read before another worker's step is still there after it.
THEOREM NeverShrinks == Spec => OnlyGrows
<1>1. TypeOK /\ [Next]_vars => [StorageGrows]_vars
  <2> SUFFICES ASSUME TypeOK, Next PROVE StorageGrows
    OBVIOUS
  <2>0. /\ \A u \in users : u = [u EXCEPT !.heartbit = u.heartbit]
        /\ chatuser \in Seq(Chatuser) /\ messages \in Seq(Message)
    BY DEF TypeOK, User
  <2>1. ASSUME NEW name \in Names, NEW pass \in Passwords, NEW hb \in FirstHeartBits,
               createUser(name, pass, hb)
        PROVE  StorageGrows
    <3>1. PICK m0 \in Chatuser : chatuser' = Append(chatuser, m0)
      BY <2>1 DEF createUser, newMember, TypeOK, Chatuser
    <3> QED BY <2>0, <2>1, <3>1, AppendChatuser DEF createUser, StorageGrows
  <2>2. ASSUME NEW name \in Names, NEW uid \in Nat, createChat(name, uid)
        PROVE  StorageGrows
    <3>1. CASE UNCHANGED chatuser
      BY <2>0, <2>2, <3>1 DEF createChat, StorageGrows
    <3>2. CASE uid > 0
      <4>1. [chatid |-> chat_autoincrement, uid |-> uid] \in Chatuser
        BY <3>2 DEF TypeOK, Chatuser, Ids
      <4>2. PICK m0 \in Chatuser : chatuser' = Append(chatuser, m0)
        BY <2>2, <3>2, <4>1 DEF createChat, hasCreator, newMember
      <4> QED BY <2>0, <2>2, <4>2, AppendChatuser DEF createChat, StorageGrows
    <3> QED BY <2>2, <3>1, <3>2 DEF createChat, hasCreator
  <2>3. ASSUME NEW chat \in chats, NEW user \in users, addUserToChat(chat, user)
        PROVE  StorageGrows
    <3>1. [chatid |-> chat.id, uid |-> user.id] \in Chatuser
      BY DEF TypeOK, User, Chat, Chatuser
    <3>2. PICK m0 \in Chatuser : chatuser' = Append(chatuser, m0)
      BY <2>3, <3>1 DEF addUserToChat
    <3> QED BY <2>0, <2>3, <3>2, AppendChatuser DEF addUserToChat, StorageGrows
  <2>4. ASSUME NEW user \in users, NEW ts \in Times, updateUserHeartBit(user, ts)
        PROVE  StorageGrows
    <3>1. user \in User
      BY DEF TypeOK
    <3>2. ASSUME NEW u \in users
          PROVE  \E v \in users' : v = [u EXCEPT !.heartbit = v.heartbit]
      <4>1. CASE u = user
        <5>1. PICK w : w = [user EXCEPT !.heartbit = ts]
          OBVIOUS
        <5>2. w \in users' /\ w.heartbit = ts
          BY <2>4, <3>1, <5>1 DEF updateUserHeartBit, User
        <5> QED BY <4>1, <5>1, <5>2
      <4>2. CASE u # user
        BY <2>0, <2>4, <4>2 DEF updateUserHeartBit
      <4> QED BY <4>1, <4>2
    <3> QED BY <2>0, <2>4, <3>2 DEF updateUserHeartBit, StorageGrows
  <2>5. ASSUME NEW user \in users, NEW chat \in chats, NEW ts \in Times,
               saveMessage(user.id, chat.id, ts)
        PROVE  StorageGrows
    <3>1. [user_from |-> user.id, chat_to |-> chat.id, ts |-> ts, flags |-> "UNREAD"] \in Message
      BY TimesAssumption DEF TypeOK, User, Chat, Message
    <3>2. PICK m \in Message : messages' = Append(messages, m)
      BY <2>5, <3>1 DEF saveMessage
    <3>3. Len(messages) <= Len(messages') /\ \A i \in DOMAIN messages : messages'[i] = messages[i]
      BY <2>0, <3>2
    <3> QED BY <2>0, <2>5, <3>3 DEF saveMessage, StorageGrows
  <2>6. ASSUME NEW chat \in chats, NEW ts \in Nat, NEW max \in Counts,
               getMessages(chat.id, ts, max)
        PROVE  StorageGrows
    <3>1. PICK S : messages' = markRead(S)
      BY <2>6 DEF getMessages
    <3>2. /\ Len(messages) <= Len(messages')
          /\ \A i \in DOMAIN messages : \/ messages'[i] = messages[i]
                                        \/ messages'[i] = [messages[i] EXCEPT !.flags = "READ"]
      BY <2>0, <3>1, MarkReadType
    <3> QED BY <2>0, <2>6, <3>2 DEF getMessages, StorageGrows
  <2>7. \A user \in users : user.id \in Nat
    BY DEF TypeOK, User, Ids
  <2> QED BY <2>1, <2>2, <2>3, <2>4, <2>5, <2>6, <2>7, TimesAssumption DEF Next
<1> QED BY <1>1, TypeCorrect, PTL DEF Spec, OnlyGrows

================================================================================
