--------------------------- MODULE ChatServiceProofs ---------------------------
(* Proofs about ChatService, for any number of workers and any tasks: the      *)
(* steps of the branches are operations of the storage, and the histories hold *)
(* what they promise.                                                          *)
EXTENDS ChatService, ChatStorageProofs, FiniteSetTheorems

Labels == {"check", "user", "chat", "create", "stamp", "save", "add", "select_to",
           "select_from", "location", "idle"}

Locals == [user_to : Nat, chat : Nat, ts : Nat, msgs_to : SUBSET Nat,
           msgs : [from : SUBSET Nat, to : SUBSET Nat], before : Nat, failed : BOOLEAN]

\* The variables of the workers.
WorkerTypes ==
    /\ storage \in Storages
    /\ clock \in 1..MaxClock
    /\ task \in [Workers -> Tasks \cup {NoTask}]
    /\ pc \in [Workers -> Labels]
    /\ local \in [Workers -> Locals]

KnownUser(id) == lookupUserById(id) # {}
KnownChat(id) == lookupChatById(id) # {}

\* Which branches come to which call.
CmdInv(w) ==
    /\ pc[w] = "idle" <=> task[w] = NoTask
    /\ pc[w] = "check" => task[w].cmd \notin {"user_create", "user_login"}
    /\ pc[w] = "user" => task[w].cmd \in {"user_status", "user_history", "message_send",
                                          "chat_adduser", "user_login"}
    /\ pc[w] = "chat" => task[w].cmd \in {"chat_adduser", "message_send_chat"}
    /\ pc[w] = "create" => task[w].cmd \in {"user_create", "chat_create"}
    /\ pc[w] \in {"stamp", "save"} => task[w].cmd \in {"message_send", "message_send_chat"}
    /\ pc[w] = "add" => task[w].cmd = "chat_adduser"
    /\ pc[w] \in {"select_to", "select_from"} => task[w].cmd = "user_history"
    /\ pc[w] = "location" => task[w].cmd \in {"get_locations", "chat_with_location"}

\* The rows a branch has looked up exist, and so they do when it uses them.
RowsInv(w) ==
    /\ pc[w] \notin {"idle", "check"} /\ task[w].cmd \notin {"user_create", "user_login"} =>
          KnownUser(task[w].uid)
    /\ \/ pc[w] \in {"add", "select_to", "select_from"}
       \/ pc[w] \in {"stamp", "save"} /\ task[w].cmd = "message_send"
       \/ pc[w] = "chat" /\ task[w].cmd = "chat_adduser"
       => KnownUser(local[w].user_to)
    /\ \/ pc[w] = "add"
       \/ pc[w] \in {"stamp", "save"} /\ task[w].cmd = "message_send_chat"
       => KnownChat(local[w].chat)

\* The stamp of a message about to be stored is not in the future.
StampInv(w) ==
    /\ local[w].ts <= clock
    /\ pc[w] = "save" => local[w].ts >= 1
    /\ local[w].msgs_to \subseteq DOMAIN messages
    /\ pc[w] # "select_from" => local[w].msgs_to = {}

\* What the first SELECT of a history has found: of the two users' messages at
\* that time, it left out only what is older than count * 2 others.
FirstRead(w, S) ==
    /\ local[w].msgs_to \subseteq S
    /\ local[w].before <= Len(messages)
    /\ task[w].count * 2 <= Width =>
          \A i \in S : i <= local[w].before /\ i \notin local[w].msgs_to =>
              /\ storage = "mysql" =>
                     local[w].failed \/ i <= local[w].before - task[w].count * 2
              /\ storage = "memory" =>
                     task[w].count * 2 <= Cardinality({j \in local[w].msgs_to : j > i})

HistInv(w) ==
    pc[w] = "select_from" => FirstRead(w, Sent(UserOf(task[w].uid), UserOf(local[w].user_to)))

\* The messages stored after message i with an earlier stamp, and the workers that
\* are about to store such a one.
Late(i) == {j \in DOMAIN messages : j > i /\ messages[j].ts < messages[i].ts}
Pending(i) == {w \in Workers : pc[w] = "save" /\ local[w].ts < messages[i].ts}

\* Every worker but the one that stored message i may be late once.
LateInv ==
    \A i \in DOMAIN messages :
        /\ messages[i].ts <= clock
        /\ Cardinality(Late(i)) + Cardinality(Pending(i)) < Cardinality(Workers)

WInv(w) == CmdInv(w) /\ RowsInv(w) /\ StampInv(w) /\ HistInv(w)

ServiceInv ==
    /\ IInv
    /\ WorkerTypes
    /\ \A w \in Workers : WInv(w)
    /\ LateInv

\* What the branches call of the storage.
StorageCall ==
    \/ UNCHANGED vars
    \/ \E name \in Names, pass \in Passwords, hb \in FirstHeartBits : createUser(name, pass, hb)
    \/ \E name \in Names, user \in users : createChat(name, user.id)
    \/ \E chat \in chats, user \in users : addUserToChat(chat, user)
    \/ \E user \in users, chat \in chats, ts \in Times : saveMessage(user.id, chat.id, ts)

\* A step that keeps the rows the workers have looked up.
RowsKept ==
    /\ \A id : KnownUser(id) => lookupUserById(id)' = lookupUserById(id)
    /\ \A id : KnownChat(id) => KnownChat(id)'
    /\ messages' \in Seq(Message)
    /\ Len(messages) <= Len(messages')
    /\ \A i \in DOMAIN messages : messages'[i] = messages[i]
    /\ clock' \in Nat /\ clock <= clock'
    /\ UNCHANGED storage
--------------------------------------------------------------------------------
(* Sets of row numbers *)

\* A set of row numbers is finite, and so are its subsets.
LEMMA RowsFinite ==
    ASSUME NEW n \in Nat, NEW S, S \subseteq 1..n
    PROVE  /\ IsFiniteSet(S) /\ Cardinality(S) \in Nat
           /\ \A T : T \subseteq S => /\ IsFiniteSet(T) /\ Cardinality(T) \in Nat
                                      /\ Cardinality(T) <= Cardinality(S)
<1>1. IsFiniteSet(1..n)
  BY FS_Interval
<1>2. IsFiniteSet(S) /\ Cardinality(S) \in Nat
  BY <1>1, FS_Subset, FS_CardinalityType
<1> QED BY <1>2, FS_Subset, FS_CardinalityType

\* A row that is not among the newest max of the table has max newer ones.
LEMMA NewestOfAll ==
    ASSUME NEW n \in Nat, NEW i \in 1..n, NEW max \in Nat, i \notin Newest(1..n, max)
    PROVE  max # 0 /\ i <= n - max
<1>1. max # 0 /\ ~(Cardinality({j \in 1..n : j > i}) < max)
  BY DEF Newest
<1>2. {j \in 1..n : j > i} = (i + 1)..n
  OBVIOUS
<1>3. Cardinality((i + 1)..n) = n - i
  BY FS_Interval
<1>4. Cardinality({j \in 1..n : j > i}) = n - i
  BY <1>2, <1>3
<1>5. ~(n - i < max)
  BY <1>1, <1>4
<1> QED BY <1>1, <1>5

\* The newest max rows of S are all of them, or at least max newer than any row left out.
LEMMA NewestOfSome ==
    ASSUME NEW n \in Nat, NEW S \in SUBSET (1..n), NEW i \in S, NEW max \in Nat,
           i \notin Newest(S, max)
    PROVE  max # 0 /\ max <= Cardinality({j \in Newest(S, max) : j > i})
<1>1. max # 0 /\ ~(Cardinality({j \in S : j > i}) < max)
  BY DEF Newest
<1>2. PICK N : N = Newest(S, max) /\ N \subseteq S
  BY DEF Newest
<1>3. PICK T : T = {j \in S : j > i /\ j \notin N} \cup {i}
  OBVIOUS
<1>4. T \in SUBSET (1..n) /\ T # {}
  BY <1>3
<1>5. PICK m \in T : \A x \in T : x <= m
  BY <1>4, LargestExists
<1>6. m \in S /\ m \notin N /\ m >= i
  BY <1>2, <1>3, <1>4, <1>5
<1>7. ~(Cardinality({j \in S : j > m}) < max)
  BY <1>2, <1>6 DEF Newest
<1>8. {j \in S : j > m} \subseteq {j \in N : j > i}
  <2>1. ASSUME NEW j \in S, j > m PROVE j \in N /\ j > i
    <3>1. j \in Nat /\ m \in Nat /\ i \in Nat
      BY <1>6
    <3>2. j > i /\ ~(j <= m)
      BY <1>6, <2>1, <3>1
    <3>3. j \notin T
      BY <1>5, <3>2
    <3> QED BY <1>3, <3>2, <3>3
  <2> QED BY <2>1
<1>9. {j \in N : j > i} \subseteq 1..n
  BY <1>2
<1>10. /\ Cardinality({j \in N : j > i}) \in Nat /\ Cardinality({j \in S : j > m}) \in Nat
       /\ Cardinality({j \in S : j > m}) <= Cardinality({j \in N : j > i})
  BY <1>8, <1>9, RowsFinite
<1> QED BY <1>1, <1>2, <1>7, <1>10

\* max_count of a task whose doubled count fits its width: no limit, or twice the count.
LEMMA MaxCount ==
    ASSUME NEW t \in Task, t.count * 2 <= Width, max_count(t) # 0
    PROVE  max_count(t) = t.count * 2
<1>1. t.count \in Nat /\ Width \in Nat \ {0}
  BY WidthAssumption DEF Task
<1>2. CASE t.count * 2 < Width
  BY <1>1, <1>2 DEF max_count
<1>3. CASE t.count * 2 = Width
  BY <1>1, <1>3 DEF max_count
<1> QED BY <1>1, <1>2, <1>3

\* max_count is an unsigned number.
LEMMA MaxCountType ==
    ASSUME NEW t \in Task
    PROVE  max_count(t) \in Nat
<1>1. t.count \in Nat /\ Width \in Nat \ {0}
  BY WidthAssumption DEF Task
<1> QED BY <1>1 DEF max_count

\* The rows F and T were cut from the vector of X and Y to at most max elements,
\* none of them older than what was left out.
Cut(F, T, X, Y, max) ==
    /\ X \subseteq DOMAIN messages /\ Y \subseteq DOMAIN messages /\ F \subseteq X /\ T \subseteq Y
    /\ Cardinality(F) + Cardinality(T) =
           IF Cardinality(X) + Cardinality(Y) <= max THEN Cardinality(X) + Cardinality(Y) ELSE max
    /\ \A a \in F \cup T, b \in (X \ F) \cup (Y \ T) : messages[a].ts >= messages[b].ts

\* X has row i, or max rows that are not older.
Has(X, max, i) == i \in X \/ max <= Cardinality({j \in X : messages[j].ts >= messages[i].ts})

\* What is left out of one of the two parts is not newer than what is kept, when the
\* part had the row, or had max rows that are not older; and max elements are kept.
LEMMA CutShows ==
    ASSUME messages \in Seq(Message), NEW F, NEW T, NEW X, NEW Y, NEW max \in Nat,
           Cut(F, T, X, Y, max), NEW i \in DOMAIN messages, i \notin F \cup T, Has(X, max, i)
    PROVE  /\ Cardinality(F) + Cardinality(T) = max
           /\ \A a \in F \cup T : messages[a].ts >= messages[i].ts
<1>1. DOMAIN messages = 1..Len(messages) /\ Len(messages) \in Nat
      /\ \A j \in DOMAIN messages : messages[j].ts \in Nat
  <2>1. \A j \in DOMAIN messages : messages[j] \in Message
    OBVIOUS
  <2> QED BY <2>1 DEF Message
<1>2. /\ X \subseteq DOMAIN messages /\ Y \subseteq DOMAIN messages /\ F \subseteq X /\ T \subseteq Y
      /\ Cardinality(F) + Cardinality(T) =
             IF Cardinality(X) + Cardinality(Y) <= max THEN Cardinality(X) + Cardinality(Y) ELSE max
      /\ \A a \in F \cup T, b \in (X \ F) \cup (Y \ T) : messages[a].ts >= messages[b].ts
  BY DEF Cut
<1>3. /\ IsFiniteSet(X) /\ Cardinality(X) \in Nat /\ IsFiniteSet(F) /\ Cardinality(F) \in Nat
      /\ Cardinality(F) <= Cardinality(X)
      /\ IsFiniteSet(T) /\ Cardinality(T) \in Nat /\ Cardinality(Y) \in Nat
      /\ Cardinality(T) <= Cardinality(Y)
  BY <1>1, <1>2, RowsFinite
<1>4. CASE i \in X
  <2>1. F # X
    BY <1>4
  <2>2. Cardinality(F) # Cardinality(X)
    BY <1>2, <1>3, <2>1, FS_Subset
  <2>3. Cardinality(F) + Cardinality(T) = max
    BY <1>2, <1>3, <2>2
  <2> QED BY <1>2, <1>4, <2>3
<1>5. CASE max <= Cardinality({j \in X : messages[j].ts >= messages[i].ts})
  <2>1. PICK G : G = {j \in X : messages[j].ts >= messages[i].ts}
    OBVIOUS
  <2>2. G \subseteq X /\ IsFiniteSet(G) /\ Cardinality(G) \in Nat /\ Cardinality(G) <= Cardinality(X)
    BY <1>1, <1>2, <2>1, RowsFinite
  <2>3. Cardinality(F) + Cardinality(T) = max
    BY <1>2, <1>3, <1>5, <2>1, <2>2
  <2>4. ASSUME NEW a \in F \cup T, ~(messages[a].ts >= messages[i].ts) PROVE FALSE
    <3>1. G \subseteq F
      BY <1>1, <1>2, <2>1, <2>4
    <3>2. CASE a \in F
      <4>1. G \subseteq F \ {a}
        BY <2>1, <2>4, <3>1
      <4>2. IsFiniteSet(F \ {a}) /\ Cardinality(F \ {a}) = Cardinality(F) - 1
        BY <1>3, <3>2, FS_RemoveElement
      <4>3. Cardinality(G) <= Cardinality(F \ {a})
        BY <4>1, <4>2, FS_Subset
      <4> QED BY <1>3, <1>5, <2>1, <2>2, <2>3, <4>2, <4>3
    <3>3. CASE a \in T
      <4>1. Cardinality(T) # 0
        BY <1>3, <3>3, FS_EmptySet
      <4>2. Cardinality(G) <= Cardinality(F)
        BY <1>3, <3>1, FS_Subset
      <4> QED BY <1>3, <1>5, <2>1, <2>2, <2>3, <4>1, <4>2
    <3> QED BY <2>4, <3>2, <3>3
  <2> QED BY <2>3, <2>4
<1> QED BY <1>4, <1>5 DEF Has

\* Message i is in the vector A, or A has n elements that are not older.
Shows(A, n, i) ==
    i \in Rows(A) \/ (Size(A) = n /\ \A a \in Rows(A) : messages[a].ts >= messages[i].ts)

\* What mix_from_and_to_messages leaves out is not newer than what it keeps, when it
\* had the row, or one of the two vectors had max rows that are not older.
LEMMA MixShows ==
    ASSUME messages \in Seq(Message), NEW X, X \subseteq DOMAIN messages,
           NEW Y, Y \subseteq DOMAIN messages, NEW max \in Nat,
           NEW A \in mix_from_and_to_messages(X, Y, max), NEW i \in DOMAIN messages,
           Has(X, max, i) \/ Has(Y, max, i)
    PROVE  Shows(A, max, i)
<1>1. PICK F, T : F = A.from /\ T = A.to
  OBVIOUS
<1>2. Cut(F, T, X, Y, max)
  BY <1>1 DEF mix_from_and_to_messages, Cut, Size, Rows, Vector
<1>3. Cardinality(X) \in Nat /\ Cardinality(Y) \in Nat /\ Cardinality(F) \in Nat /\ Cardinality(T) \in Nat
  <2>1. DOMAIN messages = 1..Len(messages) /\ Len(messages) \in Nat
    OBVIOUS
  <2> QED BY <1>2, <2>1, RowsFinite DEF Cut
<1>4. Cut(T, F, Y, X, max)
  BY <1>2, <1>3 DEF Cut
<1> SUFFICES ASSUME i \notin F \cup T
             PROVE  /\ Cardinality(F) + Cardinality(T) = max
                    /\ \A a \in F \cup T : messages[a].ts >= messages[i].ts
  BY <1>1 DEF Rows, Size, Shows
<1>5. CASE Has(X, max, i)
  BY <1>2, <1>5, CutShows
<1>6. CASE Has(Y, max, i)
  <2>1. /\ Cardinality(T) + Cardinality(F) = max
        /\ \A a \in T \cup F : messages[a].ts >= messages[i].ts
    BY <1>4, <1>6, CutShows
  <2> QED BY <1>3, <2>1
<1> QED BY <1>5, <1>6
--------------------------------------------------------------------------------
(* Frames: what a step leaves as it was *)

\* An id that finds a user finds exactly one.
LEMMA UserOfId ==
    ASSUME FreshIds, NEW id, KnownUser(id)
    PROVE  UserOf(id) \in users /\ UserOf(id).id = id
BY DEF KnownUser, UserOf, TheOne, lookupUserById

\* The operations the branches call only add rows.
LEMMA CallsKeepRows ==
    ASSUME IInv, IInv', StorageCall, clock \in Nat, clock' \in Nat, clock <= clock',
           UNCHANGED storage
    PROVE  RowsKept
<1>1. /\ users \subseteq User /\ chats \subseteq Chat /\ messages \in Seq(Message)
      /\ messages' \in Seq(Message) /\ FreshIds
  BY DEF IInv, TypeOK
<1>2. \A u \in users : u.id < user_autoincrement /\ u.id \in Nat /\ user_autoincrement \in Nat
  BY DEF IInv, TypeOK, FreshIds, User, Ids
<1>3. CASE UNCHANGED vars
  BY <1>1, <1>3 DEF vars, RowsKept, KnownUser, KnownChat, lookupUserById, lookupChatById
<1>4. ASSUME NEW name \in Names, NEW pass \in Passwords, NEW hb \in FirstHeartBits,
             createUser(name, pass, hb)
      PROVE  RowsKept
  <2>1. PICK u0 : u0 = [id |-> user_autoincrement, self_chat_id |-> chat_autoincrement,
                        name |-> name, password |-> pass, heartbit |-> hb]
    OBVIOUS
  <2>2. users' = users \cup {u0} /\ u0.id = user_autoincrement /\ chats \subseteq chats'
        /\ UNCHANGED messages
    BY <1>4, <2>1 DEF createUser
  <2>3. ASSUME NEW id, KnownUser(id) PROVE lookupUserById(id)' = lookupUserById(id)
    <3>1. id # user_autoincrement
      BY <1>2, <2>3 DEF KnownUser, lookupUserById
    <3> QED BY <2>2, <3>1 DEF lookupUserById
  <2>4. \A id : KnownChat(id) => KnownChat(id)'
    BY <2>2 DEF KnownChat, lookupChatById
  <2> QED BY <1>1, <2>2, <2>3, <2>4 DEF RowsKept
<1>5. ASSUME NEW name \in Names, NEW user \in users, createChat(name, user.id)
      PROVE  RowsKept
  <2>1. UNCHANGED <<users, messages>> /\ chats \subseteq chats'
    BY <1>5 DEF createChat
  <2> QED BY <1>1, <2>1 DEF RowsKept, KnownUser, KnownChat, lookupUserById, lookupChatById
<1>6. ASSUME NEW chat \in chats, NEW user \in users, addUserToChat(chat, user)
      PROVE  RowsKept
  BY <1>1, <1>6 DEF addUserToChat, RowsKept, KnownUser, KnownChat, lookupUserById, lookupChatById
<1>7. ASSUME NEW user \in users, NEW chat \in chats, NEW ts \in Times,
             saveMessage(user.id, chat.id, ts)
      PROVE  RowsKept
  <2>1. [user_from |-> user.id, chat_to |-> chat.id, ts |-> ts, flags |-> "UNREAD"] \in Message
    BY <1>1, TimesAssumption DEF User, Chat, Message
  <2>2. PICK m \in Message : messages' = Append(messages, m)
    BY <1>7, <2>1 DEF saveMessage
  <2>3. Len(messages) <= Len(messages') /\ \A i \in DOMAIN messages : messages'[i] = messages[i]
    BY <1>1, <2>2
  <2> QED BY <1>1, <1>7, <2>3
       DEF saveMessage, RowsKept, KnownUser, KnownChat, lookupUserById, lookupChatById
<1> QED BY <1>3, <1>4, <1>5, <1>6, <1>7 DEF StorageCall

\* A worker that takes no step keeps its invariant while the rows are kept.
LEMMA OtherWorkerKeeps ==
    ASSUME RowsKept, messages \in Seq(Message), NEW v \in Workers, local[v] \in Locals,
           clock \in Nat, WInv(v),
           pc'[v] = pc[v], task'[v] = task[v], local'[v] = local[v]
    PROVE  WInv(v)'
<1>1. CmdInv(v)'
  BY DEF WInv, CmdInv
<1>2. RowsInv(v)'
  <2>1. \A id : KnownUser(id) => KnownUser(id)'
    BY DEF RowsKept, KnownUser
  <2>2. \A id : KnownChat(id) => KnownChat(id)'
    BY DEF RowsKept
  <2> QED BY <2>1, <2>2 DEF WInv, RowsInv
<1>3. DOMAIN messages = 1..Len(messages) /\ DOMAIN messages' = 1..Len(messages')
      /\ Len(messages) \in Nat /\ Len(messages') \in Nat /\ DOMAIN messages \subseteq DOMAIN messages'
  BY DEF RowsKept
<1>4. StampInv(v)'
  BY <1>3 DEF WInv, StampInv, RowsKept, Locals
<1>5. ASSUME pc[v] = "select_from"
      PROVE  FirstRead(v, Sent(UserOf(task[v].uid), UserOf(local[v].user_to)))'
  <2>1. PICK me, other : me = UserOf(task[v].uid) /\ other = UserOf(local[v].user_to)
    OBVIOUS
  <2>2. KnownUser(task[v].uid) /\ KnownUser(local[v].user_to)
    BY <1>5 DEF WInv, RowsInv, CmdInv
  <2>3. UserOf(task[v].uid)' = me /\ UserOf(local[v].user_to)' = other
    BY <2>1, <2>2 DEF RowsKept, UserOf
  <2>4. PICK S : S = Sent(me, other)
    OBVIOUS
  <2>5. PICK T : T = Sent(UserOf(task[v].uid), UserOf(local[v].user_to))'
    OBVIOUS
  <2>6. FirstRead(v, S)
    BY <1>5, <2>1, <2>4 DEF WInv, HistInv
  <2>7. /\ S = {i \in DOMAIN messages : messages[i].user_from = me.id
                                        /\ messages[i].chat_to = other.self_chat_id}
        /\ T = {i \in DOMAIN messages' : messages'[i].user_from = me.id
                                         /\ messages'[i].chat_to = other.self_chat_id}
    BY <2>3, <2>4, <2>5 DEF Sent
  <2>8. S \subseteq T
    BY <1>3, <2>7 DEF RowsKept
  <2>9. \A i \in T : i <= local[v].before => i \in S
    <3>1. local[v].before <= Len(messages) /\ local[v].before \in Nat
      BY <2>6 DEF FirstRead, Locals
    <3>2. \A i \in T : i <= local[v].before => i \in DOMAIN messages
      BY <1>3, <2>7, <3>1
    <3> QED BY <2>7, <3>2 DEF RowsKept
  <2>10. local[v].before <= Len(messages')
    BY <1>3, <2>6 DEF FirstRead, Locals, RowsKept
  <2>11. FirstRead(v, T)'
    BY <2>6, <2>8, <2>9, <2>10 DEF FirstRead, RowsKept
  <2> QED BY <2>5, <2>11
<1> QED BY <1>1, <1>2, <1>4, <1>5 DEF WInv, HistInv
--------------------------------------------------------------------------------
(* Steps of a worker *)

\* The empty locals of a worker without a task.
LEMMA NoLocalsType ==
    /\ NoLocals \in Locals
    /\ NoLocals.ts = 0 /\ NoLocals.msgs_to = {} /\ NoLocals.failed = FALSE /\ NoLocals.before = 0
BY DEF NoLocals, Locals, Vector

\* goto changes the state of one worker.
LEMMA GotoFacts ==
    ASSUME WorkerTypes, NEW w \in Workers, NEW label \in Labels, NEW l \in Locals, goto(w, label, l)
    PROVE  /\ pc' \in [Workers -> Labels] /\ local' \in [Workers -> Locals]
           /\ pc'[w] = label /\ local'[w] = l /\ task' = task
           /\ \A v \in Workers \ {w} : pc'[v] = pc[v] /\ local'[v] = local[v]
           /\ out' = NoAnswer
BY DEF goto, WorkerTypes

\* answer changes the state of one worker.
LEMMA AnswerFacts ==
    ASSUME WorkerTypes, NEW w \in Workers, NEW code, NEW l, answer(w, code, l)
    PROVE  /\ pc' \in [Workers -> Labels] /\ local' \in [Workers -> Locals]
           /\ task' \in [Workers -> Tasks \cup {NoTask}]
           /\ pc'[w] = "idle" /\ local'[w] = NoLocals /\ task'[w] = NoTask
           /\ \A v \in Workers \ {w} : pc'[v] = pc[v] /\ local'[v] = local[v] /\ task'[v] = task[v]
           /\ out' = IF task[w].cmd = "user_history"
                     THEN [code |-> code, task |-> task[w], local |-> l]
                     ELSE [NoAnswer EXCEPT !.code = code]
<1>1. "idle" \in Labels
  BY DEF Labels
<1> QED BY <1>1, NoLocalsType DEF answer, WorkerTypes

\* A step that stores no message, and leaves no worker about to store an older one.
LEMMA LateKeeps ==
    ASSUME ServiceInv, UNCHANGED messages, clock' \in Nat, clock <= clock',
           \A i \in DOMAIN messages, v \in Workers :
               pc'[v] = "save" /\ local'[v].ts < messages[i].ts =>
                   pc[v] = "save" /\ local[v].ts < messages[i].ts
    PROVE  LateInv'
<1> SUFFICES ASSUME NEW i \in DOMAIN messages
             PROVE  /\ messages[i].ts <= clock'
                    /\ Cardinality(Late(i)') + Cardinality(Pending(i)') < Cardinality(Workers)
  BY DEF LateInv
<1>1. /\ messages[i].ts <= clock /\ messages[i].ts \in Nat /\ clock \in Nat
      /\ Cardinality(Late(i)) + Cardinality(Pending(i)) < Cardinality(Workers)
  <2>1. messages[i] \in Message
    BY DEF ServiceInv, IInv, TypeOK
  <2> QED BY <2>1 DEF ServiceInv, LateInv, Message, WorkerTypes
<1>2. Late(i)' = Late(i)
  BY DEF Late
<1>3. Pending(i)' \subseteq Pending(i)
  BY DEF Pending
<1>4. IsFiniteSet(Pending(i)) /\ Cardinality(Pending(i)) \in Nat
  BY WorkersAssumption, FS_Subset, FS_CardinalityType DEF Pending
<1>5. /\ Cardinality(Pending(i)') <= Cardinality(Pending(i)) /\ Cardinality(Pending(i)') \in Nat
      /\ Cardinality(Workers) \in Nat
  BY <1>3, <1>4, WorkersAssumption, FS_Subset, FS_CardinalityType
<1>6. Cardinality(Late(i)) \in Nat
  <2>1. Late(i) \subseteq 1..Len(messages) /\ Len(messages) \in Nat
    BY DEF Late, ServiceInv, IInv, TypeOK
  <2> QED BY <2>1, RowsFinite
<1> QED BY <1>1, <1>2, <1>4, <1>5, <1>6

\* A branch goes on with its next call.
LEMMA GotoKeeps ==
    ASSUME ServiceInv, NEW w \in Workers, NEW label \in Labels, NEW l \in Locals,
           goto(w, label, l), UNCHANGED <<vars, storage, clock>>,
           label = "save" => \A i \in DOMAIN messages : messages[i].ts <= l.ts,
           WInv(w)'
    PROVE  ServiceInv'
<1>0. /\ pc' \in [Workers -> Labels] /\ local' \in [Workers -> Locals]
      /\ pc'[w] = label /\ local'[w] = l /\ task' = task
      /\ \A v \in Workers \ {w} : pc'[v] = pc[v] /\ local'[v] = local[v]
  BY GotoFacts DEF ServiceInv
<1>1. IInv'
  BY StorageInductive DEF ServiceInv
<1>2. WorkerTypes'
  BY <1>0 DEF ServiceInv, WorkerTypes
<1>3. RowsKept
  BY <1>1, CallsKeepRows DEF ServiceInv, WorkerTypes, StorageCall
<1>4. \A v \in Workers \ {w} : WInv(v)'
  BY <1>0, <1>3, OtherWorkerKeeps DEF ServiceInv, WorkerTypes, IInv, TypeOK
<1>5. LateInv'
  <2>1. \A i \in DOMAIN messages : messages[i].ts \in Nat
    <3>1. \A i \in DOMAIN messages : messages[i] \in Message
      BY DEF ServiceInv, IInv, TypeOK
    <3> QED BY <3>1 DEF Message
  <2>2. l.ts \in Nat
    BY DEF Locals
  <2>3. \A i \in DOMAIN messages, v \in Workers :
            pc'[v] = "save" /\ local'[v].ts < messages[i].ts =>
                pc[v] = "save" /\ local[v].ts < messages[i].ts
    BY <1>0, <2>1, <2>2
  <2> QED BY <2>3, LateKeeps DEF vars, ServiceInv, WorkerTypes
<1> QED BY <1>1, <1>2, <1>4, <1>5 DEF ServiceInv

\* A branch ends, its last call being A.
LEMMA AnswerKeeps ==
    ASSUME ServiceInv, NEW w \in Workers, NEW code, NEW l, answer(w, code, l),
           StorageCall, UNCHANGED <<storage, clock>>, LateInv'
    PROVE  ServiceInv'
<1>0. /\ pc' \in [Workers -> Labels] /\ local' \in [Workers -> Locals]
      /\ task' \in [Workers -> Tasks \cup {NoTask}]
      /\ pc'[w] = "idle" /\ local'[w] = NoLocals /\ task'[w] = NoTask
      /\ \A v \in Workers \ {w} : pc'[v] = pc[v] /\ local'[v] = local[v] /\ task'[v] = task[v]
  BY AnswerFacts DEF ServiceInv
<1>1. IInv'
  BY StorageInductive DEF ServiceInv, StorageCall, Next
<1>2. WorkerTypes'
  BY <1>0 DEF ServiceInv, WorkerTypes
<1>3. RowsKept
  BY <1>1, CallsKeepRows DEF ServiceInv, WorkerTypes
<1>4. \A v \in Workers \ {w} : WInv(v)'
  BY <1>0, <1>3, OtherWorkerKeeps DEF ServiceInv, WorkerTypes, IInv, TypeOK
<1>5. WInv(w)'
  <2>1. CmdInv(w)' /\ RowsInv(w)' /\ HistInv(w)'
    BY <1>0 DEF CmdInv, RowsInv, HistInv
  <2>2. StampInv(w)'
    BY <1>0, <1>2, NoLocalsType DEF StampInv, WorkerTypes
  <2> QED BY <2>1, <2>2 DEF WInv
<1> QED BY <1>1, <1>2, <1>4, <1>5 DEF ServiceInv

\* A branch ends without a message stored.
LEMMA AnswerKeepsLate ==
    ASSUME ServiceInv, NEW w \in Workers, NEW code, NEW l, answer(w, code, l),
           UNCHANGED <<messages, clock>>
    PROVE  LateInv'
<1>1. /\ pc'[w] = "idle"
      /\ \A v \in Workers \ {w} : pc'[v] = pc[v] /\ local'[v] = local[v]
  BY AnswerFacts DEF ServiceInv
<1> QED BY <1>1, LateKeeps DEF ServiceInv, WorkerTypes

\* A branch ends and its last call has changed nothing.
LEMMA QuietAnswerKeeps ==
    ASSUME ServiceInv, NEW w \in Workers, NEW code, NEW l, answer(w, code, l),
           UNCHANGED <<vars, storage, clock>>
    PROVE  ServiceInv'
BY AnswerKeeps, AnswerKeepsLate DEF StorageCall, vars
--------------------------------------------------------------------------------
(* The calls *)

\* A worker at a call has a task, and typed locals.
LEMMA AtCall ==
    ASSUME ServiceInv, NEW w \in Workers, pc[w] # "idle"
    PROVE  /\ task[w] \in Task /\ local[w] \in Locals /\ WInv(w)
           /\ task[w].cmd \in Commands /\ task[w].user \in Names /\ task[w].chat \in Names
           /\ task[w].password \in Passwords /\ task[w].uid \in Nat /\ task[w].count \in Nat
<1>1. task[w] \in Tasks /\ local[w] \in Locals /\ WInv(w)
  BY DEF ServiceInv, WorkerTypes, WInv, CmdInv
<1>2. task[w] \in Task
  BY <1>1, TasksAssumption
<1> QED BY <1>1, <1>2 DEF Task

\* A worker takes a task.
LEMMA GetTaskKeeps ==
    ASSUME ServiceInv, NEW w \in Workers, NEW t \in Tasks, getTask(w, t)
    PROVE  ServiceInv'
<1>1. t \in Task /\ t # NoTask /\ t.cmd \in Commands
  BY TasksAssumption DEF Task
<1>2. PICK label : /\ label = CASE t.cmd = "user_create" -> "create"
                                [] t.cmd = "user_login" -> "user"
                                [] OTHER -> "check"
                   /\ pc' = [pc EXCEPT ![w] = label]
  BY DEF getTask
<1>3. /\ label \in {"create", "user", "check"}
      /\ label = "create" => t.cmd = "user_create"
      /\ label = "user" => t.cmd = "user_login"
      /\ label = "check" => t.cmd \notin {"user_create", "user_login"}
  BY <1>2
<1>4. /\ pc' \in [Workers -> Labels] /\ task' \in [Workers -> Tasks \cup {NoTask}]
      /\ pc'[w] = label /\ task'[w] = t
      /\ \A v \in Workers \ {w} : pc'[v] = pc[v] /\ task'[v] = task[v]
      /\ UNCHANGED <<vars, storage, clock, local>>
  BY <1>2, <1>3 DEF getTask, ServiceInv, WorkerTypes, Labels
<1>5. IInv' /\ WorkerTypes'
  BY <1>4, StorageInductive DEF ServiceInv, WorkerTypes
<1>6. RowsKept
  BY <1>4, <1>5, CallsKeepRows DEF ServiceInv, WorkerTypes, StorageCall
<1>7. \A v \in Workers \ {w} : WInv(v)'
  BY <1>4, <1>6, OtherWorkerKeeps DEF ServiceInv, WorkerTypes, IInv, TypeOK
<1>8. WInv(w)'
  <2>1. CmdInv(w)' /\ HistInv(w)'
    BY <1>1, <1>3, <1>4 DEF CmdInv, HistInv
  <2>2. RowsInv(w)'
    BY <1>3, <1>4 DEF RowsInv
  <2>3. StampInv(w) /\ pc[w] = "idle" /\ UNCHANGED messages
    BY <1>4 DEF ServiceInv, WInv, getTask, vars
  <2>4. StampInv(w)'
    BY <1>3, <1>4, <2>3 DEF StampInv
  <2> QED BY <2>1, <2>2, <2>4 DEF WInv
<1>9. LateInv'
  <2>1. UNCHANGED messages /\ clock \in Nat
    BY <1>4 DEF vars, ServiceInv, WorkerTypes
  <2> QED BY <1>3, <1>4, <2>1, LateKeeps
<1> QED BY <1>5, <1>7, <1>8, <1>9 DEF ServiceInv

\* lookup_check_pass: the user exists when the branch goes on.
LEMMA CheckKeeps ==
    ASSUME ServiceInv, NEW w \in Workers, lookup_check_pass(w)
    PROVE  ServiceInv'
<1>1. PICK result : result = checked(lookupUserById(task[w].uid), task[w])
  OBVIOUS
<1>2. CASE result = 200
  <2>1. KnownUser(task[w].uid)
    BY <1>1, <1>2 DEF checked, KnownUser
  <2>2. PICK label : label = afterCheck(task[w].cmd) /\ goto(w, label, local[w])
                     /\ UNCHANGED <<vars, storage, clock>> /\ pc[w] = "check"
    BY <1>1, <1>2 DEF lookup_check_pass
  <2>3. task[w].cmd \in Commands \ {"user_create", "user_login"} /\ local[w] \in Locals
    BY <2>2, AtCall DEF WInv, CmdInv
  <2>4. /\ label \in {"user", "chat", "create", "location"} /\ label \in Labels
        /\ label = "user" => task[w].cmd \in {"user_status", "user_history", "message_send",
                                              "chat_adduser"}
        /\ label = "chat" => task[w].cmd = "message_send_chat"
        /\ label = "create" => task[w].cmd = "chat_create"
        /\ label = "location" => task[w].cmd \in {"get_locations", "chat_with_location"}
    BY <2>2, <2>3 DEF afterCheck, Commands, Labels
  <2>5. pc'[w] = label /\ local'[w] = local[w] /\ task' = task
    BY <2>2, <2>3, <2>4, GotoFacts DEF ServiceInv
  <2>6. CmdInv(w)' /\ HistInv(w)'
    <3>1. task[w] # NoTask
      BY <2>2, AtCall, TasksAssumption
    <3> QED BY <2>4, <2>5, <3>1 DEF CmdInv, HistInv
  <2>7. RowsInv(w)'
    BY <2>1, <2>2, <2>4, <2>5 DEF RowsInv, KnownUser, lookupUserById, vars
  <2>8. StampInv(w)'
    BY <2>2, <2>4, <2>5, AtCall DEF WInv, StampInv, vars
  <2> QED BY <2>2, <2>3, <2>4, <2>6, <2>7, <2>8, GotoKeeps DEF WInv
<1>3. CASE result # 200
  BY <1>1, <1>3, QuietAnswerKeeps DEF lookup_check_pass
<1> QED BY <1>2, <1>3

\* lookup_check_pass_by_name: so does the user it found.
LEMMA NameKeeps ==
    ASSUME ServiceInv, NEW w \in Workers, lookup_check_pass_by_name(w)
    PROVE  ServiceInv'
<1>1. PICK found, result : /\ found = lookupUserByName(task[w].user)
                           /\ result = named(found, task[w])
  OBVIOUS
<1>2. CASE ~(result # 200 \/ task[w].cmd \in {"user_status", "user_login"})
  <2>1. PICK u \in users : u = TheOne(found)
    BY <1>1, <1>2 DEF named, TheOne, lookupUserByName
  <2>2. PICK label, l : /\ label = afterUser(task[w].cmd)
                        /\ l = [local[w] EXCEPT !.user_to = u.id]
                        /\ goto(w, label, l)
                        /\ UNCHANGED <<vars, storage, clock>> /\ pc[w] = "user"
    BY <1>1, <1>2, <2>1 DEF lookup_check_pass_by_name
  <2>3. /\ task[w].cmd \in {"user_history", "message_send", "chat_adduser"} /\ local[w] \in Locals
        /\ KnownUser(task[w].uid)
    BY <1>2, <2>2, AtCall DEF WInv, CmdInv, RowsInv
  <2>4. /\ \/ label = "select_to" /\ task[w].cmd = "user_history"
           \/ label = "stamp" /\ task[w].cmd = "message_send"
           \/ label = "chat" /\ task[w].cmd = "chat_adduser"
        /\ label \in Labels
    BY <2>2, <2>3 DEF afterUser, Labels
  <2>5. u.id \in Nat /\ KnownUser(u.id)
    BY DEF KnownUser, lookupUserById, ServiceInv, IInv, TypeOK, User, Ids
  <2>6. l \in Locals /\ l.user_to = u.id /\ l.ts = local[w].ts /\ l.msgs_to = local[w].msgs_to
    BY <2>2, <2>3, <2>5 DEF Locals
  <2>7. pc'[w] = label /\ local'[w] = l /\ task' = task
    BY <2>2, <2>4, <2>6, GotoFacts DEF ServiceInv
  <2>8. CmdInv(w)' /\ HistInv(w)'
    <3>1. task[w] # NoTask
      BY <2>2, AtCall, TasksAssumption
    <3> QED BY <2>4, <2>7, <3>1 DEF CmdInv, HistInv
  <2>9. RowsInv(w)'
    BY <2>2, <2>3, <2>4, <2>5, <2>6, <2>7 DEF RowsInv, KnownUser, lookupUserById, vars
  <2>10. StampInv(w)'
    BY <2>2, <2>4, <2>6, <2>7, AtCall DEF WInv, StampInv, vars
  <2> QED BY <2>2, <2>4, <2>6, <2>8, <2>9, <2>10, GotoKeeps DEF WInv
<1>3. CASE result # 200 \/ task[w].cmd \in {"user_status", "user_login"}
  BY <1>1, <1>3, QuietAnswerKeeps DEF lookup_check_pass_by_name
<1> QED BY <1>2, <1>3

\* The lookup of a chat: and the chat.
LEMMA ChatKeeps ==
    ASSUME ServiceInv, NEW w \in Workers, lookupChat(w)
    PROVE  ServiceInv'
<1>1. PICK found : found = lookupChatByName(task[w].chat)
  OBVIOUS
<1>2. CASE Cardinality(found) = 1
  <2>1. found # {}
    BY <1>2, FS_EmptySet
  <2>2. PICK c \in chats : c = TheOne(found)
    BY <1>1, <2>1 DEF TheOne, lookupChatByName
  <2>3. PICK label, l : /\ label = IF task[w].cmd = "chat_adduser" THEN "add" ELSE "stamp"
                        /\ l = [local[w] EXCEPT !.chat = c.id]
                        /\ goto(w, label, l)
                        /\ UNCHANGED <<vars, storage, clock>> /\ pc[w] = "chat"
    BY <1>1, <1>2, <2>2 DEF lookupChat
  <2>4. /\ task[w].cmd \in {"chat_adduser", "message_send_chat"} /\ local[w] \in Locals
        /\ KnownUser(task[w].uid)
        /\ task[w].cmd = "chat_adduser" => KnownUser(local[w].user_to)
    BY <2>3, AtCall DEF WInv, CmdInv, RowsInv
  <2>5. /\ \/ label = "add" /\ task[w].cmd = "chat_adduser"
           \/ label = "stamp" /\ task[w].cmd = "message_send_chat"
        /\ label \in Labels
    BY <2>3, <2>4 DEF Labels
  <2>6. c.id \in Nat /\ KnownChat(c.id)
    BY DEF KnownChat, lookupChatById, ServiceInv, IInv, TypeOK, Chat, Ids
  <2>7. /\ l \in Locals /\ l.chat = c.id /\ l.user_to = local[w].user_to /\ l.ts = local[w].ts
        /\ l.msgs_to = local[w].msgs_to
    BY <2>3, <2>4, <2>6 DEF Locals
  <2>8. pc'[w] = label /\ local'[w] = l /\ task' = task
    BY <2>3, <2>5, <2>7, GotoFacts DEF ServiceInv
  <2>9. CmdInv(w)' /\ HistInv(w)'
    <3>1. task[w] # NoTask
      BY <2>3, AtCall, TasksAssumption
    <3> QED BY <2>5, <2>8, <3>1 DEF CmdInv, HistInv
  <2>10. RowsInv(w)'
    BY <2>3, <2>4, <2>5, <2>6, <2>7, <2>8
       DEF RowsInv, KnownUser, KnownChat, lookupUserById, lookupChatById, vars
  <2>11. StampInv(w)'
    BY <2>3, <2>5, <2>7, <2>8, AtCall DEF WInv, StampInv, vars
  <2> QED BY <2>3, <2>5, <2>7, <2>9, <2>10, <2>11, GotoKeeps DEF WInv
<1>3. CASE Cardinality(found) # 1
  BY <1>1, <1>3, QuietAnswerKeeps DEF lookupChat
<1> QED BY <1>2, <1>3

\* createUser and createChat are called with names and with a creator that exists.
LEMMA CreateKeeps ==
    ASSUME ServiceInv, NEW w \in Workers, create(w)
    PROVE  StorageCall /\ ServiceInv'
<1>0. /\ pc[w] = "create" /\ UNCHANGED <<storage, clock>>
      /\ task[w].cmd \in {"user_create", "chat_create"}
      /\ task[w].user \in Names /\ task[w].chat \in Names /\ task[w].password \in Passwords
      /\ task[w].cmd = "chat_create" => KnownUser(task[w].uid)
  BY AtCall DEF create, WInv, CmdInv, RowsInv
<1>1. PICK code : answer(w, code, local[w])
  BY DEF create
<1>2. StorageCall /\ UNCHANGED messages
  <2>1. CASE UNCHANGED vars
    BY <2>1 DEF StorageCall, vars
  <2>2. ASSUME NEW hb \in FirstHeartBits, createUser(task[w].user, task[w].password, hb)
        PROVE  StorageCall /\ UNCHANGED messages
    BY <1>0, <2>2 DEF StorageCall, createUser
  <2>3. CASE task[w].cmd = "chat_create" /\ createChat(task[w].chat, task[w].uid)
    <3>1. PICK user \in users : user.id = task[w].uid
      BY <1>0, <2>3 DEF KnownUser, lookupUserById
    <3> QED BY <1>0, <2>3, <3>1 DEF StorageCall, createChat
  <2> QED BY <1>0, <2>1, <2>2, <2>3 DEF create
<1> QED BY <1>0, <1>1, <1>2, AnswerKeeps, AnswerKeepsLate

\* addUserToChat is called with rows that exist.
LEMMA AddKeeps ==
    ASSUME ServiceInv, NEW w \in Workers, add(w)
    PROVE  StorageCall /\ ServiceInv'
<1>1. StorageCall /\ UNCHANGED messages
  BY DEF add, StorageCall, vars, addUserToChat, lookupChatById, lookupUserById
<1> QED BY <1>1, AnswerKeeps, AnswerKeepsLate DEF add

\* The stamp is the newest there is.
LEMMA StampKeeps ==
    ASSUME ServiceInv, NEW w \in Workers, stamp(w)
    PROVE  ServiceInv'
<1>1. PICK l : l = [local[w] EXCEPT !.ts = clock]
  OBVIOUS
<1>2. pc[w] = "stamp" /\ goto(w, "save", l) /\ UNCHANGED <<vars, storage, clock>>
  BY <1>1 DEF stamp
<1>3. local[w] \in Locals /\ WInv(w) /\ clock \in Nat /\ clock >= 1
  BY <1>2, AtCall, ServiceBounds DEF ServiceInv, WorkerTypes
<1>4. /\ l \in Locals /\ l.ts = clock /\ l.user_to = local[w].user_to /\ l.chat = local[w].chat
      /\ l.msgs_to = local[w].msgs_to
  BY <1>1, <1>3 DEF Locals
<1>5. "save" \in Labels
  BY DEF Labels
<1>6. pc'[w] = "save" /\ local'[w] = l /\ task' = task
  BY <1>2, <1>4, <1>5, GotoFacts DEF ServiceInv
<1>7. CmdInv(w)' /\ HistInv(w)'
  BY <1>2, <1>3, <1>6 DEF WInv, CmdInv, HistInv
<1>8. RowsInv(w)'
  BY <1>2, <1>3, <1>4, <1>6 DEF WInv, RowsInv, CmdInv, KnownUser, KnownChat, lookupUserById,
                                lookupChatById, vars
<1>9. StampInv(w)'
  BY <1>2, <1>3, <1>4, <1>6 DEF WInv, StampInv, vars
<1>10. \A i \in DOMAIN messages : messages[i].ts <= l.ts
  BY <1>4 DEF ServiceInv, LateInv
<1> QED BY <1>2, <1>4, <1>5, <1>7, <1>8, <1>9, <1>10, GotoKeeps DEF WInv

\* saveMessage is called for a sender and a chat that exist.
LEMMA SaveCalls ==
    ASSUME ServiceInv, NEW w \in Workers, save(w)
    PROVE  /\ StorageCall
           /\ \E m \in Message : messages' = Append(messages, m) /\ m.ts = local[w].ts
<1>0. /\ pc[w] = "save" /\ saveMessage(task[w].uid, recipient(w), local[w].ts)
      /\ local[w] \in Locals /\ WInv(w) /\ clock \in 1..MaxClock
  BY AtCall DEF save, ServiceInv, WorkerTypes
<1>1. task[w].cmd \in {"message_send", "message_send_chat"} /\ KnownUser(task[w].uid)
      /\ (task[w].cmd = "message_send" => KnownUser(local[w].user_to))
      /\ (task[w].cmd = "message_send_chat" => KnownChat(local[w].chat))
  BY <1>0 DEF WInv, CmdInv, RowsInv
<1>2. PICK user \in users : user.id = task[w].uid
  BY <1>1 DEF KnownUser, lookupUserById
<1>3. PICK chat \in chats : chat.id = recipient(w)
  <2>1. CASE task[w].cmd = "message_send"
    <3>1. PICK u : u = UserOf(local[w].user_to) /\ u \in users
      BY <1>1, <2>1, UserOfId DEF ServiceInv, IInv
    <3>2. [id |-> u.self_chat_id, name |-> u.name] \in chats
      BY <3>1 DEF ServiceInv, IInv, InboxComplete
    <3> QED BY <2>1, <3>1, <3>2 DEF recipient
  <2>2. CASE task[w].cmd = "message_send_chat"
    BY <1>1, <2>2 DEF recipient, KnownChat, lookupChatById
  <2> QED BY <1>1, <2>1, <2>2
<1>4. local[w].ts \in Times
  BY <1>0, ServiceBounds, ClockAssumption DEF WInv, StampInv, Locals
<1>5. saveMessage(user.id, chat.id, local[w].ts)
  BY <1>0, <1>2, <1>3
<1>6. PICK m : m = [user_from |-> user.id, chat_to |-> chat.id, ts |-> local[w].ts,
                    flags |-> "UNREAD"]
  OBVIOUS
<1>7. m \in Message /\ m.ts = local[w].ts
  BY <1>4, <1>6, TimesAssumption DEF ServiceInv, IInv, TypeOK, User, Chat, Message
<1>8. messages' = Append(messages, m)
  BY <1>5, <1>6 DEF saveMessage
<1> QED BY <1>4, <1>5, <1>7, <1>8 DEF StorageCall

\* A worker that was about to store a late message has stored it.
LEMMA SaveKeeps ==
    ASSUME ServiceInv, NEW w \in Workers, save(w)
    PROVE  ServiceInv'
<1>0. /\ pc[w] = "save" /\ answer(w, 200, local[w]) /\ UNCHANGED <<storage, clock>>
      /\ clock \in Nat /\ local[w].ts \in Nat /\ local[w].ts <= clock
  BY AtCall DEF save, ServiceInv, WorkerTypes, WInv, StampInv, Locals
<1>1. /\ pc'[w] = "idle"
      /\ \A v \in Workers \ {w} : pc'[v] = pc[v] /\ local'[v] = local[v]
  BY <1>0, AnswerFacts DEF ServiceInv
<1>2. PICK m \in Message : messages' = Append(messages, m) /\ m.ts = local[w].ts
  BY SaveCalls
<1>3. PICK n : n = Len(messages)
  OBVIOUS
<1>4. /\ n \in Nat /\ DOMAIN messages = 1..n /\ DOMAIN messages' = 1..(n + 1)
      /\ messages'[n + 1] = m /\ \A j \in 1..n : messages'[j] = messages[j]
  BY <1>2, <1>3 DEF ServiceInv, IInv, TypeOK
<1>5. \A j \in 1..n : messages[j].ts \in Nat
  <2>1. \A j \in 1..n : messages[j] \in Message
    BY <1>3, <1>4 DEF ServiceInv, IInv, TypeOK
  <2> QED BY <2>1 DEF Message
<1>6. /\ IsFiniteSet(Workers) /\ Cardinality(Workers) \in Nat
      /\ \A S : S \subseteq Workers => IsFiniteSet(S) /\ Cardinality(S) \in Nat
  BY WorkersAssumption, FS_Subset, FS_CardinalityType
<1>7. ASSUME NEW i \in 1..n
      PROVE  Cardinality(Late(i)') + Cardinality(Pending(i)') < Cardinality(Workers)
  <2>1. Cardinality(Late(i)) + Cardinality(Pending(i)) < Cardinality(Workers)
    BY <1>4 DEF ServiceInv, LateInv
  <2>2. Late(i) \subseteq 1..n /\ IsFiniteSet(Late(i)) /\ Cardinality(Late(i)) \in Nat
    <3>1. Late(i) \subseteq 1..n
      BY <1>4 DEF Late
    <3> QED BY <1>4, <3>1, RowsFinite
  <2>3. Pending(i)' = Pending(i) \ {w} /\ IsFiniteSet(Pending(i)) /\ Cardinality(Pending(i)) \in Nat
    <3>1. Pending(i)' = Pending(i) \ {w}
      BY <1>1, <1>4 DEF Pending
    <3> QED BY <1>6, <3>1 DEF Pending
  <2>4. Late(i)' = {j \in 1..(n + 1) : j > i /\ messages'[j].ts < messages[i].ts}
    BY <1>4 DEF Late
  <2>5. Late(i) = {j \in 1..n : j > i /\ messages[j].ts < messages[i].ts}
    BY <1>4 DEF Late
  <2>6. \A j \in 1..n : j \in Late(i)' <=> j \in Late(i)
    BY <1>4, <2>4, <2>5
  <2>7. n + 1 \in Late(i)' <=> local[w].ts < messages[i].ts
    BY <1>2, <1>4, <2>4
  <2>8. CASE local[w].ts < messages[i].ts
    <3>1. w \in Pending(i)
      BY <1>0, <2>8 DEF Pending
    <3>2. Late(i)' = Late(i) \cup {n + 1} /\ n + 1 \notin Late(i)
      <4>1. Late(i)' \subseteq 1..(n + 1) /\ n + 1 \notin 1..n
        BY <1>4, <2>4
      <4>2. \A j \in 1..(n + 1) : j \in 1..n \/ j = n + 1
        BY <1>4
      <4> QED BY <2>2, <2>8, <2>6, <2>7, <4>1, <4>2
    <3>3. Cardinality(Pending(i)') = Cardinality(Pending(i)) - 1
      BY <2>3, <3>1, FS_RemoveElement
    <3>4. Cardinality(Late(i)') = Cardinality(Late(i)) + 1
      BY <2>2, <3>2, FS_AddElement
    <3> QED BY <1>6, <2>1, <2>2, <2>3, <3>3, <3>4
  <2>9. CASE ~(local[w].ts < messages[i].ts)
    <3>1. Late(i)' = Late(i)
      <4>1. Late(i)' \subseteq 1..(n + 1)
        BY <2>4
      <4>2. \A j \in 1..(n + 1) : j \in 1..n \/ j = n + 1
        BY <1>4
      <4> QED BY <2>2, <2>9, <2>6, <2>7, <4>1, <4>2
    <3>2. Pending(i)' = Pending(i)
      BY <2>3, <2>9 DEF Pending
    <3> QED BY <2>1, <3>1, <3>2
  <2> QED BY <2>8, <2>9
<1>8. Cardinality(Late(n + 1)') + Cardinality(Pending(n + 1)') < Cardinality(Workers)
  <2>1. Late(n + 1)' = {}
    BY <1>4 DEF Late
  <2>2. Pending(n + 1)' \subseteq Workers \ {w}
    BY <1>1 DEF Pending
  <2>3. IsFiniteSet(Workers \ {w}) /\ Cardinality(Workers \ {w}) = Cardinality(Workers) - 1
    BY <1>6, FS_RemoveElement
  <2>4. Cardinality(Pending(n + 1)') <= Cardinality(Workers \ {w})
        /\ Cardinality(Pending(n + 1)') \in Nat
    BY <2>2, <2>3, FS_Subset, FS_CardinalityType
  <2> QED BY <1>6, <2>1, <2>3, <2>4, FS_EmptySet
<1>9. \A i \in 1..(n + 1) : messages'[i].ts <= clock'
  BY <1>0, <1>2, <1>4 DEF ServiceInv, LateInv
<1>10. LateInv'
  <2> SUFFICES ASSUME NEW i \in 1..(n + 1)
               PROVE  Cardinality(Late(i)') + Cardinality(Pending(i)') < Cardinality(Workers)
    BY <1>4, <1>9 DEF LateInv
  <2>1. i \in 1..n \/ i = n + 1
    BY <1>4
  <2> QED BY <1>7, <1>8, <2>1
<1> QED BY <1>0, <1>10, SaveCalls, AnswerKeeps
--------------------------------------------------------------------------------
(* The history *)

\* What a SELECT of the messages S returns: of what it leaves out there are, within
\* the width of max_count, twice the count newer rows.
LEMMA SelectFacts ==
    ASSUME ServiceInv, NEW t \in Task, NEW S, S \subseteq DOMAIN messages,
           NEW R, R = selectMessages(S, max_count(t))
    PROVE  /\ R \subseteq S
           /\ t.count * 2 <= Width =>
                 \A i \in S \ R :
                     /\ storage = "mysql" => i <= Len(messages) - t.count * 2
                     /\ storage = "memory" => t.count * 2 <= Cardinality({j \in R : j > i})
<1>1. /\ DOMAIN messages = 1..Len(messages) /\ Len(messages) \in Nat
      /\ storage \in {"memory", "mysql"}
  BY StoragesAssumption DEF ServiceInv, IInv, TypeOK, WorkerTypes
<1>2. max_count(t) \in Nat
  BY MaxCountType
<1>3. CASE storage = "mysql"
  <2>1. R = S \cap Newest(DOMAIN messages, max_count(t))
    BY <1>3 DEF selectMessages, selectMysql
  <2>2. ASSUME t.count * 2 <= Width, NEW i \in S \ R PROVE i <= Len(messages) - t.count * 2
    <3>1. i \in 1..Len(messages) /\ i \notin Newest(1..Len(messages), max_count(t))
      BY <1>1, <2>1
    <3>2. max_count(t) # 0 /\ i <= Len(messages) - max_count(t)
      BY <1>1, <1>2, <3>1, NewestOfAll
    <3> QED BY <2>2, <3>2, MaxCount
  <2> QED BY <1>3, <2>1, <2>2
<1>4. CASE storage = "memory"
  <2>1. R = Newest(S, max_count(t)) /\ R \subseteq S
    BY <1>4 DEF selectMessages, selectInMemory, Newest
  <2>2. ASSUME t.count * 2 <= Width, NEW i \in S \ R
        PROVE  t.count * 2 <= Cardinality({j \in R : j > i})
    <3>1. max_count(t) # 0 /\ max_count(t) <= Cardinality({j \in Newest(S, max_count(t)) : j > i})
      BY <1>1, <1>2, <2>1, NewestOfSome
    <3>2. max_count(t) = t.count * 2
      BY <2>2, <3>1, MaxCount
    <3> QED BY <2>1, <3>1, <3>2
  <2> QED BY <1>4, <2>1, <2>2
<1> QED BY <1>1, <1>3, <1>4

\* The first SELECT of a history.
LEMMA SelectToKeeps ==
    ASSUME ServiceInv, NEW w \in Workers, select_to(w)
    PROVE  ServiceInv'
<1>1. PICK S : S = Sent(UserOf(task[w].uid), UserOf(local[w].user_to))
  OBVIOUS
<1>2. PICK R : R = selectMessages(S, max_count(task[w]))
  OBVIOUS
<1>3. PICK l : l = [local[w] EXCEPT !.msgs_to = R, !.before = Len(messages)]
  OBVIOUS
<1>4. pc[w] = "select_to" /\ goto(w, "select_from", l) /\ UNCHANGED <<vars, storage, clock>>
  BY <1>1, <1>2, <1>3 DEF select_to
<1>5. task[w] \in Task /\ local[w] \in Locals /\ WInv(w)
  BY <1>4, AtCall
<1>6. S \subseteq DOMAIN messages /\ DOMAIN messages \subseteq Nat /\ Len(messages) \in Nat
  BY <1>1 DEF Sent, ServiceInv, IInv, TypeOK
<1>7. /\ R \subseteq S
      /\ task[w].count * 2 <= Width =>
            \A i \in S \ R :
                /\ storage = "mysql" => i <= Len(messages) - task[w].count * 2
                /\ storage = "memory" => task[w].count * 2 <= Cardinality({j \in R : j > i})
  BY <1>2, <1>5, <1>6, SelectFacts
<1>8. /\ l \in Locals /\ l.msgs_to = R /\ l.before = Len(messages) /\ l.ts = local[w].ts
      /\ l.user_to = local[w].user_to
  BY <1>3, <1>5, <1>6, <1>7 DEF Locals
<1>9. "select_from" \in Labels
  BY DEF Labels
<1>10. pc'[w] = "select_from" /\ local'[w] = l /\ task' = task
  BY <1>4, <1>8, <1>9, GotoFacts DEF ServiceInv
<1>11. CmdInv(w)'
  BY <1>4, <1>5, <1>10 DEF WInv, CmdInv
<1>12. RowsInv(w)'
  BY <1>4, <1>5, <1>8, <1>10 DEF WInv, RowsInv, CmdInv, KnownUser, lookupUserById, vars
<1>13. StampInv(w)'
  BY <1>4, <1>5, <1>6, <1>7, <1>8, <1>10 DEF WInv, StampInv, vars
<1>14. HistInv(w)'
  <2>1. S = Sent(UserOf(task[w].uid), UserOf(local[w].user_to))'
    BY <1>1, <1>4, <1>8, <1>10 DEF Sent, UserOf, TheOne, lookupUserById, vars
  <2>2. FirstRead(w, S)'
    BY <1>4, <1>6, <1>7, <1>8, <1>10 DEF FirstRead, vars
  <2> QED BY <2>1, <2>2 DEF HistInv
<1> QED BY <1>4, <1>8, <1>9, <1>11, <1>12, <1>13, <1>14, GotoKeeps DEF WInv

\* The first SELECT of a history fails: nothing was read, and nothing is claimed.
LEMMA SelectToFailsKeeps ==
    ASSUME ServiceInv, NEW w \in Workers, storage = "mysql", pc[w] = "select_to",
           goto(w, "select_from", [local[w] EXCEPT !.before = Len(messages), !.failed = TRUE]),
           UNCHANGED <<vars, storage, clock>>
    PROVE  ServiceInv'
<1>1. PICK l : l = [local[w] EXCEPT !.before = Len(messages), !.failed = TRUE]
  OBVIOUS
<1>2. task[w] \in Task /\ local[w] \in Locals /\ WInv(w) /\ Len(messages) \in Nat
  BY AtCall DEF ServiceInv, IInv, TypeOK
<1>3. /\ l \in Locals /\ l.msgs_to = {} /\ l.before = Len(messages) /\ l.failed = TRUE
      /\ l.ts = local[w].ts /\ l.user_to = local[w].user_to
  BY <1>1, <1>2 DEF Locals, WInv, StampInv
<1>4. "select_from" \in Labels
  BY DEF Labels
<1>5. pc'[w] = "select_from" /\ local'[w] = l /\ task' = task
  BY <1>1, <1>3, <1>4, GotoFacts DEF ServiceInv
<1>6. CmdInv(w)'
  BY <1>2, <1>5 DEF WInv, CmdInv
<1>7. RowsInv(w)'
  BY <1>2, <1>3, <1>5 DEF WInv, RowsInv, CmdInv, KnownUser, lookupUserById, vars
<1>8. StampInv(w)'
  BY <1>2, <1>3, <1>5 DEF WInv, StampInv, vars
<1>9. HistInv(w)'
  <2>1. FirstRead(w, Sent(UserOf(task[w].uid), UserOf(local[w].user_to)))'
    BY <1>2, <1>3, <1>5 DEF FirstRead, vars
  <2> QED BY <2>1 DEF HistInv
<1> QED BY <1>1, <1>3, <1>4, <1>6, <1>7, <1>8, <1>9, GotoKeeps DEF WInv

\* The clock goes on.
LEMMA TickKeeps ==
    ASSUME ServiceInv, tick
    PROVE  ServiceInv'
<1>1. /\ clock' = clock + 1 /\ clock < MaxClock /\ clock \in Nat /\ clock' \in Nat /\ clock <= clock'
      /\ UNCHANGED <<vars, storage, task, pc, local>>
  BY ServiceBounds DEF tick, ServiceInv, WorkerTypes
<1>2. IInv' /\ WorkerTypes'
  BY <1>1, StorageInductive, ServiceBounds DEF ServiceInv, WorkerTypes
<1>3. RowsKept
  BY <1>1, <1>2, CallsKeepRows DEF ServiceInv, StorageCall
<1>4. \A v \in Workers : WInv(v)'
  BY <1>1, <1>3, OtherWorkerKeeps DEF ServiceInv, WorkerTypes, IInv, TypeOK
<1>5. LateInv'
  BY <1>1, LateKeeps DEF vars
<1> QED BY <1>2, <1>4, <1>5 DEF ServiceInv

\* Every step of the service keeps the invariant, and calls the storage as it may.
LEMMA ServiceInductive ==
    ASSUME ServiceInv, [ServiceNext]_allvars
    PROVE  ServiceInv' /\ StorageCall
<1>1. ASSUME NEW w \in Workers, NEW t \in Tasks, getTask(w, t)
      PROVE  ServiceInv' /\ StorageCall
  BY <1>1, GetTaskKeeps DEF getTask, StorageCall
<1>2. ASSUME NEW w \in Workers,
             lookup_check_pass(w) \/ lookup_check_pass_by_name(w) \/ lookupChat(w)
      PROVE  ServiceInv' /\ StorageCall
  BY <1>2, CheckKeeps, NameKeeps, ChatKeeps
     DEF lookup_check_pass, lookup_check_pass_by_name, lookupChat, StorageCall
<1>3. ASSUME NEW w \in Workers, create(w) \/ add(w)
      PROVE  ServiceInv' /\ StorageCall
  BY <1>3, CreateKeeps, AddKeeps
<1>4. ASSUME NEW w \in Workers, stamp(w)
      PROVE  ServiceInv' /\ StorageCall
  BY <1>4, StampKeeps DEF stamp, StorageCall
<1>5. ASSUME NEW w \in Workers, save(w)
      PROVE  ServiceInv' /\ StorageCall
  BY <1>5, SaveKeeps, SaveCalls
<1>6. ASSUME NEW w \in Workers, location(w)
      PROVE  ServiceInv' /\ StorageCall
  BY <1>6, QuietAnswerKeeps DEF location, StorageCall
<1>7. ASSUME NEW w \in Workers, select_to(w)
      PROVE  ServiceInv' /\ StorageCall
  BY <1>7, SelectToKeeps DEF select_to, StorageCall
<1>8. ASSUME NEW w \in Workers, select_from(w)
      PROVE  ServiceInv' /\ StorageCall
  <2>1. PICK l : answer(w, 200, l) /\ UNCHANGED <<vars, storage, clock>>
    BY <1>8 DEF select_from
  <2> QED BY <2>1, QuietAnswerKeeps DEF StorageCall
<1>9. ASSUME NEW w \in Workers, statementFails(w), ~selectFails(w)
      PROVE  ServiceInv' /\ StorageCall
  <2>1. PICK code : answer(w, code, local[w]) /\ UNCHANGED <<vars, storage, clock>>
    BY <1>9 DEF statementFails, userLookupFails, chatLookupFails, createFails, writeFails,
                lookupFails
  <2> QED BY <2>1, QuietAnswerKeeps DEF StorageCall
<1>10. ASSUME NEW w \in Workers, selectFails(w)
       PROVE  ServiceInv' /\ StorageCall
  <2>1. CASE pc[w] = "select_to"
    BY <1>10, <2>1, SelectToFailsKeeps DEF selectFails, StorageCall
  <2>2. CASE pc[w] # "select_to"
    <3>1. PICK l : answer(w, 200, l) /\ UNCHANGED <<vars, storage, clock>>
      BY <1>10, <2>2 DEF selectFails
    <3> QED BY <3>1, QuietAnswerKeeps DEF StorageCall
  <2> QED BY <2>1, <2>2
<1>11. CASE tick
  BY <1>11, TickKeeps DEF tick, StorageCall
<1>12. CASE UNCHANGED allvars
  <2>1. UNCHANGED <<vars, storage, clock, task, pc, local>>
    BY <1>12 DEF allvars, service
  <2>2. IInv' /\ WorkerTypes' /\ clock \in Nat
    BY <2>1, StorageInductive DEF ServiceInv, WorkerTypes
  <2>3. RowsKept
    BY <2>1, <2>2, CallsKeepRows DEF ServiceInv, StorageCall
  <2>4. \A v \in Workers : WInv(v)'
    BY <2>1, <2>2, <2>3, OtherWorkerKeeps DEF ServiceInv, WorkerTypes, IInv, TypeOK
  <2>5. LateInv'
    BY <2>1, <2>2, LateKeeps DEF vars
  <2> QED BY <2>1, <2>2, <2>4, <2>5 DEF ServiceInv, StorageCall
<1> QED BY <1>1, <1>2, <1>3, <1>4, <1>5, <1>6, <1>7, <1>8, <1>9, <1>10, <1>11, <1>12
        DEF ServiceNext, step
--------------------------------------------------------------------------------
(* The beginning *)

\* The users that were registered before have what createUser gives.
LEMMA RegisteredRows ==
    ASSUME ServiceInit
    PROVE  IInv
<1>1. PICK n : n = Len(Registered)
  OBVIOUS
<1>2. /\ n \in Nat /\ DOMAIN Registered = 1..n
      /\ \A i \in 1..n : Registered[i].name \in Names /\ Registered[i].password \in Passwords
      /\ \A i, j \in 1..n : Registered[i].name = Registered[j].name => i = j
  <2>1. n \in Nat /\ DOMAIN Registered = 1..n
    BY <1>1, RegisteredAssumption
  <2>2. \A i \in 1..n : Registered[i] \in [name : Names, password : Passwords]
    <3>1. PICK Entry : Entry = [name : Names, password : Passwords]
      OBVIOUS
    <3>2. Registered \in Seq(Entry)
      BY <3>1, RegisteredAssumption
    <3>3. \A i \in 1..n : Registered[i] \in Entry
      BY <2>1, <3>2
    <3> QED BY <3>1, <3>3
  <2>3. \A i, j \in 1..n : Registered[i].name = Registered[j].name => i = j
    BY <2>1, RegisteredAssumption
  <2> QED BY <2>1, <2>2, <2>3
<1>3. /\ users = {[id |-> i, self_chat_id |-> i, name |-> Registered[i].name,
                   password |-> Registered[i].password, heartbit |-> 0] : i \in 1..n}
      /\ chats = {[id |-> i, name |-> Registered[i].name] : i \in 1..n}
      /\ chatuser = [i \in 1..n |-> [chatid |-> i, uid |-> i]]
      /\ messages = <<>> /\ user_autoincrement = n + 1 /\ chat_autoincrement = n + 1
  BY <1>1, <1>2 DEF ServiceInit
<1>4. \A u \in users : /\ u.id \in 1..n /\ u.self_chat_id = u.id /\ u.name = Registered[u.id].name
                       /\ u = [id |-> u.id, self_chat_id |-> u.id, name |-> Registered[u.id].name,
                               password |-> Registered[u.id].password, heartbit |-> 0]
  BY <1>3
<1>5. \A c \in chats : c.id \in 1..n /\ c = [id |-> c.id, name |-> Registered[c.id].name]
  BY <1>3
<1>6. \A i \in 1..n : (\E u \in users : u.id = i) /\ (\E c \in chats : c.id = i)
  <2> SUFFICES ASSUME NEW i \in 1..n
               PROVE  (\E u \in users : u.id = i) /\ (\E c \in chats : c.id = i)
    OBVIOUS
  <2>1. PICK u \in users : u = [id |-> i, self_chat_id |-> i, name |-> Registered[i].name,
                                password |-> Registered[i].password, heartbit |-> 0]
    BY <1>3
  <2>2. PICK c \in chats : c = [id |-> i, name |-> Registered[i].name]
    BY <1>3
  <2>3. u.id = i /\ c.id = i
    BY <2>1, <2>2
  <2> QED BY <2>3
<1>7. DOMAIN chatuser = 1..n /\ \A i \in 1..n : chatuser[i] = [chatid |-> i, uid |-> i]
  BY <1>3
<1>8. TypeOK
  <2>1. users \subseteq User
    BY <1>2, <1>3 DEF User, Ids
  <2>2. chats \subseteq Chat
    BY <1>2, <1>3 DEF Chat, Ids
  <2>3. chatuser \in [1..n -> Chatuser]
    BY <1>2, <1>3 DEF Chatuser, Ids
  <2>4. chatuser \in Seq(Chatuser) /\ messages \in Seq(Message)
    BY <1>2, <1>3, <2>3
  <2> QED BY <1>2, <1>3, <2>1, <2>2, <2>4 DEF TypeOK, Ids
<1>9. FreshIds
  <2>1. \A u, v \in users : u.id = v.id => u = v
    BY <1>4
  <2>2. \A c, d \in chats : c.id = d.id => c = d
    BY <1>5
  <2>3. (\A u \in users : u.id < user_autoincrement) /\ (\A c \in chats : c.id < chat_autoincrement)
    BY <1>2, <1>3, <1>4, <1>5
  <2> QED BY <2>1, <2>2, <2>3 DEF FreshIds
<1>10. InboxComplete
  <2> SUFFICES ASSUME NEW u \in users
               PROVE  /\ [id |-> u.self_chat_id, name |-> u.name] \in chats
                      /\ \E i \in DOMAIN chatuser :
                             chatuser[i] = [chatid |-> u.self_chat_id, uid |-> u.id]
                      /\ \A v \in users : v.self_chat_id = u.self_chat_id => v = u
    BY DEF InboxComplete
  <2>1. u.id \in 1..n /\ u.self_chat_id = u.id /\ u.name = Registered[u.id].name
    BY <1>4
  <2>2. [id |-> u.self_chat_id, name |-> u.name] \in chats
    BY <1>3, <2>1
  <2>3. chatuser[u.id] = [chatid |-> u.self_chat_id, uid |-> u.id]
    BY <1>7, <2>1
  <2>4. \A v \in users : v.self_chat_id = u.self_chat_id => v = u
    BY <1>4, <2>1
  <2> QED BY <1>7, <2>1, <2>2, <2>3, <2>4
<1>11. References
  <2>1. \A i \in DOMAIN chatuser : /\ lookupChatById(chatuser[i].chatid) # {}
                                   /\ lookupUserById(chatuser[i].uid) # {}
    BY <1>6, <1>7 DEF lookupChatById, lookupUserById
  <2>2. \A i, j \in DOMAIN chatuser : chatuser[i] = chatuser[j] => i = j
    BY <1>7
  <2>3. DOMAIN messages = {}
    BY <1>3
  <2> QED BY <2>1, <2>2, <2>3 DEF References
<1>12. NameResolution
  <2>1. \A u, v \in users : u.name = v.name => u = v
    BY <1>2, <1>4
  <2>2. \A c \in chats : SelfChat(c)
    BY <1>4, <1>5, <1>6 DEF SelfChat
  <2> QED BY <2>1, <2>2 DEF NameResolution
<1> QED BY <1>8, <1>9, <1>10, <1>11, <1>12 DEF IInv

\* The invariant holds when the server starts.
LEMMA ServiceStarts ==
    ASSUME ServiceInit
    PROVE  ServiceInv
<1>1. IInv /\ DOMAIN messages = {}
  BY RegisteredRows DEF ServiceInit
<1>2. WorkerTypes
  BY NoLocalsType, ServiceBounds DEF ServiceInit, WorkerTypes, Labels
<1>3. ASSUME NEW w \in Workers PROVE WInv(w)
  <2>1. pc[w] = "idle" /\ task[w] = NoTask /\ local[w] = NoLocals /\ clock = 1
    BY DEF ServiceInit
  <2> QED BY <2>1, NoLocalsType DEF WInv, CmdInv, RowsInv, StampInv, HistInv
<1> QED BY <1>1, <1>2, <1>3 DEF ServiceInv, LateInv

\* The inductive invariant holds in every state.
LEMMA ServiceInvariant == ServiceSpec => []ServiceInv
<1>1. ServiceInit => ServiceInv
  BY ServiceStarts
<1>2. ServiceInv /\ [ServiceNext]_allvars => ServiceInv'
  BY ServiceInductive
<1> QED BY <1>1, <1>2, PTL DEF ServiceSpec

\* UsesStorage: however the calls of the workers interleave, a branch uses rows that
\* exist when it uses them, so that the service is one of the callers ChatStorage
\* assumes, and what is proved of the storage holds of it.
THEOREM ServiceUsesStorage == ServiceSpec => UsesStorage
<1>1. ServiceInv /\ [ServiceNext]_allvars => [Next]_vars
  BY ServiceInductive DEF StorageCall, Next
<1> QED BY <1>1, ServiceInvariant, PTL DEF ServiceSpec, UsesStorage
--------------------------------------------------------------------------------
(* The answers *)

\* The step with which a history is sent.
LastRead(w) == select_from(w) \/ (selectFails(w) /\ pc[w] = "select_from")

\* A step that ends a branch with a code of the protocol.  Only LastRead sends a
\* history with the code 200.
Answers(w) ==
    \E code \in {200, 403, 404, 409} : \E l :
        /\ answer(w, code, l)
        /\ task[w].cmd = "user_history" /\ code = 200 => LastRead(w)

\* A user name finds no user or one: NameResolution.
LEMMA NamedCodes ==
    ASSUME NameResolution, NEW name, NEW t
    PROVE  named(lookupUserByName(name), t) \in {200, 403, 404}
<1>1. PICK found : found = lookupUserByName(name)
  OBVIOUS
<1>2. CASE found = {}
  <2>1. Cardinality(found) = 0
    BY <1>2, FS_EmptySet
  <2> QED BY <1>1, <1>2, <2>1 DEF named
<1>3. CASE found # {}
  <2>1. PICK u : u \in found
    BY <1>3
  <2>2. found = {u}
    BY <1>1, <2>1 DEF NameResolution, lookupUserByName
  <2>3. Cardinality(found) = 1
    BY <2>2, FS_Singleton
  <2> QED BY <1>1, <1>3, <2>3 DEF named
<1> QED BY <1>2, <1>3

\* Every step sends nothing or one answer, and no answer is an internal error.
LEMMA WhatIsSent ==
    ASSUME ServiceInv, [ServiceNext]_allvars
    PROVE  UNCHANGED allvars \/ out' = NoAnswer \/ \E w \in Workers : Answers(w)
<1>1. ASSUME NEW w \in Workers, NEW t \in Tasks, getTask(w, t)
      PROVE  out' = NoAnswer
  BY <1>1 DEF getTask
<1>2. ASSUME NEW w \in Workers, lookup_check_pass(w)
      PROVE  out' = NoAnswer \/ Answers(w)
  <2>1. checked(lookupUserById(task[w].uid), task[w]) \in {200, 403, 409}
    BY DEF checked
  <2> QED BY <1>2, <2>1 DEF lookup_check_pass, goto, Answers
<1>3. ASSUME NEW w \in Workers, lookup_check_pass_by_name(w)
      PROVE  out' = NoAnswer \/ Answers(w)
  <2>1. PICK result : /\ result = named(lookupUserByName(task[w].user), task[w])
                      /\ result \in {200, 403, 404}
    BY NamedCodes DEF ServiceInv, IInv
  <2>2. CASE result # 200 \/ task[w].cmd \in {"user_status", "user_login"}
    BY <1>3, <2>1, <2>2 DEF lookup_check_pass_by_name, Answers
  <2>3. CASE ~(result # 200 \/ task[w].cmd \in {"user_status", "user_login"})
    BY <1>3, <2>1, <2>3 DEF lookup_check_pass_by_name, goto
  <2> QED BY <2>2, <2>3
<1>4. ASSUME NEW w \in Workers, lookupChat(w)
      PROVE  out' = NoAnswer \/ Answers(w)
  BY <1>4 DEF lookupChat, goto, Answers
<1>5. ASSUME NEW w \in Workers, create(w) \/ add(w) \/ save(w) \/ location(w)
      PROVE  Answers(w)
  <2>1. task[w].cmd # "user_history"
    BY <1>5, AtCall DEF create, add, save, location, WInv, CmdInv
  <2>2. \E code \in {200, 404, 409} : answer(w, code, local[w])
    BY <1>5 DEF create, add, save, location, locationCodes
  <2> QED BY <2>1, <2>2 DEF Answers
<1>6. ASSUME NEW w \in Workers, stamp(w) \/ select_to(w)
      PROVE  out' = NoAnswer
  BY <1>6 DEF stamp, select_to, goto
<1>7. ASSUME NEW w \in Workers, select_from(w)
      PROVE  Answers(w)
  BY <1>7 DEF select_from, LastRead, Answers
<1>8. ASSUME NEW w \in Workers, statementFails(w), ~selectFails(w)
      PROVE  Answers(w)
  <2>1. CASE userLookupFails(w) \/ chatLookupFails(w) \/ createFails(w)
    BY <2>1 DEF userLookupFails, chatLookupFails, createFails, lookupFails, Answers
  <2>2. CASE writeFails(w)
    <3>1. task[w].cmd # "user_history"
      BY <2>2, AtCall DEF writeFails, lookupFails, WInv, CmdInv
    <3> QED BY <2>2, <3>1 DEF writeFails, lookupFails, Answers
  <2> QED BY <1>8, <2>1, <2>2 DEF statementFails
<1>9. ASSUME NEW w \in Workers, selectFails(w)
      PROVE  out' = NoAnswer \/ Answers(w)
  <2>1. CASE pc[w] = "select_from"
    BY <1>9, <2>1 DEF selectFails, LastRead, Answers
  <2>2. CASE pc[w] # "select_from"
    BY <1>9, <2>2 DEF selectFails, goto
  <2> QED BY <2>1, <2>2
<1>10. tick => out' = NoAnswer
  BY DEF tick
<1> QED BY <1>1, <1>2, <1>3, <1>4, <1>5, <1>6, <1>7, <1>8, <1>9, <1>10 DEF ServiceNext, step

\* The codes that are sent.
OutCodes == out.code \in {0, 200, 403, 404, 409}

\* Every step sends one of them or nothing.
LEMMA CodesInductive ==
    ASSUME ServiceInv, OutCodes, [ServiceNext]_allvars
    PROVE  OutCodes'
<1>1. CASE UNCHANGED allvars
  BY <1>1 DEF allvars, service, OutCodes
<1>2. CASE out' = NoAnswer
  BY <1>2 DEF NoAnswer, OutCodes
<1>3. ASSUME NEW w \in Workers, Answers(w) PROVE OutCodes'
  <2>1. PICK code \in {200, 403, 404, 409} : \E l : answer(w, code, l)
    BY <1>3 DEF Answers
  <2>2. out'.code = code
    BY <2>1 DEF answer, NoAnswer
  <2> QED BY <2>1, <2>2 DEF OutCodes
<1> QED BY <1>1, <1>2, <1>3, WhatIsSent

\* The codes of all answers.
LEMMA CodesInvariant == ServiceSpec => []OutCodes
<1>1. ServiceInit => OutCodes
  BY DEF ServiceInit, NoAnswer, OutCodes
<1>2. ServiceInv /\ OutCodes /\ [ServiceNext]_allvars => OutCodes'
  BY CodesInductive
<1> QED BY <1>1, <1>2, ServiceInvariant, PTL DEF ServiceSpec

\* NoInternalError: whichever workers register users at the same time, the branches
\* never answer 500 "more than one user with that name".
THEOREM NoInternalErrors == ServiceSpec => []NoInternalError
<1>1. OutCodes => NoInternalError
  BY DEF OutCodes, NoInternalError
<1> QED BY <1>1, CodesInvariant, PTL

\* ServiceTypeOK: the tables, the workers and their stamps are well typed.
THEOREM ServiceTypeCorrect == ServiceSpec => []ServiceTypeOK
<1>1. ServiceInv /\ OutCodes => ServiceTypeOK
  <2> SUFFICES ASSUME ServiceInv, OutCodes PROVE ServiceTypeOK
    OBVIOUS
  <2>1. TypeOK
    BY DEF ServiceInv, IInv
  <2>2. ASSUME NEW w \in Workers
        PROVE  /\ local[w].ts \in 0..clock
               /\ local[w].msgs_to \subseteq DOMAIN messages
               /\ pc[w] = "idle" <=> task[w] = NoTask
    <3>1. local[w] \in Locals /\ StampInv(w) /\ CmdInv(w) /\ clock \in Nat
      BY DEF ServiceInv, WorkerTypes, WInv
    <3>2. local[w].ts \in 0..clock
      BY <3>1 DEF Locals, StampInv
    <3> QED BY <3>1, <3>2 DEF StampInv, CmdInv
  <2> QED BY <2>1, <2>2 DEF ServiceInv, WorkerTypes, Labels, OutCodes, ServiceTypeOK
<1> QED BY <1>1, ServiceInvariant, CodesInvariant, PTL
--------------------------------------------------------------------------------
(* What a history holds *)

\* The messages i that the properties make a claim about, for the history of worker w.
Covered(w, i) ==
    /\ task[w].count * 2 <= Width /\ i <= local[w].before
    /\ \/ storage = "memory" /\ task[w].count >= Cardinality(Workers) - 1
       \/ storage = "mysql" /\ ~local[w].failed /\ i > Len(messages) - task[w].count * 2

\* A message of which twice the count of newer rows were read is made up for: at
\* most one row of every other worker was stored late.
LEMMA EnoughNewer ==
    ASSUME ServiceInv, NEW S, S \subseteq DOMAIN messages, NEW i \in DOMAIN messages,
           NEW count \in Nat, count >= Cardinality(Workers) - 1,
           NEW T, T \subseteq S, \A j \in T : j > i, count * 2 <= Cardinality(T)
    PROVE  count <= Cardinality({j \in S : messages[j].ts >= messages[i].ts})
<1>1. DOMAIN messages = 1..Len(messages) /\ Len(messages) \in Nat
  BY DEF ServiceInv, IInv, TypeOK
<1>2. \A j \in DOMAIN messages : messages[j].ts \in Nat
  <2>1. \A j \in DOMAIN messages : messages[j] \in Message
    BY DEF ServiceInv, IInv, TypeOK
  <2> QED BY <2>1 DEF Message
<1>3. PICK G : G = {j \in S : messages[j].ts >= messages[i].ts}
  OBVIOUS
<1>4. T \ Late(i) \subseteq G
  BY <1>1, <1>2, <1>3 DEF Late
<1>5. /\ IsFiniteSet(T) /\ Cardinality(T) \in Nat /\ Cardinality(G) \in Nat
      /\ Cardinality(T \ Late(i)) \in Nat /\ Cardinality(T \ Late(i)) <= Cardinality(G)
  BY <1>1, <1>3, <1>4, RowsFinite
<1>6. Late(i) \subseteq 1..Len(messages)
  BY <1>1 DEF Late
<1>7. /\ IsFiniteSet(Late(i)) /\ Cardinality(Late(i)) \in Nat
      /\ Cardinality(T \cap Late(i)) \in Nat /\ Cardinality(T \cap Late(i)) <= Cardinality(Late(i))
  BY <1>1, <1>6, RowsFinite
<1>8. Cardinality(Late(i)) < Cardinality(Workers) /\ Cardinality(Workers) \in Nat
  <2>1. Cardinality(Late(i)) + Cardinality(Pending(i)) < Cardinality(Workers)
    BY DEF ServiceInv, LateInv
  <2>2. Cardinality(Pending(i)) \in Nat /\ Cardinality(Workers) \in Nat
    BY WorkersAssumption, FS_Subset, FS_CardinalityType DEF Pending
  <2> QED BY <1>7, <2>1, <2>2
<1>9. Cardinality(T \ Late(i)) = Cardinality(T) - Cardinality(T \cap Late(i))
  BY <1>5, FS_Difference
<1> QED BY <1>3, <1>5, <1>7, <1>8, <1>9

\* The two SELECTs of a history and the mixing of their rows.
LEMMA HistoryShows ==
    ASSUME ServiceInv, NEW w \in Workers, pc[w] = "select_from",
           NEW me, me = UserOf(task[w].uid), NEW other, other = UserOf(local[w].user_to),
           NEW R, R = selectMessages(Sent(other, me), max_count(task[w])),
           NEW A \in mix_from_and_to_messages(R, local[w].msgs_to, task[w].count)
    PROVE  /\ A.to \subseteq Sent(me, other) /\ A.from \subseteq Sent(other, me)
           /\ \A i \in Sent(me, other) \cup Sent(other, me) : Covered(w, i) => Shows(A, task[w].count, i)
<1>1. task[w] \in Task /\ local[w] \in Locals /\ WInv(w) /\ task[w].count \in Nat
  BY AtCall
<1>2. /\ messages \in Seq(Message) /\ DOMAIN messages = 1..Len(messages) /\ Len(messages) \in Nat
  BY DEF ServiceInv, IInv, TypeOK
<1>3. PICK S1, S2, M : /\ S1 = Sent(me, other) /\ S2 = Sent(other, me) /\ M = local[w].msgs_to
                       /\ S1 \subseteq DOMAIN messages /\ S2 \subseteq DOMAIN messages
  BY DEF Sent
<1>4. FirstRead(w, S1)
  BY <1>1, <1>3 DEF WInv, HistInv
<1>5. M \subseteq S1 /\ local[w].before <= Len(messages) /\ local[w].before \in Nat
  BY <1>1, <1>3, <1>4 DEF FirstRead, Locals
<1>6. /\ R \subseteq S2
      /\ task[w].count * 2 <= Width =>
            \A i \in S2 \ R :
                /\ storage = "mysql" => i <= Len(messages) - task[w].count * 2
                /\ storage = "memory" => task[w].count * 2 <= Cardinality({j \in R : j > i})
  <2>1. PICK t \in Task : t = task[w]
    BY <1>1
  <2>2. R = selectMessages(S2, max_count(t)) /\ S2 \subseteq DOMAIN messages
    BY <1>3, <2>1
  <2>3. /\ R \subseteq S2
        /\ t.count * 2 <= Width =>
              \A i \in S2 \ R :
                  /\ storage = "mysql" => i <= Len(messages) - t.count * 2
                  /\ storage = "memory" => t.count * 2 <= Cardinality({j \in R : j > i})
    BY <2>2, SelectFacts
  <2> QED BY <2>1, <2>3
<1>7. A.from \subseteq R /\ A.to \subseteq M /\ R \subseteq DOMAIN messages /\ M \subseteq DOMAIN messages
  BY <1>3, <1>5, <1>6 DEF mix_from_and_to_messages
<1>8. ASSUME NEW i \in S1 \cup S2, task[w].count * 2 <= Width, i <= local[w].before,
             \/ storage = "memory" /\ task[w].count >= Cardinality(Workers) - 1
             \/ storage = "mysql" /\ ~local[w].failed /\ i > Len(messages) - task[w].count * 2
      PROVE  Shows(A, task[w].count, i)
  <2>1. i \in DOMAIN messages /\ i \in Nat
    BY <1>2, <1>3
  <2>2. SUFFICES Has(R, task[w].count, i) \/ Has(M, task[w].count, i)
    <3>1. PICK n : n = task[w].count
      OBVIOUS
    <3>2. /\ A \in mix_from_and_to_messages(R, M, n) /\ n \in Nat
          /\ R \subseteq DOMAIN messages /\ M \subseteq DOMAIN messages
      BY <1>1, <1>3, <1>7, <3>1
    <3>3. Has(R, n, i) \/ Has(M, n, i) => Shows(A, n, i)
      BY <1>2, <2>1, <3>2, MixShows
    <3> QED BY <3>1, <3>3
  <2>3. SUFFICES ASSUME i \notin R, i \notin M
                 PROVE  \/ task[w].count <=
                               Cardinality({j \in R : messages[j].ts >= messages[i].ts})
                        \/ task[w].count <=
                               Cardinality({j \in M : messages[j].ts >= messages[i].ts})
    BY DEF Has
  <2>4. CASE storage = "memory" /\ task[w].count >= Cardinality(Workers) - 1
    <3>1. CASE i \in S1
      <4>1. task[w].count * 2 <= Cardinality({j \in M : j > i})
        BY <1>3, <1>4, <1>8, <2>3, <2>4, <3>1 DEF FirstRead
      <4>2. PICK T : T \subseteq M /\ (\A j \in T : j > i) /\ task[w].count * 2 <= Cardinality(T)
        BY <4>1
      <4> QED BY <1>1, <1>7, <2>1, <2>4, <4>2, EnoughNewer
    <3>2. CASE i \in S2
      <4>1. task[w].count * 2 <= Cardinality({j \in R : j > i})
        BY <1>6, <1>8, <2>3, <2>4, <3>2
      <4>2. PICK T : T \subseteq R /\ (\A j \in T : j > i) /\ task[w].count * 2 <= Cardinality(T)
        BY <4>1
      <4> QED BY <1>1, <1>7, <2>1, <2>4, <4>2, EnoughNewer
    <3> QED BY <3>1, <3>2
  <2>5. CASE storage = "mysql" /\ ~local[w].failed /\ i > Len(messages) - task[w].count * 2
    <3>1. CASE i \in S1
      <4>1. i <= local[w].before - task[w].count * 2
        BY <1>3, <1>4, <1>8, <2>3, <2>5, <3>1 DEF FirstRead
      <4> QED BY <1>1, <1>2, <1>5, <2>1, <2>5, <4>1
    <3>2. CASE i \in S2
      <4>1. i <= Len(messages) - task[w].count * 2
        BY <1>6, <1>8, <2>3, <2>5, <3>2
      <4> QED BY <1>1, <1>2, <2>1, <2>5, <4>1
    <3> QED BY <3>1, <3>2
  <2> QED BY <1>8, <2>4, <2>5
<1>9. A.to \subseteq S1 /\ A.from \subseteq S2
  BY <1>5, <1>6, <1>7
<1>10. \A i \in S1 \cup S2 : Covered(w, i) => Shows(A, task[w].count, i)
  BY <1>8 DEF Covered
<1> QED BY <1>3, <1>9, <1>10

\* A vector of rows holds every row at most twice, and every row once if its two
\* parts have none in common.
LEMMA RowsOfVector ==
    ASSUME messages \in Seq(Message), NEW F, NEW T,
           F \subseteq DOMAIN messages, T \subseteq DOMAIN messages
    PROVE  /\ Cardinality(F \cup T) \in Nat /\ Cardinality(F) \in Nat /\ Cardinality(T) \in Nat
           /\ Cardinality(F) + Cardinality(T) <= 2 * Cardinality(F \cup T)
           /\ F \cap T = {} => Cardinality(F) + Cardinality(T) = Cardinality(F \cup T)
<1>1. DOMAIN messages = 1..Len(messages) /\ Len(messages) \in Nat
  OBVIOUS
<1>2. F \cup T \subseteq 1..Len(messages)
  BY <1>1
<1>3. /\ Cardinality(F \cup T) \in Nat /\ IsFiniteSet(F) /\ IsFiniteSet(T)
      /\ Cardinality(F) \in Nat /\ Cardinality(F) <= Cardinality(F \cup T)
      /\ Cardinality(T) \in Nat /\ Cardinality(T) <= Cardinality(F \cup T)
  BY <1>1, <1>2, RowsFinite
<1>4. Cardinality(F \cup T) = Cardinality(F) + Cardinality(T) - Cardinality(F \cap T)
  BY <1>3, FS_Union
<1>5. F \cap T = {} => Cardinality(F \cap T) = 0
  BY FS_EmptySet
<1> QED BY <1>3, <1>4, <1>5

\* A history is sent with the rows of the two users, as the properties say.
LEMMA SentIsRight ==
    ASSUME ServiceInv, NEW w \in Workers, LastRead(w)
    PROVE  HistoryIsNewest' /\ HistoryIsRecent'
<1>1. pc[w] = "select_from" /\ UNCHANGED <<vars, storage>>
  BY DEF LastRead, select_from, selectFails
<1>2. task[w] \in Task /\ local[w] \in Locals /\ task[w].cmd = "user_history"
  BY <1>1, AtCall DEF WInv, CmdInv
<1>3. PICK me, other : me = UserOf(task[w].uid) /\ other = UserOf(local[w].user_to)
  OBVIOUS
<1>4. PICK R : R = selectMessages(Sent(other, me), max_count(task[w]))
  OBVIOUS
<1>5. PICK P : P = Sent(me, other) \cup Sent(other, me)
  OBVIOUS
<1>6. PICK A, l : /\ answer(w, 200, l) /\ l.msgs = A /\ l.before = local[w].before
                  /\ l.user_to = local[w].user_to
                  /\ \/ /\ A \in mix_from_and_to_messages(R, local[w].msgs_to, task[w].count)
                        /\ l.failed = local[w].failed
                     \/ /\ A \in mix_from_and_to_messages({}, local[w].msgs_to, task[w].count)
                        /\ l.failed = TRUE /\ storage = "mysql"
  <2>1. CASE select_from(w)
    <3>1. PICK A \in mix_from_and_to_messages(R, local[w].msgs_to, task[w].count) :
              answer(w, 200, [local[w] EXCEPT !.msgs = A])
      BY <1>3, <1>4, <2>1 DEF select_from
    <3>2. PICK l : l = [local[w] EXCEPT !.msgs = A]
      OBVIOUS
    <3>3. l.msgs = A /\ l.before = local[w].before /\ l.user_to = local[w].user_to
          /\ l.failed = local[w].failed
      BY <1>2, <3>2 DEF Locals
    <3> QED BY <3>1, <3>2, <3>3
  <2>2. CASE selectFails(w)
    <3>1. PICK A \in mix_from_and_to_messages({}, local[w].msgs_to, task[w].count) :
              answer(w, 200, [local[w] EXCEPT !.msgs = A, !.failed = TRUE])
      BY <1>1, <2>2 DEF selectFails
    <3>2. PICK l : l = [local[w] EXCEPT !.msgs = A, !.failed = TRUE]
      OBVIOUS
    <3>3. l.msgs = A /\ l.before = local[w].before /\ l.user_to = local[w].user_to
          /\ l.failed = TRUE
      BY <1>2, <3>2 DEF Locals
    <3> QED BY <2>2, <3>1, <3>2, <3>3 DEF selectFails
  <2> QED BY <2>1, <2>2 DEF LastRead
<1>7. /\ out'.task = task[w] /\ out'.local = l
  BY <1>2, <1>6 DEF answer
<1>8. Pair' = P
  BY <1>1, <1>3, <1>5, <1>6, <1>7 DEF Pair, Sent, UserOf, TheOne, lookupUserById, vars
<1>9. A.to \subseteq Sent(me, other) /\ A.from \subseteq Sent(other, me) /\ Rows(A) \subseteq P
  <2>1. CASE A \in mix_from_and_to_messages(R, local[w].msgs_to, task[w].count)
    BY <1>1, <1>3, <1>4, <1>5, <2>1, HistoryShows DEF Rows
  <2>2. CASE A \in mix_from_and_to_messages({}, local[w].msgs_to, task[w].count)
    <3>1. local[w].msgs_to \subseteq Sent(me, other)
      BY <1>1, <1>3, AtCall DEF WInv, HistInv, FirstRead
    <3>2. A.to \subseteq local[w].msgs_to /\ A.from = {}
      BY <2>2 DEF mix_from_and_to_messages
    <3> QED BY <1>5, <3>1, <3>2 DEF Rows
  <2> QED BY <1>6, <2>1, <2>2
<1>10. ASSUME NEW i \in P, task[w].count * 2 <= Width, i <= l.before,
              \/ storage = "memory" /\ task[w].count >= Cardinality(Workers) - 1
              \/ storage = "mysql" /\ ~l.failed /\ i > Len(messages) - task[w].count * 2
       PROVE  Shows(A, task[w].count, i)
  <2>1. A \in mix_from_and_to_messages(R, local[w].msgs_to, task[w].count)
        /\ l.failed = local[w].failed
    BY <1>6, <1>10
  <2>2. \A j \in P : Covered(w, j) => Shows(A, task[w].count, j)
    BY <1>1, <1>3, <1>4, <1>5, <2>1, HistoryShows
  <2>3. Covered(w, i)
    BY <1>6, <1>10, <2>1 DEF Covered
  <2> QED BY <2>2, <2>3
<1>11. \A i : Shows(A, task[w].count, i) => ShownOrOlder(i)'
  <2>1. PICK n : n = Cardinality(Rows(A))
    OBVIOUS
  <2>2. A.from \subseteq DOMAIN messages /\ A.to \subseteq DOMAIN messages /\ messages \in Seq(Message)
    BY <1>9 DEF Sent, ServiceInv, IInv, TypeOK
  <2>3. n \in Nat /\ Size(A) \in Nat /\ Size(A) <= 2 * n /\ (A.from \cap A.to = {} => Size(A) = n)
    <3>1. PICK F, T : F = A.from /\ T = A.to
      OBVIOUS
    <3>2. F \subseteq DOMAIN messages /\ T \subseteq DOMAIN messages
      BY <2>2, <3>1
    <3>3. /\ Cardinality(F \cup T) \in Nat /\ Cardinality(F) \in Nat /\ Cardinality(T) \in Nat
          /\ Cardinality(F) + Cardinality(T) <= 2 * Cardinality(F \cup T)
          /\ F \cap T = {} => Cardinality(F) + Cardinality(T) = Cardinality(F \cup T)
      BY <2>2, <3>2, RowsOfVector
    <3>4. n = Cardinality(F \cup T) /\ Size(A) = Cardinality(F) + Cardinality(T)
      BY <2>1, <3>1 DEF Size, Rows
    <3> QED BY <3>1, <3>3, <3>4
  <2>4. task[w].uid # l.user_to => A.from \cap A.to = {}
    <3>1. me.id = task[w].uid /\ other.id = local[w].user_to
      <4>1. KnownUser(task[w].uid) /\ KnownUser(local[w].user_to)
        BY <1>1, <1>2, AtCall DEF WInv, RowsInv
      <4> QED BY <1>3, <4>1 DEF KnownUser, UserOf, TheOne, lookupUserById
    <3> QED BY <1>6, <1>9, <3>1 DEF Sent
  <2>5. Size(A) <= Copies' * n
    <3>1. CASE task[w].uid = l.user_to
      BY <1>7, <2>3, <3>1 DEF Copies
    <3>2. CASE task[w].uid # l.user_to
      BY <1>7, <2>3, <2>4, <3>2 DEF Copies
    <3> QED BY <3>1, <3>2
  <2> QED BY <1>1, <1>6, <1>7, <2>1, <2>5 DEF Shows, ShownOrOlder, vars
<1>12. HistoryIsNewest'
  BY <1>1, <1>6, <1>7, <1>8, <1>9, <1>10, <1>11 DEF HistoryIsNewest
<1>13. HistoryIsRecent'
  <2>1. messages' = messages /\ storage' = storage
    BY <1>1 DEF vars
  <2> QED BY <1>6, <1>7, <1>8, <1>9, <1>10, <1>11, <2>1 DEF HistoryIsRecent
<1> QED BY <1>12, <1>13

\* Every step keeps what the properties say of the history last sent.
LEMMA HistoriesInductive ==
    ASSUME ServiceInv, HistoryIsNewest, HistoryIsRecent, [ServiceNext]_allvars
    PROVE  HistoryIsNewest' /\ HistoryIsRecent'
<1>1. CASE UNCHANGED allvars
  <2>1. UNCHANGED <<users, messages, storage, out>>
    BY <1>1 DEF allvars, vars, service
  <2>2. Pair' = Pair /\ (\A i : ShownOrOlder(i)' = ShownOrOlder(i)) /\ HistorySent' = HistorySent
    BY <2>1 DEF Pair, Sent, UserOf, TheOne, lookupUserById, ShownOrOlder, Copies, HistorySent
  <2> QED BY <2>1, <2>2 DEF HistoryIsNewest, HistoryIsRecent
<1>2. CASE ~HistorySent'
  BY <1>2 DEF HistoryIsNewest, HistoryIsRecent
<1>3. CASE out' = NoAnswer
  <2>1. ~HistorySent'
    BY <1>3 DEF NoAnswer, HistorySent
  <2> QED BY <1>2, <2>1
<1>4. ASSUME NEW w \in Workers, Answers(w), HistorySent'
      PROVE  HistoryIsNewest' /\ HistoryIsRecent'
  <2>1. PICK code, l : answer(w, code, l)
                       /\ (task[w].cmd = "user_history" /\ code = 200 => LastRead(w))
    BY <1>4 DEF Answers
  <2>2. task[w].cmd = "user_history" /\ code = 200
    BY <1>4, <2>1 DEF answer, NoAnswer, HistorySent
  <2> QED BY <2>1, <2>2, SentIsRight
<1> QED BY <1>1, <1>2, <1>3, <1>4, WhatIsSent

\* Both properties of the histories hold in every state.
LEMMA HistoriesInvariant == ServiceSpec => [](HistoryIsNewest /\ HistoryIsRecent)
<1>1. ServiceInit => HistoryIsNewest /\ HistoryIsRecent
  BY DEF ServiceInit, NoAnswer, HistoryIsNewest, HistoryIsRecent, HistorySent
<1>2. ServiceInv /\ HistoryIsNewest /\ HistoryIsRecent /\ [ServiceNext]_allvars =>
          HistoryIsNewest' /\ HistoryIsRecent'
  BY HistoriesInductive
<1> QED BY <1>1, <1>2, ServiceInvariant, PTL DEF ServiceSpec

\* HistoryIsNewest: with storage in memory, a history holds the newest messages that
\* the two users had exchanged when it began, whichever workers stored messages out
\* of the order of their stamps meanwhile, if count is not less than their number;
\* of the messages of a user to himself, all found twice, it holds half as many.
THEOREM HistoriesAreNewest == ServiceSpec => []HistoryIsNewest
BY HistoriesInvariant, PTL

\* HistoryIsRecent: with MySQL it holds the newest of those among the last count * 2
\* messages of everybody, and nothing of others even when a SELECT fails.
THEOREM HistoriesAreRecent == ServiceSpec => []HistoryIsRecent
BY HistoriesInvariant, PTL
================================================================================
