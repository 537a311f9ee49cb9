------------------------------ MODULE ChatService ------------------------------
(***************************************************************************)
(* DatabaseWorker::processQueue (server/src/database_worker.cpp): what the *)
(* workers make of the requests.  A branch is a sequence of calls of the   *)
(* storage; between two calls of one worker the others run, so what a      *)
(* worker looked up may be old when it is used.                            *)
(*                                                                         *)
(* The branch IDLE is the subject of IdleDelivery, how tasks reach the     *)
(* workers and answers the peers that of ApiServer.  The clock is the      *)
(* second counter of time(NULL).                                           *)
(***************************************************************************)
EXTENDS ChatStorage

CONSTANTS
    Workers,        \* threads of DatabaseWorker
    Tasks,          \* tasks the queue yields, a subset of Task
    Registered,     \* a sequence: the users created before
    Storages,       \* the storages a server may be started with, of "memory" and "mysql"
    Width,          \* get_msg_opt_t::max_count counts modulo Width (2^32)
    MaxClock,       \* bound on the clock
    MaxUsers,       \* bound on the users
    MaxEarly,       \* bound on the messages stored when a task not about messages begins
    NoTask          \* a worker that waits for a task

Commands == {"user_status", "user_history", "message_send", "user_create", "user_login",
             "chat_create", "chat_adduser", "message_send_chat", "get_locations",
             "chat_with_location"}

\* password: crc32 of the password sent, the only use the branches make of it;
\* user: the user a task names (user, to or adduser); chat: the chat it names.
Task == [cmd : Commands, uid : Nat, password : Passwords, user : Names, chat : Names, count : Nat]

ASSUME TasksAssumption == Tasks \subseteq Task /\ NoTask \notin Task
ASSUME WidthAssumption == Width \in Nat \ {0}
ASSUME ServiceBounds == MaxClock \in Nat \ {0} /\ MaxUsers \in Nat /\ MaxEarly \in Nat
ASSUME ClockAssumption == 1..MaxClock \subseteq Times
ASSUME WorkersAssumption == IsFiniteSet(Workers)
ASSUME RegisteredAssumption ==
    /\ Registered \in Seq([name : Names, password : Passwords])
    /\ \A i, j \in DOMAIN Registered : Registered[i].name = Registered[j].name => i = j
ASSUME StoragesAssumption == Storages \subseteq {"memory", "mysql"}

VARIABLES
    storage,    \* the kind of database the server was started with
    clock,
    task,       \* the task of each worker
    pc,         \* the next call of its branch
    local,      \* its local variables
    out         \* the answer of the last step, if it sent one (of a history: its messages)

service == <<storage, clock, task, pc, local, out>>
allvars == <<vars, service>>

\* A vector in which the rows from are followed by the rows to: a row of both is
\* there twice.
Vector(from, to) == [from |-> from, to |-> to]
Rows(v) == v.from \cup v.to
Size(v) == Cardinality(v.from) + Cardinality(v.to)

\* user_to, chat: ids looked up; ts: the time stamp; msgs_to: rows of the first
\* selectMessages; msgs: the vector in the answer; before: history, the number of
\* rows when it first read; failed: history, a SELECT of messages failed.
NoLocals == [user_to |-> 0, chat |-> 0, ts |-> 0, msgs_to |-> {}, msgs |-> Vector({}, {}),
             before |-> 0, failed |-> FALSE]

NoAnswer == [code |-> 0, task |-> NoTask, local |-> NoLocals]

ServiceTypeOK ==
    /\ TypeOK
    /\ storage \in Storages
    /\ clock \in 1..MaxClock
    /\ task \in [Workers -> Tasks \cup {NoTask}]
    /\ pc \in [Workers -> {"check", "user", "chat", "create", "stamp", "save", "add", "select_to",
                           "select_from", "location", "idle"}]
    /\ out.code \in {0, 200, 403, 404, 409, 500}
    /\ \A w \in Workers :
          /\ local[w].ts \in 0..clock
          /\ local[w].msgs_to \subseteq DOMAIN messages
          /\ pc[w] = "idle" <=> task[w] = NoTask

\* The users of Registered were created in this order and nothing else was.
ServiceInit ==
    /\ users = {[id |-> i, self_chat_id |-> i, name |-> Registered[i].name,
                 password |-> Registered[i].password, heartbit |-> 0] : i \in DOMAIN Registered}
    /\ chats = {[id |-> i, name |-> Registered[i].name] : i \in DOMAIN Registered}
    /\ chatuser = [i \in DOMAIN Registered |-> [chatid |-> i, uid |-> i]]
    /\ messages = <<>>
    /\ user_autoincrement = Len(Registered) + 1
    /\ chat_autoincrement = Len(Registered) + 1
    /\ storage \in Storages
    /\ clock = 1
    /\ task = [w \in Workers |-> NoTask]
    /\ pc = [w \in Workers |-> "idle"]
    /\ local = [w \in Workers |-> NoLocals]
    /\ out = NoAnswer

TheOne(rows) == CHOOSE row \in rows : TRUE

UserOf(id) == TheOne(lookupUserById(id))
--------------------------------------------------------------------------------
(* Steps of a worker *)

\* The branch goes on with the call label, its local variables being l.
goto(w, label, l) ==
    /\ pc' = [pc EXCEPT ![w] = label]
    /\ local' = [local EXCEPT ![w] = l]
    /\ out' = NoAnswer
    /\ UNCHANGED task

\* sendOkResponse, sendErrorResponse, sendMessages: the branch ends.
answer_Mutant(w, code, l) ==
    /\ pc' = [pc EXCEPT ![w] = "idle"]
    /\ UNCHANGED task
    /\ local' = [local EXCEPT ![w] = NoLocals]
    /\ out' = IF task[w].cmd = "user_history"
              THEN [code |-> code, task |-> task[w], local |-> l]
              ELSE [NoAnswer EXCEPT !.code = code]

answer(w, code, l) ==
    /\ pc' = [pc EXCEPT ![w] = "idle"]
    /\ task' = [task EXCEPT ![w] = NoTask]
    /\ local' = [local EXCEPT ![w] = NoLocals]
    /\ out' = IF task[w].cmd = "user_history"
              THEN [code |-> code, task |-> task[w], local |-> l]
              ELSE [NoAnswer EXCEPT !.code = code]

\* Which call follows lookup_check_pass.
afterCheck(cmd) ==
    CASE cmd \in {"user_status", "user_history", "message_send", "chat_adduser"} -> "user"
      [] cmd = "message_send_chat" -> "chat"
      [] cmd = "chat_create" -> "create"
      [] cmd \in {"get_locations", "chat_with_location"} -> "location"

getTask(w, t) ==
    /\ pc[w] = "idle"
    /\ task' = [task EXCEPT ![w] = t]
    /\ pc' = [pc EXCEPT ![w] = CASE t.cmd = "user_create" -> "create"
                                 [] t.cmd = "user_login" -> "user"
                                 [] OTHER -> "check"]
    /\ out' = NoAnswer
    /\ UNCHANGED <<vars, storage, clock, local>>

checked_Mutant(found, t) == 200

\* What lookup_check_pass answers, 200 standing for going on.
checked(found, t) ==
    CASE found = {} -> 409
      [] found # {} /\ TheOne(found).password # t.password -> 403
      [] OTHER -> 200

lookup_check_pass(w) ==
    /\ pc[w] = "check"
    /\ LET result == checked(lookupUserById(task[w].uid), task[w])
       IN  IF result = 200
           THEN goto(w, afterCheck(task[w].cmd), local[w])
           ELSE answer(w, result, local[w])
    /\ UNCHANGED <<vars, storage, clock>>

\* lookup_check_pass_by_name, and the same lookup in the branch MESSAGE_SEND.
named(found, t) ==
    CASE found = {} -> 404
      [] Cardinality(found) > 1 -> 500
      [] OTHER -> IF t.cmd = "user_login" /\ TheOne(found).password # t.password THEN 403 ELSE 200

afterUser(cmd) ==
    CASE cmd = "user_history" -> "select_to"
      [] cmd = "message_send" -> "stamp"
      [] cmd = "chat_adduser" -> "chat"

lookup_check_pass_by_name(w) ==
    /\ pc[w] = "user"
    /\ LET found == lookupUserByName(task[w].user)
           result == named(found, task[w])
       IN  IF result # 200 \/ task[w].cmd \in {"user_status", "user_login"}
           THEN answer(w, result, local[w])
           ELSE goto(w, afterUser(task[w].cmd), [local[w] EXCEPT !.user_to = TheOne(found).id])
    /\ UNCHANGED <<vars, storage, clock>>

\* The chat a task names, which must be the only one of its name.
lookupChat(w) ==
    /\ pc[w] = "chat"
    /\ LET found == lookupChatByName(task[w].chat)
       IN  IF Cardinality(found) # 1
           THEN answer(w, 404, local[w])
           ELSE goto(w, IF task[w].cmd = "chat_adduser" THEN "add" ELSE "stamp",
                     [local[w] EXCEPT !.chat = TheOne(found).id])
    /\ UNCHANGED <<vars, storage, clock>>

\* createUser and createChat change nothing when the name is taken.
create(w) ==
    /\ pc[w] = "create"
    /\ LET t == task[w]
       IN  IF t.cmd = "user_create"
           THEN IF userNameTaken(t.user)
                THEN answer(w, 409, local[w]) /\ UNCHANGED vars
                ELSE answer(w, 200, local[w]) /\ \E hb \in FirstHeartBits : createUser(t.user, t.password, hb)
           ELSE IF lookupChatByName(t.chat) # {}
                THEN answer(w, 409, local[w]) /\ UNCHANGED vars
                ELSE answer(w, 200, local[w]) /\ createChat(t.chat, t.uid)
    /\ UNCHANGED <<storage, clock>>

\* addUserToChat returns without a sign when the user is a member already.
add(w) ==
    /\ pc[w] = "add"
    /\ \E chat \in lookupChatById(local[w].chat), user \in lookupUserById(local[w].user_to) :
          IF isMember(chat, user) THEN UNCHANGED vars ELSE addUserToChat(chat, user)
    /\ answer(w, 200, local[w])
    /\ UNCHANGED <<storage, clock>>

\* msg.ts = time(NULL)
stamp(w) ==
    /\ pc[w] = "stamp"
    /\ goto(w, "save", [local[w] EXCEPT !.ts = clock])
    /\ UNCHANGED <<vars, storage, clock>>

\* A private message goes to the chat of the addressee.
recipient(w) ==
    IF task[w].cmd = "message_send"
    THEN UserOf(local[w].user_to).self_chat_id
    ELSE local[w].chat

save(w) ==
    /\ pc[w] = "save"
    /\ saveMessage(task[w].uid, recipient(w), local[w].ts)
    /\ answer(w, 200, local[w])
    /\ UNCHANGED <<storage, clock>>

\* Both answer 404 for an empty set.  InMemoryConnection answers the second with
\* the city it was asked about, MysqlConnection with the users there, if any, and
\* finds nothing when the SELECT fails.
locationCodes(cmd) ==
    IF cmd = "get_locations" /\ storage = "memory" THEN {IF users = {} THEN 404 ELSE 200}
    ELSE IF storage = "mysql" THEN {200, 404} ELSE {200}

location(w) ==
    /\ pc[w] = "location"
    /\ \E code \in locationCodes(task[w].cmd) : answer(w, code, local[w])
    /\ UNCHANGED <<vars, storage, clock>>
--------------------------------------------------------------------------------
(* The history of two users *)

\* The messages one user sent to the other.
Sent(from, to) ==
    {i \in DOMAIN messages : messages[i].user_from = from.id /\ messages[i].chat_to = to.self_chat_id}

\* InMemoryConnection looks for max_count rows that satisfy the predicate ...
selectInMemory_Mutant(S, max) == Newest(S, max \div 2)
selectInMemory(S, max) == Newest(S, max)

\* ... and MysqlConnection applies the predicate to the newest max_count rows.
selectMysql_Mutant(S, max) == Newest(S, max) \cap Newest(DOMAIN messages, max - 1)
selectMysql(S, max) == S \cap Newest(DOMAIN messages, max)

selectMessages(S, max) ==
    IF storage = "mysql" THEN selectMysql(S, max) ELSE selectInMemory(S, max)

max_count(t) == (t.count * 2) % Width

select_to(w) ==
    /\ pc[w] = "select_to"
    /\ LET user_from == UserOf(task[w].uid)
           user_to == UserOf(local[w].user_to)
       IN  goto(w, "select_from",
                [local[w] EXCEPT !.msgs_to = selectMessages(Sent(user_from, user_to),
                                                            max_count(task[w])),
                                 !.before = Len(messages)])
    /\ UNCHANGED <<vars, storage, clock>>

\* The two vectors are joined, sorted and cut to max elements, each of them counted
\* as often as it is there.  std::sort by ts is not stable: any order among messages
\* of one second.
mix_from_and_to_messages(from, to, max) ==
    {mix \in [from : SUBSET from, to : SUBSET to] :
        /\ Size(mix) = LET size == Size(Vector(from, to)) IN IF size <= max THEN size ELSE max
        /\ \A a \in Rows(mix), b \in (from \ mix.from) \cup (to \ mix.to) :
              messages[a].ts >= messages[b].ts}

select_from(w) ==
    /\ pc[w] = "select_from"
    /\ LET user_from == UserOf(task[w].uid)
           user_to == UserOf(local[w].user_to)
           msgs_from == selectMessages(Sent(user_to, user_from), max_count(task[w]))
       IN  \E mix \in mix_from_and_to_messages(msgs_from, local[w].msgs_to, task[w].count) :
              answer(w, 200, [local[w] EXCEPT !.msgs = mix])
    /\ UNCHANGED <<vars, storage, clock>>
--------------------------------------------------------------------------------
(* A statement of MySQL throws: it is logged, and the call goes on with nothing. *)

lookupFails(w, label, code) ==
    /\ storage = "mysql"
    /\ pc[w] = label
    /\ answer(w, code, local[w])
    /\ UNCHANGED <<vars, storage, clock>>

\* A row that is not found is taken for one that is not there.
userLookupFails(w) == lookupFails(w, "check", 409) \/ lookupFails(w, "user", 404)

chatLookupFails(w) == lookupFails(w, "chat", 404)

\* Taken for a name in use.  MysqlStorage has the rows that a later statement of
\* createUser or createChat leaves behind; here the first one fails.
createFails(w) == lookupFails(w, "create", 409)

\* saveMessage and addUserToChat return nothing: the answer is OK.
writeFails(w) == lookupFails(w, "save", 200) \/ lookupFails(w, "add", 200)

selectFails(w) ==
    /\ storage = "mysql"
    /\ \/ /\ pc[w] = "select_to"
          /\ goto(w, "select_from", [local[w] EXCEPT !.before = Len(messages), !.failed = TRUE])
       \/ /\ pc[w] = "select_from"
          /\ \E mix \in mix_from_and_to_messages({}, local[w].msgs_to, task[w].count) :
                answer(w, 200, [local[w] EXCEPT !.msgs = mix, !.failed = TRUE])
    /\ UNCHANGED <<vars, storage, clock>>

statementFails(w) ==
    \/ userLookupFails(w) \/ chatLookupFails(w) \/ createFails(w) \/ writeFails(w)
    \/ selectFails(w)
--------------------------------------------------------------------------------
step(w) ==
    \/ lookup_check_pass(w) \/ lookup_check_pass_by_name(w) \/ lookupChat(w)
    \/ create(w) \/ add(w) \/ stamp(w) \/ save(w) \/ location(w)
    \/ select_to(w) \/ select_from(w)

\* Bounds: a task that may add a row is only taken while there is room for it, and
\* one that has nothing to do with messages before there are many.
Sends(t) == t.cmd \in {"message_send", "message_send_chat"}

room(t) ==
    /\ Sends(t) => Len(messages) + Cardinality({w \in Workers : task[w] # NoTask /\ Sends(task[w])})
                     < MaxMessages
    /\ t.cmd = "user_create" => user_autoincrement <= MaxUsers
    /\ ~Sends(t) /\ t.cmd # "user_history" => Len(messages) <= MaxEarly

tick ==
    /\ clock < MaxClock
    /\ clock' = clock + 1
    /\ out' = NoAnswer
    /\ UNCHANGED <<vars, storage, task, pc, local>>

ServiceNext ==
    \/ \E w \in Workers :
          \/ \E t \in Tasks : room(t) /\ getTask(w, t)
          \/ step(w)
          \/ statementFails(w)
    \/ tick

ServiceSpec == ServiceInit /\ [][ServiceNext]_allvars
--------------------------------------------------------------------------------
(* Properties *)

\* Every step of every branch is an operation of the storage on rows that exist
\* at that moment, or none: what a worker looked up before other workers ran
\* (the sender, the addressee, the chat) is still there when it is used.
UsesStorage == [][Next]_vars

HistorySent == out.code = 200 /\ out.task # NoTask

Pair ==
    LET me == UserOf(out.task.uid)
        other == UserOf(out.local.user_to)
    IN  Sent(me, other) \cup Sent(other, me)

\* How often a history may show one message: what a user wrote to himself is found
\* by both selections.
Copies == IF out.task.uid = out.local.user_to THEN 2 ELSE 1

\* A message between the two users is shown, or so many others are that are not
\* older that the answer has no room for it: count others, or half of count in the
\* history of a user with himself.
ShownOrOlder(i) ==
    LET shown == Rows(out.local.msgs)
    IN  \/ i \in shown
        \/ /\ out.task.count <= Copies * Cardinality(shown)
           /\ \A a \in shown : messages[a].ts >= messages[i].ts

\* The history read from memory holds the newest messages of the two users that
\* were stored when it began.  Workers stamp a message before they store it, so
\* that each of the other workers may have stored one out of order: reading twice
\* the count makes up for Workers - 1 of them.  (It does not for a smaller count,
\* nor when count * 2 exceeds the width of max_count.)  In the history of a user
\* with himself every message takes two places, and half as many are shown.
HistoryIsNewest ==
    (/\ HistorySent /\ storage = "memory"
     /\ out.task.count >= Cardinality(Workers) - 1
     /\ out.task.count * 2 <= Width) =>
        /\ Rows(out.local.msgs) \subseteq Pair
        /\ \A i \in Pair : i <= out.local.before => ShownOrOlder(i)

\* MySQL limits the rows before it is known whose they are: the history holds the
\* newest messages of the two users only among the newest count * 2 messages that
\* anybody sent, counted when it last read; and only messages of the two, even when
\* a SELECT fails.
HistoryIsRecent ==
    (HistorySent /\ storage = "mysql" /\ out.task.count * 2 <= Width) =>
        /\ Rows(out.local.msgs) \subseteq Pair
        /\ \A i \in Pair :
              (~out.local.failed /\ i <= out.local.before /\ i > Len(messages) - out.task.count * 2) => ShownOrOlder(i)

\* A name never denotes two users, whichever workers register at the same time:
\* the answer 500 "more than one user with that name" is never given.
NoInternalError == out.code # 500
================================================================================
