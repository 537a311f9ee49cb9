----------------------------- MODULE MCChatService -----------------------------
(* Two users that write to each other and read their history, while a chat and  *)
(* a user of the same name are created; this user writes to himself.            *)
EXTENDS ChatService, TLC

CONSTANTS alice, bob, team, right, wrong

MCRegistered == <<[name |-> alice, password |-> right], [name |-> bob, password |-> right]>>

T(cmd, uid, user, chat, count) ==
    [cmd |-> cmd, uid |-> uid, password |-> right, user |-> user, chat |-> chat, count |-> count]

\* User 3, whose name is team, and the chat team come to be in the course of a run:
\* the chat of that name may be his own, in which he then writes to himself.  Of the
\* counts of a history, the double of one wraps around to 0, which is no limit.
MCTasks ==
    {T("message_send", 1, bob, team, 0), T("message_send", 2, alice, team, 0),
     T("message_send_chat", 3, bob, team, 0),
     T("user_history", 1, bob, team, 1), T("user_history", 3, team, team, 2),
     T("user_create", 0, team, team, 0),
     [T("user_login", 0, team, team, 0) EXCEPT !.password = wrong],
     T("get_locations", 3, bob, team, 0), T("chat_with_location", 2, bob, team, 0),
     T("user_status", 1, team, team, 0),
     T("chat_create", 1, bob, team, 0), T("chat_adduser", 3, bob, team, 0)}

MCCounts == {1}
MCTimes == 1..MaxClock
MCStorages == {"memory", "mysql"}
MCFirstHeartBits == {0}
MCSymmetry == Permutations(Workers)
================================================================================
