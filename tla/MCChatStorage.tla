---------------------------- MODULE MCChatStorage ----------------------------
(* Small instance of ChatStorage: two names that users and group chats      *)
(* compete for (so up to two users and four chats), one clock value.        *)
EXTENDS ChatStorage, TLC

MCTimes == {1}
MCCounts == {0, 1}
MCFirstHeartBits == {0}
MCSymmetry == Permutations(Names)

==============================================================================
