---------------------------- MODULE MCMysqlStorage ----------------------------
(* Small instance of MysqlStorage; see MCChatStorage for the bounds.          *)
EXTENDS MysqlStorage, TLC

MCTimes == {1}
MCCounts == {0, 2}
MCFirstHeartBits == {1}
MCSymmetry == Permutations(Names)
==============================================================================
