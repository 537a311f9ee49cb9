----------------------------- MODULE MCApiServer -----------------------------
(* Instances of ApiServer.                                                   *)
EXTENDS ApiServer, TLC

Req(resource, valid, auth_) == [resource |-> resource, valid |-> valid, auth |-> auth_]

\* One request of every way a request is routed; polls have valid credentials.
MCRoutedRequests ==
    {Req("idle", TRUE, TRUE), Req("command", TRUE, TRUE), Req("user_create", TRUE, TRUE),
     Req("command", FALSE, TRUE), Req("group_history", TRUE, TRUE),
     Req("unknown", FALSE, TRUE), Req("malformed", FALSE, TRUE)}

\* Two connections share an IoThread, or each has its own.
CONSTANTS c1, c2, t1, t2
MCPlacements == {[c \in Conns |-> t1], [c \in Conns |-> IF c = c1 THEN t1 ELSE t2]}

\* What it takes to poll with credentials that do not hold.
MCIdleRequests == {Req("idle", TRUE, FALSE), Req("command", TRUE, TRUE)}
==============================================================================
