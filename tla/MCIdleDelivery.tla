----------------------------- MODULE MCIdleDelivery -----------------------------
(* Instances of IdleDelivery.                                                    *)
EXTENDS IdleDelivery

\* The run follows a connection until two of its writes clash: the properties say
\* nothing about what comes after.
UntilClash == \A c \in Conns : ~clashed[c]
================================================================================
