----------------------------- MODULE MCChatClient -----------------------------
(* Instances of ChatClient.                                                    *)
EXTENDS ChatClient

\* What follows two operations of one kind at once is undefined.
UntilClash == ~net.clashed
================================================================================
