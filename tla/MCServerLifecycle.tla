--------------------------- MODULE MCServerLifecycle ---------------------------
(* Instances of ServerLifecycle.                                                *)
EXTENDS ServerLifecycle
================================================================================
