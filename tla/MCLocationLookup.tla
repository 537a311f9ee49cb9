---------------------------- MODULE MCLocationLookup ----------------------------
(* Instances of LocationLookup.                                                  *)
EXTENDS LocationLookup
=================================================================================
