-------------------------- MODULE MCMessageRecords --------------------------
(* MessageRecords with two history syncs, which may overlap with each other *)
(* and with whatever else is under way, and two failures: statements that    *)
(* fail, stops of the process, or one of each.                              *)
EXTENDS MessageRecords
=============================================================================
