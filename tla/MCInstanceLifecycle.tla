------------------------ MODULE MCInstanceLifecycle ------------------------
(* InstanceLifecycle with one request at a time beside the start-up code,   *)
(* which is enough for a call to overlap with every event.                  *)
EXTENDS InstanceLifecycle
=============================================================================
