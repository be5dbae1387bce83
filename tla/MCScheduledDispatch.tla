------------------------ MODULE MCScheduledDispatch ------------------------
(* ScheduledDispatch on two messages and a batch of one, so that one due    *)
(* row waits for a second poll, and a client that may cancel either.        *)
EXTENDS ScheduledDispatch
=============================================================================
