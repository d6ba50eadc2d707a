------------------------ MODULE MCStreamOrchestrator ------------------------
(* One streamed turn, from the router's loop to the reader's screen.         *)
EXTENDS StreamOrchestrator
=============================================================================
