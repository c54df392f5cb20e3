--------------------------- MODULE MCPollingQueue ---------------------------
(***************************************************************************)
(* Two clients and the server share a pool one node larger than the server *)
(* defers, so that allocation waits for reclamation and node 0 is reused.  *)
(* MaxRequests ends the requests: the queue then rests, as it does when no *)
(* machine asks for anything.                                              *)
(***************************************************************************)
EXTENDS PollingQueue
CONSTANTS p1, p2, s1, s2
=============================================================================
