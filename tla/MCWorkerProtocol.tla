-------------------------- MODULE MCWorkerProtocol --------------------------
(***************************************************************************)
(* WorkerProtocol for TLC: two charts, so that the answer to the first one *)
(* is still in the block when the second one is asked for.                 *)
(***************************************************************************)
EXTENDS WorkerProtocol

AllFaults == {"crash", "hang", "throw", "late", "abort"}
=============================================================================
