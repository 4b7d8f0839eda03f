--------------------------- MODULE MCRuneScenario ---------------------------
(***************************************************************************)
(* RuneScenario for TLC: two decisions are the least for a late reply to   *)
(* be taken for that of another step; three faults use up the attempts of  *)
(* a request.                                                              *)
(***************************************************************************)
EXTENDS RuneScenario
=============================================================================
