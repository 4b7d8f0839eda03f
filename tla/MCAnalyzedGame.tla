--------------------------- MODULE MCAnalyzedGame ---------------------------
(***************************************************************************)
(* AnalyzedGame for TLC: South 3 with a stick on the table, so that a      *)
(* second round may follow, be it of the same dealer.                      *)
(***************************************************************************)
EXTENDS AnalyzedGame

SouthThree == {[dealer |-> 2, wind |-> 1, round |-> 3, ranking |-> 6, repeat |-> 1,
                deposit |-> 1, scores |-> [p \in Players |-> IF p = 1 THEN 285 ELSE 235]]}
Cheap == {[ronDealer |-> 15, ron |-> 10, lossDealer |-> 5, loss |-> 3]}
=============================================================================
