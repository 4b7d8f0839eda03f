--------------------------- MODULE MCGameManager ---------------------------
(***************************************************************************)
(* GameManager for TLC: rounds that may be the last of a game, with the    *)
(* payments of a hand of the dearest usual kind.                           *)
(***************************************************************************)
EXTENDS GameManager

\* East 4 with a stick on the table, and South 4, which ends the game.
EastFour  == [dealer |-> 3, wind |-> 0, round |-> 4, ranking |-> 3, repeat |-> 2,
              deposit |-> 1, scores |-> [p \in Players |-> IF p = 3 THEN 285 ELSE 235]]
SouthFour == [dealer |-> 3, wind |-> 1, round |-> 4, ranking |-> 7, repeat |-> 0,
              deposit |-> 0, scores |-> [p \in Players |-> 250]]
JustEastFour == {EastFour}
JustSouthFour == {SouthFour}

Mangan == [ronDealer |-> 120, ron |-> 80, lossDealer |-> 40, loss |-> 20]
OnePayment == {Mangan}
=============================================================================
