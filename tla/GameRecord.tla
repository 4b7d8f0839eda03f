----------------------------- MODULE GameRecord -----------------------------
(***************************************************************************)
(* The events of a game record (09-mahjx/src/share/event.hpp, types.cpp)   *)
(* and the rules that the game and the reader of its record both apply to  *)
(* the header h of a round and the event e that ended it.                  *)
(***************************************************************************)
EXTENDS Integers

Players == 0 .. 3
Nobody  == -1
Headers == [dealer : Players, wind : Nat, round : 1 .. 4, ranking : Nat,
            repeat : Nat, deposit : Nat, scores : [Players -> Int]]

\* The player n seats after p.
Seat(p, n) == (p + n) % 4
Sum(f) == f[0] + f[1] + f[2] + f[3]
Count(b) == Sum([p \in Players |-> IF b[p] THEN 1 ELSE 0])

(***************************************************************************)
(* Events. Only results carry scores, and DRAWN_EXHAUSTIVE who was ready.  *)
(***************************************************************************)
Kans    == {"OPEN_KAN", "CONCEALED_KAN", "UPGRADED_KAN"}
Calls   == {"CHII", "PON", "OPEN_KAN"}
Results == {"WIN", "DRAWN_EXHAUSTIVE", "DRAWN_NINE_TERMINALS"}
EventTypes == Kans \cup Calls \cup Results \cup
              {"GAME", "ROUND", "DRAW", "DISCARD", "RIICHI", "RIICHI_ACCEPTED",
               "DORA", "END_GAME"}

NoScores == [p \in Players |-> 0]
NotReady == [p \in Players |-> FALSE]
Events == [type : EventTypes, player : Players \cup {Nobody},
           scores : [Players -> Int], ready : [Players -> BOOLEAN]]

Result(type, p, scores, ready) ==
    [type |-> type, player |-> p, scores |-> scores, ready |-> ready]
Event(type, p) == Result(type, p, NoScores, NotReady)

(***************************************************************************)
(* cal_next_dealer, cal_next_repeat_counter and has_highest_score.         *)
(***************************************************************************)
DealerStays(h, e) ==
    \/ e.type = "DRAWN_NINE_TERMINALS"
    \/ e.type = "WIN" /\ e.player = h.dealer
    \/ e.type = "DRAWN_EXHAUSTIVE" /\ e.ready[h.dealer]

NextDealer(h, e) == IF DealerStays(h, e) THEN h.dealer ELSE Seat(h.dealer, 1)

NextRepeatCounter(h, e) ==
    IF e.type # "WIN" \/ DealerStays(h, e) THEN h.repeat + 1 ELSE 0

HasHighestScore(e, p) == \A q \in Players \ {p} : e.scores[q] < e.scores[p]
=============================================================================
