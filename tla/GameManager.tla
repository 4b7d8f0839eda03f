---------------------------- MODULE GameManager ----------------------------
(***************************************************************************)
(* The rules of a game in 09-mahjx/src: game_loop and proceed_game of      *)
(* game_manager.cpp, with the legality checks of share/make_move.cpp and   *)
(* the queries of share/types.cpp that read the game record. A step is one *)
(* call of proceed_game, in which all four seats are played by the AI.     *)
(*                                                                         *)
(* The record itself is not kept. Every query scans it back to the last    *)
(* ROUND, so rec holds what they find there, event after event.            *)
(*                                                                         *)
(* Hands are left out: a move is possible when the code's conditions on    *)
(* the record allow it, whatever the hand would have to hold. Two things   *)
(* that only the hands rule out are kept: a player has no more melds than  *)
(* thirteen tiles make, and two players cannot both hold enough of a tile  *)
(* to call it. Scores are counted in hundreds of points.                   *)
(***************************************************************************)
EXTENDS GameRecord, Sequences, FiniteSets

CONSTANTS
    Dealt,      \* tiles dealt at the start of a round: 13 * 4
    LastDraw,   \* draws in a round: 70
    WallSize,   \* tiles in the wall: 136
    HandMelds,  \* melds a hand of thirteen tiles has room for: 4
    Origins,    \* config.games: where a game starts
    Payments,   \* what a win may be worth
    MaxRounds   \* bound: how many rounds are played

ASSUME GameAssumption ==
    /\ Dealt \in Nat
    /\ LastDraw \in Nat \ {0}
    /\ WallSize = Dealt + LastDraw + 14
    /\ HandMelds \in Nat
    /\ Origins \subseteq Headers
    /\ Payments \subseteq [ronDealer : Nat, ron : Nat, lossDealer : Nat, loss : Nat]
    /\ MaxRounds \in Nat \ {0}

VARIABLES
    origin,     \* the Game_Origin of this game
    header,     \* the fields of the last ROUND event
    rec,        \* what the record says since that event
    wrote,      \* the events the last call appended to the record
    rounds      \* how many rounds were begun (for MaxRounds)

vars == <<origin, header, rec, wrote, rounds>>

(***************************************************************************)
(* The record since the last ROUND: its last three types and what          *)
(* get_game_state, get_deposit and count_tsumo_num find in it.             *)
(***************************************************************************)
Records ==
    [last : Events, prev : EventTypes, prev2 : EventTypes,
     live : Nat, dead : Nat, doras : Nat, won : BOOLEAN,
     declared : [Players -> BOOLEAN], accepted : [Players -> BOOLEAN],
     river : [Players -> BOOLEAN], open : [Players -> BOOLEAN],
     melds : [Players -> 0 .. HandMelds], pons : [Players -> 0 .. HandMelds]]

FreshRecord ==
    [last |-> Event("ROUND", Nobody), prev |-> "ROUND", prev2 |-> "ROUND",
     live |-> 0, dead |-> 0, doras |-> 1, won |-> FALSE,
     declared |-> NotReady, accepted |-> NotReady,
     river |-> NotReady, open |-> NotReady,
     melds |-> NoScores, pons |-> NoScores]

\* count_tsumo_num_all.
Draws(r) == r.live + r.dead

\* Whether count_tsumo_num counts a DRAW that comes now for the dead wall.
FromDeadWall(r) ==
    \/ r.last.type \in {"OPEN_KAN", "UPGRADED_KAN"}
    \/ r.last.type = "DORA" /\ r.prev = "CONCEALED_KAN"

Mark(b, e, types) ==
    [p \in Players |-> b[p] \/ (e.type \in types /\ e.player = p)]
Tally(n, e, types) ==
    [p \in Players |-> n[p] + IF e.type \in types /\ e.player = p THEN 1 ELSE 0]
Untally(n, e, types) ==
    [p \in Players |-> n[p] - IF e.type \in types /\ e.player = p THEN 1 ELSE 0]

AfterEvent(r, e) ==
    [last     |-> e,
     prev     |-> r.last.type,
     prev2    |-> r.prev,
     live     |-> r.live + IF e.type = "DRAW" /\ ~FromDeadWall(r) THEN 1 ELSE 0,
     dead     |-> r.dead + IF e.type = "DRAW" /\ FromDeadWall(r) THEN 1 ELSE 0,
     doras    |-> r.doras + IF e.type = "DORA" THEN 1 ELSE 0,
     won      |-> r.won \/ e.type = "WIN",
     declared |-> Mark(r.declared, e, {"RIICHI"}),
     accepted |-> Mark(r.accepted, e, {"RIICHI_ACCEPTED"}),
     river    |-> Mark(r.river, e, {"DISCARD"}),
     open     |-> Mark(r.open, e, Calls),
     melds    |-> Tally(r.melds, e, Calls \cup {"CONCEALED_KAN"}),
     pons     |-> Untally(Tally(r.pons, e, {"PON"}), e, {"UPGRADED_KAN"})]

\* At most two events are appended together.
AfterEvents(r, batch) ==
    CASE Len(batch) = 0 -> r
      [] Len(batch) = 1 -> AfterEvent(r, batch[1])
      [] Len(batch) = 2 -> AfterEvent(AfterEvent(r, batch[1]), batch[2])

\* A call of proceed_game appends what settles the last discard, and a move.
Write(settled, move) ==
    /\ wrote' = settled \o move
    /\ rec' = AfterEvents(AfterEvents(rec, settled), move)
    /\ UNCHANGED <<origin, header, rounds>>

\* player_state[p].score and get_deposit.
Scores(h, r) ==
    [p \in Players |-> h.scores[p] - IF r.accepted[p] THEN 10 ELSE 0]
KeptDeposit(h, r) == h.deposit + Count(r.accepted)
Deposit(h, r) == IF r.won THEN 0 ELSE h.deposit + Count(r.accepted)

(***************************************************************************)
(* What share/make_move.cpp lets a player do, as far as the record tells.  *)
(* A meld takes three tiles of the hand, so that a fifth never finds its   *)
(* tiles.                                                                  *)
(***************************************************************************)
OwnMoves  == {"DISCARD", "RIICHI", "CONCEALED_KAN", "UPGRADED_KAN", "WIN", "NINE_TERMINALS"}
Responses == Calls \cup {"WIN", "PASS"}

IsLegalRiichi(r, p) == ~r.declared[p] /\ ~r.accepted[p] /\ ~r.open[p]
IsLegalConcealedKan(r, p) == Draws(r) <= LastDraw /\ r.melds[p] < HandMelds
UpgradesAnything(r, p) == Draws(r) <= LastDraw
IsLegalUpgradedKan(r, p) == Draws(r) <= LastDraw /\ r.pons[p] > 0
IsLegalNineTerminals(r, p) == ~r.river[p] /\ \A q \in Players : r.melds[q] = 0
IsLegalCall(r, p) ==
    /\ r.last.type = "DISCARD"
    /\ ~r.accepted[p]
    /\ Draws(r) # LastDraw
    /\ r.melds[p] < HandMelds

\* get_all_legal_moves after p's own draw.
LegalAfterDraw(r, p) ==
    {m \in OwnMoves :
        /\ m = "RIICHI" => IsLegalRiichi(r, p)
        /\ m = "CONCEALED_KAN" => IsLegalConcealedKan(r, p)
        /\ m = "UPGRADED_KAN" => IsLegalUpgradedKan(r, p)
        /\ m = "NINE_TERMINALS" => IsLegalNineTerminals(r, p)}

EveryLegalMove(r, p) == LegalAfterDraw(r, p)
\* The AI weighs a kan only while there is a tile to replace it.
AiMoves(r, p) == {m \in LegalAfterDraw(r, p) : m \in Kans => Draws(r) < LastDraw}

\* get_all_legal_moves of p after a DISCARD or an UPGRADED_KAN of another player:
\* a kan can be won on, but PASS is a move only where there was a discard.
LegalResponses(r, p) ==
    {m \in Responses :
        /\ m \in Calls => IsLegalCall(r, p)
        /\ m = "CHII" => p = Seat(r.last.player, 1)
        /\ m = "PASS" => r.last.type = "DISCARD"}

\* What require_moves_after_discard has p answer: a legal move, or PASS of a
\* player whose hand leaves none.
AnswersOf(r, p) == LegalResponses(r, p) \cup {"PASS"}

\* What the others may answer together: of four equal tiles one is in the river,
\* so only one of them holds the two or three that PON or OPEN_KAN takes.
Asked(r) ==
    IF r.last.type \in {"DISCARD", "UPGRADED_KAN"} THEN Players \ {r.last.player} ELSE {}
Answers(r) ==
    LET legal == [p \in Asked(r) |-> AnswersOf(r, p)]
    IN {c \in [Asked(r) -> UNION {legal[p] : p \in Asked(r)}] :
          /\ \A p \in Asked(r) : c[p] \in legal[p]
          /\ \A p, q \in Asked(r) :
                c[p] \in {"PON", "OPEN_KAN"} /\ c[q] \in {"PON", "OPEN_KAN"} => p = q}

(***************************************************************************)
(* share/win_points.cpp. A payment pay is what the hand is worth: ron to   *)
(* the winner from the discarder, or loss from each of the others, with    *)
(* its value for a dealer under ronDealer and lossDealer. As in            *)
(* tsumo_win_loss a dealer collects lossDealer from everyone.              *)
(***************************************************************************)
TsumoLoss(pay, p, who) ==
    (IF header.dealer \in {p, who} THEN pay.lossDealer ELSE pay.loss) + header.repeat
TsumoGain(pay, who) ==
    IF header.dealer = who
    THEN 3 * pay.lossDealer
    ELSE pay.lossDealer + 2 * pay.loss
Ron(pay, who) == IF header.dealer = who THEN pay.ronDealer ELSE pay.ron

PointsMoveWin(who, from, pay) ==
    [p \in Players |->
        IF who = from
        THEN IF p = who THEN TsumoGain(pay, who) + 3 * header.repeat + 10 * Deposit(header, rec)
                        ELSE -TsumoLoss(pay, p, who)
        ELSE IF p = who THEN Ron(pay, who) + 3 * header.repeat + 10 * Deposit(header, rec)
             ELSE IF p = from THEN -(Ron(pay, who) + 3 * header.repeat)
             ELSE 0]

PointsMoveDrawn(ready) ==
    LET n == Count(ready)
    IN [p \in Players |->
           CASE n = 1 -> IF ready[p] THEN 30 ELSE -10
             [] n = 2 -> IF ready[p] THEN 15 ELSE -15
             [] n = 3 -> IF ready[p] THEN 10 ELSE -30
             [] OTHER -> 0]

Plus(f, g) == [p \in Players |-> f[p] + g[p]]

(***************************************************************************)
(* One call of proceed_game.                                               *)
(***************************************************************************)
Init ==
    /\ origin \in Origins
    /\ header = origin
    /\ rec = FreshRecord
    /\ wrote = <<Event("GAME", Nobody), Event("ROUND", Nobody)>>
    /\ rounds = 1

\* The result of a round, with the scores after the points have moved.
WriteResult(type, p, moved, ready) ==
    Write(<<>>, <<Result(type, p, Plus(Scores(header, rec), moved), ready)>>)

FirstDraw ==
    /\ rec.last.type = "ROUND"
    /\ rounds <= MaxRounds
    /\ Write(<<>>, <<Event("DRAW", header.dealer)>>)

\* add_move_after_tsumo: the player who drew makes move m.
MoveAfterDraw(m) ==
    LET p == rec.last.player
    IN /\ rec.last.type = "DRAW"
       /\ m \in AiMoves(rec, p)
       /\ \/ /\ m = "WIN"
             /\ \E pay \in Payments : WriteResult("WIN", p, PointsMoveWin(p, p, pay), NotReady)
          \/ /\ m = "NINE_TERMINALS"
             /\ WriteResult("DRAWN_NINE_TERMINALS", p, NoScores, NotReady)
          \/ /\ m = "RIICHI"
             /\ Write(<<>>, <<Event("RIICHI", p), Event("DISCARD", p)>>)
          \/ /\ m \in {"DISCARD", "CONCEALED_KAN", "UPGRADED_KAN"}
             /\ Write(<<>>, <<Event(m, p)>>)

AfterConcealedKan ==
    /\ rec.last.type = "CONCEALED_KAN"
    /\ Write(<<>>, <<Event("DORA", Nobody), Event("DRAW", rec.last.player)>>)

AfterUpgradedKanOnly ==
    /\ rec.last.type = "UPGRADED_KAN"
    /\ Write(<<>>, <<Event("DRAW", rec.last.player)>>)

AfterOpenKan ==
    /\ rec.last.type = "OPEN_KAN"
    /\ Write(<<>>, <<Event("DRAW", rec.last.player)>>)

\* The first player behind target, in seat order, whose answer is one of moves.
FirstResponder(target, c, moves) ==
    LET asking == {n \in 1 .. 3 : c[Seat(target, n)] \in moves}
    IN IF asking = {} THEN Nobody
       ELSE Seat(target, CHOOSE n \in asking : \A k \in asking : n <= k)

LooksTooFarBack(r) ==
    IF r.prev2 = "RIICHI" THEN <<Event("RIICHI_ACCEPTED", r.last.player)>> ELSE <<>>

\* add_accept_riichi_or_dora_if_necessary.
AcceptRiichiOrDora(r) ==
    IF r.prev = "RIICHI"
    THEN <<Event("RIICHI_ACCEPTED", r.last.player)>>
    ELSE IF r.prev = "DRAW" /\ r.prev2 \in {"OPEN_KAN", "UPGRADED_KAN"}
         THEN <<Event("DORA", Nobody)>>
         ELSE <<>>

\* A call with the discard that comes with it; OPEN_KAN has none.
CallOf(p, m) ==
    IF m = "OPEN_KAN" THEN <<Event(m, p)>> ELSE <<Event(m, p), Event("DISCARD", p)>>

\* add_move_after_discard, the others having answered c: the first to win does,
\* the wall may be empty, then PON and OPEN_KAN go before CHII and that before
\* the draw of the next player.
MoveAfterDiscard(c) ==
    LET target == rec.last.player
        winner == FirstResponder(target, c, {"WIN"})
        taker  == FirstResponder(target, c, {"PON", "OPEN_KAN"})
        next   == Seat(target, 1)
    IN /\ rec.last.type \in {"DISCARD", "UPGRADED_KAN"}
       /\ c \in Answers(rec)
       /\ IF winner # Nobody
          THEN \E pay \in Payments :
                  WriteResult("WIN", winner, PointsMoveWin(winner, target, pay), NotReady)
          ELSE IF Draws(rec) = LastDraw
          THEN \E ready \in [Players -> BOOLEAN] :
                  /\ \A p \in Players : rec.accepted[p] => ready[p]
                  /\ WriteResult("DRAWN_EXHAUSTIVE", Nobody, PointsMoveDrawn(ready), ready)
          ELSE IF rec.last.type = "UPGRADED_KAN"
          THEN Write(<<>>, <<Event("DRAW", target)>>)
          ELSE Write(AcceptRiichiOrDora(rec),
                     IF taker # Nobody THEN CallOf(taker, c[taker])
                     ELSE IF c[next] = "CHII" THEN CallOf(next, "CHII")
                     ELSE <<Event("DRAW", next)>>)

(***************************************************************************)
(* add_next_round_or_end_game. The rule is "tonpu": an east-round game.    *)
(***************************************************************************)
IsLastRound(h) == h.wind = 1 \/ (h.wind = 0 /\ h.round = 4)
IsDefiniteLastRound(h) == h.wind = 1 /\ h.round = 4

GameOver(h, e) ==
    /\ e.type # "DRAWN_NINE_TERMINALS"
    /\ IF DealerStays(h, e)
       THEN /\ HasHighestScore(e, h.dealer)
            /\ \/ IsDefiniteLastRound(h)
               \/ IsLastRound(h) /\ e.scores[h.dealer] >= 300
       ELSE \/ IsDefiniteLastRound(h)
            \/ IsLastRound(h) /\ \E p \in Players : e.scores[p] >= 300

NextHeader(h, e) ==
    [dealer  |-> NextDealer(h, e),
     wind    |-> IF ~DealerStays(h, e) /\ h.round = 4 THEN h.wind + 1 ELSE h.wind,
     round   |-> IF DealerStays(h, e) THEN h.round
                 ELSE IF h.round = 4 THEN 1 ELSE h.round + 1,
     ranking |-> IF NextDealer(h, e) = h.dealer THEN h.ranking ELSE h.ranking + 1,
     repeat  |-> NextRepeatCounter(h, e),
     deposit |-> Deposit(header, rec),
     scores  |-> e.scores]

EndGame ==
    /\ rec.last.type \in Results
    /\ GameOver(header, rec.last)
    /\ Write(<<>>, <<Result("END_GAME", Nobody, rec.last.scores, NotReady)>>)

NextRound ==
    /\ rec.last.type \in Results
    /\ ~GameOver(header, rec.last)
    /\ header' = NextHeader(header, rec.last)
    /\ rec' = FreshRecord
    /\ wrote' = <<Event("ROUND", Nobody)>>
    /\ rounds' = rounds + 1
    /\ UNCHANGED origin

Next ==
    \/ FirstDraw
    \/ \E m \in OwnMoves : MoveAfterDraw(m)
    \/ AfterConcealedKan
    \/ AfterOpenKan
    \/ \E c \in Answers(rec) : MoveAfterDiscard(c)
    \/ EndGame
    \/ NextRound

\* game_loop calls proceed_game until the game has ended.
Spec == Init /\ [][Next]_vars /\ WF_vars(Next)

-----------------------------------------------------------------------------

TypeOK ==
    /\ origin \in Origins
    /\ header \in Headers
    /\ rec \in Records
    /\ wrote \in Seq(Events)
    /\ rounds \in Nat

(***************************************************************************)
(* Points are moved and never made: the scores and the riichi sticks on    *)
(* the table, which add_next_round_or_end_game carries over and a win      *)
(* collects, add up to those of the Game_Origin in every state.            *)
(***************************************************************************)
Points(h, r) ==
    IF r.last.type \in Results \cup {"END_GAME"} THEN r.last.scores ELSE Scores(h, r)
PointsConserved ==
    Sum(Points(header, rec)) + 10 * Deposit(header, rec) =
        Sum(origin.scores) + 10 * origin.deposit

(***************************************************************************)
(* A round takes no tile of the wall twice. The assertion of               *)
(* count_tsumo_num (at most LastDraw draws, those from the dead wall       *)
(* included) holds, and up to the fourth kan the tiles drawn, those drawn  *)
(* from the dead wall, the dora and the underneath dora indicators are     *)
(* different tiles, none of them dealt.                                    *)
(***************************************************************************)
LiveTiles  == {Dealt + i : i \in 0 .. rec.live - 1}
DeadTiles  == {WallSize - 1 - i : i \in 0 .. rec.dead - 1}
DoraTiles  == {WallSize - 6 - 2 * i : i \in 0 .. rec.doras - 1}
UnderTiles == {WallSize - 5 - 2 * i : i \in 0 .. rec.doras - 1}
WallRespected ==
    /\ Draws(rec) <= LastDraw
    /\ rec.dead <= 4 =>
          /\ LiveTiles \cap (DeadTiles \cup DoraTiles \cup UnderTiles) = {}
          /\ DeadTiles \cap (DoraTiles \cup UnderTiles) = {}
          /\ DoraTiles \cap UnderTiles = {}

(***************************************************************************)
(* A riichi is not lost: unless the round ended on the discard that        *)
(* declared it, whatever the others then call, it is accepted and paid     *)
(* for before the next move.                                               *)
(***************************************************************************)
RiichiSettled ==
    \A p \in Players : rec.declared[p] /\ ~rec.accepted[p] =>
        \/ rec.last.type = "DISCARD" /\ rec.prev = "RIICHI" /\ rec.last.player = p
        \/ rec.last.type \in Results \cup {"END_GAME"}

(***************************************************************************)
(* Every round that is begun comes to a result: the calls and kans, which  *)
(* go back to earlier seats and draw from the dead wall, use up the wall.  *)
(***************************************************************************)
RoundEnds ==
    rec.last.type = "ROUND" /\ rounds <= MaxRounds ~> rec.last.type \in Results

(***************************************************************************)
(* What make_move.cpp says beside its two tests of the number of draws:    *)
(* "A concealed kan is not possible on the last draw" and "An upgraded kan *)
(* is not possible on the last draw". The legal moves that the legal_action *)
(* command prints are those of LegalAfterDraw.                             *)
(***************************************************************************)
NoKanOnLastDraw ==
    rec.last.type = "DRAW" /\ Draws(rec) = LastDraw =>
        LegalAfterDraw(rec, rec.last.player) \cap Kans = {}
=============================================================================
