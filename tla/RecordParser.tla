---------------------------- MODULE RecordParser ----------------------------
(***************************************************************************)
(* RecordParser of 09-mahjx/src/share/record_io.cpp: the lines of a game   *)
(* record are fed to it one by one and it returns the events they make up. *)
(* A ROUND line does not repeat the dealer, the round, the sticks and the  *)
(* scores; the parser works them out from the result before it.            *)
(*                                                                         *)
(* A line is a record [name, event, seat]: of an ACTION line the event, of *)
(* a HAND line the seat. Tiles, numbers of fields and event numbers, which *)
(* the parser also checks, are left out.                                   *)
(***************************************************************************)
EXTENDS GameRecord, Sequences

VARIABLES
    lastEvent,      \* <<last_event_>>, or <<>> without one
    pendingEvent,   \* pending_event_
    pending,        \* NONE, WIN_RESULT or HANDS
    handMask,       \* hand_mask_: whose HAND line came
    flags,          \* have_game_, first_round_, ended_, result_complete_
    fields,         \* dealer_, round_wind_, round_, ..., scores_
    emitted,        \* the events the last feed_line returned
    parserFailed    \* feed_line threw

parserVars ==
    <<lastEvent, pendingEvent, pending, handMask, flags, fields, emitted, parserFailed>>

Owners  == {"ROUND", "DRAWN_EXHAUSTIVE", "DRAWN_NINE_TERMINALS"}
NoEvent == Event("GAME", Nobody)

Line(name, e, seat) == [name |-> name, event |-> e, seat |-> seat]

(***************************************************************************)
(* write_game_record: the lines of an event.                               *)
(***************************************************************************)
LinesOf(e) ==
    CASE e.type \in {"GAME", "END_GAME"} -> <<Line(e.type, e, Nobody)>>
      [] e.type \in Owners ->
            <<Line(e.type, e, Nobody)>> \o [n \in 1 .. 4 |-> Line("HAND", e, n - 1)]
      [] e.type = "WIN" -> <<Line("ACTION", e, Nobody), Line("WIN_RESULT", e, Nobody)>>
      [] OTHER -> <<Line("ACTION", e, Nobody)>>

ParserInit ==
    /\ lastEvent = <<>>
    /\ pendingEvent = NoEvent
    /\ pending = "NONE"
    /\ handMask = {}
    /\ flags = [game |-> FALSE, firstRound |-> TRUE, ended |-> FALSE, result |-> FALSE]
    /\ fields = [dealer |-> 0, wind |-> 0, round |-> 1, ranking |-> 0,
                 repeat |-> 0, deposit |-> 0, scores |-> NoScores]
    /\ emitted = <<>>
    /\ parserFailed = FALSE

AfterResult == lastEvent # <<>> /\ lastEvent[1].type \in Results

(***************************************************************************)
(* What feed_line throws for.                                              *)
(***************************************************************************)
OutOfPlace(line) ==
    \/ flags.ended
    \/ flags.game /\ flags.firstRound /\ line.name # "ROUND"
    \/ flags.result /\ line.name \notin {"ROUND", "END_GAME"}
    \/ pending = "WIN_RESULT" /\ line.name # "WIN_RESULT"
    \/ pending = "HANDS" /\ line.name # "HAND"
    \/ flags.game <=> line.name = "GAME"
    \/ line.name = "ROUND" /\ ~flags.firstRound /\ ~AfterResult
    \/ line.name = "END_GAME" /\ ~AfterResult
    \/ line.name = "WIN_RESULT" /\ pending # "WIN_RESULT"
    \/ line.name = "HAND" /\
          \/ pending # "HANDS"
          \/ line.seat \in handMask
          \/ pendingEvent.type = "ROUND" /\ handMask # {p \in Players : p < line.seat}

\* The events of a complete record are returned at once.
Emit(e) ==
    /\ emitted' = <<e>>
    /\ lastEvent' = <<e>>

\* The event waits for the lines that belong to it.
Await(e, what) ==
    /\ pendingEvent' = e
    /\ pending' = what
    /\ emitted' = <<>>
    /\ UNCHANGED lastEvent

FeedGame(line, game) ==
    /\ line.name = "GAME"
    /\ Emit(line.event)
    /\ flags' = [flags EXCEPT !.game = TRUE]
    /\ fields' = game
    /\ UNCHANGED <<pendingEvent, pending, handMask>>

SticksKept(h, e) == h.deposit
CarriedDeposit(h, e) == IF e.type = "WIN" THEN 0 ELSE h.deposit

\* The header of the next round, from that of the last one and its result.
NextFields(h, e) ==
    LET moved == NextDealer(h, e) # h.dealer
    IN [dealer  |-> NextDealer(h, e),
        wind    |-> IF moved /\ h.round = 4 THEN h.wind + 1 ELSE h.wind,
        round   |-> IF ~moved THEN h.round ELSE IF h.round = 4 THEN 1 ELSE h.round + 1,
        ranking |-> IF moved THEN h.ranking + 1 ELSE h.ranking,
        repeat  |-> NextRepeatCounter(h, e),
        deposit |-> CarriedDeposit(h, e),
        scores  |-> e.scores]

FeedRound(line) ==
    /\ line.name = "ROUND"
    /\ fields' = IF flags.firstRound THEN fields ELSE NextFields(fields, lastEvent[1])
    /\ Await(Event("ROUND", Nobody), "HANDS")
    /\ handMask' = {}
    /\ flags' = [flags EXCEPT !.firstRound = FALSE, !.result = FALSE]

FeedAction(line) ==
    /\ line.name = "ACTION"
    /\ fields' = IF line.event.type = "RIICHI_ACCEPTED"
                 THEN [fields EXCEPT !.deposit = @ + 1] ELSE fields
    /\ IF line.event.type = "WIN"
       THEN Await(line.event, "WIN_RESULT")
       ELSE Emit(line.event) /\ UNCHANGED <<pendingEvent, pending>>
    /\ handMask' = {}
    /\ flags' = [flags EXCEPT !.result = FALSE]

FeedWinResult(line) ==
    /\ line.name = "WIN_RESULT"
    /\ Emit(pendingEvent)
    /\ pending' = "NONE"
    /\ flags' = [flags EXCEPT !.result = TRUE]
    /\ UNCHANGED <<pendingEvent, handMask, fields>>

FeedDrawn(line) ==
    /\ line.name \in {"DRAWN_EXHAUSTIVE", "DRAWN_NINE_TERMINALS"}
    /\ Await(line.event, "HANDS")
    /\ handMask' = {}
    /\ UNCHANGED <<flags, fields>>

FeedHand(line) ==
    /\ line.name = "HAND"
    /\ handMask' = handMask \cup {line.seat}
    /\ IF handMask' = Players
       THEN /\ Emit(pendingEvent)
            /\ pending' = "NONE"
            /\ flags' = [flags EXCEPT !.result = pendingEvent.type \in Results]
       ELSE /\ emitted' = <<>>
            /\ UNCHANGED <<lastEvent, pending, flags>>
    /\ UNCHANGED <<pendingEvent, fields>>

FeedEndGame(line) ==
    /\ line.name = "END_GAME"
    /\ Emit(line.event)
    /\ flags' = [flags EXCEPT !.ended = TRUE]
    /\ UNCHANGED <<pendingEvent, pending, handMask, fields>>

\* feed_line; game is what a GAME line says.
FeedLine(line, game) ==
    IF OutOfPlace(line)
    THEN /\ parserFailed' = TRUE
         /\ emitted' = <<>>
         /\ UNCHANGED <<lastEvent, pendingEvent, pending, handMask, flags, fields>>
    ELSE /\ UNCHANGED parserFailed
         /\ \/ FeedGame(line, game)
            \/ FeedRound(line)
            \/ FeedAction(line)
            \/ FeedWinResult(line)
            \/ FeedDrawn(line)
            \/ FeedHand(line)
            \/ FeedEndGame(line)

\* finish() returns: the record may end here.
MayEnd ==
    /\ flags.game
    /\ pending = "NONE"
    /\ lastEvent # <<>> /\ lastEvent[1].type \in Results \cup {"END_GAME"}
=============================================================================
