---------------------------- MODULE AnalyzedGame ----------------------------
(***************************************************************************)
(* A game, its record and the analysis of the record: what GameManager     *)
(* writes goes line by line through RecordParser and event by event into   *)
(* StreamingAnalyzer, as in run_full_analyze_protocol. The reader never    *)
(* influences the game, so the game waits here until every line is read.   *)
(***************************************************************************)
EXTENDS GameManager, RecordParser, StreamingAnalyzer

VARIABLES
    unread,     \* events of the record of which not every line is read
    linesRead,  \* how many lines of the first of them are
    chosen      \* what the players last asked decided, by player

allVars == <<vars, parserVars, analyzerVars, unread, linesRead, chosen>>

AnalyzedInit ==
    /\ Init
    /\ ParserInit
    /\ AnalyzerInit
    /\ unread = wrote
    /\ linesRead = 0
    /\ chosen = <<>>

\* A step of the game, and the events it adds to the record.
Play ==
    /\ unread = <<>>
    /\ \/ /\ FirstDraw \/ AfterConcealedKan \/ AfterOpenKan \/ EndGame \/ NextRound
          /\ UNCHANGED chosen
       \/ \E m \in OwnMoves :
             /\ MoveAfterDraw(m)
             /\ chosen' = [p \in {rec.last.player} |-> m]
       \/ \E c \in Answers(rec) :
             /\ MoveAfterDiscard(c)
             /\ chosen' = c
    /\ unread' = wrote'
    /\ results' = {}
    /\ UNCHANGED <<parserVars, groups, analyzerFailed, linesRead>>

\* One line less to read, in the order of write_game_record.
Advance ==
    IF linesRead + 1 = Len(LinesOf(Head(unread)))
    THEN unread' = Tail(unread) /\ linesRead' = 0
    ELSE unread' = unread /\ linesRead' = linesRead + 1

\* run_full_analyze_protocol reads a line; a throw ends it.
ReadLine ==
    /\ unread # <<>>
    /\ ~parserFailed /\ ~analyzerFailed
    /\ FeedLine(LinesOf(Head(unread))[linesRead + 1], origin)
    /\ IF emitted' = <<>>
       THEN results' = {} /\ UNCHANGED <<groups, analyzerFailed>>
       ELSE \E deciding \in SUBSET Reviewed(emitted'[1]) : Consume(emitted'[1], deciding)
    /\ Advance
    /\ UNCHANGED <<vars, chosen>>

AnalyzedNext == Play \/ ReadLine

AnalyzedSpec == AnalyzedInit /\ [][AnalyzedNext]_allVars

-----------------------------------------------------------------------------

(***************************************************************************)
(* The record of a game can be read and analysed: neither feed_line nor    *)
(* consume ever throws on it, and wherever the record may end (finish of   *)
(* the parser returns) no decision is left open, so that finish of the     *)
(* analyzer returns too.                                                   *)
(***************************************************************************)
RecordAccepted ==
    /\ ~parserFailed
    /\ ~analyzerFailed
    /\ MayEnd => groups = <<>>

(***************************************************************************)
(* A ROUND line has neither scores nor sticks nor a dealer. What the       *)
(* parser works out for a round is what the game played it with, and it    *)
(* keeps count of the sticks as get_deposit does.                          *)
(***************************************************************************)
HeaderMatches ==
    unread = <<>> /\ ~rec.won /\ rec.last.type # "END_GAME" =>
        fields = [header EXCEPT !.deposit = Deposit(header, rec)]

(***************************************************************************)
(* What the analyzer reports as a player's actual move is what the player  *)
(* decided when asked, also when the events between leave only a guess,    *)
(* such as PASS for everyone when the next player draws.                   *)
(***************************************************************************)
ClosedAsPlayed ==
    \A r \in results : r.actual # <<>> => r.actual[1] = chosen[r.player]

(***************************************************************************)
(* groups_ is a vector, and advance goes through all of it, but a decision *)
(* is closed before the next one is opened.                                *)
(***************************************************************************)
OneOpenDecision == Len(groups) <= 1
=============================================================================
