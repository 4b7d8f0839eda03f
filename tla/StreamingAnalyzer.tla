------------------------- MODULE StreamingAnalyzer -------------------------
(***************************************************************************)
(* StreamingAnalyzer of 09-mahjx/src/streaming_analyzer.cpp. An event that *)
(* asks players for a decision, a DRAW or a DISCARD or an UPGRADED_KAN,    *)
(* opens a group with a position for each analysed player who has at least *)
(* two candidates; the events that follow tell what the player did, and    *)
(* close the group.                                                        *)
(***************************************************************************)
EXTENDS GameRecord, Sequences

CONSTANT Mask       \* the players to analyse

ASSUME MaskAssumption == Mask \subseteq Players /\ Mask # {}

VARIABLES
    groups,         \* groups_
    results,        \* what the last consume returned
    analyzerFailed  \* consume threw

analyzerVars == <<groups, results, analyzerFailed>>

IsSideEffect(e) == e.type \in {"DORA", "RIICHI_ACCEPTED"}
CallsOnly(e) == e.type \in Calls
IsResponse(e) == e.type \in Calls \cup {"WIN"}
ResultsForgotten(e) == e.type \in {"DRAW", "ROUND", "END_GAME"}
DrawsForgotten(e) == e.type \in Results \cup {"ROUND", "END_GAME"}
IsBoundary(e) == e.type \in Results \cup {"DRAW", "ROUND", "END_GAME"}

\* A group waits for the DISCARD that completes compound when that is not <<>>.
Group(trigger, positions) ==
    [trigger |-> trigger, positions |-> positions, compound |-> <<>>]

\* A Streaming_Result: what the player did, or <<>> when that is unobserved.
Observed(group, p, actual) == [trigger |-> group.trigger, player |-> p, actual |-> actual]
Unobserved(group, p)       == Observed(group, p, <<>>)

AnalyzerInit ==
    /\ groups = <<>>
    /\ results = {}
    /\ analyzerFailed = FALSE

(***************************************************************************)
(* What an event does to one group: keep it, have it wait for a DISCARD,   *)
(* close it, or throw.                                                     *)
(***************************************************************************)
Outcome(group, e) ==
    CASE IsSideEffect(e) -> "keep"
      [] ~IsSideEffect(e) /\ group.compound # <<>> ->
            IF e.type = "DISCARD" /\ e.player = group.compound[1].player
            THEN "close" ELSE "throw"
      [] ~IsSideEffect(e) /\ group.compound = <<>> /\ group.trigger.type = "DRAW" ->
            IF e.player = group.trigger.player
               /\ e.type \in {"DISCARD", "CONCEALED_KAN", "UPGRADED_KAN", "WIN",
                              "DRAWN_NINE_TERMINALS"}
            THEN "close"
            ELSE IF e.player = group.trigger.player /\ e.type = "RIICHI" THEN "wait"
            ELSE IF IsBoundary(e) THEN "throw"
            ELSE "keep"
      [] OTHER ->
            IF e.type \in {"CHII", "PON"} THEN "wait"
            ELSE IF IsResponse(e) \/ IsBoundary(e) THEN "close"
            ELSE "keep"

\* The actual moves of p when e closes the group, <<>> for a player whose
\* decision somebody else's call or win kept from view.
Actual(group, e, p) ==
    LET played == IF e.type = "DRAWN_NINE_TERMINALS" THEN "NINE_TERMINALS" ELSE e.type
    IN IF group.compound # <<>>
       THEN IF group.trigger.type = "DRAW" \/ p = group.compound[1].player
            THEN <<group.compound[1].type, e.type>> ELSE <<>>
       ELSE IF group.trigger.type = "DRAW" THEN <<played>>
       ELSE IF ~IsResponse(e) THEN <<"PASS">>
       ELSE IF p = e.player THEN <<e.type>> ELSE <<>>

\* advance, on the group and every group behind it.
Closing(e) == {i \in DOMAIN groups : Outcome(groups[i], e) = "close"}
Waiting(group, e) ==
    IF Outcome(group, e) = "wait" THEN [group EXCEPT !.compound = <<e>>] ELSE group
Advanced(e) ==
    LET after[n \in 0 .. Len(groups)] ==
            IF n = 0 THEN <<>>
            ELSE IF Outcome(groups[n], e) = "close" THEN after[n - 1]
            ELSE Append(after[n - 1], Waiting(groups[n], e))
    IN after[Len(groups)]
ClosedBy(e) ==
    UNION {{Observed(groups[i], p, Actual(groups[i], e, p)) : p \in groups[i].positions} :
              i \in Closing(e)}

\* The players a trigger asks.
Reviewed(e) ==
    Mask \cap (IF e.type = "DRAW" THEN {e.player}
              ELSE IF e.type \in {"DISCARD", "UPGRADED_KAN"} THEN Players \ {e.player}
              ELSE {})

\* consume; the reviewer finds at least two candidates for the players deciding.
Consume(e, deciding) ==
    /\ deciding \subseteq Reviewed(e)
    /\ IF \E i \in DOMAIN groups : Outcome(groups[i], e) = "throw"
       THEN /\ analyzerFailed' = TRUE
            /\ results' = {}
            /\ UNCHANGED groups
       ELSE /\ groups' = Advanced(e) \o
                          (IF deciding = {} THEN <<>> ELSE <<Group(e, deciding)>>)
            /\ results' = ClosedBy(e)
            /\ UNCHANGED analyzerFailed
=============================================================================
