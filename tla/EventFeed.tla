------------------------------ MODULE EventFeed ------------------------------
(***************************************************************************)
(* What the interactor of 09-mahjx promises whoever trusts its verdict: an *)
(* event is shown to the submission only after every analysis due for the  *)
(* events before it was reported, and the run counts as a success only     *)
(* when the whole record was shown and every analysis reported.            *)
(***************************************************************************)
EXTENDS Naturals

CONSTANTS
    Due,            \* Due[k], k \in 1 .. n: the players whose analysis event k
                    \* calls for
    Results         \* how a run may end

VARIABLES
    shown,          \* how many events the submission was shown
    answered,       \* the analyses it reported, by event
    result          \* how the run ended, or "none"

feedVars == <<shown, answered, result>>

Events   == DOMAIN Due
Settled(k) == answered[k] = Due[k]

FeedInit ==
    /\ shown = 0
    /\ answered = [k \in Events |-> {}]
    /\ result = "none"

Show ==
    /\ result = "none"
    /\ shown + 1 \in Events
    /\ \A k \in 1 .. shown : Settled(k)
    /\ shown' = shown + 1
    /\ UNCHANGED <<answered, result>>

Answer ==
    /\ \E k \in 1 .. shown : \E p \in Due[k] \ answered[k] :
        answered' = [answered EXCEPT ![k] = @ \cup {p}]
    /\ UNCHANGED <<shown, result>>

Finish ==
    /\ result = "none"
    /\ result' \in Results
    /\ result' = "zero" => \A k \in Events : k <= shown /\ Settled(k)
    /\ UNCHANGED <<shown, answered>>

FeedNext == Show \/ Answer \/ Finish

FeedSpec == FeedInit /\ [][FeedNext]_feedVars
=============================================================================
