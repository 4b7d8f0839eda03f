----------------------------- MODULE DecisionLog -----------------------------
(***************************************************************************)
(* What the scheduler of 06-rune promises about one scenario, whatever     *)
(* happens to its messages: the policy decides each decision once,         *)
(* in order, the cluster accepts each answer once before the next question *)
(* is put, and a result that is reported is the one the cluster came to.   *)
(***************************************************************************)
EXTENDS Naturals

CONSTANTS
    Limit,          \* of the decisions in a scenario
    Verdicts,       \* what a scenario may come to
    Failures        \* the other ways in which its execution may end

VARIABLES
    questions,      \* how many decisions the policy has decided
    accepted,       \* how many of its answers the cluster accepted
    verdict,        \* what the scenario came to, or "open"
    report          \* how its execution ended, or "none"

logVars == <<questions, accepted, verdict, report>>

LogInit ==
    /\ questions = 0
    /\ accepted = 0
    /\ verdict = "open"
    /\ report = "none"

Ask ==
    /\ report = "none"
    /\ verdict = "open"
    /\ questions = accepted
    /\ questions < Limit
    /\ questions' = questions + 1
    /\ UNCHANGED <<accepted, verdict, report>>

\* An answer on its way may reach the cluster after the execution was given up.
Accept ==
    /\ accepted < questions
    /\ accepted' = accepted + 1
    /\ verdict' \in Verdicts \cup {"open"}
    /\ UNCHANGED <<questions, report>>

Report ==
    /\ report = "none"
    /\ verdict \in Verdicts
    /\ report' = verdict
    /\ UNCHANGED <<questions, accepted, verdict>>

Fail ==
    /\ report = "none"
    /\ report' \in Failures
    /\ UNCHANGED <<questions, accepted, verdict>>

LogNext == Ask \/ Accept \/ Report \/ Fail

LogSpec == LogInit /\ [][LogNext]_logVars
=============================================================================
