--------------------------- MODULE ConversionJob ---------------------------
(***************************************************************************)
(* What a run of maimoe promises, whatever its threads do: the files of a  *)
(* chart are written once, success is reported only when those of every    *)
(* chart are there, and an error may be reported at any time (07-maimoe/   *)
(* README.md: every chart has its three output files, none are missing and *)
(* none are extra).                                                        *)
(***************************************************************************)
EXTENDS Naturals

CONSTANT Items

VARIABLES
    times,      \* how often the files of an item were written
    outcome     \* "running", "ok" or "error"

jobVars == <<times, outcome>>

JobInit ==
    /\ times = [p \in Items |-> 0]
    /\ outcome = "running"

Convert(p) ==
    /\ outcome = "running"
    /\ times[p] = 0
    /\ times' = [times EXCEPT ![p] = 1]
    /\ UNCHANGED outcome

Succeed ==
    /\ outcome = "running"
    /\ \A p \in Items : times[p] = 1
    /\ outcome' = "ok"
    /\ UNCHANGED times

GiveUp ==
    /\ outcome = "running"
    /\ outcome' = "error"
    /\ UNCHANGED times

JobNext == (\E p \in Items : Convert(p)) \/ Succeed \/ GiveUp

JobSpec == JobInit /\ [][JobNext]_jobVars
=============================================================================
