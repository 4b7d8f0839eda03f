----------------------------- MODULE Subcycling -----------------------------
(***************************************************************************)
(* What the evolution of nested grids promises, whoever calls whom: a      *)
(* level advances by its own time step, only when every finer level has    *)
(* caught up with it and while it is behind the coarser one, so that a     *)
(* boundary taken from the coarser level lies between two times at which   *)
(* that level is known. A run that is started again goes on from one time, *)
(* the same for all levels. While a checkpoint is replaced there is none,  *)
(* and a run that is started from that is at no time at all.               *)
(***************************************************************************)
EXTENDS Integers

CONSTANTS
    Depths,     \* the levels, 0 being the coarsest
    Delta(_),   \* the time step of a level
    Unknown     \* no time

VARIABLES
    clock,      \* the time every level has reached
    saved       \* the time a run can be started again from

Together == \A l \in Depths : clock[l] = clock[0]

Advance(l) ==
    /\ clock[l] # Unknown
    /\ \A f \in Depths : f > l => clock[f] = clock[l]
    /\ l > 0 => clock[l] + Delta(l) <= clock[l - 1]
    /\ clock' = [clock EXCEPT ![l] = @ + Delta(l)]
    /\ UNCHANGED saved

\* A checkpoint is taken between two steps of all levels: the last one is given
\* up, and then the new one is there.
GiveUp == Together /\ saved' = Unknown /\ UNCHANGED clock
Save == Together /\ saved' = clock[0] /\ UNCHANGED clock

StartAgain ==
    /\ clock' = [l \in Depths |-> saved]
    /\ UNCHANGED saved

SubcyclingInit == saved \in Nat /\ clock = [l \in Depths |-> saved]

SubcyclingNext == (\E l \in Depths : Advance(l)) \/ GiveUp \/ Save \/ StartAgain

Subcycles == SubcyclingInit /\ [][SubcyclingNext]_<<clock, saved>>
=============================================================================
