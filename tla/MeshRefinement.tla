--------------------------- MODULE MeshRefinement ---------------------------
(***************************************************************************)
(* bssn_class::Evolve of 08-blackhole on nested levels of grids: the       *)
(* recursion over the levels, the exchange between a level and its parent, *)
(* the boxes that follow the black holes, and the checkpoint.              *)
(*                                                                         *)
(* Of the fields only the time they are known at is kept. Each level has   *)
(* three of them, StateList, OldStateList and SynchList_cor, and each has  *)
(* three zones: "inner", which the level itself evolves, "rim", the outer  *)
(* boundary, which the evolution does not move and the parent supplies,    *)
(* and "shadow", which lies under the finer level and is replaced by it.   *)
(* A zone is NoTime when it holds no time level: new memory, a blend of    *)
(* fields that are not equally spaced, or an evolution from parts that     *)
(* disagree.                                                               *)
(*                                                                         *)
(* The processes do the same steps in the same order, so there is one      *)
(* sequence of them here. A crash is whatever ends all of them: MPI_Abort  *)
(* after a NaN, a grid without its black hole or "stop" on stdin, or a     *)
(* machine that fails. The files of a checkpoint are replaced in place and *)
(* one after another, and are read back unchecked: a run that is started   *)
(* again after a crash between the writes goes on from what is there.      *)
(***************************************************************************)
EXTENDS Integers

CONSTANTS
    Levels,         \* GH->levels
    Trfls,          \* "time refinement start from level"
    Movls,          \* "moving levels start from"
    Steps,          \* the argument of Evolve
    TotalTime,      \* when to end
    CheckTime,      \* how often a checkpoint is written
    StepsToDrift,   \* how many steps of its level a hole needs to leave a cell
    MaxRestarts     \* bound: how often a run is started again

Depths == 0 .. Levels - 1
Finest == Levels - 1

\* Trfls is a number of a level; nothing compares it with Levels.
ASSUME MeshAssumption ==
    /\ Levels \in Nat \ {0}
    /\ Trfls \in Nat
    /\ Movls \in Nat
    /\ Steps \in Nat
    /\ TotalTime \in Nat
    /\ CheckTime \in Nat \ {0}
    /\ StepsToDrift \in Nat
    /\ MaxRestarts \in Nat

\* A step is half a cell at most (Courant = 0.5), a hole moves with less than the
\* speed of light, and a box moves when its hole is a cell and a half off.
ASSUME DriftAssumption == StepsToDrift > 2

Doubled[n \in Nat] == IF n = 0 THEN 1 ELSE 2 * Doubled[n - 1]

\* dT_lev and what PhysTime adds, in units of the smaller of the steps
\* dT * 0.5^trfls and dT * 0.5^(levels - 1). Levels up to Trfls share a step.
Deepest == IF Trfls < Finest THEN Finest ELSE Trfls
Dt(l) == Doubled[Deepest - (IF l < Trfls THEN Trfls ELSE l)]
Tick == Doubled[Deepest - Finest]

NoTime == -1
Zones == {"inner", "rim", "shadow"}

VARIABLES
    at,         \* where RecursiveStep or Evolve is
    level,      \* lev of the RecursiveStep that runs
    iter,       \* by level, i of its loop
    lt,         \* GH->Lt
    physTime,   \* PhysTime
    state,      \* by level, StateList: zones and their times
    old,        \* OldStateList
    cor,        \* SynchList_cor
    holes,      \* the time Porg0 is known at
    sound,      \* what was read whole, and of one time, when the run began
    ncount,     \* ncount of Evolve
    lastCheck,  \* LastCheck
    disk,       \* the files of the checkpoint
    restarts    \* how often the run was started again

clocks == <<lt, physTime, holes>>
fields == <<state, old, cor>>
evolveVars == <<ncount, lastCheck>>
meshVars == <<at, level, iter, clocks, fields, sound, evolveVars, disk, restarts>>

-----------------------------------------------------------------------------
(***************************************************************************)
(* Fields.                                                                 *)
(***************************************************************************)
Uniform(t) == [z \in Zones |-> t]
Blank == Uniform(NoTime)

\* One time for what is computed from all of these, if they agree.
Agreed(times) == IF \E t \in times : times = {t} THEN CHOOSE t \in times : TRUE
                                                 ELSE NoTime

Whole(f) == Agreed({f[z] : z \in Zones})

\* f_average and f_average2 are weighted for the middle of the upper of one
\* or two equal intervals.
Average(a, b) ==
    IF a = NoTime \/ b = NoTime \/ (a + b) % 2 # 0 THEN NoTime ELSE (a + b) \div 2
Average2(a, b, c) == IF c # NoTime /\ a - b = b - c THEN Average(a, b) ELSE NoTime

\* prepare_inter_time_level of level l, with or without a third field.
Blend(l, three) ==
    [z \in Zones |-> IF three THEN Average2(state[l][z], old[l][z], cor[l][z])
                              ELSE Average(state[l][z], old[l][z])]

\* Parallel::Restrict: what lies under the finer level is taken from it.
Restricted(coarse, fine) ==
    [coarse EXCEPT !["shadow"] = Agreed({fine["inner"], fine["shadow"]})]

\* OutBdLow2Hi: the outer boundary is interpolated from the coarser level.
WithRim(fine, coarse) ==
    [fine EXCEPT !["rim"] = Agreed({coarse["inner"], coarse["shadow"]})]

\* New patches: copied where the old ones were, interpolated elsewhere.
Refilled(fine, coarse) ==
    Uniform(Agreed({fine[z] : z \in Zones} \cup {coarse["inner"], coarse["shadow"]}))

-----------------------------------------------------------------------------
(***************************************************************************)
(* RecursiveStep: Step, the finer levels, RestrictProlong, once or twice;  *)
(* then Regrid_Onelevel.                                                   *)
(***************************************************************************)
\* A faulty Iterations: the first refined level steps once too.
TooFewIterations(l) == IF l <= Trfls + 1 THEN 1 ELSE 2

Iterations(l) == IF l <= Trfls THEN 1 ELSE 2

\* YN = 0: the parent is still ahead after this iteration.
Midway(l) == l > Trfls /\ iter[l] < Iterations(l) - 1

\* A faulty Later: the start is taken for a step that has a predecessor.
LaterOrEqual(l) == physTime - Dt(l) >= 0

\* fgt(PhysTime - dT_lev, StartTime, dT_lev / 2), with StartTime 0
Later(l) == 2 * (physTime - Dt(l)) > Dt(l)

\* The fields after an RK4 step of level l from time t: the boundary is held,
\* and under a finer level the result waits to be replaced.
Stepped(l, t) ==
    [z \in Zones |->
        CASE t = NoTime                     -> NoTime
          [] z = "rim" /\ l > 0             -> t
          [] z = "shadow" /\ l < Finest     -> NoTime
          [] OTHER                          -> t + Dt(l)]

\* A faulty Rotate: the two swaps in the other order.
RotateBack(l) ==
    /\ old' = [old EXCEPT ![l] = Stepped(l, Whole(state[l]))]
    /\ cor' = [cor EXCEPT ![l] = state[l]]
    /\ state' = [state EXCEPT ![l] = old[l]]

\* The two swapList after a step: new to StateList, state to OldStateList.
Rotate(l) ==
    /\ state' = [state EXCEPT ![l] = Stepped(l, Whole(state[l]))]
    /\ old' = [old EXCEPT ![l] = state[l]]
    /\ cor' = [cor EXCEPT ![l] = old[l]]

StepLevel ==
    /\ at = "step"
    /\ Rotate(level)
    /\ lt' = [lt EXCEPT ![level] = @ + Dt(level)]
    /\ IF level < Finest
       THEN /\ level' = level + 1
            /\ iter' = [iter EXCEPT ![level + 1] = 0]
            /\ UNCHANGED <<at, physTime, holes>>
       ELSE /\ at' = "restrict"
            /\ physTime' = physTime + Tick
            /\ holes' = IF holes = NoTime THEN NoTime ELSE holes + Dt(level)
            /\ UNCHANGED <<level, iter>>
    /\ UNCHANGED <<sound, evolveVars, disk, restarts>>

\* RestrictProlong between level l and its parent.
Exchange(l) ==
    LET mid == Blend(l - 1, Later(l))
        src == Restricted(IF Midway(l) THEN mid ELSE state[l - 1], state[l])
    IN  state' = [state EXCEPT ![l] = WithRim(@, src),
                               ![l - 1] = IF Midway(l) THEN @ ELSE src]

RestrictProlong ==
    /\ at = "restrict"
    /\ IF level > 0 THEN Exchange(level) ELSE UNCHANGED state
    /\ IF iter[level] + 1 < Iterations(level)
       THEN at' = "step" /\ iter' = [iter EXCEPT ![level] = @ + 1]
       ELSE at' = "regrid" /\ UNCHANGED iter
    /\ UNCHANGED <<level, clocks, old, cor, sound, evolveVars, disk, restarts>>

\* recompose_cgh_Onelevel: the box of level l is somewhere else.
Recompose(l) ==
    LET refined == l > Trfls        \* CC of fill_level_data
        coarse  == Restricted(state[l - 1], state[l])
        before  == Restricted(IF refined THEN Blend(l - 1, Later(l)) ELSE old[l - 1],
                              old[l])
    IN  /\ state' = [state EXCEPT ![l] = Refilled(@, coarse), ![l - 1] = coarse]
        /\ old' = [old EXCEPT ![l] = Refilled(@, before),
                              ![l - 1] = IF refined THEN @ ELSE before]
        /\ cor' = [cor EXCEPT ![l] = Blank]

\* Regrid_Onelevel: whether a hole is more than a cell and a half off is left
\* open once it has moved for the steps that takes, and when it is anywhere.
\* The coarsest level has no parent to be filled from: with Movls = 0, moving it
\* reads PatL[-1], which is the end of the run (Crash).
MayMove(l) ==
    /\ l > 0 /\ l >= Movls
    /\ holes = NoTime \/ holes >= StepsToDrift * Dt(l)

Regrid ==
    /\ at = "regrid"
    /\ \/ MayMove(level) /\ Recompose(level)
       \/ UNCHANGED fields
    /\ IF level = 0 THEN at' = "evolve" /\ UNCHANGED level
                    ELSE at' = "restrict" /\ level' = level - 1
    /\ UNCHANGED <<iter, clocks, sound, evolveVars, disk, restarts>>

-----------------------------------------------------------------------------
(***************************************************************************)
(* Evolve.                                                                 *)
(***************************************************************************)
\* The next round of the loop, if there is one.
NextStep ==
    /\ ncount' = ncount + 1
    /\ at' = IF ncount < Steps THEN "step" ELSE "ended"
    /\ iter' = [iter EXCEPT ![0] = 0]

\* The end of the body of Evolve's loop. At TotalTime it is left before the
\* checkpoint, which is written every CheckTime. Its first file is opened, and so
\* emptied, at once.
EndOfStep ==
    /\ at = "evolve"
    /\ LET last == lastCheck + Dt(0)
       IN  \/ /\ physTime >= TotalTime
              /\ at' = "ended" /\ lastCheck' = last
              /\ UNCHANGED <<ncount, iter, disk>>
           \/ /\ physTime < TotalTime /\ last < CheckTime
              /\ NextStep /\ lastCheck' = last
              /\ UNCHANGED disk
           \/ /\ physTime < TotalTime /\ last >= CheckTime
              /\ at' = "holes" /\ lastCheck' = 0
              /\ disk' = [disk EXCEPT !.holes = NoTime, !.sound = @ \ {"holes"}]
              /\ UNCHANGED <<ncount, iter>>
    /\ UNCHANGED <<level, clocks, fields, sound, restarts>>

\* write_Black_Hole_position: the file is whole, but the fields are older ones.
WriteHoles ==
    /\ at = "holes"
    /\ at' = "grids"
    /\ disk' = [disk EXCEPT !.holes = holes]
    /\ UNCHANGED <<level, iter, clocks, fields, sound, evolveVars, restarts>>

Unread == [l \in Depths |-> Blank]

\* writecheck_cgh: the file is replaced by one with PhysTime and the grids. The
\* fields follow.
OpenGrids ==
    /\ at = "grids"
    /\ at' = "fields"
    /\ disk' = [disk EXCEPT !.written = TRUE, !.time = physTime, !.sound = {},
                            !.state = Unread, !.old = Unread]
    /\ UNCHANGED <<level, iter, clocks, fields, sound, evolveVars, restarts>>

\* The rest of writecheck_cgh, and write_bssn, which has no times of a level.
WriteGrids ==
    /\ at = "fields"
    /\ NextStep
    /\ disk' = [disk EXCEPT !.state = state, !.old = old, !.sound = sound]
    /\ UNCHANGED <<level, clocks, fields, sound, lastCheck, restarts>>

Crash ==
    /\ at \notin {"ended", "down"}
    /\ at' = "down"
    /\ UNCHANGED <<level, iter, clocks, fields, sound, evolveVars, disk, restarts>>

\* Initialize, with checkrun where there is a checkpoint, and the begin of
\* Evolve. StateList and OldStateList are in the file, SynchList_cor is not. The
\* reads stop at the end of a file that was cut, and nobody asks. A run that finds
\* no header, or one file missing, ends at once: a Restart and a Crash.
StartFrom(d) ==
    /\ at' = IF Steps > 0 THEN "step" ELSE "ended"
    /\ level' = 0
    /\ iter' = [l \in Depths |-> 0]
    /\ physTime' = d.time
    /\ lt' = [l \in Depths |-> d.time]
    /\ holes' = d.holes
    /\ state' = d.state
    /\ old' = d.old
    /\ cor' = Unread
    /\ sound' = d.sound
    /\ ncount' = 1
    /\ lastCheck' = 0

\* Initial data are what a run without a checkpoint starts from.
InitialData ==
    [written |-> FALSE, time |-> 0, holes |-> 0, sound |-> {"fields", "holes"},
     state |-> [l \in Depths |-> Uniform(0)], old |-> Unread]

Restart ==
    /\ at = "down"
    /\ restarts < MaxRestarts
    /\ restarts' = restarts + 1
    /\ StartFrom(IF disk.written THEN disk ELSE InitialData)
    /\ UNCHANGED disk

MeshInit ==
    /\ at = IF Steps > 0 THEN "step" ELSE "ended"
    /\ level = 0
    /\ iter = [l \in Depths |-> 0]
    /\ lt = [l \in Depths |-> 0]
    /\ physTime = 0
    /\ state = InitialData.state
    /\ old = InitialData.old
    /\ cor = Unread
    /\ holes = 0
    /\ sound = InitialData.sound
    /\ ncount = 1
    /\ lastCheck = 0
    /\ disk = InitialData
    /\ restarts = 0

WriteCheckpoint == WriteHoles \/ OpenGrids \/ WriteGrids

MeshNext ==
    \/ StepLevel \/ RestrictProlong \/ Regrid
    \/ EndOfStep \/ WriteCheckpoint
    \/ Crash \/ Restart

-----------------------------------------------------------------------------
\* What is known of these levels is of time t: all their zones, the black holes
\* and, where the finest level is one that is refined in time, both clocks.
AllAt(levels, t) ==
    /\ t # NoTime
    /\ \A l \in levels, z \in Zones : state[l][z] = t
    /\ "holes" \in sound => holes = t
    /\ Trfls < Levels => physTime = t /\ \A l \in levels : lt[l] = t

\* Before a level is stepped, and between the steps of Evolve, everything the
\* step reads is of one time, whatever the exchanges, moves of boxes, crashes and
\* restarts before. A restart from a checkpoint that was cut loses the black
\* holes, when only their file was replaced, or everything, and no more than that.
LevelsAligned ==
    "fields" \in sound =>
        /\ at = "step" => AllAt({level}, state[level]["inner"])
        /\ at \in {"evolve", "holes", "grids", "fields"} =>
              /\ AllAt(Depths, state[0]["inner"])
              /\ \A l \in Depths, z \in Zones : old[l][z] = state[0]["inner"] - Dt(l)

\* Whether a boundary is interpolated from two or from three time levels is
\* decided by the time since the start, not by what is there. The decision is
\* right: three are used just when the parent has three, equally spaced, and
\* the time wanted is in the middle of the upper two.
BlendsBracket ==
    /\ "fields" \in sound
    /\ \/ at = "restrict" /\ Midway(level)
       \/ at = "regrid" /\ level > Trfls /\ MayMove(level)
    => LET p == level - 1
           upper == state[p]["inner"]
       IN  /\ old[p]["inner"] = upper - Dt(p)
           /\ Later(level) <=> cor[p]["inner"] # NoTime
           /\ Later(level) => cor[p]["inner"] = upper - 2 * Dt(p)
           /\ upper - Dt(level) =
                 IF at = "restrict" THEN state[level]["inner"] ELSE old[level]["inner"]

Abstract == INSTANCE Subcycling WITH
    Delta <- Dt,
    Unknown <- NoTime,
    clock <- [l \in Depths |-> state[l]["inner"]],
    saved <- disk.state[0]["inner"]

\* The recursion advances the levels in the order of Subcycling.
ImplementsSubcycling == Abstract!Subcycles
=============================================================================
