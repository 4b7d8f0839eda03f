-------------------------- MODULE SurfaceBenchmark --------------------------
(***************************************************************************)
(* bssn_class::Surface_Only_Benchmark of 08-blackhole: the processes fill  *)
(* the fields of an epoch, and for each detector surf_Wave interpolates    *)
(* them at the points of a sphere and integrates over the points.          *)
(*                                                                         *)
(* A value is known by the epoch of the field it comes from, and a sum     *)
(* over the processes (MPI_SUM) is the set of its terms, each with the     *)
(* process that brought it. An integral stays apart by point. So a point   *)
(* that is counted twice, or not at all, or from an older field, is seen.  *)
(* The two Allreduce of a place (values and weights, real and imaginary    *)
(* parts) are one collective here, and the integral of the mass, of the    *)
(* same form as the wave's, is left out.                                   *)
(***************************************************************************)
EXTENDS Integers, Sequences, FiniteSets

CONSTANTS
    RankCount,      \* cpusize
    Root,           \* the process that reports
    Nobody,         \* the owner of a point that is in no block
    Layouts,        \* who has the block of each point of the sphere
    Repeats,        \* benchmark_repeats
    Warmup,         \* benchmark_warmup
    Detectors       \* decn

Ranks == 0 .. RankCount - 1

ASSUME SurfaceAssumption ==
    /\ RankCount \in Nat \ {0}
    /\ Root = 0
    /\ Nobody \notin Ranks
    /\ \A w \in Layouts :
          /\ IsFiniteSet(DOMAIN w)
          /\ w \in [0 .. Cardinality(DOMAIN w) - 1 -> Ranks \cup {Nobody}]
    /\ Repeats \in Int /\ Warmup \in Int
    /\ Detectors \in Nat \ {0}

VARIABLES
    owner,      \* the layout of this run
    place,      \* by process: where it is
    round,      \* benchmark_iteration
    detector,   \* detector
    field,      \* epoch of the fields in its blocks
    shellf,     \* by point: what was interpolated
    tally,      \* the integrals summed so far, each with its iteration and detector
    inside,     \* processes in a collective that is not complete
    given,      \* what they brought
    outcome,    \* of the last complete collective
    leaving,    \* processes that did not return from it yet
    aborted     \* MPI_Abort

rankVars == <<place, round, detector, field, shellf, tally>>
collectiveVars == <<inside, given, outcome, leaving>>
surfaceVars == <<owner, rankVars, collectiveVars, aborted>>

Points == DOMAIN owner          \* of the sphere, 0 .. n_tot - 1
NTot == Cardinality(Points)     \* n_tot

repeats == IF Repeats > 1 THEN Repeats ELSE 1
warmup == IF Warmup > 0 THEN Warmup ELSE 0

Epoch(i) == i + warmup + 1

-----------------------------------------------------------------------------
\* A faulty Share: the remainder is not taken into account in Nmin.
ShareOverlaps(r) ==
    LET mp == NTot \div RankCount
        Lp == NTot - RankCount * mp
    IN  r * mp .. r * mp + mp - (IF r < Lp THEN 0 ELSE 1)

\* Nmin .. Nmax: the first Lp processes have a point more than the others.
Share(r) ==
    LET mp == NTot \div RankCount
        Lp == NTot - RankCount * mp
    IN  IF Lp > r THEN r * mp + r .. r * mp + r + mp
                  ELSE r * mp + Lp .. r * mp + Lp + mp - 1

Nothing == [p \in Points |-> {}]

\* What process r brings to the collective it is at.
Contribution(r) ==
    [p \in Points |->
        CASE place[r] = "interp" /\ owner[p] = r    -> {<<r, field[r]>>}
          [] place[r] = "wave" /\ p \in Share(r)    -> {<<r, shellf[r][p]>>}
          [] OTHER                                  -> {}]

-----------------------------------------------------------------------------
Generate(r) ==
    /\ ~aborted
    /\ place[r] = "generate"
    /\ field' = [field EXCEPT ![r] = Epoch(round[r])]
    /\ place' = [place EXCEPT ![r] = "barrier"]
    /\ UNCHANGED <<owner, round, detector, shellf, tally, collectiveVars, aborted>>

\* MPI_Barrier or MPI_Allreduce: the last process to enter completes it.
Enter(r) ==
    /\ ~aborted
    /\ place[r] \in {"barrier", "interp", "wave"}
    /\ r \notin inside \cup leaving
    /\ given' = [given EXCEPT ![r] = Contribution(r)]
    /\ IF inside \cup {r} = Ranks
       THEN /\ inside' = {}
            /\ leaving' = Ranks
            /\ outcome' = [p \in Points |-> UNION {given'[q][p] : q \in Ranks}]
       ELSE /\ inside' = inside \cup {r}
            /\ UNCHANGED <<leaving, outcome>>
    /\ UNCHANGED <<owner, rankVars, aborted>>

Leave(r, from, to) ==
    /\ ~aborted
    /\ r \in leaving
    /\ place[r] = from
    /\ leaving' = leaving \ {r}
    /\ place' = [place EXCEPT ![r] = to]
    /\ UNCHANGED <<owner, inside, given, outcome>>

PassBarrier(r) ==
    /\ Leave(r, "barrier", "interp")
    /\ detector' = [detector EXCEPT ![r] = 0]
    /\ UNCHANGED <<round, field, shellf, tally, aborted>>

\* Interp_Points: only process 0 looks for points without a weight. Blocks do
\* not overlap, so there is no weight above 1.
Interpolated(r) ==
    /\ Leave(r, "interp", "wave")
    /\ shellf' = [shellf EXCEPT ![r] = outcome]
    /\ aborted' = (r = Root /\ \E p \in Points : outcome[p] = {})
    /\ UNCHANGED <<round, detector, field, tally>>

\* The rest of the loops over the detectors and the iterations.
Integrated(r) ==
    /\ tally' = IF round[r] < 0 THEN tally
                ELSE [tally EXCEPT ![r] = Append(@, [round |-> round[r],
                                         detector |-> detector[r], sum |-> outcome])]
    /\ \/ /\ detector[r] + 1 < Detectors
          /\ Leave(r, "wave", "interp")
          /\ detector' = [detector EXCEPT ![r] = @ + 1]
          /\ UNCHANGED round
       \/ /\ detector[r] + 1 = Detectors
          /\ Leave(r, "wave", IF round[r] + 1 < repeats THEN "generate" ELSE "reduce")
          /\ round' = [round EXCEPT ![r] = @ + 1]
          /\ UNCHANGED detector
    /\ UNCHANGED <<field, shellf, aborted>>

\* MPI_Reduce of the times: only process 0 waits for the others.
Report(r) ==
    /\ ~aborted
    /\ place[r] = "reduce"
    /\ r = Root => \A q \in Ranks : place[q] \in {"reduce", "done"}
    /\ place' = [place EXCEPT ![r] = "done"]
    /\ UNCHANGED <<owner, round, detector, field, shellf, tally, collectiveVars, aborted>>

SurfaceInit ==
    /\ owner \in Layouts
    /\ place = [r \in Ranks |-> "generate"]
    /\ round = [r \in Ranks |-> -warmup]
    /\ detector = [r \in Ranks |-> 0]
    /\ field = [r \in Ranks |-> 0]
    /\ shellf = [r \in Ranks |-> Nothing]
    /\ tally = [r \in Ranks |-> << >>]
    /\ inside = {}
    /\ given = [r \in Ranks |-> Nothing]
    /\ outcome = Nothing
    /\ leaving = {}
    /\ aborted = FALSE

SurfaceNext ==
    \E r \in Ranks :
        \/ Generate(r)
        \/ Enter(r)
        \/ PassBarrier(r)
        \/ Interpolated(r)
        \/ Integrated(r)
        \/ Report(r)

SurfaceEnded == aborted \/ \A r \in Ranks : place[r] = "done"

-----------------------------------------------------------------------------
\* What process 0 reports is the sum over every official iteration and every
\* detector, once and in order, and each integral counts every point of the
\* sphere once, from the field of its own iteration: whatever the blocks are
\* and however the processes overtake each other, warm-up rounds leave nothing.
ChecksumComplete ==
    place[Root] = "done" =>
        /\ Len(tally[Root]) = repeats * Detectors
        /\ \A n \in 0 .. repeats - 1, d \in 0 .. Detectors - 1 :
              LET entry == tally[Root][n * Detectors + d + 1]
              IN  /\ entry.round = n /\ entry.detector = d
                  /\ \A p \in Points : \E q \in Ranks :
                        entry.sum[p] = {<<q, {<<owner[p], Epoch(n)>>}>>}
=============================================================================
