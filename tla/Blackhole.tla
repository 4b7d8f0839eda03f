----------------------------- MODULE Blackhole -----------------------------
(***************************************************************************)
(* The two programs ABE.C of 08-blackhole is after Initialize: with        *)
(* surface_only the benchmark of the surface integrals, without it the     *)
(* evolution.                                                              *)
(***************************************************************************)
EXTENDS MeshRefinement, SurfaceBenchmark

VARIABLE program

blackholeVars == <<program, meshVars, surfaceVars>>

BlackholeInit ==
    /\ program \in {"surface", "evolve"}
    /\ MeshInit
    /\ SurfaceInit

Evolve == program = "evolve" /\ MeshNext /\ UNCHANGED <<program, surfaceVars>>

Surface_Only_Benchmark ==
    program = "surface" /\ SurfaceNext /\ UNCHANGED <<program, meshVars>>

\* MPI_Finalize, or a crash nobody starts the program again after.
Exit ==
    /\ IF program = "surface" THEN SurfaceEnded
       ELSE at = "ended" \/ (at = "down" /\ restarts = MaxRestarts)
    /\ UNCHANGED blackholeVars

BlackholeNext == Evolve \/ Surface_Only_Benchmark \/ Exit

BlackholeSpec == BlackholeInit /\ [][BlackholeNext]_blackholeVars
=============================================================================
