--------------------------- MODULE KernelService ---------------------------
(***************************************************************************)
(* What WorkerProcess::process promises the compute thread that owns it,   *)
(* and what HostPipeline assumes of it in Process, KernelReturns and       *)
(* KernelThrows: a call answers with the encoding of the chart it was      *)
(* given, or it throws, and once a worker was aborted no call begins.      *)
(***************************************************************************)
EXTENDS Naturals

CONSTANTS
    Calls,      \* how many charts the owner has
    Nothing     \* no answer

VARIABLES
    current,    \* the call in progress, or 0
    delivered,  \* what each call answered
    usable      \* no call threw, and nobody aborted the worker

serviceVars == <<current, delivered, usable>>

ServiceInit ==
    /\ current = 0
    /\ delivered = [i \in 1 .. Calls |-> Nothing]
    /\ usable = TRUE

\* WorkerProcess::process finds the worker available.
Invoke(i) ==
    /\ usable
    /\ current = 0
    /\ delivered[i] = Nothing
    /\ \A j \in 1 .. i - 1 : delivered[j] = j
    /\ current' = i
    /\ UNCHANGED <<delivered, usable>>

\* An abort that comes during the call may come too late to stop it.
Answer ==
    /\ current # 0
    /\ delivered' = [delivered EXCEPT ![current] = current]
    /\ current' = 0
    /\ UNCHANGED usable

\* The call throws: the worker is unusable by then.
Throw ==
    /\ current # 0
    /\ ~usable
    /\ current' = 0
    /\ UNCHANGED <<delivered, usable>>

Spoil ==
    /\ usable
    /\ usable' = FALSE
    /\ UNCHANGED <<current, delivered>>

ServiceNext == (\E i \in 1 .. Calls : Invoke(i)) \/ Answer \/ Throw \/ Spoil

ServiceSpec == ServiceInit /\ [][ServiceNext]_serviceVars
=============================================================================
