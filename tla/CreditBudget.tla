---------------------------- MODULE CreditBudget ----------------------------
(***************************************************************************)
(* CreditBudget, CreditLease and EncodedBufferPool of                      *)
(* 07-maimoe/src/host/HostRuntime.cpp: the byte budget that bounds how     *)
(* much chart data the pipeline holds, the leases taken from it, and the   *)
(* pool the encoded results are stored in.                                 *)
(*                                                                         *)
(* A critical section of a mutex is one step, and a notification that      *)
(* follows the unlock belongs to it: every wait re-evaluates its           *)
(* predicate, and SpuriousWakeup of HostPipeline wakes a waiter at any     *)
(* moment. A thread blocked in condition_variable::wait is an element of   *)
(* the waiters of that variable. std::terminate sets a flag of its own.    *)
(***************************************************************************)
EXTENDS Integers, FiniteSets

CONSTANTS
    Charts,         \* manifest.charts.size()
    Bytes,          \* chart.bytes, by position in the work order
    EncodedBytes,   \* kernel::kEncodedChartBytes
    PipelineBytes   \* capacity_, config.pipeline_mib in bytes

Positions == 0 .. Charts - 1

ASSUME BudgetAssumption ==
    /\ Charts \in Nat
    /\ Bytes \in [Positions -> Nat]
    /\ EncodedBytes \in Nat \ {0}
    /\ PipelineBytes \in Nat \ {0}

VARIABLES
    used,           \* CreditBudget::used_
    creditStopped,  \* CreditBudget::stopped_
    creditWaiters,  \* threads waiting on CreditBudget::available_
    creditBroken,   \* CreditBudget or CreditLease called std::terminate
    lease,          \* CreditLease::bytes_ of the chart at a position
    freeBuffers,    \* EncodedBufferPool::available_.size()
    poolBroken      \* EncodedBufferPool called std::terminate

budgetVars == <<used, creditStopped, creditWaiters, creditBroken, lease>>
poolVars   == <<freeBuffers, poolBroken>>

BudgetInit ==
    /\ used = 0
    /\ creditStopped = FALSE
    /\ creditWaiters = {}
    /\ creditBroken = FALSE
    /\ lease = [p \in Positions |-> 0]
    /\ freeBuffers = 0
    /\ poolBroken = FALSE

(***************************************************************************)
(* CreditBudget. An item larger than the budget is admitted alone.         *)
(***************************************************************************)
Reservation(p) == Bytes[p] + EncodedBytes

\* A faulty Admits that looks only at what is used already.
AdmitsAnySize(bytes) == used <= PipelineBytes

Admits(bytes) == used = 0 \/ used + bytes <= PipelineBytes

TakeCredit(p) ==
    /\ used' = used + Reservation(p)
    /\ lease' = [lease EXCEPT ![p] = Reservation(p)]
    /\ UNCHANGED <<creditStopped, creditWaiters, creditBroken>>

\* acquire returns TRUE
CreditGranted(t, p) ==
    /\ t \notin creditWaiters
    /\ ~creditStopped
    /\ Admits(Reservation(p))
    /\ TakeCredit(p)

\* acquire returns FALSE
CreditRefused(t) ==
    /\ t \notin creditWaiters
    /\ creditStopped
    /\ UNCHANGED budgetVars

\* acquire blocks
CreditAwaited(t, p) ==
    /\ t \notin creditWaiters
    /\ ~creditStopped
    /\ ~Admits(Reservation(p))
    /\ creditWaiters' = creditWaiters \cup {t}
    /\ UNCHANGED <<used, creditStopped, creditBroken, lease>>

\* A faulty ReleaseCredit: no notification.
ReleaseSilently(p, bytes) ==
    /\ bytes <= lease[p] /\ bytes <= used
    /\ used' = used - bytes
    /\ lease' = [lease EXCEPT ![p] = @ - bytes]
    /\ UNCHANGED <<creditStopped, creditWaiters, creditBroken>>

\* CreditLease::release and CreditLease::reset, with CreditBudget::release
ReleaseCredit(p, bytes) ==
    /\ IF bytes > lease[p] \/ bytes > used
       THEN creditBroken' = TRUE /\ UNCHANGED <<used, lease, creditWaiters>>
       ELSE /\ used' = used - bytes
            /\ lease' = [lease EXCEPT ![p] = @ - bytes]
            /\ creditWaiters' = {}
            /\ UNCHANGED creditBroken
    /\ UNCHANGED creditStopped

StopCredit ==
    /\ creditStopped' = TRUE
    /\ creditWaiters' = {}
    /\ UNCHANGED <<used, creditBroken, lease>>

(***************************************************************************)
(* EncodedBufferPool: acquire allocates when no buffer is free.            *)
(***************************************************************************)
AcquireBuffer ==
    /\ freeBuffers' = IF freeBuffers = 0 THEN 0 ELSE freeBuffers - 1
    /\ UNCHANGED poolBroken

ReleaseBuffer ==
    IF freeBuffers >= Charts
    THEN poolBroken' = TRUE /\ UNCHANGED freeBuffers
    ELSE freeBuffers' = freeBuffers + 1 /\ UNCHANGED poolBroken
=============================================================================
