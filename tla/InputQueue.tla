----------------------------- MODULE InputQueue -----------------------------
(***************************************************************************)
(* InputQueue of 07-maimoe/src/host/HostRuntime.cpp: the reader threads    *)
(* reserve a slot before they read a chart, push the chart into it, and    *)
(* the compute threads take charts out by schedule index. Of the deque     *)
(* only the schedule indices matter: pop_ordered searches it, so it is the *)
(* set of positions in it.                                                 *)
(*                                                                         *)
(* push_reserved, pop_ordered and cancel_reservation wake ONE waiter of    *)
(* theirs; which one is a choice of the implementation.                    *)
(***************************************************************************)
EXTENDS Integers

CONSTANT QueueCapacity  \* max(1, config.prefetch_depth)

ASSUME QueueAssumption == QueueCapacity \in Nat \ {0}

VARIABLES
    reserved,       \* reserved_
    queue,          \* schedule_index of the items in queue_
    inputStopped,   \* stopped_
    inputFinished,  \* finished_
    spaceWaiters,   \* threads waiting on space_
    dataWaiters,    \* threads waiting on data_
    inputBroken     \* a member called std::terminate

inputVars == <<reserved, queue, inputStopped, inputFinished, spaceWaiters,
               dataWaiters, inputBroken>>

InputInit ==
    /\ reserved = 0
    /\ queue = {}
    /\ inputStopped = FALSE
    /\ inputFinished = FALSE
    /\ spaceWaiters = {}
    /\ dataWaiters = {}
    /\ inputBroken = FALSE

\* condition_variable::notify_one
NotifySpace ==
    \/ spaceWaiters = {} /\ UNCHANGED spaceWaiters
    \/ \E w \in spaceWaiters : spaceWaiters' = spaceWaiters \ {w}

NotifyData ==
    \/ dataWaiters = {} /\ UNCHANGED dataWaiters
    \/ \E w \in dataWaiters : dataWaiters' = dataWaiters \ {w}

(***************************************************************************)
(* reserve: returns TRUE, returns FALSE, or blocks.                        *)
(***************************************************************************)
\* A faulty SlotReserved: the slot is not counted.
SlotUncounted(t) ==
    /\ t \notin spaceWaiters
    /\ ~inputStopped
    /\ reserved < QueueCapacity
    /\ UNCHANGED inputVars

SlotReserved(t) ==
    /\ t \notin spaceWaiters
    /\ ~inputStopped
    /\ reserved < QueueCapacity
    /\ reserved' = reserved + 1
    /\ UNCHANGED <<queue, inputStopped, inputFinished, spaceWaiters,
                   dataWaiters, inputBroken>>

SlotRefused(t) ==
    /\ t \notin spaceWaiters
    /\ inputStopped
    /\ UNCHANGED inputVars

SlotAwaited(t) ==
    /\ t \notin spaceWaiters
    /\ ~inputStopped
    /\ reserved >= QueueCapacity
    /\ spaceWaiters' = spaceWaiters \cup {t}
    /\ UNCHANGED <<reserved, queue, inputStopped, inputFinished, dataWaiters,
                   inputBroken>>

\* --reserved_ and notify_one, or std::terminate when nothing is reserved
GiveBackSlot ==
    IF reserved = 0
    THEN inputBroken' = TRUE /\ UNCHANGED <<reserved, spaceWaiters>>
    ELSE /\ reserved' = reserved - 1
         /\ NotifySpace
         /\ UNCHANGED inputBroken

CancelReservation ==
    /\ GiveBackSlot
    /\ UNCHANGED <<queue, inputStopped, inputFinished, dataWaiters>>

\* A faulty PushReserved: no notification.
PushSilently(p) ==
    /\ ~inputStopped
    /\ IF reserved = 0
       THEN inputBroken' = TRUE /\ UNCHANGED queue
       ELSE queue' = queue \cup {p} /\ UNCHANGED inputBroken
    /\ UNCHANGED <<reserved, inputStopped, inputFinished, spaceWaiters,
                   dataWaiters>>

\* push_reserved returns TRUE
PushReserved(p) ==
    /\ ~inputStopped
    /\ IF reserved = 0
       THEN inputBroken' = TRUE /\ UNCHANGED <<queue, dataWaiters>>
       ELSE queue' = queue \cup {p} /\ NotifyData /\ UNCHANGED inputBroken
    /\ UNCHANGED <<reserved, inputStopped, inputFinished, spaceWaiters>>

\* push_reserved returns FALSE
PushRefused ==
    /\ inputStopped
    /\ GiveBackSlot
    /\ UNCHANGED <<queue, inputStopped, inputFinished, dataWaiters>>

(***************************************************************************)
(* try_pop_ordered and pop_ordered.                                        *)
(***************************************************************************)
\* A faulty TakeOrdered: the slot stays reserved.
TakeKeepsSlot(p) ==
    /\ p \in queue
    /\ queue' = queue \ {p}
    /\ UNCHANGED <<reserved, inputStopped, inputFinished, spaceWaiters,
                   dataWaiters, inputBroken>>

TakeOrdered(p) ==
    /\ p \in queue
    /\ queue' = queue \ {p}
    /\ reserved' = reserved - 1
    /\ NotifySpace
    /\ UNCHANGED <<inputStopped, inputFinished, dataWaiters, inputBroken>>

\* pop_ordered returns TRUE
PoppedOrdered(t, p) ==
    /\ t \notin dataWaiters
    /\ ~inputStopped
    /\ TakeOrdered(p)

\* pop_ordered returns FALSE
PopRefused(t, p) ==
    /\ t \notin dataWaiters
    /\ inputStopped \/ (inputFinished /\ p \notin queue)
    /\ UNCHANGED inputVars

\* pop_ordered blocks
PopAwaited(t, p) ==
    /\ t \notin dataWaiters
    /\ ~inputStopped
    /\ ~inputFinished
    /\ p \notin queue
    /\ dataWaiters' = dataWaiters \cup {t}
    /\ UNCHANGED <<reserved, queue, inputStopped, inputFinished, spaceWaiters,
                   inputBroken>>

FinishInput ==
    /\ inputFinished' = TRUE
    /\ dataWaiters' = {}
    /\ UNCHANGED <<reserved, queue, inputStopped, spaceWaiters, inputBroken>>

StopInput ==
    /\ inputStopped' = TRUE
    /\ dataWaiters' = {}
    /\ spaceWaiters' = {}
    /\ UNCHANGED <<reserved, queue, inputFinished, inputBroken>>
=============================================================================
