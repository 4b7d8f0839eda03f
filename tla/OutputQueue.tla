----------------------------- MODULE OutputQueue -----------------------------
(***************************************************************************)
(* OutputQueue of 07-maimoe/src/host/HostRuntime.cpp: the encoded charts,  *)
(* in partitions chosen by chart id, between the compute threads and the   *)
(* io threads. Each partition has a mutex of its own; queued_ is counted   *)
(* under a second one (meta_mutex_), so pushing and popping are two        *)
(* critical sections unless the policy is Strict.                          *)
(*                                                                         *)
(* finish and stop set their flag and notify WITHOUT a mutex: an io thread *)
(* that found its predicate false is not yet a waiter. That interval is    *)
(* the set "dozing"; a dozing thread holds the mutex its wait releases.    *)
(***************************************************************************)
EXTENDS Integers, Sequences

CONSTANTS
    PartitionCount, \* min(config.queue_partitions, config.io_workers), or 1
    Policy,         \* config.partition_steal
    Bucket          \* chart.id & 0xff, by position

Partitions == 0 .. PartitionCount - 1

ASSUME OutputAssumption ==
    /\ PartitionCount \in Nat \ {0}
    /\ Policy \in {"Strict", "PreferLocal", "Shared"}

VARIABLES
    parts,          \* partitions_[i].queue
    queued,         \* queued_
    outputStopped,  \* stopped_
    outputFinished, \* finished_
    dozing,         \* io threads between their predicate and the wait
    outputWaiters,  \* io threads waiting on data (Strict) or on meta_data_
    outputBroken    \* account_popped called std::terminate

outputVars == <<parts, queued, outputStopped, outputFinished, dozing,
                outputWaiters, outputBroken>>

OutputInit ==
    /\ parts = [i \in Partitions |-> <<>>]
    /\ queued = 0
    /\ outputStopped = FALSE
    /\ outputFinished = FALSE
    /\ dozing = {}
    /\ outputWaiters = {}
    /\ outputBroken = FALSE

PartitionOf(p) == Bucket[p] % PartitionCount

\* index % partition_count: the home partition of io thread <<"io", index>>
Home(w) == w[2] % PartitionCount

\* A faulty NextPartition: no wrap.
UnwrappedPartition(i) == i + 1

NextPartition(i) == (i + 1) % PartitionCount

\* Strict: a dozing thread holds the mutex of its home partition.
PartitionFree(i) ==
    Policy = "Strict" => \A w \in dozing : Home(w) # i

\* Otherwise it holds meta_mutex_.
MetaFree == Policy = "Strict" \/ dozing = {}

(***************************************************************************)
(* push: the insertion, then (not Strict) the count.                       *)
(***************************************************************************)
PushOutput(p) ==
    /\ ~outputStopped
    /\ PartitionFree(PartitionOf(p))
    /\ parts' = [parts EXCEPT ![PartitionOf(p)] = Append(@, p)]
    /\ LET idle == {w \in outputWaiters : Home(w) = PartitionOf(p)}
       IN  \/ /\ Policy = "Strict"
              /\ \E w \in idle : outputWaiters' = outputWaiters \ {w}
           \/ /\ Policy # "Strict" \/ idle = {}
              /\ UNCHANGED outputWaiters
    /\ UNCHANGED <<queued, outputStopped, outputFinished, dozing, outputBroken>>

OutputRefused(p) ==
    /\ outputStopped
    /\ PartitionFree(PartitionOf(p))
    /\ UNCHANGED outputVars

CountPushed ==
    /\ MetaFree
    /\ queued' = queued + 1
    /\ outputWaiters' = {}
    /\ UNCHANGED <<parts, outputStopped, outputFinished, dozing, outputBroken>>

(***************************************************************************)
(* pop_batch: take up to n items of partition i; wait; give up.            *)
(***************************************************************************)
Taken(i, n) ==
    SubSeq(parts[i], 1, IF n < Len(parts[i]) THEN n ELSE Len(parts[i]))

TakeBatch(i, n) ==
    /\ PartitionFree(i)
    /\ parts[i] # <<>>
    /\ parts' = [parts EXCEPT ![i] = SubSeq(@, Len(Taken(i, n)) + 1, Len(@))]
    /\ UNCHANGED <<queued, outputStopped, outputFinished, dozing,
                   outputWaiters, outputBroken>>

AccountPopped(count) ==
    /\ MetaFree
    /\ IF count > queued
       THEN outputBroken' = TRUE /\ UNCHANGED queued
       ELSE queued' = queued - count /\ UNCHANGED outputBroken
    /\ UNCHANGED <<parts, outputStopped, outputFinished, dozing, outputWaiters>>

\* the predicate of the wait was false
Doze(w) ==
    /\ ~outputStopped
    /\ ~outputFinished
    /\ dozing' = dozing \cup {w}
    /\ UNCHANGED <<parts, queued, outputStopped, outputFinished,
                   outputWaiters, outputBroken>>

\* the wait releases the mutex and blocks
FallAsleep(w) ==
    /\ w \in dozing
    /\ dozing' = dozing \ {w}
    /\ outputWaiters' = outputWaiters \cup {w}
    /\ UNCHANGED <<parts, queued, outputStopped, outputFinished, outputBroken>>

(***************************************************************************)
(* finish and stop: the store, then notify_all.                            *)
(***************************************************************************)
MarkFinished ==
    /\ outputFinished' = TRUE
    /\ UNCHANGED <<parts, queued, outputStopped, dozing, outputWaiters,
                   outputBroken>>

MarkStopped ==
    /\ outputStopped' = TRUE
    /\ UNCHANGED <<parts, queued, outputFinished, dozing, outputWaiters,
                   outputBroken>>

\* A faulty NotifyWriters: no notification.
NotifyNobody ==
    UNCHANGED outputVars

NotifyWriters ==
    /\ outputWaiters' = {}
    /\ UNCHANGED <<parts, queued, outputStopped, outputFinished, dozing,
                   outputBroken>>
=============================================================================
