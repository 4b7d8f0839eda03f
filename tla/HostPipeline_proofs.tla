------------------------ MODULE HostPipeline_proofs ------------------------
(***************************************************************************)
(* Proofs about HostPipeline, for any number of charts, threads, slots and *)
(* partitions, any batch sizes, policy and faults.                         *)
(*                                                                         *)
(* TypeOK is not inductive: a lease is taken for, and a chart is put in a  *)
(* queue by, a position in the hands of a thread, and only HandsOK and     *)
(* ClaimedOnce say that it is one. SlotsConserved needs ClaimedOnce too: a *)
(* push fills a slot only because its position is not in the queue yet.    *)
(* IInv is their conjunction, and it is inductive.                         *)
(***************************************************************************)
EXTENDS HostPipeline, FiniteSetTheorems, SequenceTheorems, TLAPS

IInv == TypeOK /\ HandsOK /\ ClaimedOnce /\ SlotsConserved

-----------------------------------------------------------------------------
(***************************************************************************)
(* Threads.                                                                *)
(***************************************************************************)
\* The kinds of threads are disjoint.
LEMMA Kinds ==
    /\ \A t \in Readers : t \notin Computes /\ t \notin Writers /\ t # Main
    /\ \A t \in Computes : t \notin Readers /\ t \notin Writers /\ t # Main
    /\ \A t \in Writers : t \notin Readers /\ t \notin Computes /\ t # Main
    /\ Main \in Threads
    /\ Readers \subseteq Threads /\ Computes \subseteq Threads
    /\ Writers \subseteq Threads
  BY DEF Readers, Computes, Writers, Main, Threads

\* The home partition of an io thread, and the one after a partition, exist.
LEMMA HomeType ==
    /\ \A w \in Writers : Home(w) \in Partitions
    /\ \A i \in Nat : NextPartition(i) \in Partitions
    /\ \A i \in Nat : i % PartitionCount \in Partitions
  <1>1. \A i \in Nat : i % PartitionCount \in Partitions
    BY OutputAssumption DEF Partitions
  <1>2. \A w \in Writers : w[2] \in Nat
    BY PipelineAssumption DEF Writers
  <1>3. QED
    BY <1>1, <1>2 DEF Home, NextPartition

\* A chart belongs to a partition that exists.
LEMMA PartitionOfType == \A p \in Positions : PartitionOf(p) \in Partitions
  BY HomeType, PipelineAssumption DEF PartitionOf

-----------------------------------------------------------------------------
(***************************************************************************)
(* CreditBudget.                                                           *)
(***************************************************************************)
\* A reservation is a number of bytes.
LEMMA ReservationType == \A p \in Positions : Reservation(p) \in Nat
  BY BudgetAssumption DEF Reservation

\* A reservation adds to the credit used and to the lease of its chart.
LEMMA CreditGrantedType ==
    ASSUME used \in Nat, lease \in [Positions -> Nat],
           NEW t, NEW p \in Positions, CreditGranted(t, p)
    PROVE  /\ used' \in Nat
           /\ lease' \in [Positions -> Nat]
           /\ UNCHANGED <<creditStopped, creditWaiters, creditBroken>>
  BY ReservationType DEF CreditGranted, TakeCredit

\* A release never takes the budget or a lease below zero.
LEMMA ReleaseCreditType ==
    ASSUME used \in Nat, lease \in [Positions -> Nat],
           creditBroken \in BOOLEAN,
           NEW p \in Positions, NEW bytes \in Nat, ReleaseCredit(p, bytes)
    PROVE  /\ used' \in Nat
           /\ lease' \in [Positions -> Nat]
           /\ creditBroken' \in BOOLEAN
           /\ creditWaiters' \subseteq creditWaiters
           /\ UNCHANGED creditStopped
  <1>1. CASE bytes > lease[p] \/ bytes > used
    BY <1>1 DEF ReleaseCredit
  <1>2. CASE ~(bytes > lease[p] \/ bytes > used)
    <2>1. used' = used - bytes /\ lease' = [lease EXCEPT ![p] = @ - bytes]
      BY <1>2 DEF ReleaseCredit
    <2>2. creditWaiters' = {} /\ UNCHANGED <<creditBroken, creditStopped>>
      BY <1>2 DEF ReleaseCredit
    <2>3. used' \in Nat /\ lease' \in [Positions -> Nat]
      BY <1>2, <2>1
    <2>4. QED
      BY <2>2, <2>3
  <1>3. QED
    BY <1>1, <1>2

\* Giving back a buffer counts it, or ends the process.
LEMMA ReleaseBufferType ==
    ASSUME freeBuffers \in Nat, poolBroken \in BOOLEAN, ReleaseBuffer
    PROVE  freeBuffers' \in Nat /\ poolBroken' \in BOOLEAN
  <1>1. CASE freeBuffers >= Charts
    BY <1>1 DEF ReleaseBuffer
  <1>2. CASE ~(freeBuffers >= Charts)
    BY <1>2 DEF ReleaseBuffer
  <1>3. QED
    BY <1>1, <1>2

-----------------------------------------------------------------------------
(***************************************************************************)
(* InputQueue.                                                             *)
(***************************************************************************)
\* A slot is given back at most once for a call, or the process ends.
LEMMA GiveBackSlotType ==
    ASSUME inputBroken \in BOOLEAN, GiveBackSlot
    PROVE  /\ inputBroken' \in BOOLEAN
           /\ spaceWaiters' \subseteq spaceWaiters
           /\ reserved # 0 => reserved' = reserved - 1
           /\ reserved = 0 => reserved' = 0
  BY DEF GiveBackSlot, NotifySpace

\* A push fills a slot that is reserved already.
LEMMA PushReservedType ==
    ASSUME inputBroken \in BOOLEAN, NEW p, PushReserved(p)
    PROVE  /\ inputBroken' \in BOOLEAN
           /\ dataWaiters' \subseteq dataWaiters
           /\ reserved # 0 => queue' = queue \cup {p}
           /\ reserved = 0 => queue' = queue
           /\ UNCHANGED <<reserved, inputStopped, inputFinished, spaceWaiters>>
  BY DEF PushReserved, NotifyData

\* Taking a chart gives back its slot.
LEMMA TakeOrderedType ==
    ASSUME NEW p, TakeOrdered(p)
    PROVE  /\ p \in queue
           /\ queue' = queue \ {p}
           /\ reserved' = reserved - 1
           /\ spaceWaiters' \subseteq spaceWaiters
           /\ UNCHANGED <<inputStopped, inputFinished, dataWaiters, inputBroken>>
  BY DEF TakeOrdered, NotifySpace

-----------------------------------------------------------------------------
(***************************************************************************)
(* OutputQueue.                                                            *)
(***************************************************************************)
\* A batch is a non-empty prefix of a partition, and the rest stays there.
LEMMA TakeBatchType ==
    ASSUME parts \in [Partitions -> Seq(Positions)],
           NEW i \in Partitions, NEW n \in Nat \ {0}, TakeBatch(i, n)
    PROVE  /\ Taken(i, n) \in Seq(Positions)
           /\ parts' \in [Partitions -> Seq(Positions)]
           /\ UNCHANGED <<queued, outputStopped, outputFinished, dozing,
                          outputWaiters, outputBroken>>
  <1> DEFINE len == IF n < Len(parts[i]) THEN n ELSE Len(parts[i])
  <1>1. parts[i] \in Seq(Positions) /\ Len(parts[i]) \in Nat
    BY LenProperties
  <1>2. len \in 0 .. Len(parts[i])
    BY <1>1
  <1>3. Taken(i, n) \in Seq(Positions) /\ Len(Taken(i, n)) = len
    BY <1>1, <1>2, SubSeqProperties DEF Taken
  <1>4. SubSeq(parts[i], len + 1, Len(parts[i])) \in Seq(Positions)
    BY <1>1, <1>2, SubSeqProperties
  <1>5. parts' = [parts EXCEPT ![i] = SubSeq(parts[i], len + 1, Len(parts[i]))]
    BY <1>3 DEF TakeBatch
  <1>6. parts' \in [Partitions -> Seq(Positions)]
    BY <1>4, <1>5
  <1>7. QED
    BY <1>3, <1>6 DEF TakeBatch

\* A push keeps the partitions sequences of positions.
LEMMA PushOutputType ==
    ASSUME parts \in [Partitions -> Seq(Positions)],
           NEW p \in Positions, PushOutput(p)
    PROVE  /\ parts' \in [Partitions -> Seq(Positions)]
           /\ outputWaiters' \subseteq outputWaiters
           /\ UNCHANGED <<queued, outputStopped, outputFinished, dozing,
                          outputBroken>>
  <1>1. PartitionOf(p) \in Partitions
    BY PartitionOfType
  <1>2. Append(parts[PartitionOf(p)], p) \in Seq(Positions)
    BY <1>1, AppendProperties
  <1>3. parts' = [parts EXCEPT ![PartitionOf(p)] =
                      Append(parts[PartitionOf(p)], p)]
    BY DEF PushOutput
  <1>4. parts' \in [Partitions -> Seq(Positions)]
    BY <1>2, <1>3
  <1>5. outputWaiters' \subseteq outputWaiters
    BY DEF PushOutput
  <1>6. QED
    BY <1>4, <1>5 DEF PushOutput

-----------------------------------------------------------------------------
(***************************************************************************)
(* What a step leaves alone.                                               *)
(***************************************************************************)
SameReaders == \A r \in Readers : pc'[r] = pc[r] /\ cur'[r] = cur[r]

SameComputes ==
    \A c \in Computes : /\ pc'[c] = pc[c] /\ resume'[c] = resume[c]
                        /\ cur'[c] = cur[c] /\ ahead'[c] = ahead[c]

\* The readers' invariants are about the readers, the queue and next.
LEMMA ReadersFrame ==
    ASSUME TypeOK, ClaimedOnce, SlotsConserved, SameReaders,
           UNCHANGED <<queue, reserved>>, next' \in Nat, next <= next'
    PROVE  ClaimedOnce' /\ SlotsConserved'
  <1>1. Claimers' = Claimers /\ SlotHolders' = SlotHolders
    BY DEF SameReaders, Claimers, SlotHolders
  <1>2. \A r \in Claimers : r \in Readers /\ cur'[r] = cur[r]
    BY DEF SameReaders, Claimers
  <1>3. \A p \in Positions : p < next => p < next'
    BY BudgetAssumption DEF TypeOK, CountersTypeOK, Positions
  <1>4. ClaimedOnce'
    BY <1>1, <1>2, <1>3 DEF ClaimedOnce, TypeOK, PlacesTypeOK
  <1>5. SlotsConserved'
    BY <1>1 DEF SlotsConserved
  <1>6. QED
    BY <1>4, <1>5

\* HandsOK is about the compute threads.
LEMMA ComputesFrame ==
    ASSUME HandsOK, SameComputes
    PROVE  HandsOK'
  BY DEF HandsOK, HandOK, SameComputes, Busy

\* The readers and the queue are finite.
LEMMA Finite ==
    ASSUME TypeOK
    PROVE  /\ IsFiniteSet(queue) /\ Cardinality(queue) \in Nat
           /\ IsFiniteSet(SlotHolders) /\ Cardinality(SlotHolders) \in Nat
  <1>1. IsFiniteSet(Positions) /\ IsFiniteSet(0 .. InputReaders - 1)
    BY FS_Interval, BudgetAssumption, PipelineAssumption DEF Positions
  <1>2. IsFiniteSet(queue)
    BY <1>1, FS_Subset DEF TypeOK, PlacesTypeOK
  <1>3. IsFiniteSet(Readers)
    BY <1>1, FS_Singleton, FS_Product DEF Readers
  <1>4. IsFiniteSet(SlotHolders)
    BY <1>3, FS_Subset DEF SlotHolders
  <1>5. QED
    BY <1>2, <1>4, FS_CardinalityType

\* A reader that takes or gives up a slot.
LEMMA HolderCount ==
    ASSUME TypeOK, NEW r \in Readers
    PROVE  /\ r \notin SlotHolders /\ SlotHolders' = SlotHolders \cup {r} =>
                  Cardinality(SlotHolders') = Cardinality(SlotHolders) + 1
           /\ r \in SlotHolders /\ SlotHolders' = SlotHolders \ {r} =>
                  Cardinality(SlotHolders') = Cardinality(SlotHolders) - 1
  BY Finite, FS_AddElement, FS_RemoveElement

\* How the number of queued charts changes.
LEMMA QueueCount ==
    ASSUME TypeOK, NEW p
    PROVE  /\ p \notin queue => Cardinality(queue \cup {p}) = Cardinality(queue) + 1
           /\ p \in queue => Cardinality(queue \ {p}) = Cardinality(queue) - 1
  BY Finite, FS_AddElement, FS_RemoveElement

-----------------------------------------------------------------------------
(***************************************************************************)
(* The initial states.                                                     *)
(***************************************************************************)
LEMMA InitInvariant == Init => IInv
  <1> SUFFICES ASSUME Init PROVE IInv
    OBVIOUS
  <1> USE DEF Init, BudgetInit, InputInit, OutputInit
  <1>1. FlagsTypeOK
    BY DEF FlagsTypeOK
  <1>2. CountersTypeOK
    BY PipelineAssumption DEF CountersTypeOK
  <1>3. PlacesTypeOK
    BY DEF PlacesTypeOK
  <1>4. WaitersTypeOK
    BY DEF WaitersTypeOK
  <1>5. \A w \in Writers : Home(w) \in Nat
    BY HomeType, OutputAssumption DEF Partitions
  <1>6. ThreadsTypeOK
    <2>1. pc \in [Threads -> Labels]
      BY Kinds DEF Labels, Threads
    <2>2. cursor \in [Writers -> Partitions]
      BY <1>5, HomeType
    <2>3. /\ resume \in [Computes \cup Writers -> Resumptions]
          /\ cur \in [Readers \cup Computes -> Nat]
          /\ ahead \in [Computes -> Nat]
          /\ wix \in [Computes \cup Writers -> Nat]
          /\ offset \in [Writers -> Nat]
      BY DEF Resumptions
    <2>4. QED
      BY <2>1, <2>2, <2>3 DEF ThreadsTypeOK
  <1>7. TypeOK
    BY <1>1, <1>2, <1>3, <1>4, <1>6 DEF TypeOK
  <1>8. \A c \in Computes : pc[c] = "loop"
    BY Kinds
  <1>9. HandsOK
    BY <1>8 DEF HandsOK, HandOK, Busy
  <1>10. \A r \in Readers : pc[r] = "loop"
    BY Kinds
  <1>11. Claimers = {} /\ SlotHolders = {}
    BY <1>10 DEF Claimers, SlotHolders
  <1>12. ClaimedOnce
    BY <1>11 DEF ClaimedOnce
  <1>13. SlotsConserved
    BY <1>11, FS_EmptySet, QueueAssumption DEF SlotsConserved
  <1>14. QED
    BY <1>7, <1>9, <1>12, <1>13 DEF IInv
-----------------------------------------------------------------------------
(***************************************************************************)
(* Reader threads.                                                         *)
(***************************************************************************)
LEMMA ReaderStep ==
    ASSUME IInv, NEW r \in Readers, Reader(r)
    PROVE  IInv'
  <1> USE DEF IInv, TypeOK, Goes, Moves, KeepLocals, budgetVars, poolVars,
              inputVars, outputVars, sharedVars
  <1>0. /\ r \notin Computes /\ r \in Threads /\ cur[r] \in Nat
        /\ Readers \subseteq Threads /\ Computes \subseteq Threads
    BY Kinds DEF ThreadsTypeOK
  <1>a. CASE ReaderLoop(r)
    <2> USE <1>a DEF ReaderLoop
    <2>1. FlagsTypeOK' /\ PlacesTypeOK' /\ WaitersTypeOK' /\ CountersTypeOK'
      BY DEF FlagsTypeOK, PlacesTypeOK, WaitersTypeOK, CountersTypeOK
    <2>2. ThreadsTypeOK'
      BY DEF ThreadsTypeOK, Labels
    <2>3. HandsOK'
      BY <1>0, ComputesFrame DEF SameComputes, ThreadsTypeOK
    <2>4. SlotHolders' = SlotHolders /\ Claimers' = Claimers
      BY <1>0 DEF SlotHolders, Claimers, ThreadsTypeOK
    <2>5. ClaimedOnce' /\ SlotsConserved'
      BY <2>4 DEF ClaimedOnce, SlotsConserved
    <2>6. QED
      BY <2>1, <2>2, <2>3, <2>5
  <1>1. CASE ReaderClaim(r)
    <2> USE <1>1 DEF ReaderClaim
    <2>1. FlagsTypeOK' /\ PlacesTypeOK' /\ WaitersTypeOK'
      BY DEF FlagsTypeOK, PlacesTypeOK, WaitersTypeOK
    <2>2. next' \in Nat /\ next <= next'
      BY DEF CountersTypeOK
    <2>3. CountersTypeOK'
      BY <2>2 DEF CountersTypeOK
    <2>4. /\ cur' \in [Readers \cup Computes -> Nat]
          /\ pc' \in [Threads -> Labels]
      BY DEF ThreadsTypeOK, CountersTypeOK, Labels
    <2>5. ThreadsTypeOK'
      BY <2>4 DEF ThreadsTypeOK
    <2>6. HandsOK'
      BY <1>0, ComputesFrame DEF SameComputes, ThreadsTypeOK
    <2>7. SlotHolders' = SlotHolders
      BY <1>0 DEF SlotHolders, ThreadsTypeOK
    <2>8. SlotsConserved'
      BY <2>7 DEF SlotsConserved
    <2>9. CASE next >= Charts
      <3>1. Claimers' = Claimers
        BY <2>9, <1>0, BudgetAssumption DEF Claimers, ThreadsTypeOK, CountersTypeOK
      <3>2. \A x \in Claimers : x # r /\ x \in Readers /\ cur'[x] = cur[x]
        BY <1>0 DEF Claimers, ThreadsTypeOK
      <3>3. ClaimedOnce'
        BY <2>2, <3>1, <3>2, BudgetAssumption
           DEF ClaimedOnce, Positions, PlacesTypeOK, CountersTypeOK
      <3>4. QED
        BY <2>1, <2>3, <2>5, <2>6, <2>8, <3>3
    <2>10. CASE next < Charts
      <3>0. ~(next >= Charts)
        BY <2>10, BudgetAssumption DEF CountersTypeOK
      <3>1. Claimers' = Claimers \cup {r} /\ r \notin Claimers
        BY <3>0, <1>0 DEF Claimers, ThreadsTypeOK
      <3>2. next \in Positions /\ next \notin queue /\ next' = next + 1
        BY <2>10, BudgetAssumption DEF CountersTypeOK, ClaimedOnce, Positions
      <3>3. cur'[r] = next /\ \A x \in Claimers : cur'[x] = cur[x] /\ cur[x] < next
        BY <2>10, <3>1 DEF ThreadsTypeOK, Claimers, ClaimedOnce
      <3>4. \A x \in Claimers : cur[x] \in Positions /\ cur[x] \notin queue
        BY DEF ClaimedOnce
      <3>5. queue' = queue /\ \A p \in queue : p \in Positions /\ p < next
        BY DEF ClaimedOnce, PlacesTypeOK
      <3>6. \A x \in Claimers' : /\ cur'[x] \in Positions /\ cur'[x] < next'
                                 /\ cur'[x] \notin queue'
        BY <3>1, <3>2, <3>3, <3>4, <3>5, BudgetAssumption DEF Positions, CountersTypeOK
      <3>7. \A x, y \in Claimers' : cur'[x] = cur'[y] => x = y
        BY <3>1, <3>2, <3>3, <3>4, BudgetAssumption DEF ClaimedOnce, Positions
      <3>8. ClaimedOnce'
        BY <3>2, <3>5, <3>6, <3>7, BudgetAssumption DEF ClaimedOnce, Positions
      <3>9. QED
        BY <2>1, <2>3, <2>5, <2>6, <2>8, <3>8
    <2>11. QED
      BY <2>9, <2>10, BudgetAssumption DEF CountersTypeOK
  <1>2. CASE ReaderReserve(r)
    <2> USE <1>2 DEF ReaderReserve, SlotReserved, SlotRefused, SlotAwaited
    <2>1. FlagsTypeOK'
      BY DEF FlagsTypeOK
    <2>2. CountersTypeOK' /\ PlacesTypeOK'
      BY DEF CountersTypeOK, PlacesTypeOK
    <2>3. WaitersTypeOK'
      BY DEF WaitersTypeOK
    <2>4. ThreadsTypeOK'
      BY DEF ThreadsTypeOK, Labels
    <2>5. HandsOK'
      BY <1>0, ComputesFrame DEF SameComputes, ThreadsTypeOK
    <2>6. Claimers' \subseteq Claimers
      BY <1>0 DEF Claimers, ThreadsTypeOK
    <2>7. ClaimedOnce'
      BY <2>6 DEF ClaimedOnce
    <2>8. CASE pc'[r] = "acquire"
      <3>1. SlotHolders' = SlotHolders \cup {r} /\ r \notin SlotHolders
        BY <2>8, <1>0 DEF SlotHolders, ThreadsTypeOK
      <3>2. reserved' = reserved + 1 /\ reserved < QueueCapacity /\ queue' = queue
        BY <2>8, <1>0 DEF ThreadsTypeOK
      <3>3. Cardinality(SlotHolders') = Cardinality(SlotHolders) + 1
        BY <3>1, HolderCount
      <3>4. SlotsConserved'
        BY <3>2, <3>3, Finite, QueueAssumption DEF SlotsConserved, CountersTypeOK
      <3>5. QED
        BY <2>1, <2>2, <2>3, <2>4, <2>5, <2>7, <3>4
    <2>9. CASE pc'[r] # "acquire"
      <3>1. SlotHolders' = SlotHolders
        BY <2>9, <1>0 DEF SlotHolders, ThreadsTypeOK
      <3>2. UNCHANGED <<reserved, queue>>
        BY <2>9, <1>0 DEF ThreadsTypeOK
      <3>3. SlotsConserved'
        BY <3>1, <3>2 DEF SlotsConserved
      <3>4. QED
        BY <2>1, <2>2, <2>3, <2>4, <2>5, <2>7, <3>3
    <2>10. QED
      BY <2>8, <2>9
  <1>3. CASE ReaderAcquire(r)
    <2> USE <1>3 DEF ReaderAcquire
    <2>1. cur[r] \in Positions
      BY DEF ClaimedOnce, Claimers
    <2>2. /\ FlagsTypeOK'
          /\ used' \in Nat /\ lease' \in [Positions -> Nat]
      <3>1. CASE CreditGranted(r, cur[r])
        BY <2>1, <3>1, CreditGrantedType DEF CountersTypeOK, FlagsTypeOK
      <3>2. CASE CreditRefused(r) \/ CreditAwaited(r, cur[r])
        BY <3>2 DEF CreditRefused, CreditAwaited, CountersTypeOK, FlagsTypeOK
      <3>3. QED
        BY <3>1, <3>2
    <2>3. CountersTypeOK' /\ PlacesTypeOK'
      BY <2>2 DEF CountersTypeOK, PlacesTypeOK
    <2>4. WaitersTypeOK'
      BY DEF WaitersTypeOK, CreditGranted, CreditRefused, CreditAwaited, TakeCredit
    <2>5. ThreadsTypeOK'
      BY DEF ThreadsTypeOK, Labels
    <2>6. HandsOK'
      BY <1>0, ComputesFrame DEF SameComputes, ThreadsTypeOK
    <2>7. SlotHolders' = SlotHolders /\ Claimers' \subseteq Claimers
      BY <1>0 DEF SlotHolders, Claimers, ThreadsTypeOK
    <2>8. ClaimedOnce' /\ SlotsConserved'
      BY <2>7 DEF ClaimedOnce, SlotsConserved
    <2>9. QED
      BY <2>2, <2>3, <2>4, <2>5, <2>6, <2>8
  <1>4. CASE ReaderRead(r)
    <2> USE <1>4 DEF ReaderRead
    <2>1. cur[r] \in Positions /\ lease[cur[r]] \in Nat
      BY DEF ClaimedOnce, Claimers, CountersTypeOK
    <2>2. /\ used' \in Nat /\ lease' \in [Positions -> Nat]
          /\ creditBroken' \in BOOLEAN
          /\ creditWaiters' \subseteq creditWaiters
          /\ UNCHANGED creditStopped
      BY <2>1, ReleaseCreditType DEF CountersTypeOK, FlagsTypeOK
    <2>3. FlagsTypeOK'
      BY <2>2 DEF FlagsTypeOK
    <2>4. CountersTypeOK' /\ PlacesTypeOK' /\ WaitersTypeOK'
      BY <2>2 DEF CountersTypeOK, PlacesTypeOK, WaitersTypeOK
    <2>5. ThreadsTypeOK'
      BY DEF ThreadsTypeOK, Labels
    <2>6. HandsOK'
      BY <1>0, ComputesFrame DEF SameComputes, ThreadsTypeOK
    <2>7. SlotHolders' = SlotHolders /\ Claimers' \subseteq Claimers
      BY <1>0 DEF SlotHolders, Claimers, ThreadsTypeOK
    <2>8. ClaimedOnce' /\ SlotsConserved'
      BY <2>7 DEF ClaimedOnce, SlotsConserved
    <2>9. QED
      BY <2>3, <2>4, <2>5, <2>6, <2>8
  <1>5. CASE ReaderPush(r)
    <2> USE <1>5 DEF ReaderPush
    <2>1. /\ cur[r] \in Positions /\ lease[cur[r]] \in Nat
          /\ cur[r] \notin queue /\ cur[r] < next
      BY DEF ClaimedOnce, Claimers, CountersTypeOK
    <2>2. /\ used' \in Nat /\ lease' \in [Positions -> Nat]
          /\ creditBroken' \in BOOLEAN
          /\ creditWaiters' \subseteq creditWaiters
          /\ UNCHANGED creditStopped
      BY <2>1, ReleaseCreditType DEF CountersTypeOK, FlagsTypeOK
    <2>3. r \in SlotHolders /\ r \in Claimers
      BY DEF SlotHolders, Claimers
    <2>4. Cardinality(SlotHolders) > 0 /\ reserved # 0
      BY <2>3, Finite, FS_EmptySet DEF SlotsConserved
    <2>5. SlotHolders' = SlotHolders \ {r} /\ Claimers' = Claimers \ {r}
      BY <1>0 DEF SlotHolders, Claimers, ThreadsTypeOK
    <2>6. Cardinality(SlotHolders') = Cardinality(SlotHolders) - 1
      BY <2>3, <2>5, HolderCount
    <2>7. /\ inputBroken' \in BOOLEAN
          /\ spaceWaiters' \subseteq spaceWaiters
          /\ dataWaiters' \subseteq dataWaiters
          /\ UNCHANGED <<inputStopped, inputFinished>>
          /\ \/ queue' = queue \cup {cur[r]} /\ reserved' = reserved
             \/ queue' = queue /\ reserved' = reserved - 1
      BY <2>4, PushReservedType, GiveBackSlotType DEF FlagsTypeOK, PushRefused
    <2>8. FlagsTypeOK'
      BY <2>2, <2>7 DEF FlagsTypeOK
    <2>9. CountersTypeOK' /\ PlacesTypeOK' /\ WaitersTypeOK'
      BY <2>1, <2>2, <2>7 DEF CountersTypeOK, PlacesTypeOK, WaitersTypeOK
    <2>10. ThreadsTypeOK'
      BY DEF ThreadsTypeOK, Labels
    <2>11. HandsOK'
      BY <1>0, ComputesFrame DEF SameComputes, ThreadsTypeOK
    <2>12. ClaimedOnce'
      BY <2>1, <2>3, <2>5, <2>7 DEF ClaimedOnce
    <2>13. SlotsConserved'
      BY <2>1, <2>6, <2>7, QueueCount, Finite, QueueAssumption
         DEF SlotsConserved, CountersTypeOK
    <2>14. QED
      BY <2>8, <2>9, <2>10, <2>11, <2>12, <2>13
  <1>6. CASE ReaderCancel(r)
    <2> USE <1>6 DEF ReaderCancel, CancelReservation
    <2>1. r \in SlotHolders
      BY DEF SlotHolders
    <2>2. Cardinality(SlotHolders) > 0 /\ reserved # 0
      BY <2>1, Finite, FS_EmptySet DEF SlotsConserved
    <2>3. SlotHolders' = SlotHolders \ {r} /\ Claimers' = Claimers
      BY <1>0 DEF SlotHolders, Claimers, ThreadsTypeOK
    <2>4. /\ inputBroken' \in BOOLEAN
          /\ spaceWaiters' \subseteq spaceWaiters
          /\ reserved' = reserved - 1
      BY <2>2, GiveBackSlotType DEF FlagsTypeOK
    <2>5. FlagsTypeOK'
      BY <2>4 DEF FlagsTypeOK
    <2>6. CountersTypeOK' /\ PlacesTypeOK' /\ WaitersTypeOK'
      BY <2>4 DEF CountersTypeOK, PlacesTypeOK, WaitersTypeOK
    <2>7. ThreadsTypeOK'
      BY DEF ThreadsTypeOK, Labels
    <2>8. HandsOK'
      BY <1>0, ComputesFrame DEF SameComputes, ThreadsTypeOK
    <2>9. ClaimedOnce'
      BY <2>3 DEF ClaimedOnce
    <2>10. Cardinality(SlotHolders') = Cardinality(SlotHolders) - 1
      BY <2>1, <2>3, HolderCount
    <2>11. SlotsConserved'
      BY <2>4, <2>10, Finite, QueueAssumption DEF SlotsConserved, CountersTypeOK
    <2>12. QED
      BY <2>5, <2>6, <2>7, <2>8, <2>9, <2>11
  <1>7. CASE ReaderLeave(r)
    <2> USE <1>7 DEF ReaderLeave, FinishInput
    <2>1. FlagsTypeOK'
      BY DEF FlagsTypeOK
    <2>2. CountersTypeOK' /\ PlacesTypeOK'
      BY DEF CountersTypeOK, PlacesTypeOK
    <2>3. WaitersTypeOK'
      BY DEF WaitersTypeOK
    <2>4. ThreadsTypeOK'
      BY DEF ThreadsTypeOK, Labels
    <2>5. HandsOK'
      BY <1>0, ComputesFrame DEF SameComputes, ThreadsTypeOK
    <2>6. SlotHolders' = SlotHolders /\ Claimers' = Claimers
      BY <1>0 DEF SlotHolders, Claimers, ThreadsTypeOK
    <2>7. UNCHANGED <<queue, reserved>>
      OBVIOUS
    <2>8. ClaimedOnce' /\ SlotsConserved'
      BY <2>6, <2>7 DEF ClaimedOnce, SlotsConserved
    <2>9. QED
      BY <2>1, <2>2, <2>3, <2>4, <2>5, <2>8
  <1>8. QED
    BY <1>a, <1>1, <1>2, <1>3, <1>4, <1>5, <1>6, <1>7 DEF Reader
-----------------------------------------------------------------------------
(***************************************************************************)
(* fail: a thread on its way out is in no stage the invariants speak of,   *)
(* and stays out of all of them.                                           *)
(***************************************************************************)
FailLabels ==
    {"fail", "fail_credit", "fail_input", "fail_output", "fail_notify",
     "fail_workers"}

\* A step of fail moves only the thread that takes it, and no chart.
LEMMA FailFrame ==
    ASSUME IInv, NEW t \in Readers \cup Computes \cup Writers,
           pc[t] \in FailLabels,
           NEW to \in FailLabels \cup {"leave", "done", "clear"},
           pc' = [pc EXCEPT ![t] = to],
           \/ UNCHANGED resume
           \/ t \in Computes /\ resume' = [resume EXCEPT ![t] = "done"],
           to = "clear" => resume'[t] = "done",
           UNCHANGED <<cur, ahead, next, queue, reserved>>
    PROVE  HandsOK' /\ ClaimedOnce' /\ SlotsConserved'
  <1> USE DEF IInv, TypeOK
  <1>1. \A x \in Threads : pc'[x] = IF x = t THEN to ELSE pc[x]
    BY DEF ThreadsTypeOK
  <1>2. \A x \in Computes \cup Writers : x # t => resume'[x] = resume[x]
    BY DEF ThreadsTypeOK
  <1>3. HandsOK'
    BY <1>1, <1>2, Kinds DEF HandsOK, HandOK, Busy, FailLabels
  <1>4. Claimers' = Claimers /\ SlotHolders' = SlotHolders
    BY <1>1, Kinds DEF Claimers, SlotHolders, FailLabels
  <1>5. ClaimedOnce' /\ SlotsConserved'
    BY <1>4 DEF ClaimedOnce, SlotsConserved
  <1>6. QED
    BY <1>3, <1>5

\* No thread's fail disturbs the invariant.
LEMMA FailStep ==
    ASSUME IInv, NEW t \in Readers \cup Computes \cup Writers, Fail(t)
    PROVE  IInv'
  <1> USE DEF IInv, TypeOK, Goes, Moves, KeepLocals, budgetVars, poolVars,
              inputVars, outputVars, sharedVars
  <1>1. UNCHANGED <<cur, ahead, batch, wix, cursor, offset>>
    BY DEF Fail, FailFirst, FailAgain, FailStops, FailAbortsWorkers
  <1>2. UNCHANGED <<next, expected, remainingReaders, written, used, lease,
                    poolVars, reserved, queue, parts, queued, dozing>>
    BY DEF Fail, FailFirst, FailAgain, FailStops, FailAbortsWorkers, StopCredit,
           StopInput, MarkStopped, NotifyWriters
  <1>a. workersAborted' \in Nat
    BY DEF Fail, FailFirst, FailAgain, FailStops, FailAbortsWorkers, CountersTypeOK
  <1>3. FlagsTypeOK'
    <2>1. CASE FailFirst(t)
      BY <2>1 DEF FailFirst, FlagsTypeOK
    <2>2. CASE FailAgain(t)
      BY <2>2 DEF FailAgain, FlagsTypeOK
    <2>3. CASE FailStops(t)
      <3>1. CASE pc[t] = "fail_credit"
        BY <2>3, <3>1 DEF FailStops, StopCredit, FlagsTypeOK
      <3>2. CASE pc[t] = "fail_input"
        BY <2>3, <3>2 DEF FailStops, StopInput, FlagsTypeOK
      <3>3. CASE pc[t] = "fail_output"
        BY <2>3, <3>3 DEF FailStops, MarkStopped, FlagsTypeOK
      <3>4. CASE pc[t] = "fail_notify"
        BY <2>3, <3>4 DEF FailStops, NotifyWriters, FlagsTypeOK
      <3>5. QED
        BY <2>3, <3>1, <3>2, <3>3, <3>4 DEF FailStops
    <2>4. CASE FailAbortsWorkers(t)
      BY <2>4 DEF FailAbortsWorkers, FlagsTypeOK
    <2>5. QED
      BY <2>1, <2>2, <2>3, <2>4 DEF Fail
  <1>4. CountersTypeOK' /\ PlacesTypeOK'
    BY <1>1, <1>2, <1>a DEF CountersTypeOK, PlacesTypeOK
  <1>5. WaitersTypeOK'
    BY DEF Fail, FailFirst, FailAgain, FailStops, FailAbortsWorkers, StopCredit,
           StopInput, MarkStopped, NotifyWriters, WaitersTypeOK
  <1>6. AfterFail(t) = IF t \in Computes THEN "clear"
                       ELSE IF t \in Readers THEN "leave" ELSE "done"
    BY Kinds DEF AfterFail
  <1>7. PICK to \in FailLabels \cup {"leave", "done", "clear"} :
            /\ pc[t] \in FailLabels
            /\ pc' = [pc EXCEPT ![t] = to]
            /\ IF to \in FailLabels THEN UNCHANGED resume ELSE Unwound(t)
            /\ to = "clear" => t \in Computes
    BY <1>6 DEF Fail, FailFirst, FailAgain, FailStops, FailAbortsWorkers, FailLabels
  <1>8. /\ \/ UNCHANGED resume
           \/ t \in Computes /\ resume' = [resume EXCEPT ![t] = "done"]
        /\ to = "clear" => resume'[t] = "done"
    BY <1>7 DEF Unwound, ThreadsTypeOK, FailLabels
  <1>9. ThreadsTypeOK'
    BY <1>1, <1>7, <1>8 DEF ThreadsTypeOK, FailLabels, Labels, Resumptions
  <1>10. HandsOK' /\ ClaimedOnce' /\ SlotsConserved'
    BY <1>1, <1>2, <1>7, <1>8, FailFrame
  <1>11. QED
    BY <1>3, <1>4, <1>5, <1>9, <1>10
-----------------------------------------------------------------------------
(***************************************************************************)
(* Compute threads.                                                        *)
(***************************************************************************)
OtherComputes(c) ==
    \A x \in Computes : x # c =>
        /\ pc'[x] = pc[x] /\ resume'[x] = resume[x]
        /\ cur'[x] = cur[x] /\ ahead'[x] = ahead[x]

\* What one compute thread holds concerns the others only through next.
LEMMA HandsFrame ==
    ASSUME HandsOK, NEW c \in Computes, OtherComputes(c), HandOK(c)'
    PROVE  HandsOK'
  BY DEF HandsOK, HandOK, OtherComputes, Busy

\* A position a compute thread may take credit for or read.
LEMMA HandInRange ==
    ASSUME TypeOK, HandsOK, NEW c \in Computes,
           pc[c] \in {"try_acquire", "acquire", "read", "process", "kernel",
                      "refused", "submit"}
    PROVE  cur[c] \in Positions /\ lease[cur[c]] \in Nat
  <1>1. cur[c] \in Positions
    <2>1. CASE pc[c] \in {"try_acquire", "acquire", "read"}
      <3>1. cur[c] + ahead[c] < Charts
        BY <2>1 DEF HandsOK, HandOK, Busy
      <3>2. cur[c] \in Nat /\ ahead[c] \in Nat
        BY DEF TypeOK, ThreadsTypeOK
      <3>3. QED
        BY <3>1, <3>2, BudgetAssumption DEF Positions
    <2>2. CASE pc[c] \in {"process", "kernel", "refused", "submit"}
      BY <2>2 DEF HandsOK, HandOK
    <2>3. QED
      BY <2>1, <2>2
  <1>2. QED
    BY <1>1 DEF TypeOK, CountersTypeOK

\* A step of a compute thread changes that thread only.
LEMMA ComputeLocal ==
    ASSUME IInv, NEW c \in Computes, Compute(c)
    PROVE  ThreadsTypeOK' /\ SameReaders /\ OtherComputes(c)
  <1> USE DEF Goes, Moves, KeepLocals, ThreadsTypeOK, Labels, SameReaders,
              OtherComputes
  <1>1. TypeOK
    BY DEF IInv
  <1>2. /\ Readers \subseteq Threads /\ Computes \subseteq Threads
        /\ c \notin Readers
    BY Kinds
  <1>3. cur[c] \in Nat /\ ahead[c] \in Nat /\ next \in Nat /\ expected \in Nat
    BY <1>1 DEF TypeOK, CountersTypeOK
  <1>a. CASE ComputeLoop(c)
    BY <1>1, <1>2, <1>3, <1>a, BudgetAssumption, PipelineAssumption
       DEF TypeOK, ComputeLoop, Leaving, Resumptions
  <1>4. CASE DirectClaim(c)
    BY <1>1, <1>2, <1>3, <1>4, BudgetAssumption, PipelineAssumption
       DEF TypeOK, DirectClaim, Leaving, Resumptions
  <1>5. CASE DirectTryAcquire(c)
    BY <1>1, <1>2, <1>3, <1>5, BudgetAssumption, PipelineAssumption
       DEF TypeOK, DirectTryAcquire, Resumptions
  <1>6. CASE DirectAcquire(c)
    BY <1>1, <1>2, <1>3, <1>6, BudgetAssumption, PipelineAssumption
       DEF TypeOK, DirectAcquire
  <1>7. CASE DirectRead(c)
    BY <1>1, <1>2, <1>3, <1>7, BudgetAssumption, PipelineAssumption
       DEF TypeOK, DirectRead
  <1>8. CASE DirectNext(c)
    BY <1>1, <1>2, <1>3, <1>8, BudgetAssumption, PipelineAssumption
       DEF TypeOK, DirectNext, EndOfBatch, Resumptions
  <1>9. CASE OrderedClaim(c)
    BY <1>1, <1>2, <1>3, <1>9, BudgetAssumption, PipelineAssumption
       DEF TypeOK, OrderedClaim, Leaving, Resumptions
  <1>10. CASE OrderedTry(c)
    BY <1>1, <1>2, <1>3, <1>10, BudgetAssumption, PipelineAssumption
       DEF TypeOK, OrderedTry, Resumptions
  <1>11. CASE OrderedPop(c)
    BY <1>1, <1>2, <1>3, <1>11, BudgetAssumption, PipelineAssumption
       DEF TypeOK, OrderedPop, Leaving, Resumptions
  <1>12. CASE OrderedNext(c)
    BY <1>1, <1>2, <1>3, <1>12, BudgetAssumption, PipelineAssumption
       DEF TypeOK, OrderedNext
  <1>13. CASE Process(c)
    BY <1>1, <1>2, <1>3, <1>13, BudgetAssumption, PipelineAssumption
       DEF TypeOK, Process
  <1>14. CASE KernelReturns(c)
    BY <1>1, <1>2, <1>3, <1>14, BudgetAssumption, PipelineAssumption
       DEF TypeOK, KernelReturns
  <1>15. CASE KernelThrows(c)
    BY <1>1, <1>2, <1>3, <1>15, BudgetAssumption, PipelineAssumption
       DEF TypeOK, KernelThrows
  <1>16. CASE SubmitQueued(c)
    BY <1>1, <1>2, <1>3, <1>16, BudgetAssumption, PipelineAssumption
       DEF TypeOK, SubmitQueued
  <1>17. CASE SubmitCounted(c)
    BY <1>1, <1>2, <1>3, <1>17, BudgetAssumption, PipelineAssumption
       DEF TypeOK, SubmitCounted
  <1>18. CASE SubmitInline(c)
    BY <1>1, <1>2, <1>3, <1>18, BudgetAssumption, PipelineAssumption
       DEF TypeOK, SubmitInline, Resumptions
  <1>19. QED
    BY <1>4, <1>5, <1>6, <1>7, <1>8, <1>9, <1>10, <1>11, <1>12, <1>13, <1>14, <1>15, <1>16, <1>17, <1>18, <1>a DEF Compute
\* No step of a compute thread outside flush_inline does.
LEMMA ComputeStep ==
    ASSUME IInv, NEW c \in Computes, Compute(c)
    PROVE  IInv'
  <1> USE DEF IInv, TypeOK, Goes, Moves, KeepLocals, budgetVars, poolVars,
              inputVars, outputVars, sharedVars
  <1>1. ThreadsTypeOK' /\ SameReaders /\ OtherComputes(c)
    BY ComputeLocal
  <1>2. HandOK(c)' => HandsOK'
    BY <1>1, HandsFrame
  <1>3. UNCHANGED <<queue, reserved>> /\ next' \in Nat /\ next <= next'
            => ClaimedOnce' /\ SlotsConserved'
    BY <1>1, ReadersFrame
  <1>4. /\ c \in Threads /\ cur[c] \in Nat /\ ahead[c] \in Nat
        /\ next \in Nat /\ next <= next
    BY Kinds DEF ThreadsTypeOK, CountersTypeOK
  <1>a. CASE ComputeLoop(c)
    <2> USE <1>a DEF ComputeLoop, Leaving
    <2>1. FlagsTypeOK'
      BY DEF FlagsTypeOK
    <2>2. CountersTypeOK' /\ PlacesTypeOK' /\ WaitersTypeOK'
      BY DEF CountersTypeOK, PlacesTypeOK, WaitersTypeOK
    <2>3. HandOK(c)'
      BY <1>4 DEF HandsOK, HandOK, Busy, ThreadsTypeOK
    <2>4. QED
      BY <1>1, <1>2, <1>3, <1>4, <2>1, <2>2, <2>3
  <1>5. CASE DirectClaim(c)
    <2> USE <1>5 DEF DirectClaim, Leaving
    <2>1. FlagsTypeOK'
      BY DEF FlagsTypeOK
    <2>2. next' \in Nat /\ next <= next'
      BY <1>4, PipelineAssumption
    <2>3. CountersTypeOK' /\ PlacesTypeOK' /\ WaitersTypeOK'
      BY <2>2 DEF CountersTypeOK, PlacesTypeOK, WaitersTypeOK
    <2>4. HandOK(c)'
      <3>1. CASE next >= Charts
        BY <1>4, <3>1, BudgetAssumption DEF HandsOK, HandOK, Busy, ThreadsTypeOK
      <3>2. CASE next < Charts
        <4>1. pc'[c] \in {"try_acquire", "acquire"}
          BY <1>4, <3>2, BudgetAssumption DEF ThreadsTypeOK
        <4>2. cur'[c] + ahead'[c] < Charts
          BY <1>4, <3>2, BudgetAssumption, PipelineAssumption DEF ThreadsTypeOK
        <4>3. QED
          BY <4>1, <4>2 DEF HandOK
      <3>3. QED
        BY <1>4, <3>1, <3>2, BudgetAssumption
    <2>5. UNCHANGED <<queue, reserved>>
      OBVIOUS
    <2>6. QED
      BY <1>1, <1>2, <1>3, <2>1, <2>2, <2>3, <2>4, <2>5
  <1>6. CASE DirectTryAcquire(c)
    <2> USE <1>6 DEF DirectTryAcquire
    <2>1. cur[c] \in Positions
      BY HandInRange
    <2>2. /\ used' \in Nat /\ lease' \in [Positions -> Nat]
          /\ UNCHANGED <<creditStopped, creditBroken>>
          /\ creditWaiters' \subseteq creditWaiters \cup {c}
      <3>1. CASE CreditGranted(c, cur[c])
        BY <2>1, <3>1, CreditGrantedType DEF CountersTypeOK
      <3>2. CASE ~CreditGranted(c, cur[c])
        BY <3>2 DEF CreditRefused, CreditAwaited, CountersTypeOK
      <3>3. QED
        BY <3>1, <3>2
    <2>3. FlagsTypeOK'
      BY <2>2 DEF FlagsTypeOK
    <2>4. CountersTypeOK' /\ PlacesTypeOK' /\ WaitersTypeOK'
      BY <2>2 DEF CountersTypeOK, PlacesTypeOK, WaitersTypeOK
    <2>5. HandOK(c)'
      BY <1>4 DEF HandsOK, HandOK, Busy, ThreadsTypeOK
    <2>6. QED
      BY <1>1, <1>2, <1>3, <1>4, <2>3, <2>4, <2>5
  <1>7. CASE DirectAcquire(c)
    <2> USE <1>7 DEF DirectAcquire
    <2>1. cur[c] \in Positions
      BY HandInRange
    <2>2. /\ used' \in Nat /\ lease' \in [Positions -> Nat]
          /\ UNCHANGED <<creditStopped, creditBroken>>
          /\ creditWaiters' \subseteq creditWaiters \cup {c}
      <3>1. CASE CreditGranted(c, cur[c])
        BY <2>1, <3>1, CreditGrantedType DEF CountersTypeOK
      <3>2. CASE ~CreditGranted(c, cur[c])
        BY <3>2 DEF CreditRefused, CreditAwaited, CountersTypeOK
      <3>3. QED
        BY <3>1, <3>2
    <2>3. FlagsTypeOK'
      BY <2>2 DEF FlagsTypeOK
    <2>4. CountersTypeOK' /\ PlacesTypeOK' /\ WaitersTypeOK'
      BY <2>2 DEF CountersTypeOK, PlacesTypeOK, WaitersTypeOK
    <2>5. HandOK(c)'
      BY <1>4 DEF HandsOK, HandOK, Busy, ThreadsTypeOK
    <2>6. QED
      BY <1>1, <1>2, <1>3, <1>4, <2>3, <2>4, <2>5
  <1>8. CASE DirectRead(c)
    <2> USE <1>8 DEF DirectRead
    <2>1. cur[c] \in Positions /\ lease[cur[c]] \in Nat
      BY HandInRange
    <2>2. /\ used' \in Nat /\ lease' \in [Positions -> Nat]
          /\ creditBroken' \in BOOLEAN
          /\ creditWaiters' \subseteq creditWaiters
          /\ UNCHANGED creditStopped
      BY <2>1, ReleaseCreditType DEF CountersTypeOK, FlagsTypeOK
    <2>3. freeBuffers' \in Nat /\ poolBroken' \in BOOLEAN
      BY DEF CountersTypeOK, FlagsTypeOK
    <2>4. FlagsTypeOK'
      BY <2>2, <2>3 DEF FlagsTypeOK
    <2>5. CountersTypeOK' /\ PlacesTypeOK' /\ WaitersTypeOK'
      BY <2>2, <2>3 DEF CountersTypeOK, PlacesTypeOK, WaitersTypeOK
    <2>6. HandOK(c)'
      BY <2>1, <1>4 DEF HandsOK, HandOK, Busy, ThreadsTypeOK
    <2>7. QED
      BY <1>1, <1>2, <1>3, <1>4, <2>4, <2>5, <2>6
  <1>9. CASE DirectNext(c)
    <2> USE <1>9 DEF DirectNext, EndOfBatch
    <2>1. FlagsTypeOK'
      BY DEF FlagsTypeOK
    <2>2. CountersTypeOK' /\ PlacesTypeOK' /\ WaitersTypeOK'
      BY DEF CountersTypeOK, PlacesTypeOK, WaitersTypeOK
    <2>3. HandOK(c)'
      BY <1>4 DEF HandsOK, HandOK, Busy, ThreadsTypeOK
    <2>4. QED
      BY <1>1, <1>2, <1>3, <1>4, <2>1, <2>2, <2>3
  <1>10. CASE OrderedClaim(c)
    <2> USE <1>10 DEF OrderedClaim, Leaving
    <2>1. FlagsTypeOK'
      BY DEF FlagsTypeOK
    <2>2. CountersTypeOK' /\ PlacesTypeOK' /\ WaitersTypeOK'
      BY <1>4 DEF CountersTypeOK, PlacesTypeOK, WaitersTypeOK
    <2>3. HandOK(c)'
      BY <1>4 DEF HandsOK, HandOK, Busy, ThreadsTypeOK
    <2>4. QED
      BY <1>1, <1>2, <1>3, <1>4, <2>1, <2>2, <2>3
  <1>11. CASE OrderedTry(c)
    <2> USE <1>11 DEF OrderedTry
    <2>1. CASE TakeOrdered(cur[c])
      <3>1. /\ cur[c] \in queue /\ cur[c] \in Positions
            /\ queue' = queue \ {cur[c]}
            /\ reserved' = reserved - 1
            /\ spaceWaiters' \subseteq spaceWaiters
            /\ UNCHANGED <<inputStopped, inputFinished, dataWaiters, inputBroken>>
        BY <2>1, TakeOrderedType DEF PlacesTypeOK
      <3>2. FlagsTypeOK'
        BY <3>1 DEF FlagsTypeOK
      <3>3. CountersTypeOK' /\ PlacesTypeOK' /\ WaitersTypeOK'
        BY <3>1 DEF CountersTypeOK, PlacesTypeOK, WaitersTypeOK
      <3>4. HandOK(c)'
        BY <1>4, <2>1, <3>1 DEF HandsOK, HandOK, Busy, ThreadsTypeOK
      <3>5. Claimers' = Claimers /\ SlotHolders' = SlotHolders
        BY <1>1 DEF SameReaders, Claimers, SlotHolders
      <3>6. \A x \in Claimers : cur'[x] = cur[x]
        BY <1>1 DEF SameReaders, Claimers
      <3>7. ClaimedOnce'
        BY <3>1, <3>5, <3>6 DEF ClaimedOnce
      <3>8. Cardinality(queue') = Cardinality(queue) - 1
        BY <3>1, QueueCount
      <3>9. SlotsConserved'
        BY <3>1, <3>5, <3>8, Finite, QueueAssumption
           DEF SlotsConserved, CountersTypeOK
      <3>10. QED
        BY <1>1, <1>2, <3>2, <3>3, <3>4, <3>7, <3>9
    <2>2. CASE ~TakeOrdered(cur[c])
      <3>1. FlagsTypeOK'
        BY <2>2 DEF FlagsTypeOK
      <3>2. CountersTypeOK' /\ PlacesTypeOK' /\ WaitersTypeOK'
        BY <2>2 DEF CountersTypeOK, PlacesTypeOK, WaitersTypeOK
      <3>3. HandOK(c)'
        BY <1>4, <2>2 DEF HandsOK, HandOK, Busy, ThreadsTypeOK
      <3>4. UNCHANGED <<queue, reserved, next>>
        BY <2>2
      <3>5. QED
        BY <1>1, <1>2, <1>3, <1>4, <3>1, <3>2, <3>3, <3>4
    <2>3. QED
      BY <2>1, <2>2
  <1>12. CASE OrderedPop(c)
    <2> USE <1>12 DEF OrderedPop
    <2>1. CASE PoppedOrdered(c, cur[c])
      <3>1. /\ cur[c] \in queue /\ cur[c] \in Positions
            /\ queue' = queue \ {cur[c]}
            /\ reserved' = reserved - 1
            /\ spaceWaiters' \subseteq spaceWaiters
            /\ UNCHANGED <<inputStopped, inputFinished, dataWaiters, inputBroken>>
        BY <2>1, TakeOrderedType DEF PlacesTypeOK, PoppedOrdered
      <3>2. FlagsTypeOK'
        BY <3>1 DEF FlagsTypeOK
      <3>3. CountersTypeOK' /\ PlacesTypeOK' /\ WaitersTypeOK'
        BY <3>1 DEF CountersTypeOK, PlacesTypeOK, WaitersTypeOK
      <3>4. HandOK(c)'
        BY <1>4, <2>1, <3>1 DEF HandsOK, HandOK, Busy, ThreadsTypeOK,
               Leaving, Resumptions
      <3>5. Claimers' = Claimers /\ SlotHolders' = SlotHolders
        BY <1>1 DEF SameReaders, Claimers, SlotHolders
      <3>6. \A x \in Claimers : cur'[x] = cur[x]
        BY <1>1 DEF SameReaders, Claimers
      <3>7. ClaimedOnce'
        BY <3>1, <3>5, <3>6 DEF ClaimedOnce
      <3>8. Cardinality(queue') = Cardinality(queue) - 1
        BY <3>1, QueueCount
      <3>9. SlotsConserved'
        BY <3>1, <3>5, <3>8, Finite, QueueAssumption
           DEF SlotsConserved, CountersTypeOK
      <3>10. QED
        BY <1>1, <1>2, <3>2, <3>3, <3>4, <3>7, <3>9
    <2>2. CASE ~PoppedOrdered(c, cur[c])
      <3>1. FlagsTypeOK'
        BY <2>2 DEF FlagsTypeOK, PopRefused,
                   PopAwaited
      <3>2. CountersTypeOK' /\ PlacesTypeOK' /\ WaitersTypeOK'
        BY <2>2 DEF CountersTypeOK, PlacesTypeOK, WaitersTypeOK, PopRefused,
                   PopAwaited
      <3>3. HandOK(c)'
        BY <1>4, <2>2 DEF HandsOK, HandOK, Busy, ThreadsTypeOK, Leaving
      <3>4. UNCHANGED <<queue, reserved, next>>
        BY <2>2 DEF PopRefused, PopAwaited
      <3>5. QED
        BY <1>1, <1>2, <1>3, <1>4, <3>1, <3>2, <3>3, <3>4
    <2>3. QED
      BY <2>1, <2>2
  <1>13. CASE OrderedNext(c)
    <2> USE <1>13 DEF OrderedNext
    <2>1. FlagsTypeOK'
      BY DEF FlagsTypeOK
    <2>2. CountersTypeOK' /\ PlacesTypeOK' /\ WaitersTypeOK'
      BY <1>4 DEF CountersTypeOK, PlacesTypeOK, WaitersTypeOK
    <2>3. HandOK(c)'
      BY <1>4 DEF HandsOK, HandOK, Busy, ThreadsTypeOK
    <2>4. QED
      BY <1>1, <1>2, <1>3, <1>4, <2>1, <2>2, <2>3
  <1>14. CASE Process(c)
    <2> USE <1>14 DEF Process, AcquireBuffer
    <2>1. FlagsTypeOK'
      BY DEF FlagsTypeOK
    <2>2. CountersTypeOK' /\ PlacesTypeOK' /\ WaitersTypeOK'
      BY DEF CountersTypeOK, PlacesTypeOK, WaitersTypeOK
    <2>3. HandOK(c)'
      BY <1>4, HandInRange DEF HandsOK, HandOK, Busy, ThreadsTypeOK
    <2>4. QED
      BY <1>1, <1>2, <1>3, <1>4, <2>1, <2>2, <2>3
  <1>15. CASE KernelReturns(c)
    <2> USE <1>15 DEF KernelReturns
    <2>1. cur[c] \in Positions /\ lease[cur[c]] \in Nat /\ Bytes[cur[c]] \in Nat
      BY BudgetAssumption, HandInRange
    <2>2. /\ used' \in Nat /\ lease' \in [Positions -> Nat]
          /\ creditBroken' \in BOOLEAN
          /\ creditWaiters' \subseteq creditWaiters
          /\ UNCHANGED creditStopped
      BY <2>1, ReleaseCreditType DEF CountersTypeOK, FlagsTypeOK
    <2>3. freeBuffers' \in Nat /\ poolBroken' \in BOOLEAN
      BY DEF CountersTypeOK, FlagsTypeOK
    <2>4. FlagsTypeOK'
      BY <2>2, <2>3 DEF FlagsTypeOK
    <2>5. CountersTypeOK' /\ PlacesTypeOK' /\ WaitersTypeOK'
      BY <2>2, <2>3 DEF CountersTypeOK, PlacesTypeOK, WaitersTypeOK
    <2>6. HandOK(c)'
      BY <2>1, <1>4 DEF HandsOK, HandOK, Busy, ThreadsTypeOK
    <2>7. QED
      BY <1>1, <1>2, <1>3, <1>4, <2>4, <2>5, <2>6
  <1>16. CASE KernelThrows(c)
    <2> USE <1>16 DEF KernelThrows
    <2>1. cur[c] \in Positions /\ lease[cur[c]] \in Nat
      BY HandInRange
    <2>2. /\ used' \in Nat /\ lease' \in [Positions -> Nat]
          /\ creditBroken' \in BOOLEAN
          /\ creditWaiters' \subseteq creditWaiters
          /\ UNCHANGED creditStopped
      BY <2>1, ReleaseCreditType DEF CountersTypeOK, FlagsTypeOK
    <2>3. freeBuffers' \in Nat /\ poolBroken' \in BOOLEAN
      BY ReleaseBufferType DEF CountersTypeOK, FlagsTypeOK
    <2>4. FlagsTypeOK'
      BY <2>2, <2>3 DEF FlagsTypeOK
    <2>5. CountersTypeOK' /\ PlacesTypeOK' /\ WaitersTypeOK'
      BY <2>2, <2>3 DEF CountersTypeOK, PlacesTypeOK, WaitersTypeOK
    <2>6. HandOK(c)'
      BY <2>1, <1>4 DEF HandsOK, HandOK, Busy, ThreadsTypeOK
    <2>7. QED
      BY <1>1, <1>2, <1>3, <1>4, <2>4, <2>5, <2>6
  <1>17. CASE SubmitQueued(c)
    <2> USE <1>17 DEF SubmitQueued, OutputRefused
    <2>1. cur[c] \in Positions /\ lease[cur[c]] \in Nat
      BY HandInRange
    <2>2. /\ used' \in Nat /\ lease' \in [Positions -> Nat]
          /\ creditBroken' \in BOOLEAN
          /\ creditWaiters' \subseteq creditWaiters
          /\ UNCHANGED creditStopped
      BY <2>1, ReleaseCreditType DEF CountersTypeOK, FlagsTypeOK
    <2>3. freeBuffers' \in Nat /\ poolBroken' \in BOOLEAN
      BY ReleaseBufferType DEF CountersTypeOK, FlagsTypeOK
    <2>4. /\ parts' \in [Partitions -> Seq(Positions)]
          /\ outputWaiters' \subseteq outputWaiters
          /\ UNCHANGED <<queued, outputStopped, outputFinished, dozing,
                         outputBroken>>
      BY <2>1, PushOutputType DEF PlacesTypeOK
    <2>5. FlagsTypeOK'
      BY <2>2, <2>3, <2>4 DEF FlagsTypeOK
    <2>6. CountersTypeOK'
      BY <2>2, <2>3, <2>4 DEF CountersTypeOK
    <2>7. PlacesTypeOK' /\ WaitersTypeOK'
      BY <2>2, <2>4 DEF PlacesTypeOK, WaitersTypeOK
    <2>8. HandOK(c)'
      BY <1>4 DEF HandsOK, HandOK, Busy, ThreadsTypeOK
    <2>9. UNCHANGED <<queue, reserved, next>>
      OBVIOUS
    <2>10. QED
      BY <1>1, <1>2, <1>3, <1>4, <2>5, <2>6, <2>7, <2>8, <2>9
  <1>18. CASE SubmitCounted(c)
    <2> USE <1>18 DEF SubmitCounted, CountPushed
    <2>1. FlagsTypeOK'
      BY DEF FlagsTypeOK
    <2>2. CountersTypeOK' /\ PlacesTypeOK' /\ WaitersTypeOK'
      BY DEF CountersTypeOK, PlacesTypeOK, WaitersTypeOK
    <2>3. HandOK(c)'
      BY <1>4 DEF HandsOK, HandOK, Busy, ThreadsTypeOK
    <2>4. QED
      BY <1>1, <1>2, <1>3, <1>4, <2>1, <2>2, <2>3
  <1>19. CASE SubmitInline(c)
    <2> USE <1>19 DEF SubmitInline
    <2>1. cur[c] \in Positions
      BY HandInRange
    <2>2. batch' \in [Computes \cup Writers -> Seq(Positions)]
      BY <2>1, AppendProperties DEF PlacesTypeOK
    <2>3. FlagsTypeOK'
      BY DEF FlagsTypeOK
    <2>4. CountersTypeOK' /\ PlacesTypeOK' /\ WaitersTypeOK'
      BY <2>2 DEF CountersTypeOK, PlacesTypeOK, WaitersTypeOK
    <2>5. HandOK(c)'
      BY <1>4 DEF HandsOK, HandOK, Busy, ThreadsTypeOK
    <2>6. QED
      BY <1>1, <1>2, <1>3, <1>4, <2>3, <2>4, <2>5
  <1>20. QED
    BY <1>a, <1>5, <1>6, <1>7, <1>8, <1>9, <1>10, <1>11, <1>12, <1>13, <1>14, <1>15, <1>16, <1>17, <1>18, <1>19 DEF Compute
-----------------------------------------------------------------------------
(***************************************************************************)
(* The loop over a batch.                                                  *)
(***************************************************************************)
LEMMA FlushLocal ==
    ASSUME IInv, NEW t \in Computes \cup Writers, Flush(t)
    PROVE  /\ ThreadsTypeOK' /\ SameReaders
           /\ t \in Computes => OtherComputes(t)
           /\ t \in Writers => SameComputes
  <1> USE DEF IInv, TypeOK, Goes, Moves, KeepLocals, ThreadsTypeOK,
              Labels, SameReaders, SameComputes, OtherComputes
  <1>1. /\ Readers \subseteq Threads /\ Computes \subseteq Threads
        /\ t \in Threads /\ t \notin Readers /\ (t \in Writers => t \notin Computes)
    BY Kinds
  <1>2. CASE WriteItem(t)
    <2>1. /\ \E to \in {"flush", "fail", "clear"} : pc' = [pc EXCEPT ![t] = to]
          /\ \/ resume' = resume
             \/ t \in Writers /\ resume' = [resume EXCEPT ![t] = "fail"]
          /\ wix' = wix \/ wix' = [wix EXCEPT ![t] = @ + 1]
          /\ UNCHANGED <<cur, ahead, cursor, offset>>
      BY <1>2 DEF WriteItem
    <2>2. QED
      BY <1>1, <2>1 DEF Resumptions
  <1>3. CASE AllWritten(t)
    BY <1>1, <1>3 DEF AllWritten
  <1>4. CASE ClearItem(t)
    BY <1>1, <1>4 DEF ClearItem
  <1>5. CASE Cleared(t)
    BY <1>1, <1>5 DEF Cleared, Resumptions
  <1>6. QED
    BY <1>2, <1>3, <1>4, <1>5 DEF Flush

\* No step of the loop over a batch does, in flush_inline or an io thread.
LEMMA FlushStep ==
    ASSUME IInv, NEW t \in Computes \cup Writers, Flush(t)
    PROVE  IInv'
  <1> USE DEF IInv, TypeOK, Goes, Moves, KeepLocals, budgetVars, poolVars,
              inputVars, outputVars, sharedVars
  <1>1. ThreadsTypeOK' /\ SameReaders
    BY FlushLocal
  <1>2. (t \in Computes => HandOK(t)') => HandsOK'
    BY FlushLocal, HandsFrame, ComputesFrame
  <1>3. ClaimedOnce' /\ SlotsConserved'
    <2>1. UNCHANGED <<queue, reserved, next>>
      BY DEF Flush, WriteItem, AllWritten, ClearItem, Cleared
    <2>2. next' \in Nat /\ next <= next'
      BY <2>1 DEF CountersTypeOK
    <2>3. QED
      BY <1>1, <2>1, <2>2, ReadersFrame
  <1>4. /\ t \in Threads /\ batch[t] \in Seq(Positions) /\ wix[t] \in Nat
        /\ t \in Computes => HandOK(t)
    BY Kinds DEF PlacesTypeOK, ThreadsTypeOK, HandsOK
  <1>5. CASE WriteItem(t)
    <2> USE <1>5 DEF WriteItem
    <2>1. batch[t][wix[t] + 1] \in Positions
      <3>1. wix[t] + 1 \in 1 .. Len(batch[t])
        BY <1>4, LenProperties
      <3>2. QED
        BY <1>4, <3>1, ElementOfSeq
    <2>2. written' \in [Positions -> Nat]
      <3>1. \/ written' = [written EXCEPT ![batch[t][wix[t] + 1]] = @ + 1]
            \/ written' = written
        OBVIOUS
      <3>2. \A f \in [Positions -> Nat], p \in Positions :
                [f EXCEPT ![p] = @ + 1] \in [Positions -> Nat]
        OBVIOUS
      <3>3. written \in [Positions -> Nat]
        BY DEF CountersTypeOK
      <3>4. QED
        BY ONLY <2>1, <3>1, <3>2, <3>3
    <2>3. FlagsTypeOK'
      BY DEF FlagsTypeOK
    <2>4. CountersTypeOK' /\ PlacesTypeOK' /\ WaitersTypeOK'
      BY <2>2 DEF CountersTypeOK, PlacesTypeOK, WaitersTypeOK
    <2>5. t \in Computes => HandOK(t)'
      BY <1>4, Kinds DEF HandOK, Busy, ThreadsTypeOK
    <2>6. QED
      BY <1>1, <1>2, <1>3, <2>3, <2>4, <2>5
  <1>6. CASE AllWritten(t)
    <2> USE <1>6 DEF AllWritten
    <2>1. FlagsTypeOK'
      BY DEF FlagsTypeOK
    <2>2. CountersTypeOK' /\ PlacesTypeOK' /\ WaitersTypeOK'
      BY DEF CountersTypeOK, PlacesTypeOK, WaitersTypeOK
    <2>3. t \in Computes => HandOK(t)'
      BY <1>4 DEF HandOK, Busy, ThreadsTypeOK
    <2>4. QED
      BY <1>1, <1>2, <1>3, <2>1, <2>2, <2>3
  <1>7. CASE ClearItem(t)
    <2> USE <1>7 DEF ClearItem
    <2>1. Head(batch[t]) \in Positions /\ Tail(batch[t]) \in Seq(Positions)
      BY <1>4, HeadTailProperties
    <2>2. lease[Head(batch[t])] \in Nat
      BY <2>1 DEF CountersTypeOK
    <2>3. /\ used' \in Nat /\ lease' \in [Positions -> Nat]
          /\ creditBroken' \in BOOLEAN
          /\ creditWaiters' \subseteq creditWaiters
          /\ UNCHANGED creditStopped
      BY <2>1, <2>2, ReleaseCreditType DEF CountersTypeOK, FlagsTypeOK
    <2>4. freeBuffers' \in Nat /\ poolBroken' \in BOOLEAN
      BY ReleaseBufferType DEF CountersTypeOK, FlagsTypeOK
    <2>5. batch' \in [Computes \cup Writers -> Seq(Positions)]
      BY <2>1 DEF PlacesTypeOK
    <2>6. FlagsTypeOK'
      BY <2>3, <2>4 DEF FlagsTypeOK
    <2>7. CountersTypeOK' /\ PlacesTypeOK' /\ WaitersTypeOK'
      BY <2>3, <2>4, <2>5 DEF CountersTypeOK, PlacesTypeOK, WaitersTypeOK
    <2>8. t \in Computes => HandOK(t)'
      BY <1>4 DEF HandOK, Busy, ThreadsTypeOK
    <2>9. QED
      BY <1>1, <1>2, <1>3, <2>6, <2>7, <2>8
  <1>8. CASE Cleared(t)
    <2> USE <1>8 DEF Cleared
    <2>1. FlagsTypeOK'
      BY DEF FlagsTypeOK
    <2>2. CountersTypeOK' /\ PlacesTypeOK' /\ WaitersTypeOK'
      BY DEF CountersTypeOK, PlacesTypeOK, WaitersTypeOK
    <2>3. resume[t] \in Resumptions
      BY DEF ThreadsTypeOK
    <2>4. t \in Computes => HandOK(t)'
      BY <1>4, <2>3 DEF HandOK, Busy, ThreadsTypeOK, Resumptions
    <2>5. QED
      BY <1>1, <1>2, <1>3, <2>1, <2>2, <2>4
  <1>9. QED
    BY <1>5, <1>6, <1>7, <1>8 DEF Flush

-----------------------------------------------------------------------------
(***************************************************************************)
(* io threads: what they hold is theirs alone.                             *)
(***************************************************************************)
LEMMA TakesBatchType ==
    ASSUME TypeOK, NEW w \in Writers, NEW i \in Partitions,
           NEW from, NEW to \in Labels, TakesBatch(w, i, from, to)
    PROVE  /\ pc' = [pc EXCEPT ![w] = to]
           /\ resume' = [resume EXCEPT ![w] = "pop"]
           /\ UNCHANGED <<cur, ahead, wix, queued, outputStopped,
                          outputFinished, dozing, outputWaiters, outputBroken>>
           /\ UNCHANGED queue => PlacesTypeOK'
  <1>1. /\ Taken(i, WriteBatch) \in Seq(Positions)
        /\ parts' \in [Partitions -> Seq(Positions)]
        /\ UNCHANGED <<queued, outputStopped, outputFinished, dozing,
                       outputWaiters, outputBroken>>
    BY TakeBatchType, PipelineAssumption DEF TakesBatch, TypeOK, PlacesTypeOK
  <1>2. QED
    BY <1>1 DEF TakesBatch, Moves, TypeOK, PlacesTypeOK
\* A step of an io thread leaves readers, compute threads and slots alone.
LEMMA WriterFrame ==
    ASSUME IInv, NEW w \in Writers, NEW to \in Labels,
           pc' = [pc EXCEPT ![w] = to],
           UNCHANGED resume \/ resume' = [resume EXCEPT ![w] = "pop"],
           UNCHANGED <<cur, ahead, wix, queue, reserved, next>>,
           cursor' \in [Writers -> Partitions], offset' \in [Writers -> Nat]
    PROVE  ThreadsTypeOK' /\ HandsOK' /\ ClaimedOnce' /\ SlotsConserved'
  <1> USE DEF IInv, TypeOK
  <1>1. /\ Readers \subseteq Threads /\ Computes \subseteq Threads
        /\ w \notin Readers /\ w \notin Computes
    BY Kinds
  <1>2. SameReaders /\ SameComputes
    BY <1>1 DEF SameReaders, SameComputes, ThreadsTypeOK
  <1>3. next' \in Nat /\ next <= next'
    BY DEF CountersTypeOK
  <1>4. HandsOK' /\ ClaimedOnce' /\ SlotsConserved'
    BY <1>2, <1>3, ReadersFrame, ComputesFrame
  <1>5. ThreadsTypeOK'
    BY DEF ThreadsTypeOK, Labels, Resumptions
  <1>6. QED
    BY <1>4, <1>5

\* No step of pop_batch disturbs the invariant.
LEMMA WriterStep ==
    ASSUME IInv, NEW w \in Writers, Writer(w)
    PROVE  IInv'
  <1> USE DEF IInv, TypeOK, Goes, Moves, KeepLocals, budgetVars, poolVars,
              inputVars, outputVars, sharedVars, Labels
  <1>1. /\ cursor \in [Writers -> Partitions] /\ offset \in [Writers -> Nat]
        /\ Home(w) \in Partitions
        /\ \A i \in Partitions : NextPartition(i) \in Partitions
    BY HomeType, OutputAssumption DEF ThreadsTypeOK, Partitions
  <1>2. CASE StrictPop(w)
    <2> USE <1>2 DEF StrictPop
    <2>1. CASE TakesBatch(w, Home(w), "pop", "flush")
      <3>1. /\ PlacesTypeOK'
            /\ pc' = [pc EXCEPT ![w] = "flush"]
            /\ resume' = [resume EXCEPT ![w] = "pop"]
            /\ UNCHANGED <<cur, ahead, wix, queued, outputStopped,
                           outputFinished, dozing, outputWaiters, outputBroken>>
        BY <1>1, <2>1, TakesBatchType
      <3>2. FlagsTypeOK'
        BY <3>1 DEF FlagsTypeOK
      <3>3. CountersTypeOK' /\ WaitersTypeOK'
        BY <3>1 DEF CountersTypeOK, WaitersTypeOK
      <3>4. cursor' \in [Writers -> Partitions] /\ offset' \in [Writers -> Nat]
        BY <1>1, <2>1, <3>1 DEF Doze
      <3>5. ThreadsTypeOK' /\ HandsOK' /\ ClaimedOnce' /\ SlotsConserved'
        BY <3>1, <3>4, WriterFrame
      <3>6. QED
        BY <3>1, <3>2, <3>3, <3>5
    <2>2. CASE ~TakesBatch(w, Home(w), "pop", "flush")
      <3>1. FlagsTypeOK'
        BY <2>2 DEF FlagsTypeOK, Doze
      <3>2. CountersTypeOK' /\ PlacesTypeOK' /\ WaitersTypeOK'
        BY <2>2 DEF CountersTypeOK, PlacesTypeOK, WaitersTypeOK, Doze
      <3>3. /\ \E to \in {"done", "pop"} : pc' = [pc EXCEPT ![w] = to]
            /\ UNCHANGED <<resume, cur, ahead, wix, cursor, offset>>
        BY <2>2
      <3>4. ThreadsTypeOK' /\ HandsOK' /\ ClaimedOnce' /\ SlotsConserved'
        BY <1>1, <3>3, WriterFrame
      <3>5. QED
        BY <3>1, <3>2, <3>4
    <2>3. QED
      BY <2>1, <2>2
  <1>3. CASE LocalPop(w)
    <2> USE <1>3 DEF LocalPop
    <2>1. CASE TakesBatch(w, Home(w), "pop", "account")
      <3>1. /\ PlacesTypeOK'
            /\ pc' = [pc EXCEPT ![w] = "account"]
            /\ resume' = [resume EXCEPT ![w] = "pop"]
            /\ UNCHANGED <<cur, ahead, wix, queued, outputStopped,
                           outputFinished, dozing, outputWaiters, outputBroken>>
        BY <1>1, <2>1, TakesBatchType
      <3>2. FlagsTypeOK'
        BY <3>1 DEF FlagsTypeOK
      <3>3. CountersTypeOK' /\ WaitersTypeOK'
        BY <3>1 DEF CountersTypeOK, WaitersTypeOK
      <3>4. cursor' \in [Writers -> Partitions] /\ offset' \in [Writers -> Nat]
        BY <1>1
      <3>5. ThreadsTypeOK' /\ HandsOK' /\ ClaimedOnce' /\ SlotsConserved'
        BY <3>1, <3>4, WriterFrame
      <3>6. QED
        BY <3>1, <3>2, <3>3, <3>5
    <2>2. CASE ~TakesBatch(w, Home(w), "pop", "account")
      <3>1. FlagsTypeOK'
        BY <2>2 DEF FlagsTypeOK
      <3>2. CountersTypeOK' /\ PlacesTypeOK' /\ WaitersTypeOK'
        BY <2>2 DEF CountersTypeOK, PlacesTypeOK, WaitersTypeOK
      <3>3. /\ pc' = [pc EXCEPT ![w] = "scan"]
            /\ UNCHANGED <<resume, cur, ahead, wix, cursor>>
            /\ offset' \in [Writers -> Nat]
        BY <1>1, <2>2
      <3>4. ThreadsTypeOK' /\ HandsOK' /\ ClaimedOnce' /\ SlotsConserved'
        BY <1>1, <3>3, WriterFrame
      <3>5. QED
        BY <3>1, <3>2, <3>4
    <2>3. QED
      BY <2>1, <2>2
  <1>4. CASE Scan(w)
    <2> DEFINE candidate == (cursor[w] + offset[w]) % PartitionCount
    <2>1. candidate \in Partitions
      <3>1. cursor[w] \in Nat /\ offset[w] \in Nat
        BY <1>1, OutputAssumption DEF Partitions
      <3>2. cursor[w] + offset[w] \in Nat
        BY <3>1
      <3>3. QED
        BY <3>2, HomeType
    <2> USE <1>4 DEF Scan
    <2>2. CASE TakesBatch(w, candidate, "scan", "account")
      <3>1. /\ PlacesTypeOK'
            /\ pc' = [pc EXCEPT ![w] = "account"]
            /\ resume' = [resume EXCEPT ![w] = "pop"]
            /\ UNCHANGED <<cur, ahead, wix, queued, outputStopped,
                           outputFinished, dozing, outputWaiters, outputBroken>>
        BY <2>1, <2>2, TakesBatchType
      <3>2. FlagsTypeOK'
        BY <3>1 DEF FlagsTypeOK
      <3>3. CountersTypeOK' /\ WaitersTypeOK'
        BY <3>1 DEF CountersTypeOK, WaitersTypeOK
      <3>4. cursor' \in [Writers -> Partitions] /\ offset' \in [Writers -> Nat]
        BY <1>1, <2>1
      <3>5. ThreadsTypeOK' /\ HandsOK' /\ ClaimedOnce' /\ SlotsConserved'
        BY <3>1, <3>4, WriterFrame
      <3>6. QED
        BY <3>1, <3>2, <3>3, <3>5
    <2>3. CASE ~TakesBatch(w, candidate, "scan", "account")
      <3>1. FlagsTypeOK'
        BY <2>3 DEF FlagsTypeOK
      <3>2. CountersTypeOK' /\ PlacesTypeOK' /\ WaitersTypeOK'
        BY <2>3 DEF CountersTypeOK, PlacesTypeOK, WaitersTypeOK
      <3>3. /\ pc' = [pc EXCEPT ![w] = IF offset[w] + 1 = PartitionCount
                                        THEN "meta" ELSE "scan"]
            /\ UNCHANGED <<resume, cur, ahead, wix, cursor>>
            /\ offset' = [offset EXCEPT ![w] =
                   IF @ + 1 = PartitionCount THEN 0 ELSE @ + 1]
        BY <2>3
      <3>4. offset' \in [Writers -> Nat]
        BY <1>1, <3>3
      <3>5. ThreadsTypeOK' /\ HandsOK' /\ ClaimedOnce' /\ SlotsConserved'
        BY <1>1, <3>3, <3>4, WriterFrame
      <3>6. QED
        BY <3>1, <3>2, <3>5
    <2>4. QED
      BY <2>2, <2>3
  <1>5. CASE MetaWait(w)
    <2> USE <1>5 DEF MetaWait, Doze
    <2>1. FlagsTypeOK'
      BY DEF FlagsTypeOK
    <2>2. CountersTypeOK' /\ PlacesTypeOK' /\ WaitersTypeOK'
      BY DEF CountersTypeOK, PlacesTypeOK, WaitersTypeOK
    <2>3. /\ \E to \in {"pop", "done", "meta"} : pc' = [pc EXCEPT ![w] = to]
          /\ UNCHANGED <<resume, cur, ahead, wix, cursor, offset>>
      OBVIOUS
    <2>4. ThreadsTypeOK' /\ HandsOK' /\ ClaimedOnce' /\ SlotsConserved'
      BY <1>1, <2>3, WriterFrame
    <2>5. QED
      BY <2>1, <2>2, <2>4
  <1>6. CASE Account(w)
    <2> USE <1>6 DEF Account, AccountPopped
    <2>1. FlagsTypeOK'
      BY DEF FlagsTypeOK
    <2>2. Len(batch[w]) \in Nat
      BY LenProperties DEF PlacesTypeOK
    <2>3. queued' \in Nat
      BY <2>2 DEF CountersTypeOK
    <2>4. CountersTypeOK' /\ PlacesTypeOK' /\ WaitersTypeOK'
      BY <2>3 DEF CountersTypeOK, PlacesTypeOK, WaitersTypeOK
    <2>5. ThreadsTypeOK' /\ HandsOK' /\ ClaimedOnce' /\ SlotsConserved'
      BY <1>1, WriterFrame
    <2>6. QED
      BY <2>1, <2>4, <2>5
  <1>7. CASE Sleep(w)
    <2> USE <1>7 DEF Sleep, FallAsleep, threadVars
    <2>1. FlagsTypeOK'
      BY DEF FlagsTypeOK
    <2>2. CountersTypeOK' /\ PlacesTypeOK' /\ WaitersTypeOK' /\ ThreadsTypeOK'
      BY DEF CountersTypeOK, PlacesTypeOK, WaitersTypeOK, ThreadsTypeOK
    <2>3. next' \in Nat /\ next <= next'
      BY DEF CountersTypeOK
    <2>4. HandsOK' /\ ClaimedOnce' /\ SlotsConserved'
      BY <2>3, ReadersFrame, ComputesFrame DEF SameReaders, SameComputes
    <2>5. QED
      BY <2>1, <2>2, <2>4
  <1>8. QED
    BY <1>2, <1>3, <1>4, <1>5, <1>6, <1>7 DEF Writer

-----------------------------------------------------------------------------
(***************************************************************************)
(* The main thread, and wakeups nobody asked for.                          *)
(***************************************************************************)
LEMMA MainLeavesInvariant ==
    ASSUME IInv, MainStep
    PROVE  IInv'
  <1> USE DEF IInv, TypeOK, Goes, Moves, KeepLocals, budgetVars, poolVars,
              inputVars, outputVars, sharedVars
  <1>1. /\ Readers \subseteq Threads /\ Computes \subseteq Threads
        /\ Main \notin Readers /\ Main \notin Computes /\ Main \in Threads
    BY Kinds
  <1>2. /\ UNCHANGED <<used, lease, creditBroken, poolVars, reserved, queue,
                       inputFinished, inputBroken, parts, queued,
                       outputStopped, dozing, outputBroken, sharedVars>>
        /\ \E to \in Labels : pc' = [pc EXCEPT ![Main] = to]
        /\ KeepLocals
        /\ creditStopped' \in {creditStopped, TRUE}
        /\ inputStopped' \in {inputStopped, TRUE}
        /\ outputFinished' \in {outputFinished, TRUE}
        /\ creditWaiters' \subseteq creditWaiters
        /\ spaceWaiters' \subseteq spaceWaiters
        /\ dataWaiters' \subseteq dataWaiters
        /\ outputWaiters' \subseteq outputWaiters
    <2> USE DEF Labels
    <2>1. CASE JoinComputes
      BY <2>1 DEF JoinComputes
    <2>2. CASE ShutDown
      BY <2>2 DEF ShutDown, MarkFinished, NotifyWriters, StopInput, StopCredit
    <2>3. CASE JoinRest
      BY <2>3 DEF JoinRest
    <2>4. QED
      BY <2>1, <2>2, <2>3 DEF MainStep
  <1>3. FlagsTypeOK'
    BY <1>2 DEF FlagsTypeOK
  <1>4. CountersTypeOK' /\ PlacesTypeOK' /\ WaitersTypeOK'
    BY <1>2 DEF CountersTypeOK, PlacesTypeOK, WaitersTypeOK
  <1>5. ThreadsTypeOK'
    BY <1>2 DEF ThreadsTypeOK
  <1>6. SameReaders /\ SameComputes
    BY <1>1, <1>2 DEF SameReaders, SameComputes, ThreadsTypeOK
  <1>7. UNCHANGED <<queue, reserved>> /\ next' \in Nat /\ next <= next'
    BY <1>2 DEF CountersTypeOK
  <1>8. HandsOK' /\ ClaimedOnce' /\ SlotsConserved'
    BY <1>6, <1>7, ReadersFrame, ComputesFrame
  <1>9. QED
    BY <1>3, <1>4, <1>5, <1>8

\* Only the sets of waiters shrink, or nothing changes.
LEMMA WakeupStep ==
    ASSUME IInv, \/ \E t \in Threads : SpuriousWakeup(t)
                 \/ UNCHANGED vars
    PROVE  IInv'
  <1> USE DEF IInv, TypeOK
  <1>1. /\ UNCHANGED <<used, creditStopped, creditBroken, lease, poolVars,
                       reserved, queue, inputStopped, inputFinished,
                       inputBroken, parts, queued, outputStopped,
                       outputFinished, dozing, outputBroken, sharedVars,
                       threadVars>>
        /\ creditWaiters' \subseteq creditWaiters
        /\ spaceWaiters' \subseteq spaceWaiters
        /\ dataWaiters' \subseteq dataWaiters
        /\ outputWaiters' \subseteq outputWaiters
    BY DEF SpuriousWakeup, vars, budgetVars, inputVars, outputVars
  <1>2. FlagsTypeOK'
    BY <1>1 DEF FlagsTypeOK, poolVars, sharedVars
  <1>3. CountersTypeOK' /\ PlacesTypeOK' /\ WaitersTypeOK' /\ ThreadsTypeOK'
    BY <1>1 DEF CountersTypeOK, PlacesTypeOK, WaitersTypeOK, ThreadsTypeOK,
                poolVars, sharedVars, threadVars
  <1>4. UNCHANGED <<queue, reserved>> /\ next' \in Nat /\ next <= next'
    BY <1>1 DEF CountersTypeOK, sharedVars
  <1>5. SameReaders /\ SameComputes
    BY <1>1 DEF SameReaders, SameComputes, threadVars
  <1>6. HandsOK' /\ ClaimedOnce' /\ SlotsConserved'
    BY <1>4, <1>5, ReadersFrame, ComputesFrame
  <1>7. QED
    BY <1>2, <1>3, <1>6

-----------------------------------------------------------------------------
(***************************************************************************)
(* Theorems.                                                               *)
(***************************************************************************)
LEMMA NextInvariant == IInv /\ [Next]_vars => IInv'
  <1> SUFFICES ASSUME IInv, [Next]_vars PROVE IInv'
    OBVIOUS
  <1>1. CASE \E t \in Threads : Step(t)
    <2> PICK t \in Threads : Step(t)
      BY <1>1
    <2>1. CASE t \in Readers /\ Reader(t)
      BY <2>1, ReaderStep
    <2>2. CASE t \in Computes /\ Compute(t)
      BY <2>2, ComputeStep
    <2>3. CASE t \in Writers /\ Writer(t)
      BY <2>3, WriterStep
    <2>4. CASE t \in Computes \cup Writers /\ Flush(t)
      BY <2>4, FlushStep
    <2>5. CASE t \in Readers \cup Computes \cup Writers /\ Fail(t)
      BY <2>5, FailStep
    <2>6. CASE MainStep
      BY <2>6, MainLeavesInvariant
    <2>7. QED
      BY <2>1, <2>2, <2>3, <2>4, <2>5, <2>6 DEF Step
  <1>2. CASE \E t \in Threads : SpuriousWakeup(t)
    BY <1>2, WakeupStep
  <1>3. CASE Exited \/ UNCHANGED vars
    BY <1>3, WakeupStep DEF Exited
  <1>4. QED
    BY <1>1, <1>2, <1>3 DEF Next

\* The inductive invariant holds throughout.
THEOREM Invariant == Spec => []IInv
  <1>1. QED
    BY InitInvariant, NextInvariant, PTL DEF Spec

\* Type correctness: in every state of every run each variable has its type,
\* so no lease, counter or partition index leaves its range.
THEOREM TypeCorrect == Spec => []TypeOK
  <1>1. IInv => TypeOK
    BY DEF IInv
  <1>2. QED
    BY <1>1, Invariant, PTL

\* InputQueue::reserve, push_reserved, cancel_reservation and pop_ordered keep
\* reserved_ equal to the slots in use, within the prefetch depth, for any
\* number of readers, on every path out of the reader's loop.
THEOREM SlotsAreConserved == Spec => []SlotsConserved
  <1>1. IInv => SlotsConserved
    BY DEF IInv
  <1>2. QED
    BY <1>1, Invariant, PTL

\* No position of the schedule is in the hands of two readers, or in the hands
\* of one and in the queue as well.
THEOREM PositionsClaimedOnce == Spec => []ClaimedOnce
  <1>1. IInv => ClaimedOnce
    BY DEF IInv
  <1>2. QED
    BY <1>1, Invariant, PTL

-----------------------------------------------------------------------------
(***************************************************************************)
(* Credit: it follows the charts, and no member of the queues, the budget  *)
(* or the buffer pool ever finds what it asserts false.                    *)
(*                                                                         *)
(* IInv says which charts a thread may have in hand, not that no other     *)
(* thread has them too. CInv puts every chart in one place at most, and    *)
(* the place says at which stage it is; the lease and the buffer it owns   *)
(* follow from the stage. A step of a thread moves the charts of a set S   *)
(* from one place to another, or drops them.                               *)
(***************************************************************************)

\* A thread between the claim of a chart and handing it on.
InHand(t) ==
    IF t \in Readers
    THEN pc[t] \in {"reserve", "acquire", "read", "push"}
    ELSE \/ pc[t] \in {"try_acquire", "acquire", "read", "process", "kernel",
                       "refused", "submit"}
         \/ pc[t] \in {"flush", "clear"} /\ resume[t] = "acquire"

\* The charts a thread claimed and has not handed on: the one in its hand and,
\* when it claims from next, the rest of its compute batch.
Mine(t) ==
    {p \in Positions :
        \/ InHand(t) /\ p = cur[t]
        \/ /\ t \in Computes /\ InputReaders = 0 /\ Busy(t)
           /\ cur[t] < p /\ p <= cur[t] + ahead[t]}

FreePlace  == <<"free", 0>>
QueuePlace == <<"queue", 0>>

Places ==
    {FreePlace, QueuePlace}
    \cup ({"thread"} \X (Readers \cup Computes))
    \cup ({"part"} \X Partitions)
    \cup ({"batch"} \X (Computes \cup Writers))

\* The charts in a place.
Held(k) ==
    CASE k[1] = "free"   -> {p \in Positions : p >= next}
      [] k[1] = "queue"  -> queue
      [] k[1] = "thread" -> Mine(k[2])
      [] k[1] = "part"   -> ElementsOf(parts[k[2]])
      [] k[1] = "batch"  -> ElementsOf(batch[k[2]])

HandStage(t) ==
    CASE pc[t] \in {"read", "push", "process"} -> "read"
      [] pc[t] \in {"kernel", "refused"}       -> "kernel"
      [] pc[t] = "submit"                      -> "encoded"
      [] OTHER                                 -> "none"

\* How far a chart has come that is in a place.
Stage(k, p) ==
    CASE k[1] = "free"             -> "none"
      [] k[1] = "queue"            -> "read"
      [] k[1] \in {"part", "batch"} -> "encoded"
      [] k[1] = "thread"           -> IF InHand(k[2]) /\ p = cur[k[2]]
                                      THEN HandStage(k[2]) ELSE "none"

\* The credit a chart holds at a stage.
Owed(stage, p) ==
    CASE stage \in {"read", "kernel"} -> Reservation(p)
      [] stage = "encoded"            -> EncodedBytes
      [] OTHER                        -> 0

\* The charts whose result has a buffer of the pool.
Buffered ==
    {p \in Positions : \E k \in Places :
        p \in Held(k) /\ Stage(k, p) \in {"kernel", "encoded"}}

\* A chart is in one place, and has the credit it owes there.
PlacedOnce(p) ==
    \A j, k \in Places : p \in Held(j) /\ p \in Held(k) => j = k
LeaseDue(p) ==
    /\ \A k \in Places : p \in Held(k) => lease[p] = Owed(Stage(k, p), p)
    /\ (\A k \in Places : p \notin Held(k)) => lease[p] = 0
PlacesInv == \A p \in Positions : PlacedOnce(p) /\ LeaseDue(p)

\* No chart is twice in a partition or a batch, and an io thread that is about
\* to take a batch has none.
NoRepeat(s) == \A i, j \in DOMAIN s : s[i] = s[j] => i = j
SequencesInv ==
    /\ \A i \in Partitions : NoRepeat(parts[i])
    /\ \A t \in Computes \cup Writers : NoRepeat(batch[t])
    /\ \A w \in Writers : pc[w] \in {"pop", "scan", "meta"} => batch[w] = <<>>

\* The budget counts the leases.
BudgetInv ==
    /\ ~creditBroken
    /\ IsFiniteSet(CreditUnits)
    /\ used = Cardinality(CreditUnits)
    /\ BudgetBound

\* There is never a buffer free that a chart of the manifest has not had.
BuffersInv == ~poolBroken /\ freeBuffers + Cardinality(Buffered) <= Charts

\* With the policy Strict nothing is accounted for under meta_mutex_.
StrictInv ==
    Policy = "Strict" =>
        ~outputBroken /\ \A w \in Writers : pc[w] \notin {"scan", "meta", "account"}

CInv == /\ PlacesInv
        /\ SequencesInv
        /\ BudgetInv
        /\ BuffersInv
        /\ ~inputBroken
        /\ StrictInv

-----------------------------------------------------------------------------
(***************************************************************************)
(* The budget.                                                             *)
(***************************************************************************)
Units(l) == UNION {{p} \X (1 .. l[p]) : p \in Positions}

\* n units of one chart count n.
LEMMA UnitsOfOne ==
    ASSUME NEW p, NEW n \in Nat
    PROVE  IsFiniteSet({p} \X (1 .. n)) /\ Cardinality({p} \X (1 .. n)) = n
  <1>1. IsFiniteSet(1 .. n) /\ Cardinality(1 .. n) = n
    BY FS_Interval
  <1>2. IsFiniteSet({p}) /\ Cardinality({p}) = 1
    BY FS_Singleton
  <1>3. /\ IsFiniteSet({p} \X (1 .. n))
        /\ Cardinality({p} \X (1 .. n)) = Cardinality({p}) * Cardinality(1 .. n)
    BY <1>1, <1>2, FS_Product
  <1>4. Cardinality({p}) * Cardinality(1 .. n) = n
    BY <1>1, <1>2
  <1>5. QED
    BY <1>3, <1>4

\* What a lease of one chart adds to the units of the others.
LEMMA UnitsSplit ==
    ASSUME NEW l \in [Positions -> Nat], NEW p \in Positions, NEW n \in Nat,
           IsFiniteSet(Units(l))
    PROVE  /\ l[p] <= Cardinality(Units(l))
           /\ IsFiniteSet(Units([l EXCEPT ![p] = n]))
           /\ Cardinality(Units([l EXCEPT ![p] = n]))
                  = Cardinality(Units(l)) - l[p] + n
           /\ \A q \in Positions \ {p} : l[q] + l[p] <= Cardinality(Units(l))
  <1> DEFINE m    == [l EXCEPT ![p] = n]
             Rest == UNION {{q} \X (1 .. l[q]) : q \in Positions \ {p}}
             Own(k) == {p} \X (1 .. k)
  <1>1. Units(l) = Rest \cup Own(l[p])
    BY DEF Units
  <1>2. Units(m) = Rest \cup Own(n)
    <2>1. \A q \in Positions : m[q] = IF q = p THEN n ELSE l[q]
      OBVIOUS
    <2>2. QED
      BY <2>1 DEF Units
  <1>3. \A k \in Nat : Rest \cap Own(k) = {}
    OBVIOUS
  <1>4. IsFiniteSet(Rest)
    BY <1>1, FS_Subset
  <1>5. Cardinality(Rest) \in Nat
    BY <1>4, FS_CardinalityType
  <1>6. \A k \in Nat : /\ IsFiniteSet(Rest \cup Own(k))
                       /\ Cardinality(Rest \cup Own(k)) = Cardinality(Rest) + k
    <2> TAKE k \in Nat
    <2>1. IsFiniteSet(Own(k)) /\ Cardinality(Own(k)) = k
      BY UnitsOfOne
    <2>2. Cardinality(Rest \cap Own(k)) = 0
      BY <1>3, FS_EmptySet
    <2> HIDE DEF Rest, Own
    <2>3. /\ IsFiniteSet(Rest \cup Own(k))
          /\ Cardinality(Rest \cup Own(k)) =
                 Cardinality(Rest) + Cardinality(Own(k))
                     - Cardinality(Rest \cap Own(k))
      BY <1>4, <2>1, FS_Union
    <2>4. QED
      BY <1>5, <2>1, <2>2, <2>3
  <1>7. l[p] \in Nat
    OBVIOUS
  <1>8. \A q \in Positions \ {p} : l[q] <= Cardinality(Rest)
    <2> TAKE q \in Positions \ {p}
    <2>1. IsFiniteSet({q} \X (1 .. l[q])) /\ Cardinality({q} \X (1 .. l[q])) = l[q]
      BY UnitsOfOne
    <2>2. {q} \X (1 .. l[q]) \in SUBSET Rest
      OBVIOUS
    <2>3. QED
      BY <1>4, <2>1, <2>2, FS_Subset
  <1>9. Cardinality(Units(l)) = Cardinality(Rest) + l[p]
    BY <1>1, <1>6, <1>7
  <1>10. /\ IsFiniteSet(Units(m))
         /\ Cardinality(Units(m)) = Cardinality(Rest) + n
    BY <1>2, <1>6
  <1> HIDE DEF Rest
  <1>11. \A q \in Positions \ {p} : l[q] \in Nat
    OBVIOUS
  <1>12. QED
    BY <1>5, <1>7, <1>8, <1>9, <1>10, <1>11

LEMMA UnitsAreCredit == CreditUnits = Units(lease)
  BY DEF CreditUnits, Units

\* Charts that owe nothing leave the budget alone.
LEMMA BudgetSame ==
    ASSUME BudgetInv, UNCHANGED <<used, lease, creditBroken>>
    PROVE  BudgetInv'
  BY DEF BudgetInv, CreditUnits, BudgetBound

\* acquire and try_acquire: the credit a chart without a lease is granted
\* keeps the budget, or is all there is.
LEMMA Grant ==
    ASSUME TypeOK, BudgetInv, NEW t, NEW p \in Positions, lease[p] = 0,
           CreditGranted(t, p)
    PROVE  /\ BudgetInv'
           /\ lease' = [lease EXCEPT ![p] = Reservation(p)]
  <1> DEFINE n == Reservation(p)
  <1>1. n \in Nat /\ lease \in [Positions -> Nat] /\ used \in Nat
    BY ReservationType DEF TypeOK, CountersTypeOK
  <1>2. /\ used' = used + n
        /\ lease' = [lease EXCEPT ![p] = n]
        /\ UNCHANGED creditBroken
        /\ used = 0 \/ used + n <= PipelineBytes
    BY DEF CreditGranted, TakeCredit, Admits
  <1>3. IsFiniteSet(CreditUnits') /\ Cardinality(CreditUnits') = used + n
    <2>1. IsFiniteSet(Units(lease)) /\ Cardinality(Units(lease)) = used
      BY UnitsAreCredit DEF BudgetInv
    <2>2. CreditUnits' = Units([lease EXCEPT ![p] = n])
      BY <1>2 DEF CreditUnits, Units
    <2>3. /\ IsFiniteSet(Units([lease EXCEPT ![p] = n]))
          /\ Cardinality(Units([lease EXCEPT ![p] = n])) = used - lease[p] + n
      BY <1>1, <2>1, UnitsSplit
    <2>4. QED
      BY <1>1, <2>2, <2>3
  <1>4. BudgetBound'
    <2>1. CASE used = 0
      BY <1>1, <1>2, <2>1 DEF BudgetBound
    <2>2. CASE used + n <= PipelineBytes
      BY <1>1, <1>2, <2>2, BudgetAssumption DEF BudgetBound
    <2>3. QED
      BY <1>2, <2>1, <2>2
  <1>5. QED
    BY <1>2, <1>3, <1>4 DEF BudgetInv

\* CreditLease::release and reset: what a chart holds can be given back, in
\* part or whole, and neither finds its assertion false.
LEMMA Release ==
    ASSUME TypeOK, BudgetInv, NEW p \in Positions, NEW bytes \in Nat,
           bytes <= lease[p], ReleaseCredit(p, bytes)
    PROVE  /\ BudgetInv'
           /\ lease' = [lease EXCEPT ![p] = lease[p] - bytes]
  <1> DEFINE n == lease[p] - bytes
  <1>1. lease \in [Positions -> Nat] /\ used \in Nat /\ n \in Nat /\ lease[p] \in Nat
    BY DEF TypeOK, CountersTypeOK
  <1>2. IsFiniteSet(Units(lease)) /\ Cardinality(Units(lease)) = used
    BY UnitsAreCredit DEF BudgetInv
  <1>3. /\ lease[p] <= used
        /\ \A q \in Positions \ {p} : lease[q] + lease[p] <= used
    BY <1>1, <1>2, UnitsSplit
  <1>4. /\ used' = used - bytes
        /\ lease' = [lease EXCEPT ![p] = n]
        /\ UNCHANGED creditBroken
    BY <1>1, <1>3 DEF ReleaseCredit
  <1>5. IsFiniteSet(CreditUnits') /\ Cardinality(CreditUnits') = used - bytes
    <2>1. CreditUnits' = Units([lease EXCEPT ![p] = n])
      BY <1>4 DEF CreditUnits, Units
    <2>2. Cardinality(Units([lease EXCEPT ![p] = n])) = used - lease[p] + n
      BY <1>1, <1>2, UnitsSplit
    <2>3. IsFiniteSet(Units([lease EXCEPT ![p] = n]))
      BY <1>1, <1>2, UnitsSplit
    <2>4. QED
      BY <1>1, <2>1, <2>2, <2>3
  <1>6. BudgetBound'
    <2> SUFFICES ASSUME used' > PipelineBytes
                 PROVE  \E q \in Positions : lease'[q] = used'
      BY DEF BudgetBound
    <2>1. PICK q \in Positions : lease[q] = used
      BY <1>1, <1>4, BudgetAssumption DEF BudgetInv, BudgetBound
    <2>2. CASE q = p
      BY <1>1, <1>4, <2>1, <2>2
    <2>3. CASE q # p
      <3>1. lease[q] + lease[p] <= used
        BY <1>3, <2>3
      <3>2. bytes = 0
        BY <1>1, <2>1, <3>1
      <3>3. QED
        BY <1>1, <1>4, <2>1, <2>3, <3>2
    <2>4. QED
      BY <2>2, <2>3
  <1>7. QED
    BY <1>4, <1>5, <1>6 DEF BudgetInv

-----------------------------------------------------------------------------
(***************************************************************************)
(* Moving charts.                                                          *)
(***************************************************************************)
LEMMA PlaceKinds ==
    ASSUME NEW k \in Places
    PROVE  \/ k = FreePlace
           \/ k = QueuePlace
           \/ \E x \in Readers \cup Computes : k = <<"thread", x>>
           \/ \E i \in Partitions : k = <<"part", i>>
           \/ \E x \in Computes \cup Writers : k = <<"batch", x>>
  BY DEF Places

\* What is in each place, before and after a step.
LEMMA HeldOf ==
    /\ Held(FreePlace) = {p \in Positions : p >= next}
    /\ Held(QueuePlace) = queue
    /\ \A x : Held(<<"thread", x>>) = Mine(x)
    /\ \A i : Held(<<"part", i>>) = ElementsOf(parts[i])
    /\ \A x : Held(<<"batch", x>>) = ElementsOf(batch[x])
  BY DEF Held, FreePlace, QueuePlace

LEMMA HeldAfter ==
    /\ Held(FreePlace)' = {p \in Positions : p >= next'}
    /\ Held(QueuePlace)' = queue'
    /\ \A x : Held(<<"thread", x>>)' = Mine(x)'
    /\ \A i : Held(<<"part", i>>)' = ElementsOf(parts'[i])
    /\ \A x : Held(<<"batch", x>>)' = ElementsOf(batch'[x])
  BY DEF Held, FreePlace, QueuePlace

MyStage(x, p) == IF InHand(x) /\ p = cur[x] THEN HandStage(x) ELSE "none"

LEMMA StageOf ==
    \A p : /\ Stage(FreePlace, p) = "none" /\ Stage(FreePlace, p)' = "none"
           /\ Stage(QueuePlace, p) = "read" /\ Stage(QueuePlace, p)' = "read"
           /\ \A x : /\ Stage(<<"thread", x>>, p) = MyStage(x, p)
                     /\ Stage(<<"thread", x>>, p)' = MyStage(x, p)'
           /\ \A x : /\ Stage(<<"part", x>>, p) = "encoded"
                     /\ Stage(<<"part", x>>, p)' = "encoded"
                     /\ Stage(<<"batch", x>>, p) = "encoded"
                     /\ Stage(<<"batch", x>>, p)' = "encoded"
  BY DEF Stage, MyStage, FreePlace, QueuePlace

\* A step leaves a place as it is, or as it is but for the charts of S.
Untouched(k) ==
    /\ \A p \in Positions : p \in Held(k)' <=> p \in Held(k)
    /\ \A p \in Positions : p \in Held(k) => Stage(k, p)' = Stage(k, p)
TouchedIn(k, S) ==
    /\ \A p \in Positions \ S : p \in Held(k)' <=> p \in Held(k)
    /\ \A p \in Positions \ S : p \in Held(k) => Stage(k, p)' = Stage(k, p)

InBuffer(k, p) == p \in Held(k) /\ Stage(k, p) \in {"kernel", "encoded"}

\* The charts of S go from a to b, or from a to nowhere, and their leases with
\* them: every chart is in one place still, and only theirs may change stage.
LEMMA Relocation ==
    ASSUME PlacesInv, NEW S \in SUBSET Positions,
           NEW a \in Places, NEW b \in Places,
           \A p \in S : p \in Held(a),
           \A k \in Places : k # a /\ k # b => Untouched(k),
           TouchedIn(a, S), TouchedIn(b, S),
           a # b => \A p \in S : p \notin Held(a)',
           \A p \in Positions \ S : lease'[p] = lease[p],
           \A p \in S : p \in Held(b)' => lease'[p] = Owed(Stage(b, p)', p),
           \A p \in S : p \notin Held(b)' => lease'[p] = 0
    PROVE  /\ PlacesInv'
           /\ Buffered' = (Buffered \ S) \cup {p \in S : InBuffer(b, p)'}
  <1>1. \A k \in Places, p \in Positions \ S :
            /\ p \in Held(k)' <=> p \in Held(k)
            /\ p \in Held(k) => Stage(k, p)' = Stage(k, p)
    BY DEF Untouched, TouchedIn
  <1>2. \A k \in Places, p \in S : p \in Held(k)' => k = b
    <2> SUFFICES ASSUME NEW k \in Places, NEW p \in S, p \in Held(k)', k # b
                 PROVE  FALSE
      OBVIOUS
    <2>1. CASE k = a
      BY <2>1
    <2>2. CASE k # a
      BY <2>2 DEF Untouched, PlacesInv, PlacedOnce
    <2>3. QED
      BY <2>1, <2>2
  <1>3. ASSUME NEW p \in Positions \ S PROVE PlacedOnce(p)' /\ LeaseDue(p)'
    <2>1. PlacedOnce(p) /\ LeaseDue(p) /\ lease'[p] = lease[p]
      BY DEF PlacesInv
    <2>2. PlacedOnce(p)'
      BY <1>1, <2>1 DEF PlacedOnce
    <2>3. \A k \in Places : p \in Held(k) => Owed(Stage(k, p), p)' = Owed(Stage(k, p), p)
      BY <1>1 DEF Owed, Reservation
    <2>4. LeaseDue(p)'
      BY <1>1, <2>1, <2>3 DEF LeaseDue
    <2>5. QED
      BY <2>2, <2>4
  <1>4. ASSUME NEW p \in S PROVE PlacedOnce(p)' /\ LeaseDue(p)'
    <2>1. PlacedOnce(p)'
      BY <1>2 DEF PlacedOnce
    <2>2. Owed(Stage(b, p), p)' = Owed(Stage(b, p)', p)
      BY DEF Owed, Reservation
    <2>3. LeaseDue(p)'
      BY <1>2, <2>2 DEF LeaseDue
    <2>4. QED
      BY <2>1, <2>3
  <1>5. PlacesInv'
    BY <1>3, <1>4 DEF PlacesInv
  <1>6. \A p \in Positions \ S : p \in Buffered' <=> p \in Buffered
    BY <1>1 DEF Buffered
  <1>7. \A p \in S : p \in Buffered' <=> InBuffer(b, p)'
    BY <1>2 DEF Buffered, InBuffer
  <1>8. Buffered \subseteq Positions /\ Buffered' \subseteq Positions
    BY DEF Buffered
  <1>9. QED
    BY <1>5, <1>6, <1>7, <1>8

SameThread(x) ==
    /\ pc'[x] = pc[x]
    /\ cur'[x] = cur[x]
    /\ x \in Computes => resume'[x] = resume[x] /\ ahead'[x] = ahead[x]

\* The hands of a thread that does not move stay as they are.
LEMMA SameThreadPlace ==
    ASSUME NEW x \in Readers \cup Computes, SameThread(x)
    PROVE  Untouched(<<"thread", x>>)
  <1>1. InHand(x)' = InHand(x) /\ HandStage(x)' = HandStage(x)
    BY Kinds DEF SameThread, InHand, HandStage
  <1>2. x \in Computes => Busy(x)' = Busy(x)
    BY DEF SameThread, Busy
  <1>3. Mine(x)' = Mine(x)
    BY <1>1, <1>2 DEF SameThread, Mine
  <1>4. \A p : MyStage(x, p)' = MyStage(x, p)
    BY <1>1 DEF SameThread, MyStage
  <1>5. QED
    BY <1>3, <1>4, HeldOf, HeldAfter, StageOf DEF Untouched

\* A step touches no place but those its variables say.
LEMMA Elsewhere ==
    ASSUME NEW K,
           FreePlace \in K \/ UNCHANGED next,
           QueuePlace \in K \/ UNCHANGED queue,
           \A x \in Readers \cup Computes : <<"thread", x>> \in K \/ SameThread(x),
           \A i \in Partitions : <<"part", i>> \in K \/ parts'[i] = parts[i],
           \A x \in Computes \cup Writers :
               <<"batch", x>> \in K \/ batch'[x] = batch[x]
    PROVE  \A k \in Places \ K : Untouched(k)
  <1> SUFFICES ASSUME NEW k \in Places \ K PROVE Untouched(k)
    OBVIOUS
  <1>1. CASE k = FreePlace
    BY <1>1, HeldOf, HeldAfter, StageOf DEF Untouched
  <1>2. CASE k = QueuePlace
    BY <1>2, HeldOf, HeldAfter, StageOf DEF Untouched
  <1>3. CASE \E x \in Readers \cup Computes : k = <<"thread", x>>
    BY <1>3, SameThreadPlace
  <1>4. CASE \E i \in Partitions : k = <<"part", i>>
    BY <1>4, HeldOf, HeldAfter, StageOf DEF Untouched, ElementsOf
  <1>5. CASE \E x \in Computes \cup Writers : k = <<"batch", x>>
    BY <1>5, HeldOf, HeldAfter, StageOf DEF Untouched, ElementsOf
  <1>6. QED
    BY <1>1, <1>2, <1>3, <1>4, <1>5, PlaceKinds

\* No chart moves at all.
LEMMA NothingMoves ==
    ASSUME PlacesInv, \A k \in Places : Untouched(k),
           \A p \in Positions : lease'[p] = lease[p]
    PROVE  PlacesInv' /\ Buffered' = Buffered
  <1>1. ASSUME NEW p \in Positions PROVE PlacedOnce(p)' /\ LeaseDue(p)'
    <2>1. PlacedOnce(p) /\ LeaseDue(p) /\ lease'[p] = lease[p]
      BY DEF PlacesInv
    <2>2. PlacedOnce(p)'
      BY <2>1 DEF PlacedOnce, Untouched
    <2>3. \A k \in Places : p \in Held(k) => Owed(Stage(k, p), p)' = Owed(Stage(k, p), p)
      BY DEF Owed, Reservation, Untouched
    <2>4. LeaseDue(p)'
      BY <2>1, <2>3 DEF LeaseDue, Untouched
    <2>5. QED
      BY <2>2, <2>4
  <1>2. QED
    BY <1>1 DEF PlacesInv, Buffered, Untouched

\* What holds of a chart among those of a thread.
LEMMA MineIs ==
    ASSUME TypeOK, PlacesInv, NEW t \in Readers \cup Computes, NEW p \in Mine(t)
    PROVE  /\ lease[p] = Owed(MyStage(t, p), p)
           /\ p \in Buffered <=> MyStage(t, p) \in {"kernel", "encoded"}
           /\ p \notin queue
           /\ p < next
           /\ \A x \in (Readers \cup Computes) \ {t} : p \notin Mine(x)
           /\ \A i \in Partitions : p \notin ElementsOf(parts[i])
           /\ \A x \in Computes \cup Writers : p \notin ElementsOf(batch[x])
  <1> DEFINE k == <<"thread", t>>
  <1>1. /\ k \in Places /\ FreePlace \in Places /\ QueuePlace \in Places
        /\ \A x \in Readers \cup Computes : <<"thread", x>> \in Places
        /\ \A i \in Partitions : <<"part", i>> \in Places
        /\ \A x \in Computes \cup Writers : <<"batch", x>> \in Places
    BY DEF Places
  <1>2. p \in Positions
    BY DEF Mine
  <1>3. p \in Held(k) /\ Stage(k, p) = MyStage(t, p)
    BY HeldOf, StageOf
  <1>4. PlacedOnce(p) /\ LeaseDue(p)
    BY <1>2 DEF PlacesInv
  <1>5. lease[p] = Owed(MyStage(t, p), p)
    BY <1>1, <1>3, <1>4 DEF LeaseDue
  <1>6. \A j \in Places : j # k => p \notin Held(j)
    BY <1>1, <1>3, <1>4 DEF PlacedOnce
  <1>7. p \in Buffered <=> MyStage(t, p) \in {"kernel", "encoded"}
    BY <1>1, <1>2, <1>3, <1>6 DEF Buffered
  <1>8. p \notin Held(FreePlace) /\ p \notin Held(QueuePlace)
    BY <1>1, <1>6 DEF FreePlace, QueuePlace
  <1>9. /\ \A x \in (Readers \cup Computes) \ {t} : p \notin Held(<<"thread", x>>)
        /\ \A i \in Partitions : p \notin Held(<<"part", i>>)
        /\ \A x \in Computes \cup Writers : p \notin Held(<<"batch", x>>)
    BY <1>1, <1>6
  <1>10. p < next
    BY <1>2, <1>8, HeldOf, BudgetAssumption DEF TypeOK, CountersTypeOK, Positions
  <1>11. p \notin queue
    BY <1>8, HeldOf
  <1>12. /\ \A x \in (Readers \cup Computes) \ {t} : p \notin Mine(x)
         /\ \A i \in Partitions : p \notin ElementsOf(parts[i])
         /\ \A x \in Computes \cup Writers : p \notin ElementsOf(batch[x])
    BY <1>9, HeldOf
  <1>13. QED
    BY <1>5, <1>7, <1>10, <1>11, <1>12

Others(t) == \A x \in (Readers \cup Computes) \ {t} : SameThread(x)

\* How a thread's own place looks to Relocation.
LEMMA OwnPlace ==
    ASSUME NEW t \in Readers \cup Computes, NEW S,
           \A p \in Positions \ S : p \in Mine(t)' <=> p \in Mine(t),
           \A p \in Mine(t) \ S : MyStage(t, p)' = MyStage(t, p)
    PROVE  TouchedIn(<<"thread", t>>, S)
  BY HeldOf, HeldAfter, StageOf DEF TouchedIn

\* A step that moves no chart out of its thread but to drop it.
LEMMA AtHand ==
    ASSUME PlacesInv, NEW t \in Readers \cup Computes, Others(t),
           UNCHANGED <<next, queue, parts, batch>>,
           NEW S \in SUBSET Mine(t),
           \A p \in Positions \ S : p \in Mine(t)' <=> p \in Mine(t),
           \A p \in Mine(t) \ S : MyStage(t, p)' = MyStage(t, p),
           \A p \in Positions \ S : lease'[p] = lease[p],
           \A p \in S : p \in Mine(t)' => lease'[p] = Owed(MyStage(t, p)', p),
           \A p \in S : p \notin Mine(t)' => lease'[p] = 0
    PROVE  /\ PlacesInv'
           /\ Buffered' = (Buffered \ S)
                  \cup {p \in S : p \in Mine(t)'
                                  /\ MyStage(t, p)' \in {"kernel", "encoded"}}
  <1> DEFINE k == <<"thread", t>>
  <1>1. k \in Places /\ S \in SUBSET Positions
    BY DEF Places, Mine
  <1>2. \A j \in Places \ {k} : Untouched(j)
    BY Elsewhere DEF Others
  <1>3. TouchedIn(k, S)
    BY OwnPlace
  <1>4. /\ \A p \in S : p \in Held(k)
        /\ Held(k)' = Mine(t)'
        /\ \A p : Stage(k, p)' = MyStage(t, p)'
    BY HeldOf, HeldAfter, StageOf
  <1> HIDE DEF k
  <1>5. /\ PlacesInv'
        /\ Buffered' = (Buffered \ S) \cup {p \in S : InBuffer(k, p)'}
    BY <1>1, <1>2, <1>3, <1>4, Relocation
  <1>6. \A p \in S : InBuffer(k, p)' <=>
            p \in Mine(t)' /\ MyStage(t, p)' \in {"kernel", "encoded"}
    BY <1>4 DEF InBuffer
  <1>7. QED
    BY <1>5, <1>6

\* ... that leaves every chart where it is and what it is.
LEMMA Still ==
    ASSUME PlacesInv, NEW t \in Readers \cup Computes, Others(t),
           UNCHANGED <<next, queue, parts, batch, lease>>,
           Mine(t)' = Mine(t),
           \A p \in Mine(t) : MyStage(t, p)' = MyStage(t, p)
    PROVE  PlacesInv' /\ Buffered' = Buffered
  <1>1. /\ PlacesInv'
        /\ Buffered' = (Buffered \ {})
               \cup {p \in {} : p \in Mine(t)'
                                /\ MyStage(t, p)' \in {"kernel", "encoded"}}
    <2> DEFINE S == {}
    <2>1. S \in SUBSET Mine(t) /\ \A p : p \notin S
      OBVIOUS
    <2>2. \A p \in Positions : lease'[p] = lease[p]
      OBVIOUS
    <2> HIDE DEF S
    <2>3. /\ PlacesInv'
          /\ Buffered' = (Buffered \ S)
                 \cup {p \in S : p \in Mine(t)'
                                 /\ MyStage(t, p)' \in {"kernel", "encoded"}}
      BY <2>1, <2>2, AtHand
    <2>4. QED
      BY <2>3 DEF S
  <1>2. QED
    BY <1>1

\* ... that drops what the thread has.
LEMMA Dropped ==
    ASSUME PlacesInv, NEW t \in Readers \cup Computes, Others(t),
           UNCHANGED <<next, queue, parts, batch>>,
           Mine(t)' = {},
           \A p \in Positions : lease'[p] = IF p \in Mine(t) THEN 0 ELSE lease[p]
    PROVE  PlacesInv' /\ Buffered' = Buffered \ Mine(t)
  <1>1. /\ PlacesInv'
        /\ Buffered' = (Buffered \ Mine(t))
               \cup {p \in Mine(t) : p \in Mine(t)'
                                     /\ MyStage(t, p)' \in {"kernel", "encoded"}}
    <2>1. Mine(t) \in SUBSET Mine(t) /\ Mine(t) \subseteq Positions
      BY DEF Mine
    <2> QED
      BY <2>1, AtHand
  <1>2. QED
    BY <1>1

\* ... that changes the stage of one chart.
LEMMA Staged ==
    ASSUME PlacesInv, NEW t \in Readers \cup Computes, Others(t),
           UNCHANGED <<next, queue, parts, batch>>,
           NEW q \in Mine(t), Mine(t)' = Mine(t),
           \A p \in Mine(t) \ {q} : MyStage(t, p)' = MyStage(t, p),
           \A p \in Positions \ {q} : lease'[p] = lease[p],
           lease'[q] = Owed(MyStage(t, q)', q)
    PROVE  /\ PlacesInv'
           /\ MyStage(t, q)' \in {"kernel", "encoded"} =>
                  Buffered' = Buffered \cup {q}
           /\ MyStage(t, q)' \notin {"kernel", "encoded"} =>
                  Buffered' = Buffered \ {q}
  <1>1. /\ PlacesInv'
        /\ Buffered' = (Buffered \ {q})
               \cup {p \in {q} : p \in Mine(t)'
                                 /\ MyStage(t, p)' \in {"kernel", "encoded"}}
    <2> DEFINE S == {q}
    <2>1. S \in SUBSET Mine(t) /\ \A p : p \in S <=> p = q
      OBVIOUS
    <2> HIDE DEF S
    <2>2. /\ \A p \in S : p \in Mine(t)' => lease'[p] = Owed(MyStage(t, p)', p)
          /\ \A p \in S : p \notin Mine(t)' => lease'[p] = 0
      BY <2>1
    <2>3. /\ PlacesInv'
          /\ Buffered' = (Buffered \ S)
                 \cup {p \in S : p \in Mine(t)'
                                 /\ MyStage(t, p)' \in {"kernel", "encoded"}}
      BY <2>1, <2>2, AtHand
    <2>4. QED
      BY <2>3 DEF S
  <1>2. QED
    BY <1>1

-----------------------------------------------------------------------------
(***************************************************************************)
(* The pool of buffers, and what readers and compute threads leave alone.  *)
(***************************************************************************)
LEMMA BufferedFinite ==
    /\ IsFiniteSet(Buffered) /\ Cardinality(Buffered) \in Nat
    /\ Cardinality(Buffered) <= Charts
    /\ IsFiniteSet(Buffered)' /\ Cardinality(Buffered)' \in Nat
    /\ Cardinality(Buffered)' <= Charts
  <1>1. IsFiniteSet(Positions) /\ Cardinality(Positions) = Charts
    BY FS_Interval, BudgetAssumption DEF Positions
  <1>2. Buffered \in SUBSET Positions /\ Buffered' \in SUBSET Positions
    BY DEF Buffered
  <1>3. QED
    BY <1>1, <1>2, FS_Subset, FS_CardinalityType

LEMMA BuffersSame ==
    ASSUME BuffersInv, UNCHANGED poolVars, Buffered' = Buffered
    PROVE  BuffersInv'
  BY DEF BuffersInv, poolVars

\* A buffer that is given back is one the pool is missing.
LEMMA BufferFreed ==
    ASSUME TypeOK, BuffersInv, NEW p \in Buffered, Buffered' = Buffered \ {p},
           ReleaseBuffer
    PROVE  BuffersInv'
  <1>1. Cardinality(Buffered') = Cardinality(Buffered) - 1
    BY BufferedFinite, FS_RemoveElement
  <1>2. freeBuffers \in Nat /\ Charts \in Nat
    BY BudgetAssumption DEF TypeOK, CountersTypeOK
  <1>3. Cardinality(Buffered) \in Nat /\ Cardinality(Buffered') \in Nat
    BY BufferedFinite
  <1>4. ~(freeBuffers >= Charts)
    BY <1>1, <1>2, <1>3 DEF BuffersInv
  <1>5. freeBuffers' = freeBuffers + 1 /\ UNCHANGED poolBroken
    BY <1>4 DEF ReleaseBuffer
  <1>6. QED
    BY <1>1, <1>2, <1>3, <1>5 DEF BuffersInv

\* One that is taken is missing from now on.
LEMMA BufferTaken ==
    ASSUME TypeOK, BuffersInv, NEW p, p \notin Buffered,
           Buffered' = Buffered \cup {p}, AcquireBuffer
    PROVE  BuffersInv'
  <1>1. Cardinality(Buffered') = Cardinality(Buffered) + 1
    BY BufferedFinite, FS_AddElement
  <1>2. freeBuffers \in Nat /\ Charts \in Nat
    BY BudgetAssumption DEF TypeOK, CountersTypeOK
  <1>3. Cardinality(Buffered) \in Nat /\ Cardinality(Buffered') <= Charts
    BY BufferedFinite
  <1>4. QED
    BY <1>1, <1>2, <1>3 DEF BuffersInv, AcquireBuffer

LEMMA OutputSame ==
    ASSUME SequencesInv, StrictInv, UNCHANGED <<parts, batch, outputBroken>>,
           \A w \in Writers : pc'[w] = pc[w]
    PROVE  SequencesInv' /\ StrictInv'
  BY DEF SequencesInv, StrictInv, NoRepeat

\* A reader with a slot finds one reserved.
LEMMA HolderCounted ==
    ASSUME IInv, NEW r \in SlotHolders
    PROVE  reserved # 0
  <1>1. Cardinality(SlotHolders) # 0 /\ Cardinality(SlotHolders) \in Nat
    BY Finite, FS_EmptySet DEF IInv
  <1>2. Cardinality(queue) \in Nat
    BY Finite DEF IInv
  <1>3. QED
    BY <1>1, <1>2 DEF IInv, SlotsConserved

-----------------------------------------------------------------------------
(***************************************************************************)
(* Reader threads.                                                         *)
(***************************************************************************)
HandLabels == {"reserve", "acquire", "read", "push"}

\* A reader has one chart, between its claim and its push.
LEMMA ReaderMine ==
    ASSUME NEW r \in Readers
    PROVE  /\ Mine(r) = {p \in Positions : pc[r] \in HandLabels /\ p = cur[r]}
           /\ Mine(r)' = {p \in Positions : pc'[r] \in HandLabels /\ p = cur'[r]}
           /\ \A p : MyStage(r, p) =
                  IF pc[r] \in {"read", "push"} /\ p = cur[r] THEN "read" ELSE "none"
           /\ \A p : MyStage(r, p)' =
                  IF pc'[r] \in {"read", "push"} /\ p = cur'[r] THEN "read" ELSE "none"
  BY Kinds DEF Mine, InHand, MyStage, HandStage, HandLabels

LEMMA ReaderHand ==
    ASSUME IInv, NEW r \in Readers, pc[r] \in HandLabels
    PROVE  cur[r] \in Positions /\ Mine(r) = {cur[r]} /\ lease[cur[r]] \in Nat
  BY ReaderMine DEF IInv, ClaimedOnce, Claimers, HandLabels, TypeOK, CountersTypeOK

\* A step of a reader leaves the other threads and the output alone.
LEMMA ReaderLocal ==
    ASSUME IInv, NEW r \in Readers, Reader(r)
    PROVE  /\ Others(r) /\ \A w \in Writers : pc'[w] = pc[w]
           /\ UNCHANGED <<parts, batch, outputBroken, poolVars>>
           /\ \A to : pc' = [pc EXCEPT ![r] = to] => pc'[r] = to
  <1> USE DEF Reader, ReaderLoop, ReaderClaim, ReaderReserve, ReaderAcquire,
              ReaderRead, ReaderPush, ReaderCancel, ReaderLeave, Goes, Moves, KeepLocals
  <1>1. \E to : pc' = [pc EXCEPT ![r] = to]
    OBVIOUS
  <1>2. UNCHANGED <<resume, ahead, batch, parts, outputBroken, poolVars>>
    BY DEF outputVars
  <1>3. cur' = cur \/ cur' = [cur EXCEPT ![r] = next]
    OBVIOUS
  <1>4. pc \in [Threads -> Labels] /\ cur \in [Readers \cup Computes -> Nat]
    BY DEF IInv, TypeOK, ThreadsTypeOK
  <1>5. Others(r)
    BY ONLY <1>1, <1>2, <1>3, <1>4, Kinds DEF Others, SameThread
  <1>6. \A w \in Writers : pc'[w] = pc[w]
    BY ONLY <1>1, <1>4, Kinds
  <1>7. \A to : pc' = [pc EXCEPT ![r] = to] => pc'[r] = to
    BY ONLY <1>4, Kinds
  <1>8. QED
    BY ONLY <1>2, <1>5, <1>6, <1>7

\* The positions next passes are those the thread has from then on: nobody
\* had them.
LEMMA Claimed ==
    ASSUME PlacesInv, NEW t \in Readers \cup Computes, Others(t),
           UNCHANGED <<queue, parts, batch, lease>>,
           Mine(t) = {},
           \A p \in Positions : p >= next' => p >= next,
           \A p \in Positions : p \in Mine(t)' <=> p >= next /\ ~(p >= next'),
           \A p : MyStage(t, p)' = "none"
    PROVE  PlacesInv' /\ Buffered' = Buffered
  <1> DEFINE k == <<"thread", t>>
             S == Mine(t)'
  <1>1. /\ S \in SUBSET Positions
        /\ k \in Places /\ FreePlace \in Places /\ FreePlace # k
    BY DEF Places, FreePlace, Mine
  <1>2. \A j \in Places : j # FreePlace /\ j # k => Untouched(j)
    <2>1. \A j \in Places \ {FreePlace, k} : Untouched(j)
      BY Elsewhere DEF Others
    <2>2. QED
      BY <2>1
  <1>3. TouchedIn(k, S)
    BY OwnPlace
  <1>4. /\ TouchedIn(FreePlace, S)
        /\ \A p \in S : p \in Held(FreePlace) /\ p \notin Held(FreePlace)'
    BY <1>1, HeldOf, HeldAfter, StageOf DEF TouchedIn
  <1>5. /\ \A p \in S : p \in Held(k)'
        /\ \A p : Stage(k, p)' = "none" /\ Owed("none", p) = 0
    BY HeldAfter, StageOf DEF Owed
  <1>6. \A p \in S : lease'[p] = 0
    <2>1. \A p \in S : lease[p] = Owed(Stage(FreePlace, p), p)
      BY <1>1, <1>4 DEF PlacesInv, LeaseDue
    <2>2. QED
      BY <1>5, <2>1, StageOf
  <1> HIDE DEF S, k
  <1>7. /\ PlacesInv'
        /\ Buffered' = (Buffered \ S) \cup {p \in S : InBuffer(k, p)'}
    BY <1>1, <1>2, <1>3, <1>4, <1>5, <1>6, Relocation
  <1>8. \A p \in S : ~InBuffer(k, p)' /\ p \notin Buffered
    <2>1. \A p \in S : \A j \in Places : p \in Held(j) => j = FreePlace
      BY <1>1, <1>4 DEF PlacesInv, PlacedOnce
    <2>2. QED
      BY <1>5, <2>1, StageOf DEF InBuffer, Buffered
  <1>9. QED
    BY <1>7, <1>8

\* A reader claims a position nobody has, or none.
LEMMA ReaderClaimCredit ==
    ASSUME IInv, CInv, NEW r \in Readers, ReaderClaim(r)
    PROVE  PlacesInv' /\ Buffered' = Buffered
  <1> USE DEF ReaderClaim, Goes, Moves, KeepLocals
  <1>1. /\ Others(r) /\ UNCHANGED <<queue, parts, batch, lease>>
        /\ \A to : pc' = [pc EXCEPT ![r] = to] => pc'[r] = to
    BY ReaderLocal DEF Reader, inputVars, budgetVars
  <1>2. PlacesInv /\ next \in Nat
    BY DEF CInv, IInv, TypeOK, CountersTypeOK
  <1>3. Mine(r) = {}
    BY ReaderMine DEF HandLabels
  <1>4. CASE next >= Charts
    <2>1. /\ next' = next + 1
          /\ pc'[r] = "leave"
      BY <1>1, <1>2, <1>4, BudgetAssumption
    <2>2. /\ Mine(r)' = {}
          /\ \A p : MyStage(r, p)' = "none"
      BY <2>1, ReaderMine DEF HandLabels
    <2>3. \A p \in Positions : ~(p >= next) /\ ~(p >= next')
      BY <1>2, <1>4, <2>1, BudgetAssumption DEF Positions
    <2>4. QED
      BY <1>1, <1>2, <1>3, <2>2, <2>3, Claimed
  <1>5. CASE next < Charts
    <2>0. ~(next >= Charts)
      BY <1>2, <1>5, BudgetAssumption
    <2>1. /\ next' = next + 1
          /\ pc'[r] = "reserve"
          /\ cur'[r] = next
      BY <1>1, <2>0 DEF IInv, TypeOK, ThreadsTypeOK
    <2>2. /\ \A p \in Positions : p \in Mine(r)' <=> p = next
          /\ \A p : MyStage(r, p)' = "none"
      BY <1>2, <2>1, ReaderMine, BudgetAssumption DEF HandLabels, Positions
    <2>3. /\ \A p \in Positions : p >= next' => p >= next
          /\ \A p \in Positions : p = next <=> p >= next /\ ~(p >= next')
      BY <1>2, <2>1, BudgetAssumption DEF Positions
    <2>4. QED
      BY <1>1, <1>2, <1>3, <2>2, <2>3, Claimed
  <1>6. QED
    BY <1>2, <1>4, <1>5, BudgetAssumption

\* The item goes into the queue with its lease.
LEMMA ReaderPushCredit ==
    ASSUME IInv, CInv, NEW r \in Readers, ReaderPush(r), PushReserved(cur[r]),
           Goes(r, "push", "loop"), UNCHANGED budgetVars
    PROVE  PlacesInv' /\ Buffered' = Buffered
  <1> USE DEF Goes, Moves, KeepLocals
  <1> DEFINE k == <<"thread", r>>
             S == {cur[r]}
  <1>1. /\ Others(r) /\ UNCHANGED <<parts, batch, lease, next>>
        /\ pc'[r] = "loop" /\ pc[r] = "push"
    BY ReaderLocal DEF Reader, budgetVars, ReaderPush, sharedVars
  <1>2. TypeOK /\ PlacesInv
    BY DEF CInv, IInv
  <1>3. cur[r] \in Positions /\ Mine(r) = {cur[r]} /\ Mine(r)' = {}
    BY <1>1, ReaderHand, ReaderMine DEF HandLabels
  <1>4. queue' = queue \cup {cur[r]}
    <2>1. reserved # 0
      BY <1>1, HolderCounted DEF SlotHolders
    <2>2. QED
      BY <2>1 DEF PushReserved
  <1>5. /\ S \in SUBSET Positions
        /\ k \in Places /\ QueuePlace \in Places /\ QueuePlace # k
    BY <1>3 DEF Places, QueuePlace
  <1>6. \A j \in Places : j # QueuePlace /\ j # k => Untouched(j)
    <2>1. \A j \in Places \ {QueuePlace, k} : Untouched(j)
      BY <1>1, Elsewhere DEF Others
    <2>2. QED
      BY <2>1
  <1>7. TouchedIn(k, S)
    BY <1>3, OwnPlace
  <1>8. TouchedIn(QueuePlace, S) /\ \A p \in S : p \in Held(QueuePlace)'
    BY <1>4, HeldOf, HeldAfter, StageOf DEF TouchedIn
  <1>9. \A p \in S : p \in Held(k) /\ p \notin Held(k)'
    BY <1>3, HeldOf, HeldAfter
  <1>10. /\ \A p \in S : lease'[p] = Owed(Stage(QueuePlace, p)', p)
         /\ \A p \in S : ~InBuffer(QueuePlace, p)' /\ p \notin Buffered
    <2>1. lease[cur[r]] = Owed("read", cur[r]) /\ cur[r] \notin Buffered
      BY <1>1, <1>2, <1>3, MineIs, ReaderMine
    <2>2. QED
      BY <1>1, <2>1, StageOf DEF InBuffer
  <1> HIDE DEF S, k
  <1>11. /\ PlacesInv'
         /\ Buffered' = (Buffered \ S) \cup {p \in S : InBuffer(QueuePlace, p)'}
    <2>1. \A p \in Positions \ S : lease'[p] = lease[p]
      BY <1>1
    <2>2. QED
      BY <1>2, <1>5, <1>6, <1>7, <1>8, <1>9, <1>10, <2>1, Relocation
  <1>12. QED
    BY <1>10, <1>11

\* A reader drops its chart after giving its lease back, or before it had one.
LEMMA ReaderDrops ==
    ASSUME IInv, CInv, NEW r \in Readers, Others(r),
           UNCHANGED <<next, queue, parts, batch>>,
           pc[r] \in HandLabels, pc'[r] \notin HandLabels,
           \/ pc[r] \in {"reserve", "acquire"} /\ UNCHANGED <<used, lease, creditBroken>>
           \/ ReleaseCredit(cur[r], lease[cur[r]])
    PROVE  PlacesInv' /\ Buffered' = Buffered /\ BudgetInv'
  <1>1. TypeOK /\ PlacesInv /\ BudgetInv /\ lease \in [Positions -> Nat]
    BY DEF CInv, IInv, TypeOK, CountersTypeOK
  <1>2. /\ cur[r] \in Positions /\ Mine(r) = {cur[r]} /\ Mine(r)' = {}
        /\ lease[cur[r]] \in Nat
    BY ReaderHand, ReaderMine
  <1>3. lease[cur[r]] = Owed(MyStage(r, cur[r]), cur[r]) /\ cur[r] \notin Buffered
    BY <1>1, <1>2, MineIs, ReaderMine
  <1>4. /\ BudgetInv'
        /\ \A p \in Positions : lease'[p] = IF p = cur[r] THEN 0 ELSE lease[p]
    <2>1. CASE pc[r] \in {"reserve", "acquire"} /\ UNCHANGED <<used, lease, creditBroken>>
      <3>1. lease[cur[r]] = 0
        BY <1>3, <2>1, ReaderMine DEF Owed
      <3>2. QED
        BY <1>1, <2>1, <3>1, BudgetSame
    <2>2. CASE ReleaseCredit(cur[r], lease[cur[r]])
      <3>1. /\ BudgetInv'
            /\ lease' = [lease EXCEPT ![cur[r]] = lease[cur[r]] - lease[cur[r]]]
        BY <1>1, <1>2, <2>2, Release
      <3>2. QED
        BY <1>1, <1>2, <3>1
    <2>3. QED
      BY <2>1, <2>2
  <1>5. PlacesInv' /\ Buffered' = Buffered \ Mine(r)
    BY <1>1, <1>2, <1>4, Dropped
  <1>6. QED
    BY <1>2, <1>3, <1>4, <1>5

\* No step of a reader disturbs the credit.
LEMMA ReaderCredit ==
    ASSUME IInv, CInv, NEW r \in Readers, Reader(r)
    PROVE  CInv'
  <1>1. /\ Others(r) /\ \A w \in Writers : pc'[w] = pc[w]
        /\ UNCHANGED <<parts, batch, outputBroken, poolVars>>
        /\ \A to : pc' = [pc EXCEPT ![r] = to] => pc'[r] = to
    BY ReaderLocal
  <1>2. SequencesInv' /\ StrictInv'
    BY <1>1, OutputSame DEF CInv
  <1>3. Buffered' = Buffered => BuffersInv'
    BY <1>1, BuffersSame DEF CInv
  <1>4. TypeOK /\ PlacesInv /\ BudgetInv /\ ~inputBroken
    BY DEF CInv, IInv
  <1>5. SUFFICES PlacesInv' /\ Buffered' = Buffered /\ BudgetInv' /\ ~inputBroken'
    BY <1>2, <1>3 DEF CInv
  <1> USE DEF Goes, Moves, KeepLocals
  <1>a. CASE ReaderLoop(r)
    <2>1. UNCHANGED <<used, lease, creditBroken, inputBroken, queue, next, cur>>
      BY <1>a DEF ReaderLoop, budgetVars, inputVars, sharedVars
    <2>2. BudgetInv'
      BY <1>4, <2>1, BudgetSame
    <2>3. Mine(r) = {} /\ Mine(r)' = {}
      BY <1>1, <1>a, ReaderMine DEF HandLabels, ReaderLoop
    <2>4. QED
      BY <1>1, <1>4, <2>1, <2>2, <2>3, Still
  <1>6. CASE ReaderClaim(r)
    <2>1. UNCHANGED <<used, lease, creditBroken, inputBroken>>
      BY <1>6 DEF ReaderClaim, budgetVars, inputVars
    <2>2. QED
      BY <1>4, <1>6, <2>1, ReaderClaimCredit, BudgetSame
  <1>7. CASE ReaderReserve(r)
    <2>1. UNCHANGED <<used, lease, creditBroken, inputBroken, queue, next, cur>>
      BY <1>7 DEF ReaderReserve, budgetVars, inputVars, sharedVars,
                  SlotReserved, SlotRefused, SlotAwaited
    <2>2. BudgetInv'
      BY <1>4, <2>1, BudgetSame
    <2>3. pc[r] = "reserve" /\ pc'[r] \in {"acquire", "leave", "reserve"}
      BY <1>1, <1>7 DEF ReaderReserve
    <2>4. CASE pc'[r] = "leave"
      BY <1>1, <1>4, <2>1, <2>3, <2>4, ReaderDrops DEF HandLabels
    <2>5. CASE pc'[r] # "leave"
      <3>1. /\ Mine(r)' = Mine(r)
            /\ \A p \in Mine(r) : MyStage(r, p)' = MyStage(r, p)
        BY <2>1, <2>3, <2>5, ReaderMine DEF HandLabels
      <3>2. QED
        BY <1>1, <1>4, <2>1, <2>2, <3>1, Still
    <2>6. QED
      BY <2>4, <2>5
  <1>8. CASE ReaderAcquire(r)
    <2>1. UNCHANGED <<inputBroken, queue, next, cur>> /\ pc[r] = "acquire"
      BY <1>8 DEF ReaderAcquire, inputVars, sharedVars
    <2>2. /\ cur[r] \in Positions /\ Mine(r) = {cur[r]}
          /\ lease[cur[r]] = 0
      <3>1. cur[r] \in Positions /\ Mine(r) = {cur[r]}
        BY <2>1, ReaderHand DEF HandLabels
      <3>2. lease[cur[r]] = Owed("none", cur[r])
        BY <1>4, <2>1, <3>1, MineIs, ReaderMine
      <3>3. QED
        BY <3>1, <3>2 DEF Owed
    <2>3. CASE Goes(r, "acquire", "read") /\ CreditGranted(r, cur[r])
      <3>1. BudgetInv' /\ lease' = [lease EXCEPT ![cur[r]] = Reservation(cur[r])]
        BY <1>4, <2>2, <2>3, Grant
      <3>2. /\ \A p \in Positions \ {cur[r]} : lease'[p] = lease[p]
            /\ lease'[cur[r]] = Reservation(cur[r])
        BY <1>4, <2>2, <3>1 DEF TypeOK, CountersTypeOK
      <3>3. pc'[r] = "read"
        BY <1>1, <2>3
      <3>4. /\ Mine(r)' = Mine(r)
            /\ MyStage(r, cur[r])' = "read"
        BY <2>1, <3>3, ReaderMine DEF HandLabels
      <3>5. Owed("read", cur[r]) = Reservation(cur[r])
        BY DEF Owed
      <3>6. PlacesInv' /\ Buffered' = Buffered \ {cur[r]}
        BY <1>1, <1>4, <2>1, <2>2, <3>2, <3>4, <3>5, Staged
      <3>7. cur[r] \notin Buffered
        BY <1>4, <2>1, <2>2, MineIs, ReaderMine
      <3>8. QED
        BY <1>4, <2>1, <3>1, <3>6, <3>7
    <2>4. CASE Goes(r, "acquire", "cancel") /\ CreditRefused(r)
      <3>1. UNCHANGED <<used, lease, creditBroken>> /\ pc'[r] = "cancel"
        BY <1>1, <2>4 DEF CreditRefused, budgetVars
      <3>2. QED
        BY <1>1, <1>4, <2>1, <3>1, ReaderDrops DEF HandLabels
    <2>5. CASE Goes(r, "acquire", "acquire") /\ CreditAwaited(r, cur[r])
      <3>1. UNCHANGED <<used, lease, creditBroken>> /\ pc'[r] = "acquire"
        BY <1>1, <2>5 DEF CreditAwaited
      <3>2. /\ Mine(r)' = Mine(r)
            /\ \A p \in Mine(r) : MyStage(r, p)' = MyStage(r, p)
        BY <2>1, <3>1, ReaderMine DEF HandLabels
      <3>3. QED
        BY <1>1, <1>4, <2>1, <3>1, <3>2, Still, BudgetSame
    <2>6. QED
      BY <1>8, <2>3, <2>4, <2>5 DEF ReaderAcquire
  <1>9. CASE ReaderRead(r)
    <2>1. UNCHANGED <<inputBroken, queue, next, cur>> /\ pc[r] = "read"
      BY <1>9 DEF ReaderRead, inputVars, sharedVars
    <2>2. CASE Goes(r, "read", "push") /\ UNCHANGED budgetVars
      <3>1. UNCHANGED <<used, lease, creditBroken>> /\ pc'[r] = "push"
        BY <1>1, <2>2 DEF budgetVars
      <3>2. /\ Mine(r)' = Mine(r)
            /\ \A p \in Mine(r) : MyStage(r, p)' = MyStage(r, p)
        BY <2>1, <3>1, ReaderMine DEF HandLabels
      <3>3. QED
        BY <1>1, <1>4, <2>1, <3>1, <3>2, Still, BudgetSame
    <2>3. CASE Goes(r, "read", "cancel") /\ ReleaseCredit(cur[r], lease[cur[r]])
      <3>1. pc'[r] = "cancel"
        BY <1>1, <2>3
      <3>2. QED
        BY <1>1, <1>4, <2>1, <2>3, <3>1, ReaderDrops DEF HandLabels
    <2>4. QED
      BY <1>9, <2>2, <2>3 DEF ReaderRead
  <1>10. CASE ReaderPush(r)
    <2>1. pc[r] = "push" /\ UNCHANGED <<next, cur>> /\ reserved # 0
      BY <1>10, HolderCounted DEF ReaderPush, sharedVars, SlotHolders
    <2>2. CASE Goes(r, "push", "loop") /\ PushReserved(cur[r]) /\ UNCHANGED budgetVars
      <3>1. UNCHANGED <<used, lease, creditBroken, inputBroken>>
        BY <2>1, <2>2 DEF budgetVars, PushReserved
      <3>2. QED
        BY <1>4, <1>10, <2>2, <3>1, ReaderPushCredit, BudgetSame
    <2>3. CASE /\ Goes(r, "push", "leave") /\ PushRefused
               /\ ReleaseCredit(cur[r], lease[cur[r]])
      <3>1. pc'[r] = "leave" /\ UNCHANGED <<queue, inputBroken>>
        BY <1>1, <2>1, <2>3 DEF PushRefused, GiveBackSlot
      <3>2. QED
        BY <1>1, <1>4, <2>1, <2>3, <3>1, ReaderDrops DEF HandLabels
    <2>4. QED
      BY <1>10, <2>2, <2>3 DEF ReaderPush
  <1>11. CASE ReaderCancel(r) \/ ReaderLeave(r)
    <2>1. /\ pc[r] \in {"cancel", "leave"} /\ pc'[r] \in {"fail", "done"}
          /\ UNCHANGED <<next, queue, lease, used, creditBroken, cur>>
      BY <1>1, <1>11 DEF ReaderCancel, ReaderLeave, CancelReservation, budgetVars,
                         sharedVars, inputVars, FinishInput
    <2>2. UNCHANGED inputBroken
      <3>1. CASE ReaderCancel(r)
        <4>1. reserved # 0
          BY <3>1, HolderCounted DEF SlotHolders, ReaderCancel
        <4>2. QED
          BY <3>1, <4>1 DEF ReaderCancel, CancelReservation, GiveBackSlot
      <3>2. CASE ReaderLeave(r)
        BY <3>2 DEF ReaderLeave, FinishInput, inputVars
      <3>3. QED
        BY <1>11, <3>1, <3>2
    <2>3. Mine(r) = {} /\ Mine(r)' = {}
      BY <2>1, ReaderMine DEF HandLabels
    <2>4. QED
      BY <1>1, <1>4, <2>1, <2>2, <2>3, Still, BudgetSame
  <1>12. QED
    BY <1>a, <1>6, <1>7, <1>8, <1>9, <1>10, <1>11 DEF Reader

-----------------------------------------------------------------------------
(***************************************************************************)
(* Steps that move no chart: fail, the main thread, wakeups.               *)
(***************************************************************************)
TakenLabels == {"try_acquire", "acquire", "read", "process", "kernel",
                "refused", "submit"}
ReadLabels == {"read", "process"}
KernelLabels == {"kernel", "refused"}

LEMMA ComputeMine ==
    ASSUME NEW c \in Computes
    PROVE  /\ Mine(c) = {p \in Positions :
                  \/ /\ \/ pc[c] \in TakenLabels
                        \/ pc[c] \in {"flush", "clear"} /\ resume[c] = "acquire"
                     /\ p = cur[c]
                  \/ InputReaders = 0 /\ Busy(c)
                     /\ cur[c] < p /\ p <= cur[c] + ahead[c]}
           /\ Mine(c)' = {p \in Positions :
                  \/ /\ \/ pc'[c] \in TakenLabels
                        \/ pc'[c] \in {"flush", "clear"} /\ resume'[c] = "acquire"
                     /\ p = cur'[c]
                  \/ InputReaders = 0 /\ Busy(c)'
                     /\ cur'[c] < p /\ p <= cur'[c] + ahead'[c]}
           /\ \A p : MyStage(c, p) =
                  IF p # cur[c] THEN "none"
                  ELSE IF pc[c] \in ReadLabels THEN "read"
                  ELSE IF pc[c] \in KernelLabels THEN "kernel"
                  ELSE IF pc[c] = "submit" THEN "encoded" ELSE "none"
           /\ \A p : MyStage(c, p)' =
                  IF p # cur'[c] THEN "none"
                  ELSE IF pc'[c] \in ReadLabels THEN "read"
                  ELSE IF pc'[c] \in KernelLabels THEN "kernel"
                  ELSE IF pc'[c] = "submit" THEN "encoded" ELSE "none"
  <1>1. c \notin Readers
    BY Kinds
  <1>2. /\ InHand(c) <=> \/ pc[c] \in TakenLabels
                         \/ pc[c] \in {"flush", "clear"} /\ resume[c] = "acquire"
        /\ InHand(c)' <=> \/ pc'[c] \in TakenLabels
                          \/ pc'[c] \in {"flush", "clear"} /\ resume'[c] = "acquire"
    BY <1>1 DEF InHand, TakenLabels
  <1>3. /\ Mine(c) = {p \in Positions : \/ InHand(c) /\ p = cur[c]
                                        \/ InputReaders = 0 /\ Busy(c)
                                           /\ cur[c] < p /\ p <= cur[c] + ahead[c]}
        /\ Mine(c)' = {p \in Positions : \/ InHand(c)' /\ p = cur'[c]
                                         \/ InputReaders = 0 /\ Busy(c)'
                                            /\ cur'[c] < p /\ p <= cur'[c] + ahead'[c]}
    BY DEF Mine
  <1>4. \A p : MyStage(c, p) = IF p # cur[c] THEN "none"
                  ELSE IF pc[c] \in ReadLabels THEN "read"
                  ELSE IF pc[c] \in KernelLabels THEN "kernel"
                  ELSE IF pc[c] = "submit" THEN "encoded" ELSE "none"
    BY <1>2 DEF MyStage, HandStage, TakenLabels, ReadLabels, KernelLabels
  <1>5. \A p : MyStage(c, p)' = IF p # cur'[c] THEN "none"
                  ELSE IF pc'[c] \in ReadLabels THEN "read"
                  ELSE IF pc'[c] \in KernelLabels THEN "kernel"
                  ELSE IF pc'[c] = "submit" THEN "encoded" ELSE "none"
    BY <1>2 DEF MyStage, HandStage, TakenLabels, ReadLabels, KernelLabels
  <1>6. QED
    BY <1>2, <1>3, <1>4, <1>5

\* A thread in fail has dropped what it had.
LEMMA FailCredit ==
    ASSUME IInv, CInv, NEW t \in Readers \cup Computes \cup Writers, Fail(t)
    PROVE  CInv'
  <1>1. TypeOK /\ PlacesInv /\ BudgetInv /\ ~inputBroken
    BY DEF CInv, IInv
  <1>2. UNCHANGED <<cur, ahead, batch, next, used, lease, creditBroken, poolVars,
                    queue, inputBroken, parts, outputBroken>>
    BY DEF Fail, FailFirst, FailAgain, FailStops, FailAbortsWorkers, StopCredit,
           StopInput, MarkStopped, NotifyWriters, Goes, Moves, KeepLocals,
           budgetVars, inputVars, outputVars, sharedVars
  <1>3. PICK to \in FailLabels \cup {"leave", "done", "clear"} :
            /\ pc[t] \in FailLabels
            /\ pc' = [pc EXCEPT ![t] = to]
            /\ IF to \in FailLabels THEN UNCHANGED resume ELSE Unwound(t)
            /\ to = "clear" => t \in Computes
    <2>1. AfterFail(t) = IF t \in Computes THEN "clear"
                         ELSE IF t \in Readers THEN "leave" ELSE "done"
      BY Kinds DEF AfterFail
    <2>2. QED
      BY <2>1 DEF Fail, FailFirst, FailAgain, FailStops, FailAbortsWorkers,
                  FailLabels, Goes, Moves, KeepLocals
  <1>4. /\ \A x \in Threads : pc'[x] = IF x = t THEN to ELSE pc[x]
        /\ \A x \in Computes \cup Writers : x # t => resume'[x] = resume[x]
        /\ to = "clear" => resume'[t] = "done"
    BY <1>1, <1>3 DEF TypeOK, ThreadsTypeOK, Unwound, FailLabels
  <1>5. Others(t)
    BY <1>2, <1>4, Kinds DEF Others, SameThread
  <1>6. SequencesInv' /\ StrictInv'
    BY <1>2, <1>3, <1>4, Kinds
       DEF CInv, SequencesInv, StrictInv, NoRepeat, FailLabels
  <1>7. PlacesInv' /\ Buffered' = Buffered
    <2>1. CASE t \in Readers
      <3>1. Mine(t) = {} /\ Mine(t)' = {}
        BY <1>3, <1>4, <2>1, ReaderMine, Kinds DEF HandLabels, FailLabels
      <3>2. QED
        BY <1>1, <1>2, <1>5, <2>1, <3>1, Still
    <2>2. CASE t \in Computes
      <3>1. ~Busy(t) /\ ~Busy(t)'
        BY <1>3, <1>4, <2>2, Kinds DEF Busy, FailLabels
      <3>2. Mine(t) = {} /\ Mine(t)' = {}
        BY <1>3, <1>4, <2>2, <3>1, ComputeMine, Kinds DEF TakenLabels, FailLabels
      <3>3. QED
        BY <1>1, <1>2, <1>5, <2>2, <3>2, Still
    <2>3. CASE t \in Writers
      <3>1. \A x \in Readers \cup Computes : SameThread(x)
        BY <1>5, <2>3, Kinds DEF Others
      <3>2. \A k \in Places \ {} : Untouched(k)
        BY <1>2, <3>1, Elsewhere
      <3>3. QED
        BY <1>1, <1>2, <3>2, NothingMoves
    <2>4. QED
      BY <2>1, <2>2, <2>3
  <1>8. QED
    BY <1>1, <1>2, <1>6, <1>7, BudgetSame, BuffersSame DEF CInv

\* A step that leaves readers, compute threads and io threads where they are,
\* and their charts.
LEMMA IdleCredit ==
    ASSUME CInv, UNCHANGED <<next, queue, parts, batch, used, lease,
                             creditBroken, poolVars, inputBroken, outputBroken,
                             resume, cur, ahead>>,
           \A x \in Readers \cup Computes \cup Writers : pc'[x] = pc[x]
    PROVE  CInv'
  <1>1. \A k \in Places \ {} : Untouched(k)
    BY Elsewhere DEF SameThread
  <1>2. PlacesInv' /\ Buffered' = Buffered
    BY <1>1, NothingMoves DEF CInv
  <1>3. SequencesInv' /\ StrictInv'
    BY OutputSame DEF CInv
  <1>4. QED
    BY <1>2, <1>3, BudgetSame, BuffersSame DEF CInv

LEMMA MainCredit ==
    ASSUME IInv, CInv, MainStep
    PROVE  CInv'
  <1>1. /\ UNCHANGED <<used, lease, creditBroken, poolVars, queue, inputBroken,
                       parts, outputBroken, sharedVars>>
        /\ \E to : pc' = [pc EXCEPT ![Main] = to]
        /\ KeepLocals
    <2> USE DEF Goes, Moves, budgetVars, inputVars, outputVars, poolVars, sharedVars
    <2>1. CASE JoinComputes
      BY <2>1 DEF JoinComputes
    <2>2. CASE ShutDown
      BY <2>2 DEF ShutDown, MarkFinished, NotifyWriters, StopInput, StopCredit
    <2>3. CASE JoinRest
      BY <2>3 DEF JoinRest
    <2>4. QED
      BY <2>1, <2>2, <2>3 DEF MainStep
  <1>2. \A x \in Readers \cup Computes \cup Writers : pc'[x] = pc[x]
    BY <1>1, Kinds DEF IInv, TypeOK, ThreadsTypeOK
  <1>3. QED
    BY <1>1, <1>2, IdleCredit DEF KeepLocals, sharedVars

LEMMA WakeupCredit ==
    ASSUME CInv, \/ \E t \in Threads : SpuriousWakeup(t)
                 \/ UNCHANGED vars
    PROVE  CInv'
  <1>1. UNCHANGED <<used, creditBroken, lease, poolVars, queue, inputBroken,
                    parts, outputBroken, sharedVars, threadVars>>
    BY DEF SpuriousWakeup, vars, budgetVars, inputVars, outputVars
  <1>2. QED
    BY <1>1, IdleCredit DEF sharedVars, threadVars

-----------------------------------------------------------------------------
(***************************************************************************)
(* Compute threads.                                                        *)
(***************************************************************************)
\* A step of a compute thread leaves the other threads alone.
LEMMA ComputeOthers ==
    ASSUME IInv, NEW c \in Computes, Compute(c)
    PROVE  /\ Others(c) /\ \A w \in Writers : pc'[w] = pc[w]
           /\ \A to : pc' = [pc EXCEPT ![c] = to] => pc'[c] = to
           /\ UNCHANGED outputBroken
           /\ IoWorkers > 0 \/ UNCHANGED parts
  <1> USE DEF Compute, ComputeLoop, DirectClaim, DirectTryAcquire, DirectAcquire, DirectRead,
              DirectNext, OrderedClaim, OrderedTry, OrderedPop, OrderedNext,
              Process, KernelReturns, KernelThrows, SubmitQueued, SubmitCounted,
              SubmitInline, Goes, Moves, Leaving
  <1>1. SameReaders /\ OtherComputes(c)
    BY ComputeLocal
  <1>2. Others(c)
    BY <1>1, Kinds DEF Others, SameThread, SameReaders, OtherComputes
  <1>3. \E to : pc' = [pc EXCEPT ![c] = to]
    OBVIOUS
  <1>4. pc \in [Threads -> Labels]
    BY DEF IInv, TypeOK, ThreadsTypeOK
  <1>5. /\ \A w \in Writers : pc'[w] = pc[w]
        /\ \A to : pc' = [pc EXCEPT ![c] = to] => pc'[c] = to
    BY ONLY <1>3, <1>4, Kinds
  <1>6. UNCHANGED outputBroken /\ (IoWorkers > 0 \/ UNCHANGED parts)
    BY DEF outputVars, PushOutput, OutputRefused, CountPushed
  <1>7. QED
    BY <1>2, <1>5, <1>6

\* The chart a compute thread has taken, and the rest of its batch.
LEMMA ComputeHand ==
    ASSUME IInv, CInv, NEW c \in Computes, pc[c] \in TakenLabels
    PROVE  /\ cur[c] \in Mine(c) /\ cur[c] \in Positions
           /\ lease[cur[c]] \in Nat
           /\ lease[cur[c]] = Owed(MyStage(c, cur[c]), cur[c])
           /\ cur[c] \in Buffered <=> pc[c] \in KernelLabels \cup {"submit"}
           /\ \A p \in Mine(c) \ {cur[c]} : lease[p] = 0 /\ p \notin Buffered
  <1>1. TypeOK /\ HandsOK /\ PlacesInv
    BY DEF CInv, IInv
  <1>2. cur[c] \in Positions /\ lease[cur[c]] \in Nat
    BY <1>1, HandInRange DEF TakenLabels
  <1>3. cur[c] \in Mine(c)
    BY <1>2, ComputeMine
  <1>4. \A p \in Mine(c) : /\ lease[p] = Owed(MyStage(c, p), p)
                           /\ p \in Buffered <=> MyStage(c, p) \in {"kernel", "encoded"}
    BY <1>1, MineIs
  <1>5. MyStage(c, cur[c]) \in {"kernel", "encoded"}
            <=> pc[c] \in KernelLabels \cup {"submit"}
    BY ComputeMine DEF ReadLabels, KernelLabels
  <1>6. \A p \in Mine(c) \ {cur[c]} : MyStage(c, p) = "none"
    BY ComputeMine
  <1>7. Owed("none", cur[c]) = 0 /\ \A p : Owed("none", p) = 0
    BY DEF Owed
  <1>8. QED
    BY <1>2, <1>3, <1>4, <1>5, <1>6, <1>7

\* The chart in hand is granted the credit to be read.
LEMMA ComputeGrant ==
    ASSUME IInv, CInv, NEW c \in Computes, Others(c),
           UNCHANGED <<next, queue, parts, batch, cur, ahead, resume>>,
           pc[c] \in {"try_acquire", "acquire"}, pc'[c] = "read",
           CreditGranted(c, cur[c])
    PROVE  PlacesInv' /\ Buffered' = Buffered /\ BudgetInv'
  <1>1. TypeOK /\ PlacesInv /\ BudgetInv /\ lease \in [Positions -> Nat]
    BY DEF CInv, IInv, TypeOK, CountersTypeOK
  <1>2. /\ cur[c] \in Mine(c) /\ cur[c] \in Positions /\ cur[c] \notin Buffered
        /\ lease[cur[c]] = Owed(MyStage(c, cur[c]), cur[c])
    BY ComputeHand DEF TakenLabels, KernelLabels
  <1>3. lease[cur[c]] = 0
    BY <1>2, ComputeMine DEF Owed, ReadLabels, KernelLabels
  <1>4. BudgetInv' /\ lease' = [lease EXCEPT ![cur[c]] = Reservation(cur[c])]
    BY <1>1, <1>2, <1>3, Grant
  <1>5. /\ \A p \in Positions \ {cur[c]} : lease'[p] = lease[p]
        /\ lease'[cur[c]] = Owed("read", cur[c])
    BY <1>1, <1>2, <1>4 DEF Owed
  <1>6. Busy(c) /\ Busy(c)'
    BY DEF Busy
  <1>7. /\ Mine(c)' = Mine(c)
        /\ MyStage(c, cur[c])' = "read"
        /\ \A p \in Mine(c) \ {cur[c]} : MyStage(c, p)' = MyStage(c, p)
    BY <1>6, ComputeMine DEF TakenLabels, ReadLabels
  <1>8. PlacesInv' /\ Buffered' = Buffered \ {cur[c]}
    BY <1>1, <1>2, <1>5, <1>7, Staged
  <1>9. QED
    BY <1>2, <1>4, <1>8

\* A thread that fails drops its chart, with its lease given back, and the
\* rest of its batch.
LEMMA ComputeDrops ==
    ASSUME IInv, CInv, NEW c \in Computes, Others(c),
           UNCHANGED <<next, queue, parts, batch>>,
           pc[c] \in TakenLabels, pc'[c] = "fail",
           \/ /\ pc[c] \in {"try_acquire", "acquire"}
              /\ UNCHANGED <<used, lease, creditBroken>>
           \/ ReleaseCredit(cur[c], lease[cur[c]])
    PROVE  PlacesInv' /\ BudgetInv' /\ Buffered' = Buffered \ {cur[c]}
  <1>1. TypeOK /\ PlacesInv /\ BudgetInv /\ lease \in [Positions -> Nat]
    BY DEF CInv, IInv, TypeOK, CountersTypeOK
  <1>2. /\ cur[c] \in Mine(c) /\ cur[c] \in Positions /\ lease[cur[c]] \in Nat
        /\ lease[cur[c]] = Owed(MyStage(c, cur[c]), cur[c])
        /\ \A p \in Mine(c) \ {cur[c]} : lease[p] = 0 /\ p \notin Buffered
    BY ComputeHand
  <1>3. Mine(c)' = {}
    <2>1. ~Busy(c)'
      BY DEF Busy
    <2>2. QED
      BY <2>1, ComputeMine DEF TakenLabels
  <1>4. /\ BudgetInv'
        /\ \A p \in Positions : lease'[p] = IF p = cur[c] THEN 0 ELSE lease[p]
    <2>1. CASE /\ pc[c] \in {"try_acquire", "acquire"}
               /\ UNCHANGED <<used, lease, creditBroken>>
      <3>1. lease[cur[c]] = 0
        BY <1>2, <2>1, ComputeMine DEF Owed, ReadLabels, KernelLabels
      <3>2. QED
        BY <1>1, <2>1, <3>1, BudgetSame
    <2>2. CASE ReleaseCredit(cur[c], lease[cur[c]])
      <3>1. /\ BudgetInv'
            /\ lease' = [lease EXCEPT ![cur[c]] = lease[cur[c]] - lease[cur[c]]]
        BY <1>1, <1>2, <2>2, Release
      <3>2. QED
        BY <1>1, <1>2, <3>1
    <2>3. QED
      BY <2>1, <2>2
  <1>5. \A p \in Positions : lease'[p] = IF p \in Mine(c) THEN 0 ELSE lease[p]
    BY <1>2, <1>4
  <1>6. PlacesInv' /\ Buffered' = Buffered \ Mine(c)
    BY <1>1, <1>3, <1>5, Dropped
  <1>7. QED
    BY <1>2, <1>4, <1>6

\* What is left to show of a step that leaves the output queue and the batches.
LEMMA ComputeRest ==
    ASSUME IInv, CInv, NEW c \in Computes, Compute(c), UNCHANGED <<parts, batch>>,
           PlacesInv', BudgetInv', BuffersInv', ~inputBroken'
    PROVE  CInv'
  <1>1. UNCHANGED outputBroken /\ \A w \in Writers : pc'[w] = pc[w]
    BY ComputeOthers
  <1>2. SequencesInv' /\ StrictInv'
    BY <1>1, OutputSame DEF CInv
  <1>3. QED
    BY <1>2 DEF CInv

\* ... when no chart moves either.
LEMMA ComputeStill ==
    ASSUME IInv, CInv, NEW c \in Computes, Compute(c),
           UNCHANGED <<next, queue, parts, batch, lease, used, creditBroken,
                       poolVars, inputBroken>>,
           Mine(c)' = Mine(c),
           \A p \in Mine(c) : MyStage(c, p)' = MyStage(c, p)
    PROVE  CInv'
  <1>1. Others(c) /\ PlacesInv /\ BudgetInv /\ BuffersInv
    BY ComputeOthers DEF CInv
  <1>2. PlacesInv' /\ Buffered' = Buffered
    BY <1>1, Still
  <1>3. BudgetInv' /\ BuffersInv'
    BY <1>1, <1>2, BudgetSame, BuffersSame
  <1>4. QED
    BY <1>2, <1>3, ComputeRest DEF CInv

\* The charts of a compute batch are claimed from next together.
LEMMA DirectClaimCredit ==
    ASSUME IInv, CInv, NEW c \in Computes, DirectClaim(c)
    PROVE  CInv'
  <1> USE DEF DirectClaim, Moves, Leaving
  <1>1. /\ Compute(c) /\ Others(c)
        /\ \A to : pc' = [pc EXCEPT ![c] = to] => pc'[c] = to
    BY ComputeOthers DEF Compute
  <1>2. /\ PlacesInv /\ BudgetInv /\ BuffersInv /\ next \in Nat
        /\ cur \in [Readers \cup Computes -> Nat] /\ ahead \in [Computes -> Nat]
        /\ resume \in [Computes \cup Writers -> Resumptions]
    BY DEF CInv, IInv, TypeOK, CountersTypeOK, ThreadsTypeOK
  <1>3. UNCHANGED <<queue, parts, batch, lease, used, creditBroken, poolVars,
                    inputBroken>>
    BY DEF budgetVars, inputVars, outputVars
  <1>4. pc[c] = "claim" /\ InputReaders = 0
    OBVIOUS
  <1>5. Mine(c) = {}
    BY <1>4, ComputeMine DEF TakenLabels, Busy
  <1>6. ASSUME Leaving(c, "claim") PROVE Mine(c)' = {}
    <2>1. pc'[c] \in {"flush", "done"} /\ resume'[c] = "done"
      BY <1>1, <1>2, <1>6
    <2>2. ~Busy(c)'
      BY <2>1 DEF Busy
    <2>3. QED
      BY <2>1, <2>2, ComputeMine DEF TakenLabels
  <1>8. CASE next >= Charts
    <2>1. /\ next' = next + ComputeBatch
          /\ Leaving(c, "claim")
      BY <1>2, <1>8, BudgetAssumption
    <2>2. Mine(c)' = {}
      BY <1>6, <2>1
    <2>3. /\ \A p \in Positions : ~(p >= next) /\ ~(p >= next')
      BY <1>2, <1>8, <2>1, BudgetAssumption, PipelineAssumption DEF Positions
    <2>4. \A p : MyStage(c, p)' = "none"
      <3>1. pc'[c] \in {"flush", "done"}
        BY <1>1, <2>1
      <3>2. QED
        BY <3>1, ComputeMine DEF ReadLabels, KernelLabels
    <2>5. PlacesInv' /\ Buffered' = Buffered
      BY <1>1, <1>2, <1>3, <1>5, <2>2, <2>3, <2>4, Claimed
    <2>6. QED
      BY <1>1, <1>2, <1>3, <2>5, BudgetSame, BuffersSame, ComputeRest DEF CInv
  <1>9. CASE next < Charts
    <2> DEFINE n == (IF next + ComputeBatch < Charts
                     THEN ComputeBatch ELSE Charts - next) - 1
    <2>0. ~(next >= Charts)
      BY <1>2, <1>9, BudgetAssumption
    <2>1. /\ next' = next + ComputeBatch
          /\ pc'[c] \in {"try_acquire", "acquire"}
          /\ cur'[c] = next /\ ahead'[c] = n
      BY <1>1, <1>2, <2>0
    <2>2. Busy(c)'
      BY <2>1 DEF Busy
    <2>3. \A p \in Positions : p \in Mine(c)' <=> p = next \/ (next < p /\ p <= next + n)
      BY <1>4, <2>1, <2>2, ComputeMine DEF TakenLabels
    <2>4. /\ \A p \in Positions : p >= next' => p >= next
          /\ \A p \in Positions : (p = next \/ (next < p /\ p <= next + n))
                                      <=> p >= next /\ ~(p >= next')
      <3>1. n \in Int /\ n >= 0
        BY <1>2, <1>9, BudgetAssumption, PipelineAssumption
      <3>2. CASE next + ComputeBatch < Charts
        BY <1>2, <2>1, <3>2, BudgetAssumption, PipelineAssumption DEF Positions
      <3>3. CASE ~(next + ComputeBatch < Charts)
        <4>1. next + n = Charts - 1
          BY <1>2, <3>3, BudgetAssumption, PipelineAssumption
        <4>2. QED
          BY <1>2, <2>1, <3>3, <4>1, BudgetAssumption, PipelineAssumption DEF Positions
      <3>4. QED
        BY <3>2, <3>3
    <2> HIDE DEF n
    <2>5. \A p : MyStage(c, p)' = "none"
      BY <2>1, ComputeMine DEF ReadLabels, KernelLabels
    <2>6. PlacesInv' /\ Buffered' = Buffered
      BY <1>1, <1>2, <1>3, <1>5, <2>3, <2>4, <2>5, Claimed
    <2>7. QED
      BY <1>1, <1>2, <1>3, <2>6, BudgetSame, BuffersSame, ComputeRest DEF CInv
  <1>10. QED
    BY <1>2, <1>8, <1>9, BudgetAssumption

\* The chart in hand is granted credit, waits for it, or is dropped.
LEMMA DirectCredit ==
    ASSUME IInv, CInv, NEW c \in Computes,
           DirectTryAcquire(c) \/ DirectAcquire(c) \/ DirectRead(c)
    PROVE  CInv'
  <1> USE DEF Goes, Moves, KeepLocals
  <1>1. /\ Compute(c) /\ Others(c)
        /\ \A to : pc' = [pc EXCEPT ![c] = to] => pc'[c] = to
    BY ComputeOthers DEF Compute
  <1>2. PlacesInv /\ BudgetInv /\ BuffersInv /\ ~inputBroken
    BY DEF CInv
  <1>3. UNCHANGED <<next, queue, parts, batch, poolVars, inputBroken, cur, ahead>>
    BY DEF DirectTryAcquire, DirectAcquire, DirectRead, inputVars, outputVars,
           sharedVars
  <1>4. pc[c] \in {"try_acquire", "acquire", "read"}
    BY DEF DirectTryAcquire, DirectAcquire, DirectRead
  <1>5. cur[c] \notin Buffered
    BY <1>4, ComputeHand DEF TakenLabels, KernelLabels
  <1>6. ASSUME PlacesInv', BudgetInv', Buffered' = Buffered PROVE CInv'
    BY <1>1, <1>2, <1>3, <1>6, BuffersSame, ComputeRest
  <1>7. CASE pc'[c] = "read" /\ CreditGranted(c, cur[c]) /\ UNCHANGED resume
    <2>1. pc[c] \in {"try_acquire", "acquire"}
      BY <1>1, <1>7, <1>4 DEF DirectTryAcquire, DirectAcquire, DirectRead
    <2>2. QED
      BY <1>1, <1>3, <1>6, <1>7, <2>1, ComputeGrant
  <1>8. CASE /\ pc'[c] = "fail"
             /\ \/ /\ pc[c] \in {"try_acquire", "acquire"}
                   /\ UNCHANGED <<used, lease, creditBroken>>
                \/ ReleaseCredit(cur[c], lease[cur[c]])
    <2>1. PlacesInv' /\ BudgetInv' /\ Buffered' = Buffered \ {cur[c]}
      BY <1>1, <1>3, <1>4, <1>8, ComputeDrops DEF TakenLabels
    <2>2. QED
      BY <1>5, <1>6, <2>1
  <1>9. CASE /\ UNCHANGED <<used, lease, creditBroken>>
             /\ \/ pc[c] = "try_acquire" /\ pc'[c] = "flush" /\ resume'[c] = "acquire"
                \/ pc[c] = "acquire" /\ pc'[c] = "acquire"
                \/ pc[c] = "read" /\ pc'[c] = "process"
    <2>1. Busy(c) /\ Busy(c)'
      BY <1>9 DEF Busy
    <2>2. /\ Mine(c)' = Mine(c)
          /\ \A p \in Mine(c) : MyStage(c, p)' = MyStage(c, p)
      BY <1>3, <1>9, <2>1, ComputeMine DEF TakenLabels, ReadLabels, KernelLabels
    <2>3. QED
      BY <1>1, <1>3, <1>9, <2>2, ComputeStill
  <1>10. CASE DirectTryAcquire(c)
    <2>1. CASE Goes(c, "try_acquire", "read") /\ CreditGranted(c, cur[c])
      BY <1>1, <1>7, <2>1
    <2>2. CASE ~(Goes(c, "try_acquire", "read") /\ CreditGranted(c, cur[c]))
      <3>1. /\ pc[c] = "try_acquire" /\ pc'[c] = "flush"
            /\ resume' = [resume EXCEPT ![c] = "acquire"]
            /\ UNCHANGED <<used, lease, creditBroken>>
        BY <1>1, <1>10, <2>2 DEF DirectTryAcquire, budgetVars
      <3>2. resume'[c] = "acquire"
        BY <3>1 DEF IInv, TypeOK, ThreadsTypeOK
      <3>3. QED
        BY <1>9, <3>1, <3>2
    <2>3. QED
      BY <2>1, <2>2
  <1>11. CASE DirectAcquire(c)
    <2>1. CASE Goes(c, "acquire", "read") /\ CreditGranted(c, cur[c])
      BY <1>1, <1>7, <2>1
    <2>2. CASE Goes(c, "acquire", "fail") /\ CreditRefused(c)
      BY <1>1, <1>8, <2>2 DEF CreditRefused, budgetVars
    <2>3. CASE Goes(c, "acquire", "acquire") /\ CreditAwaited(c, cur[c])
      BY <1>1, <1>9, <2>3 DEF CreditAwaited
    <2>4. QED
      BY <1>11, <2>1, <2>2, <2>3 DEF DirectAcquire
  <1>12. CASE DirectRead(c)
    <2>1. CASE Goes(c, "read", "process") /\ UNCHANGED budgetVars
      BY <1>1, <1>9, <2>1 DEF budgetVars
    <2>2. CASE Goes(c, "read", "fail") /\ ReleaseCredit(cur[c], lease[cur[c]])
      BY <1>1, <1>8, <2>2
    <2>3. QED
      BY <1>12, <2>1, <2>2 DEF DirectRead
  <1>13. QED
    BY <1>10, <1>11, <1>12

\* Steps between two charts.
LEMMA BetweenCredit ==
    ASSUME IInv, CInv, NEW c \in Computes,
           \/ ComputeLoop(c) \/ DirectNext(c) \/ OrderedClaim(c)
           \/ OrderedNext(c) \/ SubmitCounted(c)
    PROVE  CInv'
  <1> USE DEF Goes, Moves, KeepLocals
  <1>1. /\ Compute(c)
        /\ \A to : pc' = [pc EXCEPT ![c] = to] => pc'[c] = to
    BY ComputeOthers DEF Compute
  <1>2. /\ cur \in [Readers \cup Computes -> Nat] /\ ahead \in [Computes -> Nat]
        /\ resume \in [Computes \cup Writers -> Resumptions]
        /\ cur[c] \in Nat /\ ahead[c] \in Nat
    BY DEF IInv, TypeOK, ThreadsTypeOK
  <1>3. /\ UNCHANGED <<next, queue, parts, batch, lease, used, creditBroken,
                       poolVars, inputBroken>>
    BY DEF ComputeLoop, DirectNext, OrderedClaim, OrderedNext, SubmitCounted,
           CountPushed,
           budgetVars, inputVars, outputVars, sharedVars
  <1>4. ASSUME Mine(c)' = Mine(c),
               \A p \in Mine(c) : MyStage(c, p)' = MyStage(c, p)
        PROVE  CInv'
    BY <1>1, <1>3, <1>4, ComputeStill
  <1>a. CASE ComputeLoop(c)
    <2>1. /\ pc[c] = "loop" /\ UNCHANGED <<cur, ahead>>
          /\ \/ pc'[c] = "claim"
             \/ pc'[c] \in {"flush", "done"} /\ resume'[c] = "done"
      BY <1>1, <1>2, <1>a DEF ComputeLoop, Leaving
    <2>2. ~Busy(c) /\ ~Busy(c)'
      BY <2>1 DEF Busy
    <2>3. Mine(c) = {} /\ Mine(c)' = {}
      BY <2>1, <2>2, ComputeMine DEF TakenLabels
    <2>4. QED
      BY <1>4, <2>3
  <1>5. CASE DirectNext(c)
    <2>1. pc[c] = "next" /\ Busy(c) /\ InputReaders = 0
      BY <1>5 DEF DirectNext, Busy
    <2>2. \A p : MyStage(c, p) = "none"
      BY <2>1, ComputeMine DEF ReadLabels, KernelLabels
    <2>3. CASE ahead[c] > 0
      <3>1. /\ pc'[c] \in {"try_acquire", "acquire"}
            /\ cur'[c] = cur[c] + 1 /\ ahead'[c] = ahead[c] - 1
        <4>1. ~(ahead[c] = 0)
          BY <1>2, <2>3
        <4>2. /\ pc'[c] \in {"try_acquire", "acquire"}
              /\ cur' = [cur EXCEPT ![c] = @ + 1]
              /\ ahead' = [ahead EXCEPT ![c] = @ - 1]
          BY <1>1, <1>5, <4>1 DEF DirectNext
        <4>3. QED
          BY <1>2, <4>2
      <3>2. Busy(c)'
        BY <3>1 DEF Busy
      <3>3. \A p : MyStage(c, p)' = "none"
        BY <3>1, ComputeMine DEF ReadLabels, KernelLabels
      <3>4. \A p \in Positions : p \in Mine(c) <=> cur[c] < p /\ p <= cur[c] + ahead[c]
        BY <2>1, ComputeMine DEF TakenLabels
      <3>5. \A p \in Positions : p \in Mine(c)' <=>
                p = cur'[c] \/ (cur'[c] < p /\ p <= cur'[c] + ahead'[c])
        BY <2>1, <3>1, <3>2, ComputeMine DEF TakenLabels
      <3>6. \A p \in Positions : p \in Mine(c) <=> p \in Mine(c)'
        <4>1. \A p \in Positions :
                  (p = cur'[c] \/ (cur'[c] < p /\ p <= cur'[c] + ahead'[c]))
                      <=> cur[c] < p /\ p <= cur[c] + ahead[c]
          BY ONLY <1>2, <2>3, <3>1, BudgetAssumption DEF Positions
        <4>2. QED
          BY <3>4, <3>5, <4>1
      <3>7. Mine(c)' = Mine(c)
        BY <3>6 DEF Mine
      <3>8. QED
        BY <1>4, <2>2, <3>3, <3>7
    <2>4. CASE ahead[c] = 0
      <3>1. pc'[c] = EndOfBatch /\ resume'[c] = "loop"
        <4>1. ~(ahead[c] > 0)
          BY <2>4
        <4>2. pc'[c] = EndOfBatch /\ resume' = [resume EXCEPT ![c] = "loop"]
          BY <1>1, <1>5, <4>1 DEF DirectNext
        <4>3. QED
          BY <1>2, <4>2
      <3>2. ~Busy(c)'
        BY <3>1 DEF Busy, EndOfBatch
      <3>3. Mine(c)' = {}
        BY <3>1, <3>2, ComputeMine DEF TakenLabels, EndOfBatch
      <3>4. \A p \in Positions : ~(cur[c] < p /\ p <= cur[c] + ahead[c])
        BY <1>2, <2>4, BudgetAssumption DEF Positions
      <3>5. Mine(c) = {}
        BY <2>1, <3>4, ComputeMine DEF TakenLabels
      <3>6. QED
        BY <1>4, <3>3, <3>5
    <2>5. QED
      BY <1>5, <2>3, <2>4 DEF DirectNext
  <1>6. CASE OrderedClaim(c) \/ OrderedNext(c)
    <2>1. /\ InputReaders # 0
          /\ pc[c] \in {"claim", "next"}
      <3>1. OrderedClaim(c) => InputReaders > 0 /\ pc[c] = "claim"
        BY DEF OrderedClaim, Leaving
      <3>2. OrderedNext(c) => InputReaders > 0 /\ pc[c] = "next"
        BY DEF OrderedNext
      <3>3. QED
        BY <1>6, <3>1, <3>2, PipelineAssumption
    <2>2. pc'[c] \in {"try", "loop"}
      BY <1>1, <1>2, <1>6 DEF OrderedClaim, OrderedNext
    <2>3. Mine(c) = {} /\ Mine(c)' = {}
      BY <2>1, <2>2, ComputeMine DEF TakenLabels
    <2>4. QED
      BY <1>4, <2>3
  <1>7. CASE SubmitCounted(c)
    <2>1. /\ pc[c] = "count" /\ pc'[c] = "next"
          /\ UNCHANGED <<cur, ahead, resume>>
      BY <1>1, <1>7 DEF SubmitCounted
    <2>2. Busy(c) /\ Busy(c)'
      BY <2>1 DEF Busy
    <2>3. /\ Mine(c)' = Mine(c)
          /\ \A p \in Mine(c) : MyStage(c, p)' = MyStage(c, p)
      BY <2>1, <2>2, ComputeMine DEF TakenLabels, ReadLabels, KernelLabels
    <2>4. QED
      BY <1>4, <2>3
  <1>8. QED
    BY <1>a, <1>5, <1>6, <1>7

\* A chart goes from the input queue to the thread that waited for it.
LEMMA TakenCredit ==
    ASSUME IInv, CInv, NEW c \in Computes, Others(c),
           UNCHANGED <<next, parts, batch, lease, cur, ahead>>,
           InputReaders # 0, pc[c] \in {"try", "pop"}, pc'[c] = "process",
           cur[c] \in queue, queue' = queue \ {cur[c]}
    PROVE  PlacesInv' /\ Buffered' = Buffered
  <1> DEFINE k == <<"thread", c>>
             S == {cur[c]}
  <1>1. TypeOK /\ PlacesInv /\ cur[c] \in Positions
    BY DEF CInv, IInv, TypeOK, PlacesTypeOK
  <1>2. /\ Mine(c) = {} /\ Mine(c)' = {cur[c]}
        /\ MyStage(c, cur[c])' = "read"
    BY <1>1, ComputeMine DEF TakenLabels, ReadLabels
  <1>3. /\ S \in SUBSET Positions
        /\ k \in Places /\ QueuePlace \in Places /\ QueuePlace # k
    BY <1>1 DEF Places, QueuePlace
  <1>4. \A j \in Places : j # QueuePlace /\ j # k => Untouched(j)
    <2>1. \A j \in Places \ {QueuePlace, k} : Untouched(j)
      BY Elsewhere DEF Others
    <2>2. QED
      BY <2>1
  <1>5. TouchedIn(k, S)
    BY <1>2, OwnPlace
  <1>6. /\ TouchedIn(QueuePlace, S)
        /\ \A p \in S : p \in Held(QueuePlace) /\ p \notin Held(QueuePlace)'
    BY HeldOf, HeldAfter, StageOf DEF TouchedIn
  <1>7. \A p \in S : p \in Held(k)' /\ Stage(k, p)' = "read"
    BY <1>2, HeldAfter, StageOf
  <1>8. \A p \in S : lease'[p] = Owed("read", p)
    <2>1. lease[cur[c]] = Owed(Stage(QueuePlace, cur[c]), cur[c])
      BY <1>1, <1>3, <1>6 DEF PlacesInv, LeaseDue
    <2>2. QED
      BY <2>1, StageOf
  <1> HIDE DEF S, k
  <1>9. /\ PlacesInv'
        /\ Buffered' = (Buffered \ S) \cup {p \in S : InBuffer(k, p)'}
    <2>1. \A p \in Positions \ S : lease'[p] = lease[p]
      OBVIOUS
    <2>2. QED
      BY <1>1, <1>3, <1>4, <1>5, <1>6, <1>7, <1>8, <2>1, Relocation
  <1>10. \A p \in S : ~InBuffer(k, p)' /\ p \notin Buffered
    <2>1. \A p \in S : \A j \in Places : p \in Held(j) => j = QueuePlace
      BY <1>1, <1>3, <1>6 DEF PlacesInv, PlacedOnce
    <2>2. QED
      BY <1>7, <2>1, StageOf DEF InBuffer, Buffered
  <1>11. QED
    BY <1>9, <1>10

\* try_pop_ordered and pop_ordered.
LEMMA OrderedCredit ==
    ASSUME IInv, CInv, NEW c \in Computes, OrderedTry(c) \/ OrderedPop(c)
    PROVE  CInv'
  <1> USE DEF Goes, Moves, KeepLocals
  <1>1. /\ Compute(c) /\ Others(c)
        /\ \A to : pc' = [pc EXCEPT ![c] = to] => pc'[c] = to
    BY ComputeOthers DEF Compute
  <1>2. PlacesInv /\ BudgetInv /\ BuffersInv /\ ~inputBroken
    BY DEF CInv
  <1>3. /\ pc[c] \in {"try", "pop"}
        /\ UNCHANGED <<next, parts, batch, lease, used, creditBroken, poolVars,
                       cur, ahead>>
    BY DEF OrderedTry, OrderedPop, budgetVars, outputVars, sharedVars, Leaving
  <1>4. InputReaders # 0
    <2>1. InputReaders > 0
      BY <1>3 DEF IInv, HandsOK, HandOK
    <2>2. QED
      BY <2>1, PipelineAssumption
  <1>5. CASE pc'[c] = "process" /\ TakeOrdered(cur[c])
    <2>1. /\ cur[c] \in queue /\ queue' = queue \ {cur[c]}
          /\ UNCHANGED inputBroken
      BY <1>5 DEF TakeOrdered
    <2>2. PlacesInv' /\ Buffered' = Buffered
      BY <1>1, <1>3, <1>4, <1>5, <2>1, TakenCredit
    <2>3. QED
      BY <1>1, <1>2, <1>3, <2>1, <2>2, BudgetSame, BuffersSame, ComputeRest
  <1>6. CASE /\ UNCHANGED <<queue, inputBroken>>
             /\ \/ pc'[c] \in {"pop", "loop", "done"}
                \/ pc'[c] = "flush" /\ resume'[c] \in {"pop", "done"}
    <2>1. Mine(c) = {} /\ Mine(c)' = {}
      BY <1>3, <1>4, <1>6, ComputeMine DEF TakenLabels
    <2>2. QED
      BY <1>1, <1>3, <1>6, <2>1, ComputeStill
  <1>7. resume \in [Computes \cup Writers -> Resumptions]
    BY DEF IInv, TypeOK, ThreadsTypeOK
  <1>8. CASE OrderedTry(c)
    <2>1. CASE Goes(c, "try", "process") /\ TakeOrdered(cur[c])
      BY <1>1, <1>5, <2>1
    <2>2. CASE ~(Goes(c, "try", "process") /\ TakeOrdered(cur[c]))
      BY <1>1, <1>6, <1>7, <1>8, <2>2 DEF OrderedTry, inputVars
    <2>3. QED
      BY <2>1, <2>2
  <1>9. CASE OrderedPop(c)
    <2>1. CASE Goes(c, "pop", "process") /\ PoppedOrdered(c, cur[c])
      BY <1>1, <1>5, <2>1 DEF PoppedOrdered
    <2>2. CASE ~(Goes(c, "pop", "process") /\ PoppedOrdered(c, cur[c]))
      BY <1>1, <1>6, <1>7, <1>9, <2>2
         DEF OrderedPop, PopRefused, PopAwaited, inputVars, Leaving
    <2>3. QED
      BY <2>1, <2>2
  <1>10. QED
    BY <1>8, <1>9

-----------------------------------------------------------------------------
(***************************************************************************)
(* Sequences without repetition.                                           *)
(***************************************************************************)
LEMMA AppendOnce ==
    ASSUME NEW s \in Seq(Positions), NEW p \in Positions, NoRepeat(s),
           p \notin ElementsOf(s)
    PROVE  /\ NoRepeat(Append(s, p))
           /\ ElementsOf(Append(s, p)) = ElementsOf(s) \cup {p}
  <1> DEFINE t == Append(s, p)
             n == Len(s)
  <1>1. /\ n \in Nat /\ DOMAIN s = 1 .. n
        /\ t \in Seq(Positions) /\ Len(t) = n + 1
        /\ \A i \in 1 .. n : t[i] = s[i]
        /\ t[n + 1] = p
    BY AppendProperties, LenProperties
  <1>2. DOMAIN t = 1 .. (n + 1)
    BY <1>1, LenProperties
  <1> HIDE DEF t, n
  <1>3. \A i \in 1 .. n : s[i] # p
    BY <1>1 DEF ElementsOf
  <1>4. \A i \in 1 .. (n + 1) : i \in 1 .. n \/ i = n + 1
    BY <1>1
  <1>5. NoRepeat(t)
    BY <1>1, <1>2, <1>3, <1>4 DEF NoRepeat
  <1>6. /\ n + 1 \in 1 .. (n + 1)
        /\ \A i \in 1 .. n : i \in 1 .. (n + 1)
    BY <1>1
  <1>7. ElementsOf(t) = ElementsOf(s) \cup {p}
    BY <1>1, <1>2, <1>4, <1>6 DEF ElementsOf
  <1>8. QED
    BY <1>5, <1>7 DEF t

LEMMA SplitOnce ==
    ASSUME NEW s \in Seq(Positions), NoRepeat(s), NEW n \in 0 .. Len(s)
    PROVE  LET front == SubSeq(s, 1, n)
               back  == SubSeq(s, n + 1, Len(s))
           IN  /\ NoRepeat(front) /\ NoRepeat(back)
               /\ ElementsOf(front) \subseteq ElementsOf(s)
               /\ ElementsOf(back) = ElementsOf(s) \ ElementsOf(front)
  <1> DEFINE front == SubSeq(s, 1, n)
             back  == SubSeq(s, n + 1, Len(s))
             m == Len(s)
  <1>1. m \in Nat /\ DOMAIN s = 1 .. m /\ \A i \in 1 .. m : s[i] \in Positions
    BY LenProperties, ElementOfSeq
  <1>2. /\ front \in Seq(Positions) /\ Len(front) = n
        /\ \A i \in 1 .. n : front[i] = s[i]
    <2>1. \A i \in 1 .. n : s[i] \in Positions
      BY <1>1
    <2>2. /\ front \in Seq(Positions)
          /\ Len(front) = IF 1 <= n THEN n - 1 + 1 ELSE 0
          /\ \A i \in 1 .. n - 1 + 1 : front[i] = s[1 + i - 1]
      BY <1>1, <2>1, SubSeqProperties
    <2> HIDE DEF front
    <2>3. /\ n \in Nat /\ (IF 1 <= n THEN n - 1 + 1 ELSE 0) = n
          /\ \A i \in 1 .. n : i \in 1 .. n - 1 + 1 /\ 1 + i - 1 = i
      BY <1>1
    <2>4. QED
      BY <2>2, <2>3
  <1>3. /\ back \in Seq(Positions) /\ Len(back) = m - n
        /\ \A i \in 1 .. (m - n) : back[i] = s[n + i]
    <2>1. \A i \in (n + 1) .. m : s[i] \in Positions
      BY <1>1
    <2>2. /\ back \in Seq(Positions)
          /\ Len(back) = IF n + 1 <= m THEN m - (n + 1) + 1 ELSE 0
          /\ \A i \in 1 .. m - (n + 1) + 1 : back[i] = s[n + 1 + i - 1]
      BY <1>1, <2>1, SubSeqProperties
    <2> HIDE DEF back
    <2>3. /\ (IF n + 1 <= m THEN m - (n + 1) + 1 ELSE 0) = m - n
          /\ \A i \in 1 .. (m - n) :
                 i \in 1 .. m - (n + 1) + 1 /\ n + 1 + i - 1 = n + i
      <3>1. n \in Int /\ m \in Int /\ n <= m
        BY <1>1
      <3> HIDE DEF m
      <3>2. n + 1 <= m => m - (n + 1) + 1 = m - n
        BY <3>1
      <3>3. ~(n + 1 <= m) => m - n = 0
        BY <3>1
      <3>4. \A i \in 1 .. (m - n) :
                i \in 1 .. m - (n + 1) + 1 /\ n + 1 + i - 1 = n + i
        BY <3>1
      <3>5. QED
        BY <3>2, <3>3, <3>4
    <2>4. QED
      BY <2>2, <2>3
  <1>4. DOMAIN front = 1 .. n /\ DOMAIN back = 1 .. (m - n)
    BY <1>2, <1>3, LenProperties
  <1> HIDE DEF front, back, m
  <1>5. /\ n \in Nat /\ m \in Nat /\ n <= m
    BY <1>1 DEF m
  <1>6. NoRepeat(front)
    BY <1>1, <1>2, <1>4, <1>5 DEF NoRepeat
  <1>7. NoRepeat(back)
    <2>1. ASSUME NEW i \in 1 .. (m - n), NEW j \in 1 .. (m - n), back[i] = back[j]
          PROVE  i = j
      <3>1. n + i \in 1 .. m /\ n + j \in 1 .. m /\ s[n + i] = s[n + j]
        BY <1>3, <1>5, <2>1
      <3>2. n + i = n + j
        BY <1>1, <3>1 DEF NoRepeat
      <3>3. QED
        BY <1>5, <3>2
    <2>2. QED
      BY <1>4, <2>1 DEF NoRepeat
  <1>8. ElementsOf(front) \subseteq ElementsOf(s)
    BY <1>1, <1>2, <1>4, <1>5 DEF ElementsOf
  <1>9. \A i \in 1 .. m : i \in 1 .. n \/ (i - n \in 1 .. (m - n) /\ n + (i - n) = i)
    BY <1>5
  <1>10. ASSUME NEW p \in ElementsOf(back)
         PROVE  p \in ElementsOf(s) /\ p \notin ElementsOf(front)
    <2>1. PICK i \in 1 .. (m - n) : p = back[i]
      BY <1>4 DEF ElementsOf
    <2>2. p = s[n + i] /\ n + i \in 1 .. m
      BY <1>3, <1>5, <2>1
    <2>3. \A j \in 1 .. n : j \in 1 .. m /\ j # n + i
      BY <1>5
    <2>4. \A j \in 1 .. n : s[j] # p
      BY <1>1, <2>2, <2>3 DEF NoRepeat
    <2>5. QED
      BY <1>1, <1>2, <1>4, <2>2, <2>4 DEF ElementsOf
  <1>11. ASSUME NEW p \in ElementsOf(s), p \notin ElementsOf(front)
         PROVE  p \in ElementsOf(back)
    <2>1. PICK i \in 1 .. m : p = s[i]
      BY <1>1 DEF ElementsOf
    <2>2. i \notin 1 .. n
      BY <1>2, <1>4, <1>11, <2>1 DEF ElementsOf
    <2>3. i - n \in 1 .. (m - n) /\ n + (i - n) = i
      BY <1>9, <2>2
    <2>4. back[i - n] = p
      BY <1>3, <2>1, <2>3
    <2>5. QED
      BY <1>4, <2>3, <2>4 DEF ElementsOf
  <1>12. ElementsOf(back) = ElementsOf(s) \ ElementsOf(front)
    BY <1>10, <1>11
  <1>13. QED
    BY <1>6, <1>7, <1>8, <1>12 DEF front, back, m

LEMMA TailOnce ==
    ASSUME NEW s \in Seq(Positions), s # <<>>, NoRepeat(s)
    PROVE  /\ Head(s) \in ElementsOf(s) /\ Head(s) \in Positions
           /\ NoRepeat(Tail(s))
           /\ ElementsOf(Tail(s)) = ElementsOf(s) \ {Head(s)}
  <1> DEFINE t == Tail(s)
             n == Len(s)
  <1>1. /\ n \in Nat /\ DOMAIN s = 1 .. n /\ n # 0
        /\ t \in Seq(Positions) /\ Len(t) = n - 1
        /\ \A i \in 1 .. (n - 1) : t[i] = s[i + 1]
        /\ Head(s) \in Positions
    BY HeadTailProperties, LenProperties, EmptySeq
  <1>2. DOMAIN t = 1 .. (n - 1)
    BY <1>1, LenProperties
  <1>3. Head(s) = s[1] /\ 1 \in 1 .. n
    BY <1>1
  <1> HIDE DEF t, n
  <1>4. NoRepeat(t)
    <2>1. ASSUME NEW i \in 1 .. (n - 1), NEW j \in 1 .. (n - 1), t[i] = t[j]
          PROVE  i = j
      <3>1. i + 1 \in 1 .. n /\ j + 1 \in 1 .. n /\ s[i + 1] = s[j + 1]
        BY <1>1, <2>1
      <3>2. i + 1 = j + 1
        BY <1>1, <3>1 DEF NoRepeat
      <3>3. QED
        BY <1>1, <3>2
    <2>2. QED
      BY <1>2, <2>1 DEF NoRepeat
  <1>5. ASSUME NEW p \in ElementsOf(t)
        PROVE  p \in ElementsOf(s) /\ p # s[1]
    <2>1. PICK i \in 1 .. (n - 1) : p = t[i]
      BY <1>2 DEF ElementsOf
    <2>2. p = s[i + 1] /\ i + 1 \in 1 .. n /\ i + 1 # 1
      BY <1>1, <2>1
    <2>3. QED
      BY <1>1, <1>3, <2>2 DEF ElementsOf, NoRepeat
  <1>6. ASSUME NEW p \in ElementsOf(s), p # s[1]
        PROVE  p \in ElementsOf(t)
    <2>1. PICK i \in 1 .. n : p = s[i]
      BY <1>1 DEF ElementsOf
    <2>2. i - 1 \in 1 .. (n - 1) /\ (i - 1) + 1 = i
      BY <1>1, <1>6, <2>1
    <2>3. t[i - 1] = p
      BY <1>1, <2>1, <2>2
    <2>4. QED
      BY <1>2, <2>2, <2>3 DEF ElementsOf
  <1>7. ElementsOf(t) = ElementsOf(s) \ {Head(s)}
    BY <1>3, <1>5, <1>6
  <1>8. Head(s) \in ElementsOf(s)
    BY <1>1, <1>3 DEF ElementsOf
  <1>9. QED
    BY <1>1, <1>4, <1>7, <1>8 DEF t

-----------------------------------------------------------------------------
(***************************************************************************)
(* Compute threads: the kernel and what becomes of its result.             *)
(***************************************************************************)
LEMMA ProcessCredit ==
    ASSUME IInv, CInv, NEW c \in Computes, Process(c)
    PROVE  CInv'
  <1> USE DEF Process, Goes, Moves, KeepLocals
  <1>1. /\ Compute(c) /\ Others(c)
        /\ \A to : pc' = [pc EXCEPT ![c] = to] => pc'[c] = to
    BY ComputeOthers DEF Compute
  <1>2. TypeOK /\ PlacesInv /\ BudgetInv /\ BuffersInv /\ ~inputBroken
    BY DEF CInv, IInv
  <1>3. /\ UNCHANGED <<next, queue, parts, batch, lease, used, creditBroken,
                       inputBroken, cur, ahead, resume>>
        /\ pc[c] = "process" /\ pc'[c] \in KernelLabels
    BY <1>1 DEF budgetVars, inputVars, outputVars, sharedVars, KernelLabels
  <1>4. /\ cur[c] \in Mine(c) /\ cur[c] \in Positions /\ cur[c] \notin Buffered
        /\ lease[cur[c]] = Owed(MyStage(c, cur[c]), cur[c])
    BY <1>3, ComputeHand DEF TakenLabels, KernelLabels
  <1>5. lease[cur[c]] = Owed("kernel", cur[c])
    BY <1>3, <1>4, ComputeMine DEF Owed, ReadLabels
  <1>6. Busy(c) /\ Busy(c)'
    BY <1>3 DEF Busy, KernelLabels
  <1>7. /\ Mine(c)' = Mine(c)
        /\ MyStage(c, cur[c])' = "kernel"
        /\ \A p \in Mine(c) \ {cur[c]} : MyStage(c, p)' = MyStage(c, p)
    <2>1. pc[c] \in TakenLabels /\ pc'[c] \in TakenLabels /\ pc'[c] \notin ReadLabels
      BY <1>3 DEF TakenLabels, ReadLabels, KernelLabels
    <2>2. Mine(c)' = Mine(c)
      <3>1. cur'[c] = cur[c] /\ ahead'[c] = ahead[c]
        BY <1>3
      <3>2. \A p : p \in Mine(c)' <=> p \in Mine(c)
        BY <1>6, <2>1, <3>1, ComputeMine
      <3>3. QED
        BY <3>2, ComputeMine
    <2>3. MyStage(c, cur[c])' = "kernel"
      BY <1>3, <2>1, ComputeMine
    <2>4. \A p \in Mine(c) \ {cur[c]} : MyStage(c, p)' = MyStage(c, p)
      BY <1>3, ComputeMine
    <2>5. QED
      BY <2>2, <2>3, <2>4
  <1>8. PlacesInv' /\ Buffered' = Buffered \cup {cur[c]}
    BY <1>1, <1>2, <1>3, <1>4, <1>5, <1>7, Staged
  <1>9. BudgetInv' /\ BuffersInv'
    BY <1>2, <1>3, <1>4, <1>8, BudgetSame, BufferTaken
  <1>10. QED
    BY <1>1, <1>2, <1>3, <1>8, <1>9, ComputeRest

\* The result keeps the credit of the encoded bytes.
LEMMA KernelReturnsCredit ==
    ASSUME IInv, CInv, NEW c \in Computes, KernelReturns(c)
    PROVE  CInv'
  <1> USE DEF KernelReturns, Goes, Moves, KeepLocals
  <1>1. /\ Compute(c) /\ Others(c)
        /\ \A to : pc' = [pc EXCEPT ![c] = to] => pc'[c] = to
    BY ComputeOthers DEF Compute
  <1>2. /\ TypeOK /\ PlacesInv /\ BudgetInv /\ BuffersInv /\ ~inputBroken
        /\ lease \in [Positions -> Nat]
    BY DEF CInv, IInv, TypeOK, CountersTypeOK
  <1>3. /\ UNCHANGED <<next, queue, parts, batch, poolVars, inputBroken, cur,
                       ahead, resume>>
        /\ pc[c] = "kernel" /\ pc'[c] = "submit"
    BY <1>1 DEF inputVars, outputVars, sharedVars
  <1>4. /\ cur[c] \in Mine(c) /\ cur[c] \in Positions /\ cur[c] \in Buffered
        /\ lease[cur[c]] = Owed(MyStage(c, cur[c]), cur[c])
    BY <1>3, ComputeHand DEF TakenLabels, KernelLabels
  <1>5. lease[cur[c]] = Bytes[cur[c]] + EncodedBytes
    BY <1>3, <1>4, ComputeMine DEF Owed, ReadLabels, KernelLabels, Reservation
  <1>6. Bytes[cur[c]] \in Nat /\ EncodedBytes \in Nat
    BY <1>4, BudgetAssumption
  <1>7. /\ BudgetInv'
        /\ lease' = [lease EXCEPT ![cur[c]] = lease[cur[c]] - Bytes[cur[c]]]
    <2>1. Bytes[cur[c]] <= lease[cur[c]]
      BY <1>5, <1>6
    <2>2. QED
      BY <1>2, <1>4, <1>6, <2>1, Release
  <1>8. /\ \A p \in Positions \ {cur[c]} : lease'[p] = lease[p]
        /\ lease'[cur[c]] = Owed("encoded", cur[c])
    <2>1. lease[cur[c]] - Bytes[cur[c]] = EncodedBytes
      BY <1>5, <1>6
    <2>2. QED
      BY <1>2, <1>4, <1>7, <2>1 DEF Owed
  <1>9. Busy(c) /\ Busy(c)'
    BY <1>3 DEF Busy
  <1>10. /\ Mine(c)' = Mine(c)
         /\ MyStage(c, cur[c])' = "encoded"
         /\ \A p \in Mine(c) \ {cur[c]} : MyStage(c, p)' = MyStage(c, p)
    BY <1>3, <1>9, ComputeMine DEF TakenLabels, ReadLabels, KernelLabels
  <1>11. PlacesInv' /\ Buffered' = Buffered \cup {cur[c]}
    BY <1>1, <1>2, <1>3, <1>4, <1>8, <1>10, Staged
  <1>12. BuffersInv'
    BY <1>2, <1>3, <1>4, <1>11, BuffersSame
  <1>13. QED
    BY <1>1, <1>2, <1>3, <1>7, <1>11, <1>12, ComputeRest

\* A result nobody takes: buffer and lease are given back.
LEMMA ResultDropped ==
    ASSUME IInv, CInv, NEW c \in Computes, Compute(c),
           UNCHANGED <<next, queue, parts, batch, inputBroken>>,
           pc[c] \in KernelLabels \cup {"submit"}, pc'[c] = "fail",
           ReleaseBuffer, ReleaseCredit(cur[c], lease[cur[c]])
    PROVE  CInv'
  <1>1. TypeOK /\ BuffersInv /\ ~inputBroken
    BY DEF CInv, IInv
  <1>2. PlacesInv' /\ BudgetInv' /\ Buffered' = Buffered \ {cur[c]}
    BY ComputeOthers, ComputeDrops DEF TakenLabels, KernelLabels
  <1>3. cur[c] \in Buffered
    BY ComputeHand DEF TakenLabels, KernelLabels
  <1>4. BuffersInv'
    BY <1>1, <1>2, <1>3, BufferFreed
  <1>5. QED
    BY <1>1, <1>2, <1>4, ComputeRest

LEMMA KernelThrowsCredit ==
    ASSUME IInv, CInv, NEW c \in Computes, KernelThrows(c)
    PROVE  CInv'
  <1>1. /\ Compute(c)
        /\ \A to : pc' = [pc EXCEPT ![c] = to] => pc'[c] = to
    BY ComputeOthers DEF Compute
  <1>2. /\ UNCHANGED <<next, queue, parts, batch, inputBroken>>
        /\ pc[c] \in KernelLabels /\ pc'[c] = "fail"
    BY <1>1 DEF KernelThrows, Goes, Moves, KeepLocals, inputVars, outputVars,
                sharedVars, KernelLabels
  <1>3. QED
    BY <1>1, <1>2, ResultDropped DEF KernelThrows

\* A result goes on with its lease to a partition, or to the thread's batch.
LEMMA HandedOn ==
    ASSUME IInv, CInv, NEW c \in Computes,
           pc[c] = "submit", pc'[c] \notin TakenLabels, Busy(c)',
           ~(pc'[c] \in {"flush", "clear"} /\ resume'[c] = "acquire"),
           UNCHANGED <<cur, ahead, lease>>,
           NEW b \in Places, b # <<"thread", c>>,
           \A k \in Places \ {b, <<"thread", c>>} : Untouched(k),
           Held(b)' = Held(b) \cup {cur[c]},
           \A p : Stage(b, p) = "encoded" /\ Stage(b, p)' = "encoded"
    PROVE  PlacesInv' /\ Buffered' = Buffered
  <1> DEFINE k == <<"thread", c>>
             S == {cur[c]}
  <1>1. PlacesInv
    BY DEF CInv
  <1>2. /\ cur[c] \in Mine(c) /\ cur[c] \in Positions /\ cur[c] \in Buffered
        /\ lease[cur[c]] = Owed(MyStage(c, cur[c]), cur[c])
    BY ComputeHand DEF TakenLabels, KernelLabels
  <1>3. lease[cur[c]] = Owed("encoded", cur[c])
    BY <1>2, ComputeMine DEF ReadLabels, KernelLabels
  <1>4. Busy(c)
    BY DEF Busy
  <1>5. /\ \A p \in Positions \ S : p \in Mine(c)' <=> p \in Mine(c)
        /\ \A p \in Mine(c) \ S : MyStage(c, p)' = MyStage(c, p)
        /\ cur[c] \notin Mine(c)'
    <2>1. cur[c] \notin Mine(c)'
      <3>1. ~(cur[c] < cur[c])
        BY <1>2, BudgetAssumption DEF Positions
      <3>2. QED
        BY <3>1, ComputeMine
    <2>2. QED
      BY <1>4, <2>1, ComputeMine DEF TakenLabels
  <1>6. TouchedIn(k, S)
    BY <1>5, OwnPlace
  <1>7. TouchedIn(b, S) /\ \A p \in S : p \in Held(b)'
    BY DEF TouchedIn
  <1>8. /\ S \in SUBSET Positions /\ k \in Places
        /\ \A p \in S : p \in Held(k) /\ p \notin Held(k)'
    BY <1>2, <1>5, HeldOf, HeldAfter DEF Places
  <1>9. \A j \in Places : j # k /\ j # b => Untouched(j)
    OBVIOUS
  <1>10. /\ \A p \in S : lease'[p] = Owed(Stage(b, p)', p)
         /\ \A p \in S : InBuffer(b, p)' /\ p \in Buffered
    BY <1>2, <1>3, <1>7 DEF InBuffer
  <1> HIDE DEF S, k
  <1>11. /\ PlacesInv'
         /\ Buffered' = (Buffered \ S) \cup {p \in S : InBuffer(b, p)'}
    <2>1. \A p \in Positions \ S : lease'[p] = lease[p]
      OBVIOUS
    <2>2. k # b
      BY DEF k
    <2>3. QED
      BY <1>1, <1>6, <1>7, <1>8, <1>9, <1>10, <2>1, <2>2, Relocation
  <1>12. QED
    BY <1>10, <1>11

LEMMA SubmitQueuedCredit ==
    ASSUME IInv, CInv, NEW c \in Computes, SubmitQueued(c)
    PROVE  CInv'
  <1> USE DEF Goes, Moves, KeepLocals
  <1>1. /\ Compute(c) /\ Others(c) /\ UNCHANGED outputBroken
        /\ \A w \in Writers : pc'[w] = pc[w]
        /\ \A to : pc' = [pc EXCEPT ![c] = to] => pc'[c] = to
    BY ComputeOthers DEF Compute
  <1>2. /\ UNCHANGED <<next, queue, batch, inputBroken, cur, ahead, resume>>
        /\ pc[c] = "submit" /\ pc'[c] \in {"next", "count", "fail"}
    BY <1>1 DEF SubmitQueued, inputVars, sharedVars
  <1>3. /\ TypeOK /\ PlacesInv /\ BudgetInv /\ BuffersInv /\ ~inputBroken
        /\ SequencesInv /\ StrictInv
        /\ parts \in [Partitions -> Seq(Positions)]
    BY DEF CInv, IInv, TypeOK, PlacesTypeOK
  <1>4. CASE PushOutput(cur[c]) /\ UNCHANGED <<budgetVars, poolVars>> /\ pc'[c] # "fail"
    <2> DEFINE q == cur[c]
    <2>1. q \in Mine(c) /\ q \in Positions
      BY <1>2, ComputeHand DEF TakenLabels
    <2> PICK i \in Partitions : i = PartitionOf(q)
      BY <2>1, PartitionOfType
    <2> DEFINE b == <<"part", i>>
    <2>2. b \in Places /\ b # <<"thread", c>>
      BY DEF Places
    <2>3. q \notin ElementsOf(parts[i])
      BY <1>3, <2>1, <2>2, MineIs
    <2>4. parts' = [parts EXCEPT ![i] = Append(parts[i], q)]
      BY <1>4 DEF PushOutput
    <2> HIDE DEF q
    <2>5. /\ parts'[i] = Append(parts[i], q)
          /\ \A j \in Partitions : j # i => parts'[j] = parts[j]
      BY <1>3, <2>2, <2>4
    <2>6. /\ NoRepeat(parts'[i])
          /\ ElementsOf(parts'[i]) = ElementsOf(parts[i]) \cup {q}
      <3>1. parts[i] \in Seq(Positions) /\ NoRepeat(parts[i])
        BY <1>3, <2>2 DEF SequencesInv
      <3>2. QED
        BY <2>1, <2>3, <2>5, <3>1, AppendOnce
    <2>7. SequencesInv'
      <3>1. \A j \in Partitions : NoRepeat(parts[j])'
        BY <1>3, <2>5, <2>6 DEF SequencesInv, NoRepeat
      <3>2. QED
        BY <1>1, <1>2, <1>3, <3>1 DEF SequencesInv, NoRepeat
    <2>8. StrictInv'
      BY <1>1, <1>3 DEF StrictInv
    <2>9. /\ Held(b)' = Held(b) \cup {q}
          /\ \A p : Stage(b, p) = "encoded" /\ Stage(b, p)' = "encoded"
      BY <2>6, HeldOf, HeldAfter, StageOf
    <2>10. \A j \in Partitions : <<"part", j>> \in {b, <<"thread", c>>} \/ j # i
      OBVIOUS
    <2>11. \A k \in Places \ {b, <<"thread", c>>} : Untouched(k)
      <3> DEFINE K == {b, <<"thread", c>>}
      <3>1. /\ \A j \in Partitions : <<"part", j>> \in K \/ parts'[j] = parts[j]
            /\ \A x \in Readers \cup Computes : <<"thread", x>> \in K \/ SameThread(x)
        BY <1>1, <2>5 DEF Others
      <3> HIDE DEF K
      <3>2. \A k \in Places \ K : Untouched(k)
        BY <1>2, <3>1, Elsewhere
      <3>3. QED
        BY <3>2 DEF K
    <2>12. /\ pc'[c] \notin TakenLabels /\ Busy(c)'
           /\ ~(pc'[c] \in {"flush", "clear"} /\ resume'[c] = "acquire")
      BY <1>2, <1>4 DEF TakenLabels, Busy
    <2>13. UNCHANGED <<lease, used, creditBroken, poolVars>>
      BY <1>4 DEF budgetVars
    <2> HIDE DEF b
    <2>14. PlacesInv' /\ Buffered' = Buffered
      BY <1>2, <2>2, <2>9, <2>11, <2>12, <2>13, HandedOn DEF q
    <2>15. QED
      BY <1>2, <1>3, <2>7, <2>8, <2>13, <2>14, BudgetSame, BuffersSame DEF CInv
  <1>5. CASE /\ pc'[c] = "fail" /\ OutputRefused(cur[c]) /\ ReleaseBuffer
             /\ ReleaseCredit(cur[c], lease[cur[c]])
    BY <1>1, <1>2, <1>5, ResultDropped DEF OutputRefused, outputVars
  <1>6. QED
    BY <1>1, <1>4, <1>5 DEF SubmitQueued

LEMMA SubmitInlineCredit ==
    ASSUME IInv, CInv, NEW c \in Computes, SubmitInline(c)
    PROVE  CInv'
  <1>1. /\ Compute(c) /\ Others(c) /\ UNCHANGED outputBroken
        /\ \A w \in Writers : pc'[w] = pc[w]
        /\ \A to : pc' = [pc EXCEPT ![c] = to] => pc'[c] = to
    BY ComputeOthers DEF Compute
  <1>2. /\ UNCHANGED <<next, queue, parts, inputBroken, cur, ahead, lease, used,
                       creditBroken, poolVars>>
        /\ pc[c] = "submit"
        /\ batch' = [batch EXCEPT ![c] = Append(batch[c], cur[c])]
    BY DEF SubmitInline, Moves, budgetVars, inputVars, outputVars, sharedVars
  <1>3. /\ TypeOK /\ PlacesInv /\ BudgetInv /\ BuffersInv /\ ~inputBroken
        /\ SequencesInv /\ StrictInv
        /\ batch \in [Computes \cup Writers -> Seq(Positions)]
        /\ resume \in [Computes \cup Writers -> Resumptions]
    BY DEF CInv, IInv, TypeOK, PlacesTypeOK, ThreadsTypeOK
  <1>4. \/ pc'[c] = "next"
        \/ pc'[c] = "flush" /\ resume'[c] = "next"
    BY <1>1, <1>3 DEF SubmitInline, Moves
  <1> DEFINE q == cur[c]
             b == <<"batch", c>>
  <1>5. q \in Mine(c) /\ q \in Positions
    BY <1>2, ComputeHand DEF TakenLabels
  <1>6. b \in Places /\ b # <<"thread", c>>
    BY DEF Places
  <1>7. q \notin ElementsOf(batch[c])
    BY <1>3, <1>5, MineIs
  <1>8. /\ batch'[c] = Append(batch[c], q)
        /\ \A x \in Computes \cup Writers : x # c => batch'[x] = batch[x]
    BY <1>2, <1>3
  <1> HIDE DEF q
  <1>9. /\ NoRepeat(batch'[c])
        /\ ElementsOf(batch'[c]) = ElementsOf(batch[c]) \cup {q}
    <2>1. batch[c] \in Seq(Positions) /\ NoRepeat(batch[c])
      BY <1>3 DEF SequencesInv
    <2>2. QED
      BY <1>5, <1>7, <1>8, <2>1, AppendOnce
  <1>10. SequencesInv'
    <2>1. \A x \in Computes \cup Writers : NoRepeat(batch[x])'
      BY <1>3, <1>8, <1>9 DEF SequencesInv, NoRepeat
    <2>2. \A w \in Writers : batch'[w] = batch[w]
      BY <1>8, Kinds
    <2>3. QED
      BY <1>1, <1>2, <1>3, <2>1, <2>2 DEF SequencesInv, NoRepeat
  <1>11. StrictInv'
    BY <1>1, <1>3 DEF StrictInv
  <1>12. /\ Held(b)' = Held(b) \cup {q}
         /\ \A p : Stage(b, p) = "encoded" /\ Stage(b, p)' = "encoded"
    BY <1>9, HeldOf, HeldAfter, StageOf
  <1>13. \A k \in Places \ {b, <<"thread", c>>} : Untouched(k)
    <2> DEFINE K == {b, <<"thread", c>>}
    <2>1. /\ \A x \in Computes \cup Writers : <<"batch", x>> \in K \/ batch'[x] = batch[x]
          /\ \A x \in Readers \cup Computes : <<"thread", x>> \in K \/ SameThread(x)
      BY <1>1, <1>8 DEF Others
    <2> HIDE DEF K
    <2>2. \A k \in Places \ K : Untouched(k)
      BY <1>2, <2>1, Elsewhere
    <2>3. QED
      BY <2>2 DEF K
  <1>14. /\ pc'[c] \notin TakenLabels /\ Busy(c)'
         /\ ~(pc'[c] \in {"flush", "clear"} /\ resume'[c] = "acquire")
    BY <1>4 DEF TakenLabels, Busy
  <1> HIDE DEF b
  <1>15. PlacesInv' /\ Buffered' = Buffered
    BY <1>2, <1>6, <1>12, <1>13, <1>14, HandedOn DEF q
  <1>16. QED
    BY <1>2, <1>3, <1>10, <1>11, <1>15, BudgetSame, BuffersSame DEF CInv

\* No step of a compute thread outside flush_inline disturbs the credit.
LEMMA ComputeCredit ==
    ASSUME IInv, CInv, NEW c \in Computes, Compute(c)
    PROVE  CInv'
  BY DirectClaimCredit, DirectCredit, BetweenCredit, OrderedCredit, ProcessCredit,
     KernelReturnsCredit, KernelThrowsCredit, SubmitQueuedCredit,
     SubmitInlineCredit DEF Compute

-----------------------------------------------------------------------------
(***************************************************************************)
(* The loop over a batch.                                                  *)
(***************************************************************************)
LEMMA FlushOthers ==
    ASSUME IInv, NEW t \in Computes \cup Writers, Flush(t)
    PROVE  /\ Others(t)
           /\ \A w \in Writers : w # t => pc'[w] = pc[w]
           /\ \A to : pc' = [pc EXCEPT ![t] = to] => pc'[t] = to
           /\ UNCHANGED <<next, queue, parts, inputBroken, outputBroken, cur, ahead>>
  <1> USE DEF Flush, WriteItem, AllWritten, ClearItem, Cleared, Goes, Moves,
              KeepLocals
  <1>1. UNCHANGED <<next, queue, parts, inputBroken, outputBroken, cur, ahead>>
    BY DEF inputVars, outputVars, sharedVars
  <1>2. \E to : pc' = [pc EXCEPT ![t] = to]
    OBVIOUS
  <1>3. UNCHANGED resume \/ (t \in Writers /\ resume' = [resume EXCEPT ![t] = "fail"])
    OBVIOUS
  <1>4. /\ pc \in [Threads -> Labels]
        /\ resume \in [Computes \cup Writers -> Resumptions]
    BY DEF IInv, TypeOK, ThreadsTypeOK
  <1>5. Others(t)
    BY ONLY <1>1, <1>2, <1>3, <1>4, Kinds DEF Others, SameThread
  <1>6. /\ \A w \in Writers : w # t => pc'[w] = pc[w]
        /\ \A to : pc' = [pc EXCEPT ![t] = to] => pc'[t] = to
    BY ONLY <1>2, <1>4, Kinds
  <1>7. QED
    BY <1>1, <1>5, <1>6

\* What a thread has on top of its batch has no credit yet.
LEMMA FlushHand ==
    ASSUME IInv, CInv, NEW c \in Computes, pc[c] \in {"flush", "clear"}
    PROVE  \A p \in Mine(c) : lease[p] = 0 /\ p \notin Buffered
  <1>1. TypeOK /\ PlacesInv
    BY DEF CInv, IInv
  <1>2. \A p : MyStage(c, p) = "none"
    BY ComputeMine DEF ReadLabels, KernelLabels
  <1>3. \A p \in Mine(c) : /\ lease[p] = Owed("none", p)
                           /\ p \notin Buffered
    BY <1>1, <1>2, MineIs
  <1>4. QED
    BY <1>3 DEF Owed

\* A step that leaves the batch, and the thread what it has or nothing.
LEMMA FlushKeeps ==
    ASSUME IInv, CInv, NEW t \in Computes \cup Writers, Flush(t),
           UNCHANGED <<batch, lease, used, creditBroken, poolVars>>,
           pc[t] \in {"flush", "clear"},
           pc'[t] \notin {"scan", "meta", "account"},
           t \in Computes =>
               \/ Mine(t)' = {}
               \/ Mine(t)' = Mine(t) /\ \A p : MyStage(t, p)' = "none",
           t \in Writers /\ pc'[t] = "pop" => batch[t] = <<>>
    PROVE  CInv'
  <1>1. /\ Others(t)
        /\ \A w \in Writers : w # t => pc'[w] = pc[w]
        /\ UNCHANGED <<next, queue, parts, inputBroken, outputBroken>>
    BY FlushOthers
  <1>2. /\ TypeOK /\ PlacesInv /\ BudgetInv /\ BuffersInv /\ ~inputBroken
        /\ SequencesInv /\ StrictInv
    BY DEF CInv, IInv
  <1>3. SequencesInv' /\ StrictInv'
    BY <1>1, <1>2 DEF SequencesInv, StrictInv, NoRepeat
  <1>4. PlacesInv' /\ Buffered' = Buffered
    <2>1. CASE t \in Computes
      <3>1. \A p \in Mine(t) : lease[p] = 0 /\ p \notin Buffered
        BY <2>1, FlushHand
      <3>2. CASE Mine(t)' = {}
        <4>1. \A p \in Positions : lease'[p] = IF p \in Mine(t) THEN 0 ELSE lease[p]
          BY <3>1
        <4>2. PlacesInv' /\ Buffered' = Buffered \ Mine(t)
          BY <1>1, <1>2, <2>1, <3>2, <4>1, Dropped
        <4>3. QED
          BY <3>1, <4>2
      <3>3. CASE Mine(t)' = Mine(t) /\ \A p : MyStage(t, p)' = "none"
        <4>1. \A p : MyStage(t, p) = "none"
          BY <2>1, ComputeMine DEF ReadLabels, KernelLabels
        <4>2. QED
          BY <1>1, <1>2, <2>1, <3>3, <4>1, Still
      <3>4. QED
        BY <2>1, <3>2, <3>3
    <2>2. CASE t \in Writers
      <3>1. \A x \in Readers \cup Computes : SameThread(x)
        BY <1>1, <2>2, Kinds DEF Others
      <3>2. \A k \in Places \ {} : Untouched(k)
        BY <1>1, <3>1, Elsewhere
      <3>3. QED
        BY <1>2, <3>2, NothingMoves
    <2>3. QED
      BY <2>1, <2>2
  <1>5. QED
    BY <1>1, <1>2, <1>3, <1>4, BudgetSame, BuffersSame DEF CInv

\* A result is destroyed: its buffer and its lease go back.
LEMMA ClearItemCredit ==
    ASSUME IInv, CInv, NEW t \in Computes \cup Writers, ClearItem(t)
    PROVE  CInv'
  <1> DEFINE b == <<"batch", t>>
  <1>1. /\ Flush(t) /\ Others(t)
        /\ \A w \in Writers : w # t => pc'[w] = pc[w]
        /\ \A to : pc' = [pc EXCEPT ![t] = to] => pc'[t] = to
        /\ UNCHANGED <<next, queue, parts, inputBroken, outputBroken, cur, ahead>>
    BY FlushOthers DEF Flush
  <1>2. /\ TypeOK /\ PlacesInv /\ BudgetInv /\ BuffersInv /\ ~inputBroken
        /\ SequencesInv /\ StrictInv
        /\ batch \in [Computes \cup Writers -> Seq(Positions)]
        /\ lease \in [Positions -> Nat]
    BY DEF CInv, IInv, TypeOK, PlacesTypeOK, CountersTypeOK
  <1>3. /\ pc[t] = "clear" /\ pc'[t] = "clear" /\ UNCHANGED resume
        /\ batch[t] # <<>>
        /\ batch' = [batch EXCEPT ![t] = Tail(batch[t])]
        /\ ReleaseBuffer
        /\ ReleaseCredit(Head(batch[t]), lease[Head(batch[t])])
    BY <1>1 DEF ClearItem, Moves
  <1>4. PICK h \in Positions : h = Head(batch[t])
    <2>1. batch[t] \in Seq(Positions)
      BY <1>2
    <2>2. QED
      BY <1>3, <2>1, HeadTailProperties
  <1>5. /\ h \in ElementsOf(batch[t])
        /\ NoRepeat(batch'[t])
        /\ ElementsOf(batch'[t]) = ElementsOf(batch[t]) \ {h}
        /\ \A x \in Computes \cup Writers : x # t => batch'[x] = batch[x]
    <2>1. batch[t] \in Seq(Positions) /\ NoRepeat(batch[t])
      BY <1>2 DEF SequencesInv
    <2>2. /\ batch'[t] = Tail(batch[t])
          /\ \A x \in Computes \cup Writers : x # t => batch'[x] = batch[x]
      BY <1>2, <1>3
    <2>3. QED
      BY <1>3, <1>4, <2>1, <2>2, TailOnce
  <1>6. SequencesInv' /\ StrictInv'
    <2>1. \A x \in Computes \cup Writers : NoRepeat(batch[x])'
      BY <1>2, <1>5 DEF SequencesInv, NoRepeat
    <2>2. /\ \A w \in Writers : pc'[w] = pc[w]
          /\ UNCHANGED <<parts, outputBroken>>
      BY <1>1, <1>3
    <2>3. \A w \in Writers : pc[w] \in {"pop", "scan", "meta"} => batch'[w] = batch[w]
      BY <1>3, <1>5
    <2>4. /\ SequencesInv /\ StrictInv
          /\ \A i \in Partitions : NoRepeat(parts[i])'
      BY <1>2, <2>2 DEF SequencesInv, NoRepeat
    <2>5. QED
      BY <2>1, <2>2, <2>3, <2>4 DEF SequencesInv, StrictInv
  <1>7. /\ BudgetInv'
        /\ lease' = [lease EXCEPT ![h] = lease[h] - lease[h]]
    BY <1>2, <1>3, <1>4, Release
  <1>8. lease'[h] = 0 /\ \A p \in Positions \ {h} : lease'[p] = lease[p]
    BY <1>2, <1>7
  <1> DEFINE S == {h}
  <1>9. /\ Held(b) = ElementsOf(batch[t]) /\ Held(b)' = ElementsOf(batch'[t])
        /\ \A p : Stage(b, p) = "encoded" /\ Stage(b, p)' = "encoded"
        /\ b \in Places
    BY HeldOf, HeldAfter, StageOf DEF Places
  <1>10. \A k \in Places : k # b => Untouched(k)
    <2> DEFINE K == {b}
    <2>1. /\ \A x \in Computes \cup Writers : <<"batch", x>> \in K \/ batch'[x] = batch[x]
          /\ \A x \in Readers \cup Computes : <<"thread", x>> \in K \/ SameThread(x)
      BY <1>1, <1>3, <1>5 DEF Others, SameThread
    <2> HIDE DEF K
    <2>2. \A k \in Places \ K : Untouched(k)
      BY <1>1, <2>1, Elsewhere
    <2>3. QED
      BY <2>2 DEF K
  <1> HIDE DEF b
  <1>11. /\ TouchedIn(b, S)
         /\ S \in SUBSET Positions
         /\ \A p \in S : p \in Held(b) /\ p \notin Held(b)' /\ lease'[p] = 0
         /\ \A p \in Positions \ S : lease'[p] = lease[p]
    BY <1>5, <1>8, <1>9 DEF TouchedIn
  <1> HIDE DEF S
  <1>12. /\ PlacesInv'
         /\ Buffered' = (Buffered \ S) \cup {p \in S : InBuffer(b, p)'}
    BY <1>2, <1>9, <1>10, <1>11, Relocation
  <1>13. Buffered' = Buffered \ {h} /\ h \in Buffered
    <2>1. \A p \in S : ~InBuffer(b, p)'
      BY <1>11 DEF InBuffer
    <2>2. h \in Buffered
      BY <1>5, <1>9 DEF Buffered
    <2>3. QED
      BY <1>12, <2>1, <2>2 DEF S
  <1>14. BuffersInv'
    BY <1>2, <1>3, <1>13, BufferFreed
  <1>15. QED
    BY <1>1, <1>2, <1>6, <1>7, <1>12, <1>14 DEF CInv

\* No step of the loop disturbs the credit.
LEMMA FlushCredit ==
    ASSUME IInv, CInv, NEW t \in Computes \cup Writers, Flush(t)
    PROVE  CInv'
  <1> USE DEF Goes, Moves, KeepLocals
  <1>1. /\ \A to : pc' = [pc EXCEPT ![t] = to] => pc'[t] = to
        /\ UNCHANGED <<cur, ahead>>
    BY FlushOthers
  <1>2. /\ resume[t] \in Resumptions
        /\ t \in Writers => t \notin Computes
    BY Kinds DEF IInv, TypeOK, ThreadsTypeOK
  <1>3. CASE WriteItem(t)
    <2>1. /\ UNCHANGED <<batch, lease, used, creditBroken, poolVars>>
          /\ pc[t] = "flush" /\ pc'[t] \in {"flush", "fail", "clear"}
          /\ pc'[t] = "clear" => t \in Writers
          /\ t \in Computes => UNCHANGED resume
      BY <1>1, <1>2, <1>3 DEF WriteItem, budgetVars
    <2>2. t \in Computes =>
              \/ Mine(t)' = {}
              \/ Mine(t)' = Mine(t) /\ \A p : MyStage(t, p)' = "none"
      <3> SUFFICES ASSUME t \in Computes
                   PROVE  \/ Mine(t)' = {}
                          \/ Mine(t)' = Mine(t) /\ \A p : MyStage(t, p)' = "none"
        OBVIOUS
      <3>1. CASE pc'[t] = "flush"
        <4>1. Busy(t)' = Busy(t)
          BY <1>1, <2>1, <3>1 DEF Busy
        <4>2. QED
          BY <1>1, <2>1, <3>1, <4>1, ComputeMine
             DEF TakenLabels, ReadLabels, KernelLabels
      <3>2. CASE pc'[t] = "fail"
        <4>1. ~Busy(t)'
          BY <3>2 DEF Busy
        <4>2. QED
          BY <3>2, <4>1, ComputeMine DEF TakenLabels
      <3>3. QED
        BY <1>2, <2>1, <3>1, <3>2
    <2>3. QED
      BY <2>1, <2>2, FlushKeeps
  <1>4. CASE AllWritten(t)
    <2>1. /\ UNCHANGED <<batch, lease, used, creditBroken, poolVars, resume>>
          /\ pc[t] = "flush" /\ pc'[t] = "clear"
      BY <1>1, <1>4 DEF AllWritten, budgetVars
    <2>2. Busy(t)' = Busy(t)
      BY <2>1 DEF Busy
    <2>3. t \in Computes => Mine(t)' = Mine(t) /\ \A p : MyStage(t, p)' = "none"
      BY <1>1, <2>1, <2>2, ComputeMine DEF TakenLabels, ReadLabels, KernelLabels
    <2>4. QED
      BY <2>1, <2>3, FlushKeeps
  <1>5. CASE Cleared(t)
    <2>1. /\ UNCHANGED <<batch, lease, used, creditBroken, poolVars, resume>>
          /\ pc[t] = "clear" /\ pc'[t] = resume[t]
          /\ batch[t] = <<>>
      BY <1>1, <1>5 DEF Cleared, budgetVars
    <2>2. pc'[t] \notin {"scan", "meta", "account"}
      BY <1>2, <2>1 DEF Resumptions
    <2>3. Busy(t)' = Busy(t)
      BY <1>2, <2>1 DEF Busy, Resumptions
    <2>4. t \in Computes => Mine(t)' = Mine(t) /\ \A p : MyStage(t, p)' = "none"
      <3>1. /\ pc'[t] \in TakenLabels <=> resume[t] = "acquire"
            /\ pc'[t] \notin {"flush", "clear"}
            /\ pc'[t] \notin ReadLabels /\ pc'[t] \notin KernelLabels
            /\ pc'[t] # "submit"
        BY <1>2, <2>1 DEF TakenLabels, ReadLabels, KernelLabels, Resumptions
      <3>2. pc[t] \notin TakenLabels
        BY <2>1 DEF TakenLabels
      <3>3. SUFFICES ASSUME t \in Computes
                     PROVE  Mine(t)' = Mine(t) /\ \A p : MyStage(t, p)' = "none"
        OBVIOUS
      <3>4. cur'[t] = cur[t] /\ ahead'[t] = ahead[t] /\ resume'[t] = resume[t]
        BY <1>1, <2>1
      <3>5. \A p : p \in Mine(t)' <=> p \in Mine(t)
        BY <2>1, <2>3, <3>1, <3>2, <3>3, <3>4, ComputeMine
      <3>6. \A p : MyStage(t, p)' = "none"
        BY <3>1, <3>3, ComputeMine
      <3>7. QED
        BY <3>3, <3>5, <3>6, ComputeMine
    <2>5. QED
      BY <2>1, <2>2, <2>4, FlushKeeps
  <1>6. QED
    BY <1>3, <1>4, <1>5, ClearItemCredit DEF Flush

-----------------------------------------------------------------------------
(***************************************************************************)
(* io threads.                                                             *)
(***************************************************************************)
\* Charts go from a partition to the batch of an io thread that had none.
LEMMA BatchTaken ==
    ASSUME IInv, CInv, NEW w \in Writers, NEW i \in Partitions,
           NEW from \in {"pop", "scan"}, NEW to \in {"flush", "account"},
           TakesBatch(w, i, from, to), Policy = "Strict" => to = "flush",
           UNCHANGED <<budgetVars, poolVars, inputVars, sharedVars>>
    PROVE  CInv'
  <1> DEFINE n == IF WriteBatch < Len(parts[i]) THEN WriteBatch ELSE Len(parts[i])
             a == <<"part", i>>
             b == <<"batch", w>>
             S == ElementsOf(Taken(i, WriteBatch))
  <1>1. /\ TypeOK /\ PlacesInv /\ BudgetInv /\ BuffersInv /\ ~inputBroken
        /\ SequencesInv /\ StrictInv
        /\ parts \in [Partitions -> Seq(Positions)]
        /\ batch \in [Computes \cup Writers -> Seq(Positions)]
        /\ resume \in [Computes \cup Writers -> Resumptions]
        /\ pc \in [Threads -> Labels]
    BY DEF CInv, IInv, TypeOK, PlacesTypeOK, ThreadsTypeOK
  <1>2. /\ pc[w] = from /\ pc' = [pc EXCEPT ![w] = to]
        /\ batch' = [batch EXCEPT ![w] = Taken(i, WriteBatch)]
        /\ resume' = [resume EXCEPT ![w] = "pop"]
        /\ UNCHANGED <<cur, ahead, outputBroken, next, queue, lease, used,
                       creditBroken, poolVars, inputBroken>>
    BY DEF TakesBatch, Moves, TakeBatch, budgetVars, inputVars, sharedVars
  <1>3. parts[i] \in Seq(Positions) /\ NoRepeat(parts[i])
    BY <1>1 DEF SequencesInv
  <1>4. n \in 0 .. Len(parts[i]) /\ Taken(i, WriteBatch) = SubSeq(parts[i], 1, n)
    <2>1. Len(parts[i]) \in Nat /\ WriteBatch \in Nat
      BY <1>3, LenProperties, PipelineAssumption
    <2>2. QED
      BY <2>1 DEF Taken
  <1>5. parts' = [parts EXCEPT ![i] = SubSeq(parts[i], n + 1, Len(parts[i]))]
    <2>1. Len(Taken(i, WriteBatch)) = n
      <3>1. Len(parts[i]) \in Nat
        BY <1>3, LenProperties
      <3>2. \A j \in 1 .. n : parts[i][j] \in Positions
        BY <1>3, <1>4, <3>1, ElementOfSeq
      <3>3. Len(SubSeq(parts[i], 1, n)) = IF 1 <= n THEN n - 1 + 1 ELSE 0
        BY <1>4, <3>1, <3>2, SubSeqProperties
      <3>4. QED
        BY <1>4, <3>1, <3>3
    <2>2. QED
      BY <2>1 DEF TakesBatch, TakeBatch
  <1> HIDE DEF n
  <1>6. /\ parts'[i] = SubSeq(parts[i], n + 1, Len(parts[i]))
        /\ \A j \in Partitions : j # i => parts'[j] = parts[j]
        /\ batch'[w] = Taken(i, WriteBatch)
        /\ \A x \in Computes \cup Writers : x # w => batch'[x] = batch[x]
    BY <1>1, <1>2, <1>5
  <1>7. /\ NoRepeat(batch'[w]) /\ NoRepeat(parts'[i])
        /\ S \subseteq ElementsOf(parts[i])
        /\ ElementsOf(parts'[i]) = ElementsOf(parts[i]) \ S
        /\ ElementsOf(batch'[w]) = S
    BY <1>3, <1>4, <1>6, SplitOnce
  <1>8. ElementsOf(batch[w]) = {}
    <2>1. batch[w] = <<>>
      BY <1>1, <1>2 DEF SequencesInv
    <2>2. QED
      BY <2>1 DEF ElementsOf
  <1>9. ElementsOf(parts[i]) \subseteq Positions
    BY <1>3, LenProperties, ElementOfSeq DEF ElementsOf
  <1>10. /\ \A x \in Writers : pc'[x] = IF x = w THEN to ELSE pc[x]
         /\ \A x \in Readers \cup Computes : SameThread(x)
    BY <1>1, <1>2, Kinds DEF SameThread
  <1>11. SequencesInv' /\ StrictInv'
    <2>1. /\ \A j \in Partitions : NoRepeat(parts[j])'
          /\ \A x \in Computes \cup Writers : NoRepeat(batch[x])'
      BY <1>1, <1>6, <1>7 DEF SequencesInv, NoRepeat
    <2>2. QED
      BY <1>1, <1>2, <1>6, <1>10, <2>1 DEF SequencesInv, StrictInv, NoRepeat
  <1>12. \A k \in Places : k # a /\ k # b => Untouched(k)
    <2> DEFINE K == {a, b}
    <2>1. /\ \A x \in Computes \cup Writers : <<"batch", x>> \in K \/ batch'[x] = batch[x]
          /\ \A j \in Partitions : <<"part", j>> \in K \/ parts'[j] = parts[j]
      BY <1>6
    <2> HIDE DEF K
    <2>2. \A k \in Places \ K : Untouched(k)
      BY <1>2, <1>10, <2>1, Elsewhere
    <2>3. QED
      BY <2>2 DEF K
  <1>13. /\ a \in Places /\ b \in Places /\ a # b
    BY DEF Places
  <1>14. /\ Held(a) = ElementsOf(parts[i]) /\ Held(a)' = ElementsOf(parts'[i])
         /\ Held(b) = ElementsOf(batch[w]) /\ Held(b)' = ElementsOf(batch'[w])
         /\ \A p : /\ Stage(a, p) = "encoded" /\ Stage(a, p)' = "encoded"
                   /\ Stage(b, p) = "encoded" /\ Stage(b, p)' = "encoded"
    BY HeldOf, HeldAfter, StageOf
  <1> HIDE DEF a, b
  <1>15. PICK T \in SUBSET Positions : T = S
    BY <1>7, <1>9
  <1> HIDE DEF S
  <1>16. /\ TouchedIn(a, T) /\ TouchedIn(b, T)
         /\ \A p \in T : p \in Held(a) /\ p \notin Held(a)' /\ p \in Held(b)'
    BY <1>7, <1>8, <1>14, <1>15 DEF TouchedIn
  <1>17. \A p \in T : lease'[p] = Owed(Stage(b, p)', p) /\ p \in Buffered
    <2>1. \A p \in T : lease[p] = Owed(Stage(a, p), p)
      BY <1>1, <1>13, <1>16 DEF PlacesInv, LeaseDue
    <2>2. \A p \in T : p \in Buffered
      BY <1>13, <1>14, <1>16 DEF Buffered
    <2>3. QED
      BY <1>2, <1>14, <2>1, <2>2
  <1>18. /\ PlacesInv'
         /\ Buffered' = (Buffered \ T) \cup {p \in T : InBuffer(b, p)'}
    <2>1. /\ \A p \in Positions \ T : lease'[p] = lease[p]
          /\ \A p \in T : p \in Held(b)' => lease'[p] = Owed(Stage(b, p)', p)
          /\ \A p \in T : p \notin Held(b)' => lease'[p] = 0
      BY <1>2, <1>16, <1>17
    <2>2. /\ \A p \in T : p \in Held(a)
          /\ a # b => \A p \in T : p \notin Held(a)'
          /\ TouchedIn(a, T) /\ TouchedIn(b, T)
      BY <1>16
    <2>3. QED
      BY <1>1, <1>12, <1>13, <2>1, <2>2, Relocation
  <1>19. \A p \in T : InBuffer(b, p)'
    BY <1>14, <1>16 DEF InBuffer
  <1>20. Buffered' = Buffered
    BY <1>17, <1>18, <1>19
  <1>21. QED
    BY <1>1, <1>2, <1>11, <1>18, <1>20, BudgetSame, BuffersSame DEF CInv

\* A step of an io thread that takes nothing.
LEMMA WriterIdle ==
    ASSUME IInv, CInv, NEW w \in Writers, NEW to,
           pc' = [pc EXCEPT ![w] = to],
           UNCHANGED <<budgetVars, poolVars, inputVars, sharedVars, parts, batch,
                       resume, cur, ahead>>,
           to \in {"pop", "scan", "meta"} => batch[w] = <<>>,
           Policy = "Strict" =>
               UNCHANGED outputBroken /\ to \notin {"scan", "meta", "account"}
    PROVE  CInv'
  <1>1. /\ PlacesInv /\ BudgetInv /\ BuffersInv /\ ~inputBroken
        /\ SequencesInv /\ StrictInv
        /\ pc \in [Threads -> Labels]
    BY DEF CInv, IInv, TypeOK, ThreadsTypeOK
  <1>2. /\ \A x \in Writers : pc'[x] = IF x = w THEN to ELSE pc[x]
        /\ \A x \in Readers \cup Computes : SameThread(x)
    BY <1>1, Kinds DEF SameThread
  <1>3. SequencesInv' /\ StrictInv'
    BY <1>1, <1>2 DEF SequencesInv, StrictInv, NoRepeat
  <1>4. UNCHANGED <<next, queue, used, lease, creditBroken, inputBroken>>
    BY DEF budgetVars, inputVars, sharedVars
  <1>5. \A k \in Places \ {} : Untouched(k)
    BY <1>2, <1>4, Elsewhere
  <1>6. PlacesInv' /\ Buffered' = Buffered
    BY <1>1, <1>4, <1>5, NothingMoves
  <1>7. QED
    BY <1>1, <1>3, <1>4, <1>6, BudgetSame, BuffersSame DEF CInv

\* No step of pop_batch disturbs the credit.
LEMMA WriterCredit ==
    ASSUME IInv, CInv, NEW w \in Writers, Writer(w)
    PROVE  CInv'
  <1> USE DEF Goes, Moves, KeepLocals
  <1>1. /\ Home(w) \in Partitions
        /\ \A j \in Nat : j % PartitionCount \in Partitions
        /\ cursor[w] \in Nat /\ offset[w] \in Nat
    <2>1. cursor[w] \in Partitions /\ offset[w] \in Nat
      BY DEF IInv, TypeOK, ThreadsTypeOK
    <2>2. Partitions \subseteq Nat
      BY OutputAssumption DEF Partitions
    <2>3. QED
      BY <2>1, <2>2, HomeType
  <1>2. /\ \A x \in Writers : pc[x] \in {"pop", "scan", "meta"} => batch[x] = <<>>
        /\ Policy = "Strict" => pc[w] \notin {"scan", "meta", "account"}
        /\ pc \in [Threads -> Labels] /\ w \in Threads
    BY Kinds DEF CInv, SequencesInv, StrictInv, IInv, TypeOK, ThreadsTypeOK
  <1>3. CASE StrictPop(w)
    <2>1. CASE TakesBatch(w, Home(w), "pop", "flush")
      BY <1>1, <1>3, <2>1, BatchTaken DEF StrictPop
    <2>2. CASE ~TakesBatch(w, Home(w), "pop", "flush")
      <3>1. /\ pc[w] = "pop" /\ \E to \in {"done", "pop"} : pc' = [pc EXCEPT ![w] = to]
            /\ UNCHANGED <<budgetVars, poolVars, inputVars, sharedVars, parts,
                           batch, resume, cur, ahead, outputBroken>>
        BY <1>3, <2>2 DEF StrictPop, outputVars, Doze
      <3>2. QED
        BY <1>2, <3>1, WriterIdle
    <2>3. QED
      BY <2>1, <2>2
  <1>4. CASE LocalPop(w)
    <2>1. Policy # "Strict"
      BY <1>4 DEF LocalPop
    <2>2. CASE TakesBatch(w, Home(w), "pop", "account")
      BY <1>1, <1>4, <2>1, <2>2, BatchTaken DEF LocalPop
    <2>3. CASE ~TakesBatch(w, Home(w), "pop", "account")
      <3>1. /\ pc[w] = "pop" /\ pc' = [pc EXCEPT ![w] = "scan"]
            /\ UNCHANGED <<budgetVars, poolVars, inputVars, sharedVars, parts,
                           batch, resume, cur, ahead>>
        BY <1>4, <2>3 DEF LocalPop, outputVars
      <3>2. QED
        BY <1>2, <2>1, <3>1, WriterIdle
    <2>4. QED
      BY <2>2, <2>3
  <1>5. CASE Scan(w)
    <2> DEFINE i == (cursor[w] + offset[w]) % PartitionCount
    <2>1. i \in Partitions /\ pc[w] = "scan" /\ Policy # "Strict"
      BY <1>1, <1>2, <1>5 DEF Scan, TakesBatch
    <2>2. CASE TakesBatch(w, i, "scan", "account")
      <3> HIDE DEF i
      <3>1. UNCHANGED <<budgetVars, poolVars, inputVars, sharedVars>>
        BY <1>5 DEF Scan
      <3>2. QED
        BY <2>1, <2>2, <3>1, BatchTaken
    <2>3. CASE ~TakesBatch(w, i, "scan", "account")
      <3>1. /\ \E to \in {"meta", "scan"} : pc' = [pc EXCEPT ![w] = to]
            /\ UNCHANGED <<budgetVars, poolVars, inputVars, sharedVars, parts,
                           batch, resume, cur, ahead>>
        BY <1>5, <2>3 DEF Scan, outputVars
      <3>2. QED
        BY <1>2, <2>1, <3>1, WriterIdle
    <2>4. QED
      BY <2>2, <2>3
  <1>6. CASE MetaWait(w)
    <2>1. /\ pc[w] = "meta"
          /\ \E to \in {"pop", "done", "meta"} : pc' = [pc EXCEPT ![w] = to]
          /\ UNCHANGED <<budgetVars, poolVars, inputVars, sharedVars, parts,
                         batch, resume, cur, ahead, outputBroken>>
      BY <1>6 DEF MetaWait, outputVars, Doze
    <2>2. QED
      BY <1>2, <2>1, WriterIdle
  <1>7. CASE Account(w)
    <2>1. /\ pc[w] = "account" /\ pc' = [pc EXCEPT ![w] = "flush"]
          /\ UNCHANGED <<budgetVars, poolVars, inputVars, sharedVars, parts,
                         batch, resume, cur, ahead>>
      BY <1>7 DEF Account, AccountPopped
    <2>2. QED
      BY <1>2, <2>1, WriterIdle
  <1>8. CASE Sleep(w)
    <2>1. UNCHANGED <<budgetVars, poolVars, inputVars, sharedVars, threadVars,
                      parts, outputBroken>>
      BY <1>8 DEF Sleep, FallAsleep
    <2>2. QED
      BY <2>1, IdleCredit
         DEF budgetVars, inputVars, sharedVars, threadVars
  <1>9. QED
    BY <1>3, <1>4, <1>5, <1>6, <1>7, <1>8 DEF Writer

-----------------------------------------------------------------------------
(***************************************************************************)
(* The invariant and what it gives.                                        *)
(***************************************************************************)
\* Every chart is yet to be claimed, and owes nothing.
LEMMA InitCredit == Init => CInv
  <1> SUFFICES ASSUME Init PROVE CInv
    OBVIOUS
  <1> USE DEF Init, BudgetInit, InputInit, OutputInit
  <1>1. /\ \A t \in Readers \cup Computes : pc[t] = "loop"
        /\ \A w \in Writers : pc[w] = "pop"
    BY Kinds
  <1>2. \A t \in Readers \cup Computes : Mine(t) = {}
    BY <1>1, Kinds DEF Mine, InHand, Busy
  <1>3. /\ Held(QueuePlace) = {}
        /\ \A t \in Readers \cup Computes : Held(<<"thread", t>>) = {}
        /\ \A i \in Partitions : Held(<<"part", i>>) = {}
        /\ \A t \in Computes \cup Writers : Held(<<"batch", t>>) = {}
    BY <1>2, HeldOf DEF ElementsOf
  <1>4. \A k \in Places : k # FreePlace => Held(k) = {}
    BY <1>3, PlaceKinds
  <1>5. PlacesInv
    <2>1. \A p \in Positions : Stage(FreePlace, p) = "none" /\ lease[p] = 0
      BY StageOf
    <2>2. QED
      BY <1>4, <2>1 DEF PlacesInv, PlacedOnce, LeaseDue, Owed
  <1>6. SequencesInv
    BY DEF SequencesInv, NoRepeat
  <1>7. BudgetInv
    <2>1. CreditUnits = {}
      BY DEF CreditUnits
    <2>2. QED
      BY <2>1, FS_EmptySet, BudgetAssumption DEF BudgetInv, BudgetBound
  <1>8. BuffersInv
    <2>1. Buffered = {}
      BY <1>4, StageOf DEF Buffered
    <2>2. QED
      BY <2>1, FS_EmptySet, BudgetAssumption DEF BuffersInv
  <1>9. StrictInv
    BY <1>1 DEF StrictInv
  <1>10. QED
    BY <1>5, <1>6, <1>7, <1>8, <1>9 DEF CInv

\* No step of any thread disturbs it.
LEMMA NextCredit == IInv /\ CInv /\ [Next]_vars => CInv'
  <1> SUFFICES ASSUME IInv, CInv, [Next]_vars PROVE CInv'
    OBVIOUS
  <1>1. CASE \E t \in Threads : Step(t)
    <2> PICK t \in Threads : Step(t)
      BY <1>1
    <2>1. CASE t \in Readers /\ Reader(t)
      BY <2>1, ReaderCredit
    <2>2. CASE t \in Computes /\ Compute(t)
      BY <2>2, ComputeCredit
    <2>3. CASE t \in Writers /\ Writer(t)
      BY <2>3, WriterCredit
    <2>4. CASE t \in Computes \cup Writers /\ Flush(t)
      BY <2>4, FlushCredit
    <2>5. CASE t \in Readers \cup Computes \cup Writers /\ Fail(t)
      BY <2>5, FailCredit
    <2>6. CASE MainStep
      BY <2>6, MainCredit
    <2>7. QED
      BY <2>1, <2>2, <2>3, <2>4, <2>5, <2>6 DEF Step
  <1>2. CASE \E t \in Threads : SpuriousWakeup(t)
    BY <1>2, WakeupCredit
  <1>3. CASE Exited \/ UNCHANGED vars
    BY <1>3, WakeupCredit DEF Exited
  <1>4. QED
    BY <1>1, <1>2, <1>3 DEF Next

\* Both invariants hold throughout.
THEOREM CreditInvariant == Spec => [](IInv /\ CInv)
  <1>1. Init => IInv /\ CInv
    BY InitInvariant, InitCredit
  <1>2. IInv /\ CInv /\ [Next]_vars => (IInv /\ CInv)'
    BY NextInvariant, NextCredit
  <1>3. QED
    BY <1>1, <1>2, PTL DEF Spec

\* Where a converted chart may be.
LEMMA InConverted ==
    \A p : p \in Converted <=>
        \/ \E c \in Computes : p = cur[c] /\ pc[c] = "submit"
        \/ \E i \in Partitions : p \in ElementsOf(parts[i])
        \/ \E t \in Computes \cup Writers : p \in ElementsOf(batch[t])
  <1> DEFINE Hands == {cur[c] : c \in {x \in Computes : pc[x] = "submit"}}
             InParts == UNION {ElementsOf(parts[i]) : i \in Partitions}
             InBatches == UNION {ElementsOf(batch[t]) : t \in Computes \cup Writers}
  <1>1. \A p : p \in Hands <=> \E c \in Computes : p = cur[c] /\ pc[c] = "submit"
    OBVIOUS
  <1>2. \A p : p \in InParts <=> \E i \in Partitions : p \in ElementsOf(parts[i])
    OBVIOUS
  <1>3. \A p : p \in InBatches <=>
            \E t \in Computes \cup Writers : p \in ElementsOf(batch[t])
    OBVIOUS
  <1>4. Converted = Hands \cup InParts \cup InBatches
    BY DEF Converted
  <1> HIDE DEF Hands, InParts, InBatches
  <1>5. QED
    BY <1>1, <1>2, <1>3, <1>4

\* Unconverted and Converted name the charts of two stages each.
LEMMA StageOfUnconverted ==
    ASSUME NEW p \in Positions
    PROVE  p \in Unconverted <=>
               \E k \in Places : p \in Held(k) /\ Stage(k, p) \in {"read", "kernel"}
  <1>1. QueuePlace \in Places /\ \A t \in Readers \cup Computes : <<"thread", t>> \in Places
    BY DEF Places
  <1>2. p \in Unconverted <=>
            \/ p \in queue
            \/ \E r \in Readers : p = cur[r] /\ pc[r] \in {"read", "push"}
            \/ \E c \in Computes :
                   p = cur[c] /\ pc[c] \in {"read", "process", "refused", "kernel"}
    BY DEF Unconverted
  <1>3. \A r \in Readers : p = cur[r] /\ pc[r] \in {"read", "push"} <=>
            p \in Mine(r) /\ MyStage(r, p) \in {"read", "kernel"}
    BY ReaderMine DEF HandLabels
  <1>4. \A c \in Computes :
            p = cur[c] /\ pc[c] \in {"read", "process", "refused", "kernel"} <=>
            p \in Mine(c) /\ MyStage(c, p) \in {"read", "kernel"}
    BY ComputeMine DEF TakenLabels, ReadLabels, KernelLabels
  <1>5. ASSUME p \in Unconverted
        PROVE  \E k \in Places : p \in Held(k) /\ Stage(k, p) \in {"read", "kernel"}
    <2> DEFINE Here(k) == p \in Held(k) /\ Stage(k, p) \in {"read", "kernel"}
    <2>1. CASE p \in queue
      <3>1. Here(QueuePlace)
        BY <2>1, HeldOf, StageOf
      <3>2. QED
        BY <1>1, <3>1
    <2>2. CASE \E x \in Readers \cup Computes :
                  p \in Mine(x) /\ MyStage(x, p) \in {"read", "kernel"}
      <3>1. PICK x \in Readers \cup Computes :
                p \in Mine(x) /\ MyStage(x, p) \in {"read", "kernel"}
        BY <2>2
      <3>2. Here(<<"thread", x>>)
        BY <3>1, HeldOf, StageOf
      <3>3. QED
        BY <1>1, <3>2
    <2>3. QED
      BY <1>2, <1>3, <1>4, <1>5, <2>1, <2>2
  <1>6. ASSUME NEW k \in Places, p \in Held(k), Stage(k, p) \in {"read", "kernel"}
        PROVE  p \in Unconverted
    <2>1. \/ k = QueuePlace /\ p \in queue
          \/ \E x \in Readers \cup Computes :
                 p \in Mine(x) /\ MyStage(x, p) \in {"read", "kernel"}
      BY <1>6, PlaceKinds, HeldOf, StageOf
    <2>2. QED
      BY <1>2, <1>3, <1>4, <2>1
  <1>7. QED
    BY <1>5, <1>6

LEMMA StageOfConverted ==
    ASSUME NEW p \in Positions
    PROVE  p \in Converted <=>
               \E k \in Places : p \in Held(k) /\ Stage(k, p) = "encoded"
  <1>1. /\ \A t \in Readers \cup Computes : <<"thread", t>> \in Places
        /\ \A i \in Partitions : <<"part", i>> \in Places
        /\ \A t \in Computes \cup Writers : <<"batch", t>> \in Places
    BY DEF Places
  <1>2. \A c \in Computes : p = cur[c] /\ pc[c] = "submit" <=>
            p \in Mine(c) /\ MyStage(c, p) = "encoded"
    BY ComputeMine DEF TakenLabels, ReadLabels, KernelLabels
  <1>3. \A r \in Readers : MyStage(r, p) # "encoded"
    BY ReaderMine
  <1>4. ASSUME p \in Converted
        PROVE  \E k \in Places : p \in Held(k) /\ Stage(k, p) = "encoded"
    <2> DEFINE Here(k) == p \in Held(k) /\ Stage(k, p) = "encoded"
    <2>1. CASE \E c \in Computes : p = cur[c] /\ pc[c] = "submit"
      <3>1. PICK c \in Computes : p \in Mine(c) /\ MyStage(c, p) = "encoded"
        BY <1>2, <2>1
      <3>2. Here(<<"thread", c>>)
        BY <3>1, HeldOf, StageOf
      <3>3. QED
        BY <1>1, <3>2
    <2>2. CASE \E i \in Partitions : p \in ElementsOf(parts[i])
      <3>1. PICK i \in Partitions : p \in ElementsOf(parts[i])
        BY <2>2
      <3>2. Here(<<"part", i>>)
        BY <3>1, HeldOf, StageOf
      <3>3. QED
        BY <1>1, <3>2
    <2>3. CASE \E t \in Computes \cup Writers : p \in ElementsOf(batch[t])
      <3>1. PICK t \in Computes \cup Writers : p \in ElementsOf(batch[t])
        BY <2>3
      <3>2. Here(<<"batch", t>>)
        BY <3>1, HeldOf, StageOf
      <3>3. QED
        BY <1>1, <3>2
    <2>4. QED
      BY <1>4, <2>1, <2>2, <2>3, InConverted
  <1>5. ASSUME NEW k \in Places, p \in Held(k), Stage(k, p) = "encoded"
        PROVE  p \in Converted
    <2>1. \/ \E x \in Readers \cup Computes : p \in Mine(x) /\ MyStage(x, p) = "encoded"
          \/ \E i \in Partitions : p \in ElementsOf(parts[i])
          \/ \E x \in Computes \cup Writers : p \in ElementsOf(batch[x])
      BY <1>5, PlaceKinds, HeldOf, StageOf
    <2>2. QED
      BY <1>2, <1>3, <2>1, InConverted
  <1>6. QED
    BY <1>4, <1>5

\* A chart is in one place, so one of the two says what its lease is.
LEMMA LeaseByStage ==
    ASSUME IInv, CInv, NEW p \in Positions
    PROVE  lease[p] = CASE p \in Unconverted -> Reservation(p)
                        [] p \in Converted   -> EncodedBytes
                        [] OTHER             -> 0
  <1>1. PlacedOnce(p) /\ LeaseDue(p)
    BY DEF CInv, PlacesInv
  <1>2. ~(p \in Unconverted /\ p \in Converted)
    BY <1>1, StageOfUnconverted, StageOfConverted DEF PlacedOnce
  <1>3. p \in Unconverted => lease[p] = Reservation(p)
    <2> SUFFICES ASSUME p \in Unconverted PROVE lease[p] = Reservation(p)
      OBVIOUS
    <2>1. PICK k \in Places : p \in Held(k) /\ Stage(k, p) \in {"read", "kernel"}
      BY StageOfUnconverted
    <2>2. QED
      BY <1>1, <2>1 DEF LeaseDue, Owed
  <1>4. p \in Converted => lease[p] = EncodedBytes
    <2> SUFFICES ASSUME p \in Converted PROVE lease[p] = EncodedBytes
      OBVIOUS
    <2>1. PICK k \in Places : p \in Held(k) /\ Stage(k, p) = "encoded"
      BY StageOfConverted
    <2>2. QED
      BY <1>1, <2>1 DEF LeaseDue, Owed
  <1>5. p \notin Unconverted /\ p \notin Converted => lease[p] = 0
    BY <1>1, StageOfUnconverted, StageOfConverted DEF LeaseDue, Owed
  <1>6. QED
    BY <1>2, <1>3, <1>4, <1>5

\* The credit used is the sum of the leases, and a lease is what the stage of
\* its chart must hold, on every path of read_reserved_item, process_item,
\* submit and flush_inline, a fault included: no byte leaks, none is given
\* back twice, for any manifest and any number of threads.
THEOREM CreditIsConserved == Spec => []CreditConserved
  <1>1. IInv /\ CInv => CreditConserved
    BY LeaseByStage DEF CInv, BudgetInv, CreditConserved
  <1>2. QED
    BY <1>1, CreditInvariant, PTL

\* CreditBudget::acquire lets the pipeline pass its capacity only for a chart
\* that is alone in it, however the threads interleave.
THEOREM BudgetIsBounded == Spec => []BudgetBound
  <1>1. IInv /\ CInv => BudgetBound
    BY DEF CInv, BudgetInv
  <1>2. QED
    BY <1>1, CreditInvariant, PTL

\* No release passes what is held, no buffer is given to a full pool and no
\* item is pushed without a slot: the asserts of CreditBudget, CreditLease,
\* EncodedBufferPool and InputQueue hold under every policy.
THEOREM AssertionsHold == Spec => []~(creditBroken \/ poolBroken \/ inputBroken)
  <1>1. IInv /\ CInv => ~(creditBroken \/ poolBroken \/ inputBroken)
    BY DEF CInv, BudgetInv, BuffersInv
  <1>2. QED
    BY <1>1, CreditInvariant, PTL

\* With the policy Strict, which counts an output under the mutex of its
\* partition, no member of any queue, budget or pool calls std::terminate.
\* The other policies count under meta_mutex_ and may (hp_count_race).
THEOREM NothingBreaks ==
    ASSUME Policy = "Strict" PROVE Spec => []NeverBroken
  <1>1. IInv /\ CInv => NeverBroken
    BY DEF CInv, BudgetInv, BuffersInv, StrictInv, NeverBroken, Terminated
  <1>2. QED
    BY <1>1, CreditInvariant, PTL
=============================================================================
