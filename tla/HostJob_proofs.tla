--------------------------- MODULE HostJob_proofs ---------------------------
(***************************************************************************)
(* HostPipeline implements ConversionJob, for any number of charts and     *)
(* threads: whatever the threads do, the files of a chart are written at   *)
(* most once, and run returns normally only when those of every chart are. *)
(*                                                                         *)
(* CInv of HostPipeline_proofs gives each chart one place at most. JInv    *)
(* says that a chart in no place was written, unless a thread is on its    *)
(* way into fail, and that a thread leaves its loop only when what it      *)
(* would work on is empty for good; when the main thread has joined all of *)
(* them, every place is.                                                   *)
(***************************************************************************)
EXTENDS HostPipeline_proofs

\* A thread that will call fail, or is about to, and cannot do anything else.
Doomed(t) ==
    \/ pc[t] \in {"cancel", "fail"}
    \/ t \in Writers /\ pc[t] = "clear" /\ resume[t] = "fail"

Workforce == Readers \cup Computes \cup Writers

\* run will throw.
GivingUp == failed \/ \E t \in Workforce : Doomed(t)

FailSteps == {"fail_credit", "fail_input", "fail_output", "fail_notify", "fail_workers"}
MainLabels == {"join_compute", "finish_output", "notify_output", "stop_input",
               "stop_credit", "join_readers", "returned", "threw"}

\* Who stops and finishes the queues, and when the main thread gets where.
StopsInv ==
    /\ \A t \in Workforce : pc[t] \in FailSteps => failed
    /\ inputStopped => failed \/ pc[Main] # "join_compute"
    /\ outputStopped => failed
    /\ outputFinished => pc[Main] # "join_compute"
    /\ pc[Main] \in MainLabels
    /\ pc[Main] # "join_compute" => Joined(Computes)
    /\ pc[Main] \in {"returned", "threw"} => Joined(Readers) /\ Joined(Writers)
    /\ pc[Main] = "returned" => ~failed

\* A compute thread that has left its loop.
Gone(c) == pc[c] = "done" \/ (pc[c] \in {"flush", "clear"} /\ resume[c] = "done")

\* Readers leave when the schedule is claimed, the input is finished when they
\* have left, and compute threads leave when there is nothing to take.
LeaveInv ==
    /\ remainingReaders = Cardinality({r \in Readers : pc[r] # "done"})
    /\ inputFinished => Joined(Readers)
    /\ \A r \in Readers : pc[r] \in {"leave", "done"} => GivingUp \/ next >= Charts
    /\ \A c \in Computes : Gone(c) =>
          \/ GivingUp
          \/ InputReaders > 0 /\ inputFinished /\ expected >= Charts
          \/ InputReaders = 0 /\ next >= Charts

\* A compute thread that has claimed a position of the input and not taken it.
Wants(c) ==
    \/ pc[c] \in {"try", "pop"}
    \/ pc[c] \in {"flush", "clear"} /\ resume[c] = "pop"

Wanted(p) == p >= expected \/ \E c \in Computes : Wants(c) /\ cur[c] = p

\* The charts that did not reach a compute thread yet.
Upstream ==
    {p \in Positions : p >= next} \cup queue \cup UNION {Mine(r) : r \in Readers}

\* What is upstream is what will be taken, by one thread.
DemandInv ==
    /\ InputReaders = 0 => queue = {}
    /\ InputReaders > 0 =>
          /\ \A c \in Computes : Wants(c) => cur[c] < expected
          /\ \A c, d \in Computes : Wants(c) /\ Wants(d) /\ cur[c] = cur[d] => c = d
          /\ GivingUp \/ \A p \in Positions : p \in Upstream <=> Wanted(p)

\* An io thread leaves when the partitions it serves are empty for good.
WriterPlace(w) ==
    /\ pc[w] \in {"account", "flush"} => resume[w] = "pop"
    /\ pc[w] = "clear" => resume[w] \in {"pop", "fail"}
    /\ pc[w] = "done" =>
          \/ GivingUp
          \/ /\ outputFinished
             /\ batch[w] = <<>>
             /\ \A i \in Partitions :
                   Policy # "Strict" \/ i = Home(w) => parts[i] = <<>>

ShelvesInv ==
    /\ IoWorkers = 0 => \A i \in Partitions : parts[i] = <<>>
    /\ IoWorkers > 0 => \A c \in Computes : batch[c] = <<>>
    /\ \A c \in Computes : pc[c] = "done" => batch[c] = <<>>
    /\ \A w \in Writers : WriterPlace(w)

Counting == {c \in Computes : pc[c] = "count"}
Unaccounted ==
    {p \in Positions :
        \/ \E i \in Partitions : p \in ElementsOf(parts[i])
        \/ \E w \in Writers : pc[w] = "account" /\ p \in ElementsOf(batch[w])}

\* queued_ is behind by those that are pushed and not counted.
CountInv ==
    Policy # "Strict" /\ ~outputBroken =>
        queued + Cardinality(Counting) = Cardinality(Unaccounted)

InBatch == UNION {ElementsOf(batch[t]) : t \in Computes \cup Writers}
InWork  == UNION {Mine(c) : c \in Computes}
OnShelf == UNION {ElementsOf(parts[i]) : i \in Partitions}
Waiting == Upstream \cup InWork \cup OnShelf

Failing == FailSteps \cup {"fail"}

\* The files of a chart are written when it is in a batch, in the order of the batch.
BatchWritten(t) ==
    /\ pc[t] \notin {"flush", "clear", "done"} \cup Failing => wix[t] = 0
    /\ pc[t] \notin {"clear", "done"} \cup Failing =>
          \A i \in DOMAIN batch[t] :
              written[batch[t][i]] = IF i <= wix[t] THEN 1 ELSE 0
    /\ pc[t] = "clear" => GivingUp \/ \A p \in ElementsOf(batch[t]) : written[p] = 1

WrittenInv ==
    /\ \A t \in Computes \cup Writers : BatchWritten(t)
    /\ \A p \in Positions :
          /\ written[p] \in {0, 1}
          /\ p \in Waiting => written[p] = 0
          /\ p \in Waiting \/ p \in InBatch \/ written[p] = 1 \/ GivingUp

JInv == StopsInv /\ LeaveInv /\ DemandInv /\ ShelvesInv /\ CountInv /\ WrittenInv

-----------------------------------------------------------------------------
(***************************************************************************)
(* A step of one thread.                                                   *)
(***************************************************************************)
\* The other threads keep everything they have.
OnlyBy(t) ==
    /\ \A x \in Threads : x # t => pc'[x] = pc[x]
    /\ \A x \in Computes \cup Writers : x # t =>
           resume'[x] = resume[x] /\ batch'[x] = batch[x] /\ wix'[x] = wix[x]
    /\ \A x \in Readers \cup Computes : x # t => cur'[x] = cur[x]
    /\ \A x \in Computes : x # t => ahead'[x] = ahead[x]

\* What the function of a variable is after a step of one thread.
SetAt(f, g, t) == g = f \/ \E v : g = [f EXCEPT ![t] = v]

LEMMA LocalStep ==
    ASSUME IInv, NEW t \in Workforce,
           SetAt(pc, pc', t), SetAt(resume, resume', t), SetAt(batch, batch', t),
           SetAt(wix, wix', t), SetAt(cur, cur', t), SetAt(ahead, ahead', t)
    PROVE  /\ OnlyBy(t)
           /\ \A v : pc' = [pc EXCEPT ![t] = v] => pc'[t] = v
           /\ t \in Computes \cup Writers =>
                \A v : /\ resume' = [resume EXCEPT ![t] = v] => resume'[t] = v
                       /\ batch' = [batch EXCEPT ![t] = v] => batch'[t] = v
                       /\ wix' = [wix EXCEPT ![t] = v] => wix'[t] = v
           /\ t \in Readers \cup Computes =>
                \A v : cur' = [cur EXCEPT ![t] = v] => cur'[t] = v
           /\ t \in Computes =>
                \A v : ahead' = [ahead EXCEPT ![t] = v] => ahead'[t] = v
  <1>1. /\ pc \in [Threads -> Labels]
        /\ resume \in [Computes \cup Writers -> Resumptions]
        /\ batch \in [Computes \cup Writers -> Seq(Positions)]
        /\ wix \in [Computes \cup Writers -> Nat]
        /\ cur \in [Readers \cup Computes -> Nat]
        /\ ahead \in [Computes -> Nat]
    BY DEF IInv, TypeOK, ThreadsTypeOK, PlacesTypeOK
  <1>2. t \in Threads
    BY Kinds DEF Workforce
  <1>3. /\ \A x \in Threads : x # t => pc'[x] = pc[x]
        /\ \A v : pc' = [pc EXCEPT ![t] = v] => pc'[t] = v
    BY ONLY <1>1, <1>2, SetAt(pc, pc', t) DEF SetAt
  <1>4. /\ \A x \in Computes \cup Writers : x # t => resume'[x] = resume[x]
        /\ t \in Computes \cup Writers =>
             \A v : resume' = [resume EXCEPT ![t] = v] => resume'[t] = v
    BY ONLY <1>1, SetAt(resume, resume', t) DEF SetAt
  <1>5. /\ \A x \in Computes \cup Writers : x # t => batch'[x] = batch[x]
        /\ t \in Computes \cup Writers =>
             \A v : batch' = [batch EXCEPT ![t] = v] => batch'[t] = v
    BY ONLY <1>1, SetAt(batch, batch', t) DEF SetAt
  <1>6. /\ \A x \in Computes \cup Writers : x # t => wix'[x] = wix[x]
        /\ t \in Computes \cup Writers =>
             \A v : wix' = [wix EXCEPT ![t] = v] => wix'[t] = v
    BY ONLY <1>1, SetAt(wix, wix', t) DEF SetAt
  <1>7. /\ \A x \in Readers \cup Computes : x # t => cur'[x] = cur[x]
        /\ t \in Readers \cup Computes =>
             \A v : cur' = [cur EXCEPT ![t] = v] => cur'[t] = v
    BY ONLY <1>1, SetAt(cur, cur', t) DEF SetAt
  <1>8. /\ \A x \in Computes : x # t => ahead'[x] = ahead[x]
        /\ t \in Computes =>
             \A v : ahead' = [ahead EXCEPT ![t] = v] => ahead'[t] = v
    BY ONLY <1>1, SetAt(ahead, ahead', t) DEF SetAt
  <1>9. QED
    BY <1>3, <1>4, <1>5, <1>6, <1>7, <1>8 DEF OnlyBy

\* The hands of the others stay as they are.
LEMMA OthersKeep ==
    ASSUME NEW t, OnlyBy(t)
    PROVE  /\ \A x \in Readers \cup Computes : x # t => Mine(x)' = Mine(x)
           /\ \A x \in Computes : x # t => (Wants(x)' <=> Wants(x))
           /\ \A x \in Computes : x # t => (Gone(x)' <=> Gone(x))
           /\ \A x \in Workforce : x # t => (Doomed(x)' <=> Doomed(x))
  <1>1. Readers \subseteq Threads /\ Computes \subseteq Threads /\ Writers \subseteq Threads
    BY Kinds
  <1>2. ASSUME NEW x \in Readers \cup Computes, x # t PROVE Mine(x)' = Mine(x)
    <2>1. CASE x \in Readers
      <3>1. pc'[x] = pc[x] /\ cur'[x] = cur[x]
        BY <1>1, <1>2, <2>1 DEF OnlyBy
      <3>2. QED
        BY <2>1, <3>1, ReaderMine
    <2>2. CASE x \in Computes
      <3>1. /\ pc'[x] = pc[x] /\ cur'[x] = cur[x]
            /\ resume'[x] = resume[x] /\ ahead'[x] = ahead[x]
        BY <1>1, <1>2, <2>2 DEF OnlyBy
      <3>2. Busy(x)' = Busy(x)
        BY <3>1 DEF Busy
      <3>3. QED
        BY <2>2, <3>1, <3>2, ComputeMine
    <2>3. QED
      BY <1>2, <2>1, <2>2
  <1>3. \A x \in Workforce : x # t => (Doomed(x)' <=> Doomed(x))
    BY <1>1 DEF OnlyBy, Doomed, Workforce
  <1>4. QED
    BY <1>1, <1>2, <1>3 DEF OnlyBy, Wants, Gone

\* A run that is giving up keeps giving up.
LEMMA GivingUpStays ==
    ASSUME NEW t \in Workforce, OnlyBy(t), failed => failed',
           Doomed(t) => failed' \/ Doomed(t)', GivingUp
    PROVE  GivingUp'
  BY OthersKeep DEF GivingUp

-----------------------------------------------------------------------------
(***************************************************************************)
(* What the steps of a thread do to the charts and the flags, whatever     *)
(* they do to the budget and the waiters.                                  *)
(***************************************************************************)
workVars  == <<next, expected, queue>>
shelfVars == <<parts, queued, outputBroken>>
stopVars  == <<failed, inputStopped, outputStopped, outputFinished>>
endVars   == <<inputFinished, remainingReaders>>

\* Readers.
ReaderTakes(r) ==
    /\ pc[r] = "claim" /\ pc'[r] = "reserve"
    /\ next < Charts /\ cur'[r] = next /\ next' = next + 1
    /\ UNCHANGED <<expected, queue, endVars>>
ReaderGoes(r) ==
    /\ pc'[r] = "leave"
    /\ \/ pc[r] = "loop" /\ failed
       \/ pc[r] = "claim" /\ next >= Charts
       \/ pc[r] \in {"reserve", "push"} /\ inputStopped
    /\ next' = next \/ (next >= Charts /\ next' = next + 1)
    /\ UNCHANGED <<expected, queue, endVars>>
ReaderKeeps(r) ==
    /\ \/ pc[r] = "loop" /\ pc'[r] = "claim"
       \/ pc[r] \in HandLabels /\ pc'[r] \in HandLabels
    /\ cur'[r] = cur[r]
    /\ UNCHANGED <<workVars, endVars>>
ReaderFails(r) ==
    /\ \/ pc[r] \in {"acquire", "read"} /\ pc'[r] = "cancel"
       \/ pc[r] = "cancel" /\ pc'[r] = "fail"
    /\ UNCHANGED <<workVars, endVars>>
ReaderGives(r) ==
    /\ pc[r] = "push" /\ pc'[r] = "loop"
    /\ queue' = queue \cup {cur[r]}
    /\ UNCHANGED <<next, expected, endVars>>
ReaderEnds(r) ==
    /\ pc[r] = "leave" /\ pc'[r] = "done"
    /\ remainingReaders' = remainingReaders - 1
    /\ inputFinished' = (inputFinished \/ remainingReaders = 1)
    /\ UNCHANGED workVars

LEMMA ReaderDoes ==
    ASSUME IInv, CInv', NEW r \in Readers, Reader(r)
    PROVE  /\ OnlyBy(r) /\ UNCHANGED <<shelfVars, stopVars, written>>
           /\ \/ ReaderTakes(r) \/ ReaderGoes(r) \/ ReaderKeeps(r)
              \/ ReaderFails(r) \/ ReaderGives(r) \/ ReaderEnds(r)
  <1> USE DEF Goes, Moves, KeepLocals
  <1>1. r \in Workforce /\ r \in Readers \cup Computes
    BY DEF Workforce
  <1>2. \E to : pc' = [pc EXCEPT ![r] = to]
    BY DEF Reader, ReaderLoop, ReaderClaim, ReaderReserve, ReaderAcquire, ReaderRead,
           ReaderPush, ReaderCancel, ReaderLeave
  <1>3. UNCHANGED <<resume, ahead, batch, wix>>
    BY DEF Reader, ReaderLoop, ReaderClaim, ReaderReserve, ReaderAcquire, ReaderRead,
           ReaderPush, ReaderCancel, ReaderLeave
  <1>4. SetAt(cur, cur', r)
    BY DEF Reader, ReaderLoop, ReaderClaim, ReaderReserve, ReaderAcquire, ReaderRead,
           ReaderPush, ReaderCancel, ReaderLeave, SetAt
  <1>5. /\ OnlyBy(r)
        /\ \A v : pc' = [pc EXCEPT ![r] = v] => pc'[r] = v
        /\ \A v : cur' = [cur EXCEPT ![r] = v] => cur'[r] = v
    <2>1. /\ SetAt(pc, pc', r) /\ SetAt(resume, resume', r) /\ SetAt(ahead, ahead', r)
          /\ SetAt(batch, batch', r) /\ SetAt(wix, wix', r)
      BY ONLY <1>2, <1>3 DEF SetAt
    <2>2. QED
      BY ONLY IInv, <1>1, <1>4, <2>1, LocalStep
  <1>6. UNCHANGED <<shelfVars, failed, outputStopped, outputFinished, written>>
    BY DEF Reader, ReaderLoop, ReaderClaim, ReaderReserve, ReaderAcquire, ReaderRead,
           ReaderPush, ReaderCancel, ReaderLeave, outputVars, sharedVars, shelfVars
  <1> USE DEF workVars, stopVars, endVars, sharedVars, inputVars
  <1>7. next \in Nat /\ failed \in BOOLEAN /\ inputFinished \in BOOLEAN
    BY DEF IInv, TypeOK, CountersTypeOK, FlagsTypeOK
  <1>8. CASE ReaderClaim(r)
    <2>1. UNCHANGED <<expected, queue, endVars, inputStopped>>
      BY <1>8 DEF ReaderClaim
    <2>2. CASE next >= Charts
      <3>1. ~(next < Charts)
        BY <1>7, <2>2, BudgetAssumption
      <3>2. pc[r] = "claim" /\ pc'[r] = "leave" /\ next' = next + 1
        BY <1>5, <1>8, <3>1 DEF ReaderClaim
      <3>3. QED
        BY <1>5, <1>6, <2>1, <2>2, <3>2 DEF ReaderGoes
    <2>3. CASE next < Charts
      <3>1. ~(next >= Charts)
        BY <1>7, <2>3, BudgetAssumption
      <3>2. QED
        BY <1>5, <1>6, <1>8, <2>1, <2>3, <3>1 DEF ReaderClaim, ReaderTakes
    <2>4. QED
      BY <1>7, <2>2, <2>3, BudgetAssumption
  <1>9. CASE ReaderReserve(r)
    <2>1. UNCHANGED <<workVars, endVars, inputStopped>> /\ pc[r] = "reserve"
      BY <1>9 DEF ReaderReserve, SlotReserved, SlotRefused, SlotAwaited
    <2>2. \/ pc'[r] \in {"acquire", "reserve"} /\ UNCHANGED cur
          \/ pc'[r] = "leave" /\ inputStopped
      BY <1>5, <1>9 DEF ReaderReserve, SlotRefused
    <2>3. QED
      BY <1>5, <1>6, <2>1, <2>2 DEF ReaderKeeps, ReaderGoes, HandLabels
  <1>10. CASE ReaderAcquire(r)
    <2>1. UNCHANGED <<workVars, endVars, inputStopped>> /\ pc[r] = "acquire"
      BY <1>10 DEF ReaderAcquire
    <2>2. \/ pc'[r] \in {"acquire", "read"} /\ UNCHANGED cur
          \/ pc'[r] = "cancel"
      BY <1>5, <1>10 DEF ReaderAcquire
    <2>3. QED
      BY <1>5, <1>6, <2>1, <2>2 DEF ReaderKeeps, ReaderFails, HandLabels
  <1>11. CASE ReaderRead(r)
    <2>1. UNCHANGED <<workVars, endVars, inputStopped>> /\ pc[r] = "read"
      BY <1>11 DEF ReaderRead
    <2>2. \/ pc'[r] = "push" /\ UNCHANGED cur
          \/ pc'[r] = "cancel"
      BY <1>5, <1>11 DEF ReaderRead
    <2>3. QED
      BY <1>5, <1>6, <2>1, <2>2 DEF ReaderKeeps, ReaderFails, HandLabels
  <1>12. CASE ReaderPush(r)
    <2>1. UNCHANGED <<next, expected, endVars, inputStopped>> /\ pc[r] = "push"
      BY <1>12 DEF ReaderPush, PushReserved, PushRefused, GiveBackSlot, NotifySpace
    <2>2. CASE pc'[r] = "loop"
      <3>1. queue' = queue \cup {cur[r]}
        <4>1. PushReserved(cur[r])
          BY <1>5, <1>12, <2>2 DEF ReaderPush
        <4>2. ~inputBroken'
          BY DEF CInv
        <4>3. QED
          BY <4>1, <4>2 DEF PushReserved
      <3>2. QED
        BY <1>5, <1>6, <2>1, <2>2, <3>1 DEF ReaderGives
    <2>3. CASE pc'[r] # "loop"
      <3>1. pc'[r] = "leave" /\ inputStopped /\ UNCHANGED queue
        BY <1>5, <1>12, <2>3 DEF ReaderPush, PushRefused
      <3>2. QED
        BY <1>5, <1>6, <2>1, <3>1 DEF ReaderGoes
    <2>4. QED
      BY <2>2, <2>3
  <1>13. CASE ReaderCancel(r)
    <2>1. UNCHANGED <<workVars, endVars, inputStopped>> /\ pc[r] = "cancel"
      BY <1>13 DEF ReaderCancel, CancelReservation
    <2>2. pc'[r] = "fail"
      BY <1>5, <1>13 DEF ReaderCancel
    <2>3. QED
      BY <1>5, <1>6, <2>1, <2>2 DEF ReaderFails
  <1>14. CASE ReaderLeave(r)
    <2>1. UNCHANGED <<workVars, inputStopped>> /\ pc[r] = "leave" /\ pc'[r] = "done"
      BY <1>5, <1>14 DEF ReaderLeave, FinishInput
    <2>2. /\ remainingReaders' = remainingReaders - 1
          /\ inputFinished' = (inputFinished \/ remainingReaders = 1)
      BY <1>7, <1>14 DEF ReaderLeave, FinishInput
    <2>3. QED
      BY <1>5, <1>6, <2>1, <2>2 DEF ReaderEnds
  <1>15. CASE ReaderLoop(r)
    <2>1. UNCHANGED <<workVars, endVars, inputStopped, cur>> /\ pc[r] = "loop"
      BY <1>15 DEF ReaderLoop
    <2>2. pc'[r] = IF failed THEN "leave" ELSE "claim"
      BY <1>5, <1>15 DEF ReaderLoop
    <2>3. QED
      BY <1>5, <1>6, <2>1, <2>2 DEF ReaderKeeps, ReaderGoes
  <1>16. QED
    BY <1>8, <1>9, <1>10, <1>11, <1>12, <1>13, <1>14, <1>15 DEF Reader

\* Compute threads.
ComputeClaims(c) ==
    /\ InputReaders = 0 /\ pc[c] = "claim" /\ pc'[c] \in {"try_acquire", "acquire"}
    /\ next' >= next /\ Mine(c) = {}
    /\ \A p \in Positions : p \in Mine(c)' <=> p >= next /\ ~(p >= next')
    /\ UNCHANGED <<expected, queue, shelfVars>> /\ batch'[c] = batch[c]
ComputeGoes(c) ==
    /\ pc[c] \in {"loop", "claim", "pop"} /\ pc'[c] = IF IoWorkers = 0 THEN "flush" ELSE "done"
    /\ resume'[c] = "done"
    /\ \/ failed
       \/ InputReaders = 0 /\ next >= Charts
       \/ /\ InputReaders > 0 /\ pc[c] = "pop"
          /\ inputStopped \/ (inputFinished /\ cur[c] \notin queue)
    /\ next' = next \/ (next >= Charts /\ next' = next + ComputeBatch)
    /\ UNCHANGED <<expected, queue, shelfVars>> /\ batch'[c] = batch[c]
ComputeKeeps(c) ==
    /\ {pc[c], pc'[c]} \cap ({"clear", "done", "count"} \cup Failing) = {}
    /\ pc[c] # "flush" /\ (pc'[c] = "flush" => resume'[c] # "done")
    /\ Mine(c)' = Mine(c) /\ (Wants(c)' <=> Wants(c))
    /\ Wants(c) => cur'[c] = cur[c]
    /\ UNCHANGED <<workVars, shelfVars>> /\ batch'[c] = batch[c]
ComputeFails(c) ==
    /\ pc[c] \in TakenLabels /\ pc'[c] = "fail"
    /\ UNCHANGED <<workVars, shelfVars>> /\ batch'[c] = batch[c]
ComputeOrders(c) ==
    /\ InputReaders > 0 /\ pc[c] \in {"claim", "next"} /\ pc'[c] = "try"
    /\ cur'[c] = expected /\ expected' = expected + 1
    /\ UNCHANGED <<next, queue, shelfVars>> /\ batch'[c] = batch[c]
ComputeTakes(c) ==
    /\ pc[c] \in {"try", "pop"} /\ pc'[c] = "process"
    /\ cur[c] \in queue /\ cur'[c] = cur[c] /\ queue' = queue \ {cur[c]}
    /\ UNCHANGED <<next, expected, shelfVars>> /\ batch'[c] = batch[c]
ComputeSkips(c) ==
    /\ pc[c] = "pop" /\ pc'[c] = "loop"
    /\ inputStopped \/ (inputFinished /\ cur[c] \notin queue)
    /\ UNCHANGED <<workVars, shelfVars>> /\ batch'[c] = batch[c]
ComputePuts(c) ==
    /\ IoWorkers > 0 /\ ~outputStopped
    /\ pc[c] = "submit" /\ pc'[c] = IF Policy = "Strict" THEN "next" ELSE "count"
    /\ parts' = [parts EXCEPT ![PartitionOf(cur[c])] = Append(@, cur[c])]
    /\ Mine(c)' = Mine(c) \ {cur[c]}
    /\ UNCHANGED <<workVars, queued, outputBroken>> /\ batch'[c] = batch[c]
ComputeCounts(c) ==
    /\ pc[c] = "count" /\ pc'[c] = "next" /\ queued' = queued + 1
    /\ Mine(c)' = Mine(c)
    /\ UNCHANGED <<workVars, parts, outputBroken>> /\ batch'[c] = batch[c]
ComputeAdds(c) ==
    /\ IoWorkers = 0 /\ pc[c] = "submit"
    /\ pc'[c] = "next" \/ (pc'[c] = "flush" /\ resume'[c] = "next")
    /\ batch'[c] = Append(batch[c], cur[c])
    /\ Mine(c)' = Mine(c) \ {cur[c]}
    /\ UNCHANGED <<workVars, shelfVars>>

\* The charts of a compute batch are those that next passes.
LEMMA DirectClaimHands ==
    ASSUME IInv, NEW c \in Computes, InputReaders = 0, next < Charts,
           pc[c] = "claim", pc'[c] \in {"try_acquire", "acquire"},
           cur'[c] = next, next' = next + ComputeBatch,
           ahead'[c] = (IF next + ComputeBatch < Charts
                        THEN ComputeBatch ELSE Charts - next) - 1
    PROVE  /\ next' >= next /\ Mine(c) = {}
           /\ \A p \in Positions : p \in Mine(c)' <=> p >= next /\ ~(p >= next')
  <1> DEFINE n == (IF next + ComputeBatch < Charts
                   THEN ComputeBatch ELSE Charts - next) - 1
  <1>1. next \in Nat
    BY DEF IInv, TypeOK, CountersTypeOK
  <1>2. Mine(c) = {}
    BY ComputeMine DEF TakenLabels, Busy
  <1>3. Busy(c)'
    BY DEF Busy
  <1>4. ahead'[c] = n
    OBVIOUS
  <1>5. \A p \in Positions : p \in Mine(c)' <=> p = next \/ (next < p /\ p <= next + n)
    <2> HIDE DEF n
    <2>1. QED
      BY <1>3, <1>4, ComputeMine DEF TakenLabels
  <1>6. n \in Int /\ n >= 0 /\ next' >= next
    BY <1>1, BudgetAssumption, PipelineAssumption
  <1>7. \A p \in Positions : (p = next \/ (next < p /\ p <= next + n))
                                 <=> p >= next /\ ~(p >= next')
    <2>1. CASE next + ComputeBatch < Charts
      BY <1>1, <2>1, BudgetAssumption, PipelineAssumption DEF Positions
    <2>2. CASE ~(next + ComputeBatch < Charts)
      <3>1. next + n = Charts - 1
        BY <1>1, <2>2, BudgetAssumption, PipelineAssumption
      <3>2. QED
        BY <1>1, <2>2, <3>1, BudgetAssumption, PipelineAssumption DEF Positions
    <2>3. QED
      BY <2>1, <2>2
  <1> HIDE DEF n
  <1>8. QED
    BY <1>2, <1>5, <1>6, <1>7

\* The rest of a compute batch has one chart less, and that is in hand.
LEMMA DirectNextHands ==
    ASSUME IInv, NEW c \in Computes, InputReaders = 0, pc[c] = "next",
           \/ /\ ahead[c] > 0 /\ pc'[c] \in {"try_acquire", "acquire"}
              /\ cur'[c] = cur[c] + 1 /\ ahead'[c] = ahead[c] - 1
           \/ /\ ahead[c] = 0 /\ pc'[c] \in {"flush", "loop"}
              /\ resume'[c] = "loop"
    PROVE  Mine(c)' = Mine(c)
  <1>1. cur[c] \in Nat /\ ahead[c] \in Nat
    BY DEF IInv, TypeOK, ThreadsTypeOK
  <1>2. \A p \in Positions : p \in Mine(c) <=> cur[c] < p /\ p <= cur[c] + ahead[c]
    BY ComputeMine DEF TakenLabels, Busy
  <1>3. CASE ahead[c] > 0
    <2>1. /\ pc'[c] \in {"try_acquire", "acquire"}
          /\ cur'[c] = cur[c] + 1 /\ ahead'[c] = ahead[c] - 1
      BY <1>1, <1>3
    <2>2. \A p \in Positions : p \in Mine(c)' <=>
              p = cur'[c] \/ (cur'[c] < p /\ p <= cur'[c] + ahead'[c])
      <3>1. Busy(c)'
        BY <2>1 DEF Busy
      <3>2. QED
        BY <2>1, <3>1, ComputeMine DEF TakenLabels
    <2>3. \A p \in Positions :
              (p = cur'[c] \/ (cur'[c] < p /\ p <= cur'[c] + ahead'[c]))
                  <=> cur[c] < p /\ p <= cur[c] + ahead[c]
      <3>1. /\ \A p \in Positions : p \in Nat
            /\ cur'[c] = cur[c] + 1 /\ ahead'[c] = ahead[c] - 1
        BY <2>1, BudgetAssumption DEF Positions
      <3>2. QED
        BY ONLY <1>1, <1>3, <3>1
    <2>4. \A p \in Positions : p \in Mine(c)' <=> p \in Mine(c)
      BY <1>2, <2>2, <2>3
    <2>5. QED
      BY <2>4 DEF Mine
  <1>4. CASE ahead[c] = 0
    <2>1. pc'[c] \in {"flush", "loop"} /\ resume'[c] = "loop"
      BY <1>1, <1>4
    <2>2. ~Busy(c)'
      BY <2>1 DEF Busy
    <2>3. Mine(c)' = {}
      BY <2>1, <2>2, ComputeMine DEF TakenLabels
    <2>4. \A p \in Positions : ~(cur[c] < p /\ p <= cur[c] + ahead[c])
      BY <1>1, <1>4, BudgetAssumption DEF Positions
    <2>5. QED
      BY <1>2, <2>3, <2>4 DEF Mine
  <1>5. QED
    BY <1>1, <1>3, <1>4

\* A thread that hands its chart on keeps the rest.
LEMMA HandedOnHands ==
    ASSUME IInv, NEW c \in Computes, pc[c] = "submit",
           \/ pc'[c] \in {"next", "count"}
           \/ pc'[c] = "flush" /\ resume'[c] = "next",
           cur'[c] = cur[c], ahead'[c] = ahead[c]
    PROVE  Mine(c)' = Mine(c) \ {cur[c]}
  <1>1. cur[c] \in Nat /\ ~(cur[c] < cur[c])
    BY DEF IInv, TypeOK, ThreadsTypeOK
  <1>2. Busy(c) /\ Busy(c)'
    BY DEF Busy
  <1>3. QED
    BY <1>1, <1>2, ComputeMine DEF TakenLabels

LEMMA ComputeDoes ==
    ASSUME IInv, CInv, NEW c \in Computes, Compute(c)
    PROVE  /\ OnlyBy(c) /\ UNCHANGED <<stopVars, endVars, written>> /\ wix'[c] = wix[c]
           /\ \/ ComputeClaims(c) \/ ComputeGoes(c) \/ ComputeKeeps(c)
              \/ ComputeFails(c) \/ ComputeOrders(c) \/ ComputeTakes(c)
              \/ ComputeSkips(c) \/ ComputePuts(c) \/ ComputeCounts(c)
              \/ ComputeAdds(c)
  <1> USE DEF Goes, Moves, KeepLocals
  <1>1. c \in Workforce /\ c \in Readers \cup Computes /\ c \in Computes \cup Writers
    BY DEF Workforce
  <1>2. \E to : pc' = [pc EXCEPT ![c] = to]
    BY DEF Compute, ComputeLoop, DirectClaim, DirectTryAcquire, DirectAcquire, DirectRead,
           DirectNext, OrderedClaim, OrderedTry, OrderedPop, OrderedNext,
           Process, KernelReturns, KernelThrows, SubmitQueued, SubmitCounted,
           SubmitInline, Leaving
  <1>3. UNCHANGED wix /\ SetAt(resume, resume', c)
    BY DEF Compute, ComputeLoop, DirectClaim, DirectTryAcquire, DirectAcquire, DirectRead,
           DirectNext, OrderedClaim, OrderedTry, OrderedPop, OrderedNext,
           Process, KernelReturns, KernelThrows, SubmitQueued, SubmitCounted,
           SubmitInline, Leaving, SetAt
  <1>4. SetAt(cur, cur', c) /\ SetAt(ahead, ahead', c)
    BY DEF Compute, ComputeLoop, DirectClaim, DirectTryAcquire, DirectAcquire, DirectRead,
           DirectNext, OrderedClaim, OrderedTry, OrderedPop, OrderedNext,
           Process, KernelReturns, KernelThrows, SubmitQueued, SubmitCounted,
           SubmitInline, Leaving, SetAt
  <1>5. SetAt(batch, batch', c)
    BY DEF Compute, ComputeLoop, DirectClaim, DirectTryAcquire, DirectAcquire, DirectRead,
           DirectNext, OrderedClaim, OrderedTry, OrderedPop, OrderedNext,
           Process, KernelReturns, KernelThrows, SubmitQueued, SubmitCounted,
           SubmitInline, SetAt
  <1>6. /\ OnlyBy(c)
        /\ \A v : pc' = [pc EXCEPT ![c] = v] => pc'[c] = v
        /\ \A v : resume' = [resume EXCEPT ![c] = v] => resume'[c] = v
        /\ \A v : batch' = [batch EXCEPT ![c] = v] => batch'[c] = v
        /\ \A v : cur' = [cur EXCEPT ![c] = v] => cur'[c] = v
        /\ \A v : ahead' = [ahead EXCEPT ![c] = v] => ahead'[c] = v
    <2>1. SetAt(pc, pc', c) /\ SetAt(wix, wix', c)
      BY ONLY <1>2, <1>3 DEF SetAt
    <2>2. QED
      BY ONLY IInv, <1>1, <1>3, <1>4, <1>5, <2>1, LocalStep
  <1>7. UNCHANGED <<failed, remainingReaders, written, inputFinished, inputStopped>>
    BY DEF Compute, ComputeLoop, DirectClaim, DirectTryAcquire, DirectAcquire, DirectRead,
           DirectNext, OrderedClaim, OrderedTry, OrderedPop, OrderedNext,
           Process, KernelReturns, KernelThrows, SubmitQueued, SubmitCounted,
           SubmitInline, sharedVars, inputVars, TakeOrdered, PoppedOrdered,
           PopRefused, PopAwaited
  <1>8. UNCHANGED <<outputStopped, outputFinished>>
    BY DEF Compute, ComputeLoop, DirectClaim, DirectTryAcquire, DirectAcquire, DirectRead,
           DirectNext, OrderedClaim, OrderedTry, OrderedPop, OrderedNext,
           Process, KernelReturns, KernelThrows, SubmitQueued, SubmitCounted,
           SubmitInline, outputVars, PushOutput, OutputRefused, CountPushed
  <1>9. UNCHANGED <<stopVars, endVars, written>>
    BY <1>7, <1>8 DEF stopVars, endVars
  <1>10. next \in Nat /\ cur[c] \in Nat /\ ahead[c] \in Nat /\ failed \in BOOLEAN
    BY DEF IInv, TypeOK, CountersTypeOK, ThreadsTypeOK, FlagsTypeOK
  <1> DEFINE Does == \/ ComputeClaims(c) \/ ComputeGoes(c) \/ ComputeKeeps(c)
                     \/ ComputeFails(c) \/ ComputeOrders(c) \/ ComputeTakes(c)
                     \/ ComputeSkips(c) \/ ComputePuts(c) \/ ComputeCounts(c)
                     \/ ComputeAdds(c)
  <1>11. ASSUME DirectClaim(c) PROVE Does
    <2>1. /\ InputReaders = 0 /\ pc[c] = "claim" /\ batch'[c] = batch[c]
          /\ UNCHANGED <<expected, queue, shelfVars>>
      BY <1>11 DEF DirectClaim, Leaving, shelfVars, outputVars, inputVars
    <2>2. CASE next >= Charts
      <3>1. ~(next < Charts)
        BY <1>10, <2>2, BudgetAssumption
      <3>2. Leaving(c, "claim") /\ next' = next + ComputeBatch
        BY <1>11, <3>1 DEF DirectClaim
      <3>3. ComputeGoes(c)
        BY <1>6, <2>1, <2>2, <3>2 DEF Leaving, ComputeGoes
      <3>4. QED
        BY <3>3
    <2>3. CASE next < Charts
      <3>1. /\ next' = next + ComputeBatch
            /\ pc'[c] \in {"try_acquire", "acquire"} /\ cur'[c] = next
            /\ ahead'[c] = (IF next + ComputeBatch < Charts
                            THEN ComputeBatch ELSE Charts - next) - 1
        <4>1. ~(next >= Charts)
          BY <1>10, <2>3, BudgetAssumption
        <4>2. QED
          BY <1>6, <1>11, <2>3, <4>1 DEF DirectClaim
      <3>2. ComputeClaims(c)
        <4>1. /\ next' >= next /\ Mine(c) = {}
              /\ \A p \in Positions : p \in Mine(c)' <=> p >= next /\ ~(p >= next')
          BY ONLY IInv, <2>1, <2>3, <3>1, DirectClaimHands
        <4>2. QED
          BY <2>1, <3>1, <4>1 DEF ComputeClaims
      <3>3. QED
        BY <3>2
    <2>4. QED
      BY <1>10, <2>2, <2>3, BudgetAssumption
  <1>12. ASSUME DirectTryAcquire(c) \/ DirectAcquire(c) \/ DirectRead(c) PROVE Does
    <2>1. /\ UNCHANGED <<workVars, shelfVars, cur, ahead>> /\ batch'[c] = batch[c]
          /\ pc[c] \in {"try_acquire", "acquire", "read"}
      BY <1>12 DEF DirectTryAcquire, DirectAcquire, DirectRead, shelfVars,
                   workVars, outputVars, inputVars, sharedVars
    <2>2. \/ pc'[c] \in {"read", "acquire", "process", "fail"}
          \/ pc'[c] = "flush" /\ resume'[c] = "acquire"
      BY <1>6, <1>12 DEF DirectTryAcquire, DirectAcquire, DirectRead
    <2>3. CASE pc'[c] = "fail"
      BY <2>1, <2>3 DEF ComputeFails, TakenLabels
    <2>4. CASE pc'[c] # "fail"
      <3>1. Busy(c) /\ Busy(c)'
        BY <2>1, <2>2, <2>4 DEF Busy
      <3>2. Mine(c)' = Mine(c)
        BY <2>1, <2>2, <2>4, <3>1, ComputeMine DEF TakenLabels
      <3>3. ComputeKeeps(c)
        BY <2>1, <2>2, <2>4, <3>2 DEF ComputeKeeps, Failing, FailSteps, Wants
      <3>4. QED
        BY <3>3
    <2>5. QED
      BY <2>3, <2>4
  <1>13. ASSUME DirectNext(c) PROVE Does
    <2>1. /\ UNCHANGED <<workVars, shelfVars>> /\ batch'[c] = batch[c]
          /\ InputReaders = 0 /\ pc[c] = "next"
      BY <1>13 DEF DirectNext, shelfVars, workVars, outputVars, inputVars, sharedVars
    <2>2. \/ /\ ahead[c] > 0 /\ pc'[c] \in {"try_acquire", "acquire"}
             /\ cur'[c] = cur[c] + 1 /\ ahead'[c] = ahead[c] - 1
          \/ /\ ahead[c] = 0 /\ pc'[c] \in {"flush", "loop"}
             /\ resume'[c] = "loop"
      BY <1>6, <1>13 DEF DirectNext, EndOfBatch
    <2>3. Mine(c)' = Mine(c)
      BY ONLY IInv, c \in Computes, <2>1, <2>2, DirectNextHands
    <2>4. ComputeKeeps(c)
      BY <2>1, <2>2, <2>3 DEF ComputeKeeps, Failing, FailSteps, Wants
    <2>5. QED
      BY <2>4
  <1>14. ASSUME OrderedClaim(c) PROVE Does
    <2>1. /\ UNCHANGED <<next, queue, shelfVars>> /\ batch'[c] = batch[c]
          /\ InputReaders > 0 /\ pc[c] = "claim"
      BY <1>14 DEF OrderedClaim, shelfVars, outputVars, inputVars
    <2>2. ComputeOrders(c)
      BY <1>6, <1>14, <2>1 DEF OrderedClaim, ComputeOrders
    <2>3. QED
      BY <2>2
  <1>15. ASSUME OrderedNext(c) PROVE Does
    <2>1. /\ UNCHANGED <<next, queue, shelfVars>> /\ batch'[c] = batch[c]
          /\ InputReaders > 0 /\ pc[c] = "next"
      BY <1>15 DEF OrderedNext, shelfVars, outputVars, inputVars
    <2>2. \/ /\ pc'[c] = "try" /\ cur'[c] = expected /\ expected' = expected + 1
          \/ pc'[c] = "loop" /\ UNCHANGED expected
      BY <1>6, <1>15 DEF OrderedNext
    <2>3. CASE pc'[c] = "try"
      BY <2>1, <2>2, <2>3 DEF ComputeOrders
    <2>4. CASE pc'[c] = "loop"
      <3>1. InputReaders # 0
        BY <2>1, PipelineAssumption
      <3>2. Mine(c)' = Mine(c)
        BY <2>1, <2>4, <3>1, ComputeMine DEF TakenLabels
      <3>3. ComputeKeeps(c)
        BY <2>1, <2>2, <2>4, <3>2 DEF ComputeKeeps, Failing, FailSteps, Wants, workVars
      <3>4. QED
        BY <3>3
    <2>5. QED
      BY <2>2, <2>3, <2>4
  <1>16. ASSUME OrderedTry(c) \/ OrderedPop(c) PROVE Does
    <2>1. /\ UNCHANGED <<next, expected, shelfVars, cur, ahead>> /\ batch'[c] = batch[c]
          /\ pc[c] \in {"try", "pop"}
      BY <1>16 DEF OrderedTry, OrderedPop, Leaving, shelfVars, outputVars, sharedVars
    <2>2. \/ pc'[c] = "process" /\ cur[c] \in queue /\ queue' = queue \ {cur[c]}
          \/ pc'[c] = "pop" /\ UNCHANGED queue
          \/ pc'[c] = "flush" /\ resume'[c] = "pop" /\ UNCHANGED queue
          \/ /\ pc[c] = "pop" /\ UNCHANGED queue
             /\ inputStopped \/ (inputFinished /\ cur[c] \notin queue)
             /\ \/ pc'[c] = "loop"
                \/ /\ pc'[c] = IF IoWorkers = 0 THEN "flush" ELSE "done"
                   /\ resume'[c] = "done"
      BY <1>6, <1>16 DEF OrderedTry, OrderedPop, Leaving, TakeOrdered,
           PoppedOrdered, PopRefused, PopAwaited, inputVars
    <2>3. InputReaders > 0
      BY <2>1 DEF IInv, HandsOK, HandOK
    <2>4. CASE pc'[c] = "process"
      BY <2>1, <2>2, <2>4 DEF ComputeTakes
    <2>5. CASE pc'[c] = "loop"
      BY <2>1, <2>2, <2>5 DEF ComputeSkips, workVars
    <2>6. CASE pc'[c] = "pop" \/ (pc'[c] = "flush" /\ resume'[c] = "pop")
      <3>1. InputReaders # 0 /\ UNCHANGED queue
        BY <2>2, <2>3, <2>6, PipelineAssumption
      <3>2. Mine(c)' = Mine(c)
        BY <2>1, <2>6, <3>1, ComputeMine DEF TakenLabels
      <3>3. ComputeKeeps(c)
        BY <2>1, <2>6, <3>1, <3>2 DEF ComputeKeeps, Failing, FailSteps, Wants, workVars
      <3>4. QED
        BY <3>3
    <2>7. CASE ~(pc'[c] \in {"process", "loop", "pop"} \/ (pc'[c] = "flush" /\ resume'[c] = "pop"))
      BY <2>1, <2>2, <2>3, <2>7 DEF ComputeGoes
    <2>8. QED
      BY <2>4, <2>5, <2>6, <2>7
  <1>17. ASSUME Process(c) \/ KernelReturns(c) \/ KernelThrows(c) PROVE Does
    <2>1. /\ UNCHANGED <<workVars, shelfVars, cur, ahead>> /\ batch'[c] = batch[c]
          /\ pc[c] \in {"process", "kernel", "refused"}
      BY <1>17 DEF Process, KernelReturns, KernelThrows, shelfVars, workVars,
                   outputVars, inputVars, sharedVars
    <2>2. pc'[c] \in {"kernel", "refused", "submit", "fail"}
      BY <1>6, <1>17 DEF Process, KernelReturns, KernelThrows
    <2>3. CASE pc'[c] = "fail"
      BY <2>1, <2>3 DEF ComputeFails, TakenLabels
    <2>4. CASE pc'[c] # "fail"
      <3>1. Busy(c) /\ Busy(c)'
        BY <2>1, <2>2, <2>4 DEF Busy
      <3>2. Mine(c)' = Mine(c)
        BY <2>1, <2>2, <2>4, <3>1, ComputeMine DEF TakenLabels
      <3>3. ComputeKeeps(c)
        BY <2>1, <2>2, <2>4, <3>2 DEF ComputeKeeps, Failing, FailSteps, Wants
      <3>4. QED
        BY <3>3
    <2>5. QED
      BY <2>3, <2>4
  <1>18. ASSUME SubmitQueued(c) PROVE Does
    <2>1. /\ UNCHANGED <<workVars, queued, outputBroken, cur, ahead>> /\ batch'[c] = batch[c]
          /\ pc[c] = "submit" /\ IoWorkers > 0
      BY <1>18 DEF SubmitQueued, PushOutput, OutputRefused, workVars, outputVars,
                   inputVars, sharedVars
    <2>2. CASE pc'[c] = "fail"
      <3>1. UNCHANGED parts
        BY <1>6, <1>18, <2>2 DEF SubmitQueued, OutputRefused, outputVars
      <3>2. QED
        BY <2>1, <2>2, <3>1 DEF ComputeFails, TakenLabels, shelfVars
    <2>3. CASE pc'[c] # "fail"
      <3>1. /\ pc'[c] = IF Policy = "Strict" THEN "next" ELSE "count"
            /\ PushOutput(cur[c])
        BY <1>6, <1>18, <2>3 DEF SubmitQueued
      <3>2. Mine(c)' = Mine(c) \ {cur[c]}
        BY ONLY IInv, c \in Computes, <2>1, <3>1, HandedOnHands
      <3>3. ComputePuts(c)
        BY <2>1, <3>1, <3>2 DEF ComputePuts, PushOutput
      <3>4. QED
        BY <3>3
    <2>4. QED
      BY <2>2, <2>3
  <1>19. ASSUME SubmitCounted(c) PROVE Does
    <2>1. /\ UNCHANGED <<workVars, parts, outputBroken, cur, ahead>> /\ batch'[c] = batch[c]
          /\ pc[c] = "count" /\ pc'[c] = "next" /\ queued' = queued + 1
      BY <1>6, <1>19 DEF SubmitCounted, CountPushed, workVars, inputVars, sharedVars
    <2>2. Busy(c) /\ Busy(c)'
      BY <2>1 DEF Busy
    <2>3. Mine(c)' = Mine(c)
      BY <2>1, <2>2, ComputeMine DEF TakenLabels
    <2>4. QED
      BY <2>1, <2>3 DEF ComputeCounts
  <1>20. ASSUME SubmitInline(c) PROVE Does
    <2>1. /\ UNCHANGED <<workVars, shelfVars, cur, ahead>> /\ IoWorkers = 0
          /\ pc[c] = "submit"
      BY <1>20 DEF SubmitInline, workVars, shelfVars, inputVars, outputVars, sharedVars
    <2>2. /\ pc'[c] = "next" \/ (pc'[c] = "flush" /\ resume'[c] = "next")
          /\ batch'[c] = Append(batch[c], cur[c])
      <3>1. batch' = [batch EXCEPT ![c] = Append(batch[c], cur[c])]
        BY <1>20 DEF SubmitInline
      <3>2. QED
        BY <1>6, <1>20, <3>1 DEF SubmitInline
    <2>3. Mine(c)' = Mine(c) \ {cur[c]}
      BY ONLY IInv, c \in Computes, <2>1, <2>2, HandedOnHands
    <2>4. QED
      BY <2>1, <2>2, <2>3 DEF ComputeAdds
  <1>21. ASSUME ComputeLoop(c) PROVE Does
    <2>1. /\ UNCHANGED <<workVars, shelfVars, cur, ahead>> /\ batch'[c] = batch[c]
          /\ pc[c] = "loop"
      BY <1>21 DEF ComputeLoop, Leaving, shelfVars, workVars, outputVars, inputVars, sharedVars
    <2>2. CASE failed
      <3>1. pc'[c] = (IF IoWorkers = 0 THEN "flush" ELSE "done") /\ resume'[c] = "done"
        BY <1>6, <1>21, <2>2 DEF ComputeLoop, Leaving
      <3>2. ComputeGoes(c)
        BY <2>1, <2>2, <3>1 DEF ComputeGoes, workVars
      <3>3. QED
        BY <3>2
    <2>3. CASE ~failed
      <3>1. pc'[c] = "claim"
        BY <1>6, <1>21, <2>3 DEF ComputeLoop
      <3>2. Mine(c)' = Mine(c)
        BY <2>1, <3>1, ComputeMine DEF TakenLabels, Busy
      <3>3. ComputeKeeps(c)
        BY <2>1, <3>1, <3>2 DEF ComputeKeeps, Failing, FailSteps, Wants
      <3>4. QED
        BY <3>3
    <2>4. QED
      BY <2>2, <2>3
  <1>22. Does
    BY <1>11, <1>12, <1>13, <1>14, <1>15, <1>16, <1>17, <1>18, <1>19, <1>20, <1>21
       DEF Compute
  <1>23. wix'[c] = wix[c]
    BY <1>3
  <1>24. QED
    BY <1>6, <1>9, <1>22, <1>23

\* The loop over a batch.
BatchWrites(t) ==
    /\ pc[t] = "flush" /\ pc'[t] = "flush" /\ wix[t] < Len(batch[t])
    /\ written' = [written EXCEPT ![batch[t][wix[t] + 1]] = @ + 1]
    /\ wix'[t] = wix[t] + 1 /\ resume'[t] = resume[t] /\ batch'[t] = batch[t]
BatchFails(t) ==
    /\ pc[t] = "flush"
    /\ \/ t \in Computes /\ pc'[t] = "fail"
       \/ t \in Writers /\ pc'[t] = "clear" /\ resume'[t] = "fail"
    /\ UNCHANGED written /\ batch'[t] = batch[t]
BatchDone(t) ==
    /\ pc[t] = "flush" /\ pc'[t] = "clear" /\ wix[t] = Len(batch[t])
    /\ UNCHANGED written /\ resume'[t] = resume[t] /\ batch'[t] = batch[t]
BatchDrops(t) ==
    /\ pc[t] = "clear" /\ pc'[t] = "clear" /\ batch[t] # <<>>
    /\ UNCHANGED written /\ resume'[t] = resume[t] /\ batch'[t] = Tail(batch[t])
BatchEnds(t) ==
    /\ pc[t] = "clear" /\ pc'[t] = resume[t] /\ batch[t] = <<>>
    /\ UNCHANGED written /\ resume'[t] = resume[t] /\ batch'[t] = batch[t]
    /\ wix'[t] = 0

LEMMA FlushDoes ==
    ASSUME IInv, NEW t \in Computes \cup Writers, Flush(t)
    PROVE  /\ OnlyBy(t) /\ UNCHANGED <<workVars, shelfVars, stopVars, endVars>>
           /\ \/ BatchWrites(t) \/ BatchFails(t) \/ BatchDone(t) \/ BatchDrops(t)
              \/ BatchEnds(t)
           /\ t \in Computes => cur'[t] = cur[t]
           /\ t \in Computes => \/ BatchFails(t)
                                \/ /\ Mine(t)' = Mine(t)
                                   /\ Wants(t)' <=> Wants(t)
                                   /\ Gone(t)' <=> Gone(t)
  <1> USE DEF Goes, Moves, KeepLocals
  <1>1. t \in Workforce
    BY DEF Workforce
  <1>2. UNCHANGED <<workVars, shelfVars, stopVars, endVars, cur, ahead>>
    BY DEF Flush, WriteItem, AllWritten, ClearItem, Cleared, workVars, shelfVars,
           stopVars, endVars, inputVars, outputVars, sharedVars
  <1>3. /\ SetAt(pc, pc', t) /\ SetAt(resume, resume', t) /\ SetAt(batch, batch', t)
        /\ SetAt(wix, wix', t)
    BY DEF Flush, WriteItem, AllWritten, ClearItem, Cleared, SetAt
  <1>4. /\ OnlyBy(t)
        /\ \A v : pc' = [pc EXCEPT ![t] = v] => pc'[t] = v
        /\ \A v : resume' = [resume EXCEPT ![t] = v] => resume'[t] = v
        /\ \A v : batch' = [batch EXCEPT ![t] = v] => batch'[t] = v
        /\ \A v : wix' = [wix EXCEPT ![t] = v] => wix'[t] = v
    <2>1. SetAt(cur, cur', t) /\ SetAt(ahead, ahead', t)
      BY <1>2 DEF SetAt
    <2>2. QED
      BY ONLY IInv, t \in Computes \cup Writers, <1>1, <1>3, <2>1, LocalStep
  <1>5. \/ BatchWrites(t) \/ BatchFails(t) \/ BatchDone(t) \/ BatchDrops(t) \/ BatchEnds(t)
    <2>1. CASE WriteItem(t)
      <3>1. UNCHANGED batch
        BY <2>1 DEF WriteItem
      <3>2. CASE pc'[t] = "flush"
        <4>1. /\ pc[t] = "flush" /\ wix[t] < Len(batch[t])
              /\ written' = [written EXCEPT ![batch[t][wix[t] + 1]] = @ + 1]
              /\ wix' = [wix EXCEPT ![t] = wix[t] + 1] /\ UNCHANGED resume
          BY <1>4, <2>1, <3>2 DEF WriteItem
        <4>2. BatchWrites(t)
          BY <1>4, <3>1, <3>2, <4>1 DEF BatchWrites
        <4>3. QED
          BY <4>2
      <3>3. CASE pc'[t] # "flush"
        BY <1>4, <2>1, <3>1, <3>3 DEF WriteItem, BatchFails
      <3>4. QED
        BY <3>2, <3>3
    <2>2. CASE AllWritten(t)
      BY <1>4, <2>2 DEF AllWritten, BatchDone, sharedVars
    <2>3. CASE ClearItem(t)
      <3>1. batch' = [batch EXCEPT ![t] = Tail(batch[t])]
        BY <2>3 DEF ClearItem
      <3>2. QED
        BY <1>4, <2>3, <3>1 DEF ClearItem, BatchDrops, sharedVars
    <2>4. CASE Cleared(t)
      BY <1>4, <2>4 DEF Cleared, BatchEnds, sharedVars
    <2>5. QED
      BY <2>1, <2>2, <2>3, <2>4 DEF Flush
  <1>6. ASSUME t \in Computes, ~BatchFails(t)
        PROVE  Mine(t)' = Mine(t) /\ (Wants(t)' <=> Wants(t)) /\ (Gone(t)' <=> Gone(t))
    <2>1. /\ pc[t] \in {"flush", "clear"} /\ resume'[t] = resume[t]
          /\ pc'[t] \in {"flush", "clear", resume[t]}
          /\ cur'[t] = cur[t] /\ ahead'[t] = ahead[t]
      BY <1>2, <1>5, <1>6 DEF BatchWrites, BatchDone, BatchDrops, BatchEnds
    <2>2. resume[t] \in Resumptions
      BY DEF IInv, TypeOK, ThreadsTypeOK
    <2>3. Busy(t)' <=> Busy(t)
      BY <2>1, <2>2 DEF Busy, Resumptions
    <2>4. Mine(t)' = Mine(t)
      <3>1. /\ \/ pc[t] \in TakenLabels
               \/ pc[t] \in {"flush", "clear"} /\ resume[t] = "acquire"
               <=> resume[t] = "acquire"
            /\ \/ pc'[t] \in TakenLabels
               \/ pc'[t] \in {"flush", "clear"} /\ resume'[t] = "acquire"
               <=> resume[t] = "acquire"
        BY ONLY <2>1, <2>2 DEF TakenLabels, Resumptions
      <3>2. QED
        BY ONLY <1>6, <2>1, <2>3, <3>1, ComputeMine
    <2>5. QED
      BY <2>1, <2>2, <2>4 DEF Wants, Gone, Resumptions
  <1>7. QED
    BY <1>2, <1>4, <1>5, <1>6

\* io threads.
WriterTakes(w) ==
    /\ pc[w] \in {"pop", "scan"} /\ pc'[w] = IF Policy = "Strict" THEN "flush" ELSE "account"
    /\ resume'[w] = "pop"
    /\ \E i \in Partitions :
          /\ batch'[w] = Taken(i, WriteBatch)
          /\ parts' = [parts EXCEPT ![i] =
                           SubSeq(@, Len(Taken(i, WriteBatch)) + 1, Len(@))]
    /\ UNCHANGED <<queued, outputBroken>>
WriterCounts(w) ==
    /\ pc[w] = "account" /\ pc'[w] = "flush"
    /\ IF Len(batch[w]) > queued THEN outputBroken' = TRUE
       ELSE queued' = queued - Len(batch[w]) /\ UNCHANGED outputBroken
    /\ UNCHANGED parts /\ batch'[w] = batch[w] /\ resume'[w] = resume[w]
WriterEnds(w) ==
    /\ pc[w] \in {"pop", "meta"} /\ pc'[w] = "done"
    /\ outputStopped \/ outputFinished
    /\ IF Policy = "Strict" THEN parts[Home(w)] = <<>> ELSE queued = 0
    /\ UNCHANGED shelfVars /\ batch'[w] = batch[w] /\ resume'[w] = resume[w]
WriterWaits(w) ==
    /\ pc[w] \in {"pop", "scan", "meta"} /\ pc'[w] \in {"pop", "scan", "meta"}
    /\ UNCHANGED shelfVars /\ batch'[w] = batch[w] /\ resume'[w] = resume[w]

LEMMA WriterDoes ==
    ASSUME IInv, CInv, NEW w \in Writers, Writer(w), ~Sleep(w)
    PROVE  /\ OnlyBy(w) /\ UNCHANGED <<workVars, stopVars, endVars, written>>
           /\ wix'[w] = wix[w]
           /\ WriterTakes(w) \/ WriterCounts(w) \/ WriterEnds(w) \/ WriterWaits(w)
  <1> USE DEF Goes, Moves, KeepLocals
  <1>1. w \in Workforce
    BY DEF Workforce
  <1>2. UNCHANGED <<workVars, stopVars, endVars, written, cur, ahead, wix>>
    BY DEF Writer, StrictPop, LocalPop, Scan, MetaWait, Account, TakesBatch,
           TakeBatch, Doze, AccountPopped, workVars, stopVars, endVars, inputVars,
           outputVars, sharedVars
  <1>3. /\ SetAt(pc, pc', w) /\ SetAt(resume, resume', w) /\ SetAt(batch, batch', w)
    BY DEF Writer, StrictPop, LocalPop, Scan, MetaWait, Account, TakesBatch, SetAt
  <1>4. /\ OnlyBy(w)
        /\ \A v : pc' = [pc EXCEPT ![w] = v] => pc'[w] = v
        /\ \A v : resume' = [resume EXCEPT ![w] = v] => resume'[w] = v
        /\ \A v : batch' = [batch EXCEPT ![w] = v] => batch'[w] = v
    <2>1. SetAt(cur, cur', w) /\ SetAt(ahead, ahead', w) /\ SetAt(wix, wix', w)
      BY <1>2 DEF SetAt
    <2>2. QED
      BY ONLY IInv, w \in Writers, <1>1, <1>3, <2>1, LocalStep
  <1>5. Policy = "Strict" => pc[w] \notin {"scan", "meta", "account"}
    BY DEF CInv, StrictInv
  <1>6. ASSUME NEW i \in Partitions, NEW from \in {"pop", "scan"},
               TakesBatch(w, i, from, IF Policy = "Strict" THEN "flush" ELSE "account")
        PROVE  WriterTakes(w)
    <2>1. /\ batch' = [batch EXCEPT ![w] = Taken(i, WriteBatch)]
          /\ parts' = [parts EXCEPT ![i] =
                           SubSeq(@, Len(Taken(i, WriteBatch)) + 1, Len(@))]
          /\ UNCHANGED <<queued, outputBroken>>
      BY <1>6 DEF TakesBatch, TakeBatch
    <2>2. /\ pc[w] = from /\ resume' = [resume EXCEPT ![w] = "pop"]
          /\ pc' = [pc EXCEPT ![w] = IF Policy = "Strict" THEN "flush" ELSE "account"]
      BY <1>6 DEF TakesBatch
    <2>3. batch'[w] = Taken(i, WriteBatch)
      BY <1>4, <2>1
    <2>4. pc'[w] = IF Policy = "Strict" THEN "flush" ELSE "account"
      BY <1>4, <2>2
    <2>5. resume'[w] = "pop"
      BY <1>4, <2>2
    <2>6. QED
      BY <2>1, <2>2, <2>3, <2>4, <2>5 DEF WriterTakes
  <1>7. Home(w) \in Partitions /\ (cursor[w] + offset[w]) % PartitionCount \in Partitions
    <2>1. cursor[w] \in Nat /\ offset[w] \in Nat
      BY OutputAssumption DEF IInv, TypeOK, ThreadsTypeOK, Partitions
    <2>2. QED
      BY <2>1, HomeType
  <1>8. CASE StrictPop(w)
    <2>1. CASE TakesBatch(w, Home(w), "pop", "flush")
      BY <1>2, <1>4, <1>6, <1>7, <1>8, <2>1 DEF StrictPop
    <2>2. CASE ~TakesBatch(w, Home(w), "pop", "flush")
      BY <1>2, <1>4, <1>8, <2>2 DEF StrictPop, Doze, WriterEnds, WriterWaits,
         shelfVars, outputVars
    <2>3. QED
      BY <2>1, <2>2
  <1>9. CASE LocalPop(w)
    <2>1. CASE TakesBatch(w, Home(w), "pop", "account")
      BY <1>2, <1>4, <1>6, <1>7, <1>9, <2>1 DEF LocalPop
    <2>2. CASE ~TakesBatch(w, Home(w), "pop", "account")
      BY <1>2, <1>4, <1>9, <2>2 DEF LocalPop, WriterWaits, shelfVars, outputVars
    <2>3. QED
      BY <2>1, <2>2
  <1>10. CASE Scan(w)
    <2> DEFINE i == (cursor[w] + offset[w]) % PartitionCount
    <2>1. pc[w] = "scan" /\ Policy # "Strict"
      BY <1>5, <1>10 DEF Scan, TakesBatch
    <2>2. CASE TakesBatch(w, i, "scan", "account")
      <3>1. i \in Partitions
        BY <1>7
      <3> HIDE DEF i
      <3>2. WriterTakes(w)
        BY <1>6, <2>1, <2>2, <3>1
      <3>3. QED
        BY <1>2, <1>4, <3>2
    <2>3. CASE ~TakesBatch(w, i, "scan", "account")
      <3>1. /\ \E to \in {"meta", "scan"} : pc' = [pc EXCEPT ![w] = to]
            /\ UNCHANGED <<outputVars, resume, batch>>
        BY <1>10, <2>3 DEF Scan
      <3>2. QED
        BY <1>2, <1>4, <2>1, <3>1 DEF WriterWaits, shelfVars, outputVars
    <2>4. QED
      BY <2>2, <2>3
  <1>11. CASE MetaWait(w)
    <2>1. Policy # "Strict" \/ ~(pc'[w] = "done") \/ parts[Home(w)] = <<>>
      BY <1>5, <1>11 DEF MetaWait
    <2>2. QED
      BY <1>2, <1>4, <1>11, <2>1 DEF MetaWait, Doze, WriterEnds, WriterWaits,
         shelfVars, outputVars
  <1>12. CASE Account(w)
    BY <1>2, <1>4, <1>12 DEF Account, AccountPopped, WriterCounts
  <1>13. QED
    BY <1>8, <1>9, <1>10, <1>11, <1>12 DEF Writer

\* fail: failed is set, and then whatever is to stop is stopped.
LEMMA FailDoes ==
    ASSUME IInv, StopsInv, NEW t \in Workforce, Fail(t)
    PROVE  /\ OnlyBy(t) /\ UNCHANGED <<workVars, shelfVars, endVars, written, batch, wix>>
           /\ UNCHANGED <<cur, ahead, outputFinished>>
           /\ failed' /\ pc[t] \in Failing
           /\ \/ pc'[t] \in FailSteps
              \/ t \in Readers /\ pc'[t] = "leave"
              \/ t \in Computes /\ pc'[t] = "clear" /\ resume'[t] = "done"
              \/ t \in Writers /\ pc'[t] = "done"
  <1> USE DEF Goes, Moves, KeepLocals
  <1>1. UNCHANGED <<workVars, shelfVars, endVars, written, batch, wix, cur, ahead, outputFinished>>
    BY DEF Fail, FailFirst, FailAgain, FailStops, FailAbortsWorkers, StopCredit,
           StopInput, MarkStopped, NotifyWriters, workVars, shelfVars, endVars,
           budgetVars, inputVars, outputVars, sharedVars
  <1>2. SetAt(pc, pc', t) /\ SetAt(resume, resume', t)
    BY DEF Fail, FailFirst, FailAgain, FailStops, FailAbortsWorkers, Unwound, SetAt
  <1>3. /\ OnlyBy(t)
        /\ \A v : pc' = [pc EXCEPT ![t] = v] => pc'[t] = v
        /\ t \in Computes \cup Writers =>
             \A v : resume' = [resume EXCEPT ![t] = v] => resume'[t] = v
    <2>1. /\ SetAt(cur, cur', t) /\ SetAt(ahead, ahead', t) /\ SetAt(wix, wix', t)
          /\ SetAt(batch, batch', t)
      BY <1>1 DEF SetAt
    <2>2. QED
      BY ONLY IInv, t \in Workforce, <1>2, <2>1, LocalStep
  <1>4. pc[t] \in FailSteps => failed
    BY DEF StopsInv
  <1>5. failed' /\ pc[t] \in Failing
    BY <1>4 DEF Fail, FailFirst, FailAgain, FailStops, FailAbortsWorkers, sharedVars,
           Failing, FailSteps
  <1>6. \/ pc'[t] \in FailSteps
        \/ pc'[t] = AfterFail(t) /\ Unwound(t)
    BY <1>3 DEF Fail, FailFirst, FailAgain, FailStops, FailAbortsWorkers, FailSteps
  <1>7. pc'[t] \in FailSteps \/ IF t \in Computes THEN pc'[t] = "clear" /\ resume'[t] = "done"
                                ELSE IF t \in Readers THEN pc'[t] = "leave" ELSE pc'[t] = "done"
    BY <1>3, <1>6, Kinds DEF AfterFail, Unwound, Workforce
  <1>8. QED
    BY <1>1, <1>3, <1>5, <1>7 DEF Workforce

-----------------------------------------------------------------------------
(***************************************************************************)
(* Who has stopped, and who has left.                                      *)
(***************************************************************************)
LEMMA SomeCompute == <<"compute", 0>> \in Computes
  BY PipelineAssumption DEF Computes

LEMMA ReadersFinite == IsFiniteSet({r \in Readers : pc[r] # "done"})
  <1>1. IsFiniteSet(0 .. InputReaders - 1)
    BY FS_Interval, PipelineAssumption
  <1>2. IsFiniteSet(Readers)
    BY <1>1, FS_Singleton, FS_Product DEF Readers
  <1>3. QED
    BY <1>2, FS_Subset

\* A thread that is at work was not joined.
LEMMA NotJoined ==
    ASSUME StopsInv
    PROVE  /\ \A c \in Computes : pc[c] # "done" =>
                 /\ pc[Main] = "join_compute" /\ ~outputFinished
                 /\ inputStopped => failed
           /\ \A t \in Workforce : pc[t] # "done" => pc[Main] \notin {"returned", "threw"}
  BY DEF StopsInv, Joined, Workforce

\* The input is stopped while a reader is at work only if run gives up.
LEMMA StoppedReader ==
    ASSUME JInv, NEW r \in Readers, pc[r] # "done", inputStopped
    PROVE  GivingUp
  <1>1. CASE failed
    BY <1>1 DEF GivingUp
  <1>2. CASE ~failed
    <2>1. Joined(Computes)
      BY <1>2 DEF JInv, StopsInv
    <2>2. Gone(<<"compute", 0>>)
      BY <2>1, SomeCompute DEF Joined, Gone
    <2>3. InputReaders # 0
      <3>1. InputReaders = 0 => Readers = {}
        BY DEF Readers
      <3>2. QED
        BY <3>1
    <2>4. ~inputFinished
      BY DEF JInv, LeaveInv, Joined
    <2>5. QED
      BY <2>2, <2>3, <2>4, SomeCompute DEF JInv, LeaveInv
  <1>3. QED
    BY <1>1, <1>2

\* A compute thread whose position is refused has come to the end of the
\* schedule.
LEMMA RefusedAtEnd ==
    ASSUME IInv, JInv, NEW c \in Computes, pc[c] = "pop",
           inputStopped \/ (inputFinished /\ cur[c] \notin queue)
    PROVE  GivingUp \/ (cur[c] \notin Positions /\ expected >= Charts)
  <1> SUFFICES ASSUME ~GivingUp PROVE cur[c] \notin Positions /\ expected >= Charts
    OBVIOUS
  <1>1. ~failed /\ ~inputStopped /\ inputFinished /\ cur[c] \notin queue
    BY NotJoined DEF JInv, GivingUp
  <1>2. InputReaders > 0
    BY DEF IInv, HandsOK, HandOK
  <1>3. Joined(Readers) /\ next >= Charts
    <2>1. Joined(Readers)
      BY <1>1 DEF JInv, LeaveInv
    <2>2. <<"reader", 0>> \in Readers
      BY <1>2, PipelineAssumption DEF Readers
    <2>3. QED
      BY <2>1, <2>2 DEF JInv, LeaveInv, Joined
  <1>4. \A p \in Positions : p \in Upstream => p \in queue
    <2>1. \A r \in Readers : Mine(r) = {}
      BY <1>3, ReaderMine DEF Joined, HandLabels
    <2>2. \A p \in Positions : ~(p >= next)
      BY <1>3, BudgetAssumption DEF IInv, TypeOK, CountersTypeOK, Positions
    <2>3. QED
      BY <2>1, <2>2 DEF Upstream
  <1>5. Wants(c) /\ Wanted(cur[c]) /\ cur[c] < expected
    BY <1>2 DEF Wants, Wanted, JInv, DemandInv
  <1>6. cur[c] \notin Positions
    BY <1>1, <1>2, <1>4, <1>5 DEF JInv, DemandInv
  <1>7. cur[c] \in Nat /\ expected \in Nat
    BY DEF IInv, TypeOK, ThreadsTypeOK, CountersTypeOK
  <1>8. cur[c] >= Charts
    BY <1>6, <1>7, BudgetAssumption DEF Positions
  <1>9. QED
    BY <1>5, <1>6, <1>7, <1>8, BudgetAssumption

\* StopsInv is about the flags and where the threads are.
LEMMA StopsStep ==
    ASSUME StopsInv, NEW t \in Workforce, OnlyBy(t), pc[t] # "done",
           UNCHANGED outputFinished, failed => failed',
           UNCHANGED failed \/ failed',
           inputStopped' => inputStopped \/ failed',
           outputStopped' => outputStopped \/ failed',
           pc'[t] \in FailSteps => failed'
    PROVE  StopsInv'
  <1>1. Main # t /\ Main \in Threads
    BY Kinds DEF Workforce
  <1>2. pc'[Main] = pc[Main]
    BY <1>1 DEF OnlyBy
  <1>3. pc[Main] \notin {"returned", "threw"}
    BY NotJoined
  <1>4. \A x \in Workforce : pc'[x] \in FailSteps => failed'
    BY Kinds DEF OnlyBy, StopsInv, Workforce
  <1>5. Joined(Computes) => Joined(Computes)'
    BY Kinds DEF OnlyBy, Joined, Workforce
  <1>6. QED
    BY <1>2, <1>3, <1>4, <1>5 DEF StopsInv

\* LeaveInv is about who leaves when: the rest only comes nearer to the end.
LEMMA LeaveStep ==
    ASSUME IInv, LeaveInv, NEW t \in Workforce, OnlyBy(t), GivingUp => GivingUp',
           UNCHANGED endVars, pc[t] # "done", t \in Readers => pc'[t] # "done",
           next >= Charts => next' >= Charts,
           expected >= Charts => expected' >= Charts,
           t \in Readers /\ pc'[t] = "leave" =>
               pc[t] = "leave" \/ GivingUp' \/ next' >= Charts,
           t \in Computes /\ Gone(t)' =>
               \/ Gone(t)
               \/ GivingUp'
               \/ InputReaders > 0 /\ inputFinished /\ expected' >= Charts
               \/ InputReaders = 0 /\ next' >= Charts
    PROVE  LeaveInv'
  <1>1. {r \in Readers : pc[r] # "done"}' = {r \in Readers : pc[r] # "done"}
    BY Kinds DEF OnlyBy
  <1>2. remainingReaders' = Cardinality({r \in Readers : pc[r] # "done"}')
    BY <1>1 DEF LeaveInv, endVars
  <1>3. Joined(Readers)' <=> Joined(Readers)
    BY Kinds DEF OnlyBy, Joined
  <1>4. \A r \in Readers : pc'[r] \in {"leave", "done"} => GivingUp' \/ next' >= Charts
    BY Kinds DEF OnlyBy, LeaveInv
  <1>5. ASSUME NEW c \in Computes, Gone(c)'
        PROVE  \/ GivingUp'
               \/ InputReaders > 0 /\ inputFinished' /\ expected' >= Charts
               \/ InputReaders = 0 /\ next' >= Charts
    <2>1. UNCHANGED inputFinished
      BY DEF endVars
    <2>2. CASE Gone(c)
      BY <2>1, <2>2 DEF LeaveInv
    <2>3. CASE ~Gone(c)
      <3>1. c = t
        BY <1>5, <2>3, OthersKeep
      <3>2. QED
        BY <1>5, <2>1, <2>3, <3>1
    <2>4. QED
      BY <2>2, <2>3
  <1>6. inputFinished' => Joined(Readers)'
    BY <1>3 DEF LeaveInv, endVars
  <1>7. QED
    BY <1>2, <1>4, <1>5, <1>6 DEF LeaveInv

\* A step that leaves Upstream and the demand for it as they are, or after
\* which run gives up.
LEMMA DemandStep ==
    ASSUME DemandInv, NEW t \in Workforce, OnlyBy(t),
           UNCHANGED expected,
           InputReaders = 0 => UNCHANGED queue,
           \/ GivingUp'
           \/ ~GivingUp /\ \A p \in Positions : p \in Upstream' <=> p \in Upstream,
           t \in Computes /\ Wants(t)' => Wants(t) /\ cur'[t] = cur[t],
           t \in Computes /\ Wants(t) => GivingUp' \/ Wants(t)' \/ cur[t] \notin Positions
    PROVE  DemandInv'
  <1>1. \A c \in Computes : Wants(c)' => Wants(c) /\ cur'[c] = cur[c]
    BY OthersKeep DEF OnlyBy
  <1>2. \A c \in Computes : Wants(c) =>
            GivingUp' \/ (Wants(c)' /\ cur'[c] = cur[c]) \/ cur[c] \notin Positions
    <2>1. \A c \in Computes : c # t /\ Wants(c) => Wants(c)' /\ cur'[c] = cur[c]
      BY OthersKeep DEF OnlyBy
    <2>2. t \in Computes /\ Wants(t) =>
              GivingUp' \/ (Wants(t)' /\ cur'[t] = cur[t]) \/ cur[t] \notin Positions
      BY <1>1
    <2>3. QED
      BY <2>1, <2>2
  <1>3. ASSUME InputReaders > 0, ~GivingUp'
        PROVE  \A p \in Positions : p \in Upstream' <=> Wanted(p)'
    <2>1. \A p \in Positions : Wanted(p)' <=> Wanted(p)
      BY <1>1, <1>2, <1>3 DEF Wanted
    <2>2. QED
      BY <1>3, <2>1 DEF DemandInv
  <1>4. ASSUME InputReaders > 0
        PROVE  /\ \A c \in Computes : Wants(c)' => cur'[c] < expected'
               /\ \A c, d \in Computes : Wants(c)' /\ Wants(d)' /\ cur'[c] = cur'[d] => c = d
    BY <1>1, <1>4 DEF DemandInv
  <1>5. InputReaders = 0 => queue' = {}
    BY DEF DemandInv
  <1>6. QED
    BY <1>3, <1>4, <1>5 DEF DemandInv

\* A step that leaves the partitions as they are.
LEMMA ShelvesStep ==
    ASSUME ShelvesInv, NEW t \in Workforce, OnlyBy(t), GivingUp => GivingUp',
           UNCHANGED <<parts, outputFinished>>,
           t \in Computes /\ IoWorkers > 0 => batch'[t] = <<>>,
           t \in Computes /\ pc'[t] = "done" => batch'[t] = <<>>,
           t \in Writers => WriterPlace(t)'
    PROVE  ShelvesInv'
  <1>1. \A w \in Writers : WriterPlace(w)'
    <2>1. ASSUME NEW w \in Writers, w # t PROVE WriterPlace(w)'
      <3>1. pc'[w] = pc[w] /\ resume'[w] = resume[w] /\ batch'[w] = batch[w]
        BY <2>1, Kinds DEF OnlyBy
      <3>2. WriterPlace(w)
        BY DEF ShelvesInv
      <3>3. QED
        BY <3>1, <3>2 DEF WriterPlace
    <2>2. QED
      BY <2>1
  <1>2. \A c \in Computes : c # t => pc'[c] = pc[c] /\ batch'[c] = batch[c]
    BY Kinds DEF OnlyBy
  <1>3. QED
    BY <1>1, <1>2 DEF ShelvesInv

\* A step that neither pushes nor pops.
LEMMA CountStep ==
    ASSUME CountInv, NEW t \in Workforce, OnlyBy(t),
           UNCHANGED shelfVars,
           t \in Computes => pc[t] # "count" /\ pc'[t] # "count",
           t \in Writers => pc[t] # "account" /\ pc'[t] # "account"
    PROVE  CountInv'
  <1>1. Counting' = Counting
    BY Kinds DEF OnlyBy, Counting
  <1>2. \A w \in Writers : /\ pc'[w] = "account" <=> pc[w] = "account"
                           /\ pc[w] = "account" => batch'[w] = batch[w]
    BY Kinds DEF OnlyBy
  <1>3. \A p \in Positions : p \in Unaccounted' <=> p \in Unaccounted
    <2>1. UNCHANGED parts
      BY DEF shelfVars
    <2>2. QED
      BY <1>2, <2>1 DEF Unaccounted, ElementsOf
  <1>4. Unaccounted' = Unaccounted
    BY <1>3 DEF Unaccounted
  <1>5. QED
    BY <1>1, <1>4 DEF CountInv, shelfVars

\* A batch that is not touched.
LEMMA BatchStep ==
    ASSUME NEW x \in Computes \cup Writers, BatchWritten(x),
           pc'[x] = pc[x], batch'[x] = batch[x], wix'[x] = wix[x],
           GivingUp => GivingUp', UNCHANGED written
    PROVE  BatchWritten(x)'
  BY DEF BatchWritten, ElementsOf

\* A step that writes nothing and loses nothing.
LEMMA WrittenStep ==
    ASSUME WrittenInv, NEW t \in Workforce, OnlyBy(t), GivingUp => GivingUp',
           UNCHANGED written,
           t \in Computes \cup Writers => BatchWritten(t)',
           \A p \in Positions : p \in Waiting' => p \in Waiting,
           \A p \in Positions : p \in Waiting \/ p \in InBatch =>
               p \in Waiting' \/ p \in InBatch' \/ written[p] = 1 \/ GivingUp'
    PROVE  WrittenInv'
  <1>1. ASSUME NEW x \in Computes \cup Writers PROVE BatchWritten(x)'
    <2>1. CASE x = t
      BY <2>1
    <2>2. CASE x # t
      <3>1. pc'[x] = pc[x] /\ batch'[x] = batch[x] /\ wix'[x] = wix[x]
        BY <2>2, Kinds DEF OnlyBy
      <3>2. BatchWritten(x)
        BY DEF WrittenInv
      <3>3. QED
        BY <3>1, <3>2, BatchStep
    <2>3. QED
      BY <2>1, <2>2
  <1>2. ASSUME NEW p \in Positions
        PROVE  /\ written'[p] \in {0, 1}
               /\ p \in Waiting' => written'[p] = 0
               /\ p \in Waiting' \/ p \in InBatch' \/ written'[p] = 1 \/ GivingUp'
    BY DEF WrittenInv
  <1>3. QED
    BY <1>1, <1>2 DEF WrittenInv

\* What is upstream, waiting or in a batch.
LEMMA Whereabouts ==
    ASSUME NEW p \in Positions
    PROVE  /\ p \in Upstream <=>
                  p >= next \/ p \in queue \/ \E r \in Readers : p \in Mine(r)
           /\ p \in Waiting <=>
                  \/ p \in Upstream
                  \/ \E c \in Computes : p \in Mine(c)
                  \/ \E i \in Partitions : p \in ElementsOf(parts[i])
           /\ p \in InBatch <=>
                  \E t \in Computes \cup Writers : p \in ElementsOf(batch[t])
  <1>1. p \in Upstream <=>
            p >= next \/ p \in queue \/ \E r \in Readers : p \in Mine(r)
    BY ZenonT(30) DEF Upstream
  <1>2. p \in Waiting <=>
            \/ p \in Upstream
            \/ \E c \in Computes : p \in Mine(c)
            \/ \E i \in Partitions : p \in ElementsOf(parts[i])
    <2>1. p \in InWork <=> \E c \in Computes : p \in Mine(c)
      BY ZenonT(30) DEF InWork
    <2>2. p \in OnShelf <=> \E i \in Partitions : p \in ElementsOf(parts[i])
      BY ZenonT(30) DEF OnShelf
    <2>3. QED
      BY ONLY <2>1, <2>2 DEF Waiting
  <1>3. p \in InBatch <=>
            \E t \in Computes \cup Writers : p \in ElementsOf(batch[t])
    BY ZenonT(30) DEF InBatch
  <1>4. QED
    BY ONLY <1>1, <1>2, <1>3

LEMMA WhereaboutsAfter ==
    ASSUME NEW p \in Positions
    PROVE  /\ p \in Upstream' <=>
                  p >= next' \/ p \in queue' \/ \E r \in Readers : p \in Mine(r)'
           /\ p \in Waiting' <=>
                  \/ p \in Upstream'
                  \/ \E c \in Computes : p \in Mine(c)'
                  \/ \E i \in Partitions : p \in ElementsOf(parts'[i])
           /\ p \in InBatch' <=>
                  \E t \in Computes \cup Writers : p \in ElementsOf(batch'[t])
  <1>1. p \in Upstream' <=>
            p >= next' \/ p \in queue' \/ \E r \in Readers : p \in Mine(r)'
    BY ZenonT(30) DEF Upstream
  <1>2. p \in Waiting' <=>
            \/ p \in Upstream'
            \/ \E c \in Computes : p \in Mine(c)'
            \/ \E i \in Partitions : p \in ElementsOf(parts[i])'
    <2>1. p \in InWork' <=> \E c \in Computes : p \in Mine(c)'
      BY ZenonT(30) DEF InWork
    <2>2. p \in OnShelf' <=> \E i \in Partitions : p \in ElementsOf(parts[i])'
      BY ZenonT(30) DEF OnShelf
    <2>3. QED
      BY ONLY <2>1, <2>2 DEF Waiting
  <1>3. p \in InBatch' <=>
            \E t \in Computes \cup Writers : p \in ElementsOf(batch[t])'
    BY ZenonT(30) DEF InBatch
  <1>4. /\ \A i : ElementsOf(parts[i])' = ElementsOf(parts'[i])
        /\ \A t : ElementsOf(batch[t])' = ElementsOf(batch'[t])
    BY DEF ElementsOf
  <1>5. QED
    BY ONLY <1>1, <1>2, <1>3, <1>4

-----------------------------------------------------------------------------
(***************************************************************************)
(* Readers.                                                                *)
(***************************************************************************)
\* What a reader does with the charts upstream: they stay there, or run gives
\* up.
LEMMA ReaderUpstream ==
    ASSUME IInv, JInv, NEW r \in Readers, OnlyBy(r), UNCHANGED stopVars,
           \/ ReaderTakes(r) \/ ReaderGoes(r) \/ ReaderKeeps(r)
           \/ ReaderFails(r) \/ ReaderGives(r) \/ ReaderEnds(r)
    PROVE  /\ GivingUp => GivingUp'
           /\ \A p \in Positions : p \in Upstream' => p \in Upstream
           /\ \A p \in Positions : p \in Upstream => p \in Upstream' \/ GivingUp'
  <1> USE DEF workVars, HandLabels
  <1>1. r \in Workforce /\ next \in Nat
    BY DEF Workforce, IInv, TypeOK, CountersTypeOK
  <1>2. GivingUp => GivingUp'
    <2>1. Doomed(r) => Doomed(r)'
      BY Kinds DEF Doomed, ReaderTakes, ReaderGoes, ReaderKeeps, ReaderFails,
         ReaderGives, ReaderEnds
    <2>2. QED
      BY <1>1, <2>1, GivingUpStays DEF stopVars
  <1>3. \A x \in Readers : x # r => Mine(x)' = Mine(x)
    BY OthersKeep
  <1>4. ASSUME NEW p \in Positions,
               \/ p >= next \/ p \in queue \/ p \in Mine(r)
               <=> p >= next' \/ p \in queue' \/ p \in Mine(r)'
        PROVE  p \in Upstream' <=> p \in Upstream
    BY <1>3, <1>4, Whereabouts, WhereaboutsAfter
  <1>5. CASE ReaderTakes(r)
    <2>1. /\ \A p \in Positions : p \notin Mine(r)
          /\ \A p \in Positions : p \in Mine(r)' <=> p = next
      BY <1>5, ReaderMine DEF ReaderTakes
    <2>2. \A p \in Positions : p >= next <=> p >= next' \/ p = next
      BY <1>1, <1>5, BudgetAssumption DEF ReaderTakes, Positions
    <2>3. QED
      BY <1>2, <1>4, <1>5, <2>1, <2>2 DEF ReaderTakes
  <1>6. CASE ReaderGoes(r)
    <2>1. \A p \in Positions : p \notin Mine(r)'
      BY <1>6, ReaderMine DEF ReaderGoes
    <2>2. \A p \in Positions : p >= next' <=> p >= next
      BY <1>1, <1>6, BudgetAssumption DEF ReaderGoes, Positions
    <2>3. CASE pc[r] \in {"loop", "claim"}
      <3>1. \A p \in Positions : p \notin Mine(r)
        BY <2>3, ReaderMine
      <3>2. QED
        BY <1>2, <1>4, <1>6, <2>1, <2>2, <3>1 DEF ReaderGoes
    <2>4. CASE pc[r] \notin {"loop", "claim"}
      <3>1. GivingUp
        BY <1>6, <2>4, StoppedReader DEF ReaderGoes
      <3>2. \A p \in Positions : p \in Upstream' => p \in Upstream
        BY <1>3, <1>6, <2>1, <2>2, Whereabouts, WhereaboutsAfter DEF ReaderGoes
      <3>3. QED
        BY <1>2, <3>1, <3>2
    <2>5. QED
      BY <2>3, <2>4
  <1>7. CASE ReaderKeeps(r)
    <2>1. \A p \in Positions : p \in Mine(r)' <=> p \in Mine(r)
      <3>1. CASE pc[r] = "loop" /\ pc'[r] = "claim"
        BY <3>1, ReaderMine
      <3>2. CASE ~(pc[r] = "loop" /\ pc'[r] = "claim")
        <4>1. /\ \A p \in Positions : p \in Mine(r)' <=> p = cur'[r]
              /\ \A p \in Positions : p \in Mine(r) <=> p = cur[r]
              /\ cur'[r] = cur[r]
          BY <1>7, <3>2, ReaderMine DEF ReaderKeeps
        <4>2. QED
          BY ONLY <4>1
      <3>3. QED
        BY <3>1, <3>2
    <2>2. QED
      BY <1>2, <1>4, <1>7, <2>1 DEF ReaderKeeps
  <1>8. CASE ReaderFails(r)
    <2>1. \A p \in Positions : p \notin Mine(r)'
      BY <1>8, ReaderMine DEF ReaderFails
    <2>2. GivingUp'
      BY <1>1, <1>8 DEF ReaderFails, GivingUp, Doomed
    <2>3. \A p \in Positions : p \in Upstream' => p \in Upstream
      BY <1>3, <1>8, <2>1, Whereabouts, WhereaboutsAfter DEF ReaderFails
    <2>4. QED
      BY <2>2, <2>3
  <1>9. CASE ReaderGives(r)
    <2>1. \A p \in Positions : /\ p \in Mine(r) <=> p = cur[r]
                               /\ p \notin Mine(r)'
      BY <1>9, ReaderMine DEF ReaderGives
    <2>2. QED
      BY <1>2, <1>4, <1>9, <2>1 DEF ReaderGives
  <1>10. CASE ReaderEnds(r)
    <2>1. Mine(r)' = {} /\ Mine(r) = {}
      BY <1>10, ReaderMine DEF ReaderEnds
    <2>2. QED
      BY <1>2, <1>4, <1>10, <2>1 DEF ReaderEnds
  <1>11. QED
    BY <1>5, <1>6, <1>7, <1>8, <1>9, <1>10


\* The last reader to leave finishes the input.
LEMMA ReaderLeaves ==
    ASSUME IInv, LeaveInv, NEW r \in Readers, OnlyBy(r), GivingUp => GivingUp',
           ReaderEnds(r)
    PROVE  LeaveInv'
  <1> DEFINE Left == {x \in Readers : pc[x] # "done"}
  <1>1. pc[r] = "leave" /\ pc'[r] = "done" /\ UNCHANGED <<next, expected>>
    BY DEF ReaderEnds, workVars
  <1>2. /\ remainingReaders' = remainingReaders - 1
        /\ inputFinished' = (inputFinished \/ remainingReaders = 1)
    BY DEF ReaderEnds
  <1>3. \A x \in Readers : x # r => pc'[x] = pc[x]
    BY Kinds DEF OnlyBy
  <1>4. r \in Left /\ Left' = Left \ {r}
    BY <1>1, <1>3
  <1>5. IsFiniteSet(Left) /\ Cardinality(Left) = remainingReaders
    BY ReadersFinite DEF LeaveInv
  <1> HIDE DEF Left
  <1>6. /\ Cardinality(Left') = Cardinality(Left) - 1
        /\ IsFiniteSet(Left') /\ Cardinality(Left') \in Nat /\ Cardinality(Left) \in Nat
    BY <1>4, <1>5, FS_RemoveElement, FS_CardinalityType
  <1>7. remainingReaders' = Cardinality({x \in Readers : pc[x] # "done"}')
    BY <1>2, <1>5, <1>6 DEF Left
  <1>8. ASSUME inputFinished' PROVE Joined(Readers)'
    <2>1. CASE inputFinished
      BY <1>1, <1>3, <2>1 DEF LeaveInv, Joined
    <2>2. CASE remainingReaders = 1
      <3>1. Left' = {}
        BY <1>5, <1>6, <2>2, FS_EmptySet
      <3>2. QED
        BY <3>1 DEF Left, Joined
    <2>3. inputFinished \in BOOLEAN
      BY DEF IInv, TypeOK, FlagsTypeOK
    <2>4. QED
      BY <1>2, <1>8, <2>1, <2>2, <2>3
  <1>9. \A x \in Readers : pc'[x] \in {"leave", "done"} => GivingUp' \/ next' >= Charts
    BY <1>1, <1>3 DEF LeaveInv
  <1>10. ASSUME NEW c \in Computes, Gone(c)'
         PROVE  \/ GivingUp'
                \/ InputReaders > 0 /\ inputFinished' /\ expected' >= Charts
                \/ InputReaders = 0 /\ next' >= Charts
    <2>1. Gone(c)
      BY <1>10, Kinds, OthersKeep
    <2>2. inputFinished => inputFinished'
      BY <1>2
    <2>3. QED
      BY <1>1, <2>1, <2>2 DEF LeaveInv
  <1>11. QED
    BY <1>7, <1>8, <1>9, <1>10 DEF LeaveInv

LEMMA ReaderJob ==
    ASSUME IInv, JInv, CInv', NEW r \in Readers, Reader(r)
    PROVE  JInv'
  <1>1. /\ OnlyBy(r) /\ UNCHANGED <<shelfVars, stopVars, written>>
        /\ \/ ReaderTakes(r) \/ ReaderGoes(r) \/ ReaderKeeps(r)
           \/ ReaderFails(r) \/ ReaderGives(r) \/ ReaderEnds(r)
    BY ReaderDoes
  <1>2. r \in Workforce /\ r \notin Computes /\ r \notin Writers
    BY Kinds DEF Workforce
  <1>3. /\ GivingUp => GivingUp'
        /\ \A p \in Positions : p \in Upstream' => p \in Upstream
        /\ \A p \in Positions : p \in Upstream => p \in Upstream' \/ GivingUp'
    BY <1>1, ReaderUpstream
  <1>4. /\ pc[r] # "done" /\ pc'[r] \notin FailSteps
        /\ next >= Charts => next' >= Charts
        /\ UNCHANGED expected
    BY <1>1, BudgetAssumption
       DEF ReaderTakes, ReaderGoes, ReaderKeeps, ReaderFails, ReaderGives, ReaderEnds,
           HandLabels, FailSteps, workVars, IInv, TypeOK, CountersTypeOK
  <1>5. StopsInv /\ LeaveInv /\ DemandInv /\ ShelvesInv /\ CountInv /\ WrittenInv
    BY DEF JInv
  <1>6. StopsInv'
    BY <1>1, <1>2, <1>4, <1>5, StopsStep DEF stopVars
  <1>7. LeaveInv'
    <2>1. CASE ReaderEnds(r)
      BY <1>1, <1>3, <1>5, <2>1, ReaderLeaves
    <2>2. CASE ~ReaderEnds(r)
      <3>1. UNCHANGED endVars /\ pc'[r] # "done"
        BY <1>1, <2>2
           DEF ReaderTakes, ReaderGoes, ReaderKeeps, ReaderFails, ReaderGives, HandLabels
      <3>2. ASSUME pc'[r] = "leave" PROVE GivingUp' \/ next' >= Charts
        <4>1. ReaderGoes(r)
          BY <1>1, <2>2, <3>2
             DEF ReaderTakes, ReaderKeeps, ReaderFails, ReaderGives, HandLabels
        <4>2. CASE inputStopped
          BY <1>3, <1>4, <4>2, StoppedReader
        <4>3. CASE failed
          BY <1>3, <4>3 DEF GivingUp
        <4>4. CASE next >= Charts
          BY <1>4, <4>4
        <4>5. QED
          BY <4>1, <4>2, <4>3, <4>4 DEF ReaderGoes
      <3>3. QED
        BY <1>1, <1>2, <1>3, <1>4, <1>5, <3>1, <3>2, LeaveStep
    <2>3. QED
      BY <2>1, <2>2
  <1>8. DemandInv'
    <2>1. InputReaders # 0
      BY DEF Readers
    <2>2. \/ GivingUp'
          \/ ~GivingUp /\ \A p \in Positions : p \in Upstream' <=> p \in Upstream
      BY <1>3
    <2>3. QED
      BY <1>1, <1>2, <1>4, <1>5, <2>1, <2>2, DemandStep
  <1>9. ShelvesInv'
    BY <1>1, <1>2, <1>3, <1>5, ShelvesStep DEF shelfVars, stopVars
  <1>10. CountInv'
    BY <1>1, <1>2, <1>5, CountStep
  <1>11. WrittenInv'
    <2>1. /\ \A c \in Computes : Mine(c)' = Mine(c)
          /\ \A t \in Computes \cup Writers : batch'[t] = batch[t]
          /\ UNCHANGED parts
      BY <1>1, <1>2, OthersKeep DEF OnlyBy, shelfVars
    <2>2. \A p \in Positions : p \in Waiting' => p \in Waiting
      BY <1>3, <2>1, Whereabouts, WhereaboutsAfter
    <2>3. \A p \in Positions : p \in Waiting \/ p \in InBatch =>
              p \in Waiting' \/ p \in InBatch' \/ GivingUp'
      BY <1>3, <2>1, Whereabouts, WhereaboutsAfter
    <2>4. QED
      BY <1>1, <1>2, <1>3, <1>5, <2>2, <2>3, WrittenStep
  <1>12. QED
    BY <1>6, <1>7, <1>8, <1>9, <1>10, <1>11 DEF JInv

-----------------------------------------------------------------------------
(***************************************************************************)
(* Compute threads.                                                        *)
(***************************************************************************)
Computed(c) ==
    \/ ComputeClaims(c) \/ ComputeGoes(c) \/ ComputeKeeps(c) \/ ComputeFails(c)
    \/ ComputeOrders(c) \/ ComputeTakes(c) \/ ComputeSkips(c) \/ ComputePuts(c)
    \/ ComputeCounts(c) \/ ComputeAdds(c)

StaysDown(c) ==
    \/ ComputeGoes(c) \/ ComputeKeeps(c) \/ ComputeFails(c) \/ ComputeOrders(c)
    \/ ComputeSkips(c) \/ ComputePuts(c) \/ ComputeCounts(c) \/ ComputeAdds(c)

\* What is in the hands of a compute thread that leaves its loop, fails, or
\* comes to or from the input queue.
LEMMA ComputeHands ==
    ASSUME IInv, NEW c \in Computes
    PROVE  /\ ComputeGoes(c) \/ ComputeOrders(c) \/ ComputeSkips(c) =>
                  \A p \in Positions : p \notin Mine(c) /\ p \notin Mine(c)'
           /\ ComputeFails(c) => \A p \in Positions : p \notin Mine(c)'
           /\ ComputeTakes(c) =>
                  \A p \in Positions : p \notin Mine(c) /\ (p \in Mine(c)' <=> p = cur[c])
  <1> DEFINE Out == pc[c] \in {"loop", "claim", "pop", "try"} \/ (InputReaders > 0 /\ pc[c] = "next")
             OutAfter == \/ pc'[c] \in {"loop", "pop", "try", "fail", "done"}
                         \/ pc'[c] \in {"flush", "clear"} /\ resume'[c] = "done"
  <1>1. InputReaders \in Nat
    BY PipelineAssumption
  <1>2. Out => \A p \in Positions : p \notin Mine(c)
    BY <1>1, ComputeMine DEF TakenLabels, Busy
  <1>3. OutAfter => \A p \in Positions : p \notin Mine(c)'
    BY ComputeMine DEF TakenLabels, Busy
  <1>4. ComputeGoes(c) \/ ComputeOrders(c) \/ ComputeSkips(c) => Out /\ OutAfter
    BY DEF ComputeGoes, ComputeOrders, ComputeSkips
  <1>5. ComputeFails(c) => OutAfter
    BY DEF ComputeFails
  <1>6. ASSUME ComputeTakes(c)
        PROVE  \A p \in Positions : p \notin Mine(c) /\ (p \in Mine(c)' <=> p = cur[c])
    <2>1. Out /\ pc'[c] = "process" /\ cur'[c] = cur[c]
      BY <1>6 DEF ComputeTakes
    <2>2. InputReaders > 0
      BY <1>6 DEF ComputeTakes, IInv, HandsOK, HandOK
    <2>3. \A p \in Positions : p \in Mine(c)' <=> p = cur[c]
      BY <1>1, <2>1, <2>2, ComputeMine DEF TakenLabels
    <2>4. QED
      BY <1>2, <2>1, <2>3
  <1>7. QED
    BY <1>2, <1>3, <1>4, <1>5, <1>6

\* What a compute thread does with the charts upstream.
LEMMA ComputeUpstream ==
    ASSUME IInv, CInv, IInv', NEW c \in Computes, OnlyBy(c), NEW p \in Positions
    PROVE  /\ ComputeTakes(c) => (p \in Upstream' <=> p \in Upstream /\ p # cur[c])
           /\ ComputeClaims(c) => /\ p \in Upstream' => p \in Upstream
                                  /\ p \in Upstream => p \in Upstream' \/ p \in Mine(c)'
                                  /\ p \in Mine(c)' => p \in Upstream
           /\ StaysDown(c) => (p \in Upstream' <=> p \in Upstream)
  <1>1. \A r \in Readers : Mine(r)' = Mine(r)
    BY Kinds, OthersKeep
  <1>2. /\ next \in Nat /\ next' \in Nat /\ p \in Nat /\ p < Charts
        /\ ComputeBatch \in Nat /\ Charts \in Nat
    BY BudgetAssumption, PipelineAssumption DEF IInv, TypeOK, CountersTypeOK, Positions
  <1>3. ASSUME ComputeTakes(c) PROVE p \in Upstream' <=> p \in Upstream /\ p # cur[c]
    <2>1. cur[c] \in queue /\ queue' = queue \ {cur[c]} /\ UNCHANGED next
      BY <1>3 DEF ComputeTakes
    <2>2. p \in queue => ~(p >= next)
      BY <1>2 DEF IInv, ClaimedOnce
    <2>3. ASSUME NEW r \in Readers PROVE p \in queue => p \notin Mine(r)
      BY MineIs DEF IInv, CInv
    <2>4. /\ p = cur[c] => p \in queue
          /\ p \in queue' <=> p \in queue /\ p # cur[c]
      BY <2>1
    <2>5. QED
      BY <1>1, <2>1, <2>2, <2>3, <2>4, Whereabouts, WhereaboutsAfter
  <1>4. ASSUME ComputeClaims(c)
        PROVE  /\ p \in Upstream' => p \in Upstream
               /\ p \in Upstream => p \in Upstream' \/ p \in Mine(c)'
               /\ p \in Mine(c)' => p \in Upstream
    <2>1. /\ next' >= next /\ UNCHANGED queue
          /\ p \in Mine(c)' <=> p >= next /\ ~(p >= next')
      BY <1>4 DEF ComputeClaims
    <2>2. p >= next' => p >= next
      BY ONLY <1>2, <2>1
    <2>3. QED
      BY <1>1, <2>1, <2>2, Whereabouts, WhereaboutsAfter
  <1>5. ASSUME StaysDown(c) PROVE p \in Upstream' <=> p \in Upstream
    <2>1. UNCHANGED queue
      BY <1>5 DEF StaysDown, ComputeGoes, ComputeKeeps, ComputeFails, ComputeOrders,
         ComputeSkips, ComputePuts, ComputeCounts, ComputeAdds, workVars
    <2>2. p >= next' <=> p >= next
      <3>1. next' = next \/ (next >= Charts /\ next' = next + ComputeBatch)
        BY <1>5 DEF StaysDown, ComputeGoes, ComputeKeeps, ComputeFails, ComputeOrders,
           ComputeSkips, ComputePuts, ComputeCounts, ComputeAdds, workVars
      <3>2. QED
        BY ONLY <1>2, <3>1
    <2>3. QED
      BY <1>1, <2>1, <2>2, Whereabouts, WhereaboutsAfter
  <1>6. QED
    BY <1>3, <1>4, <1>5

\* What a compute thread does with the charts that wait, and with its batch.
LEMMA ComputeWaiting ==
    ASSUME IInv, CInv, IInv', NEW c \in Computes, OnlyBy(c), Computed(c),
           NEW p \in Positions
    PROVE  /\ p \in Waiting' => p \in Waiting
           /\ p \in Waiting \/ p \in InBatch =>
                  p \in Waiting' \/ p \in InBatch' \/ GivingUp'
  <1>1. /\ \A d \in Computes : d # c => Mine(d)' = Mine(d)
        /\ \A t \in Computes \cup Writers : t # c => batch'[t] = batch[t]
    BY OthersKeep DEF OnlyBy
  <1> DEFINE Shelved == \E i \in Partitions : p \in ElementsOf(parts[i])
             ShelvedAfter == \E i \in Partitions : p \in ElementsOf(parts'[i])
             Other == \E d \in Computes : d # c /\ p \in Mine(d)
             Batched == \E t \in Computes \cup Writers :
                              t # c /\ p \in ElementsOf(batch[t])
  <1>2. /\ p \in Waiting <=> p \in Upstream \/ p \in Mine(c) \/ Other \/ Shelved
        /\ p \in Waiting' <=> p \in Upstream' \/ p \in Mine(c)' \/ Other \/ ShelvedAfter
    BY <1>1, Whereabouts, WhereaboutsAfter
  <1>3. /\ p \in InBatch <=> Batched \/ p \in ElementsOf(batch[c])
        /\ p \in InBatch' <=> Batched \/ p \in ElementsOf(batch'[c])
    BY <1>1, Whereabouts, WhereaboutsAfter
  <1>4. UNCHANGED parts => (ShelvedAfter <=> Shelved)
    OBVIOUS
  <1> HIDE DEF Shelved, ShelvedAfter, Other, Batched
  <1>5. CASE ComputeClaims(c)
    <2>1. Mine(c) = {} /\ UNCHANGED parts /\ batch'[c] = batch[c]
      BY <1>5 DEF ComputeClaims, shelfVars
    <2>2. /\ p \in Upstream' => p \in Upstream
          /\ p \in Upstream => p \in Upstream' \/ p \in Mine(c)'
          /\ p \in Mine(c)' => p \in Upstream
      BY <1>5, ComputeUpstream
    <2>3. QED
      BY <1>2, <1>3, <1>4, <2>1, <2>2
  <1>6. CASE ComputeGoes(c) \/ ComputeOrders(c) \/ ComputeSkips(c)
    <2>1. UNCHANGED parts /\ batch'[c] = batch[c]
      BY <1>6 DEF ComputeGoes, ComputeOrders, ComputeSkips, shelfVars
    <2>2. p \notin Mine(c) /\ p \notin Mine(c)'
      BY <1>6, ComputeHands
    <2>3. p \in Upstream' <=> p \in Upstream
      BY <1>6, ComputeUpstream DEF StaysDown
    <2>4. QED
      BY <1>2, <1>3, <1>4, <2>1, <2>2, <2>3
  <1>7. CASE ComputeKeeps(c) \/ ComputeCounts(c)
    <2>1. UNCHANGED parts /\ batch'[c] = batch[c] /\ Mine(c)' = Mine(c)
      BY <1>7 DEF ComputeKeeps, ComputeCounts, shelfVars
    <2>2. p \in Upstream' <=> p \in Upstream
      BY <1>7, ComputeUpstream DEF StaysDown
    <2>3. QED
      BY <1>2, <1>3, <1>4, <2>1, <2>2
  <1>8. CASE ComputeFails(c)
    <2>1. UNCHANGED parts /\ batch'[c] = batch[c]
      BY <1>8 DEF ComputeFails, shelfVars
    <2>2. p \notin Mine(c)'
      BY <1>8, ComputeHands
    <2>3. p \in Upstream' <=> p \in Upstream
      BY <1>8, ComputeUpstream DEF StaysDown
    <2>4. GivingUp'
      BY <1>8 DEF ComputeFails, GivingUp, Doomed, Workforce
    <2>5. QED
      BY <1>2, <1>4, <2>1, <2>2, <2>3, <2>4
  <1>9. CASE ComputeTakes(c)
    <2>1. UNCHANGED parts /\ batch'[c] = batch[c] /\ cur[c] \in queue
      BY <1>9 DEF ComputeTakes, shelfVars
    <2>2. p \notin Mine(c) /\ (p \in Mine(c)' <=> p = cur[c])
      BY <1>9, ComputeHands
    <2>3. p \in Upstream' <=> p \in Upstream /\ p # cur[c]
      BY <1>9, ComputeUpstream
    <2>4. p = cur[c] => p \in Upstream
      BY <2>1, Whereabouts
    <2>5. QED
      BY <1>2, <1>3, <1>4, <2>1, <2>2, <2>3, <2>4
  <1>10. ASSUME ComputePuts(c) \/ ComputeAdds(c)
         PROVE  /\ cur[c] \in Positions /\ cur[c] \in Mine(c)
                /\ Mine(c)' = Mine(c) \ {cur[c]}
                /\ p \in Upstream' <=> p \in Upstream
    <2>1. pc[c] \in TakenLabels /\ Mine(c)' = Mine(c) \ {cur[c]}
      BY <1>10 DEF ComputePuts, ComputeAdds, TakenLabels
    <2>2. QED
      BY <1>10, <2>1, ComputeHand, ComputeUpstream DEF StaysDown
  <1>11. CASE ComputePuts(c)
    <2>1. batch'[c] = batch[c]
      BY <1>11 DEF ComputePuts
    <2>2. ShelvedAfter <=> Shelved \/ p = cur[c]
      <3> DEFINE k == PartitionOf(cur[c])
      <3>1. k \in Partitions
        BY <1>10, <1>11, PartitionOfType
      <3>2. parts[k] \in Seq(Positions) /\ NoRepeat(parts[k])
        BY <3>1 DEF IInv, TypeOK, PlacesTypeOK, CInv, SequencesInv
      <3>3. cur[c] \notin ElementsOf(parts[k])
        BY <1>10, <1>11, <3>1, MineIs DEF IInv, CInv
      <3>4. ElementsOf(Append(parts[k], cur[c])) = ElementsOf(parts[k]) \cup {cur[c]}
        BY <1>10, <1>11, <3>2, <3>3, AppendOnce
      <3>5. parts \in [Partitions -> Seq(Positions)]
        BY DEF IInv, TypeOK, PlacesTypeOK
      <3>6. parts' = [parts EXCEPT ![k] = Append(@, cur[c])]
        BY <1>11 DEF ComputePuts
      <3>7. /\ parts'[k] = Append(parts[k], cur[c])
            /\ \A i \in Partitions : i # k => parts'[i] = parts[i]
        BY ONLY <3>1, <3>5, <3>6
      <3> HIDE DEF k
      <3>8. QED
        BY <3>1, <3>4, <3>7 DEF Shelved, ShelvedAfter
    <2>3. QED
      BY <1>2, <1>3, <1>10, <1>11, <2>1, <2>2
  <1>12. CASE ComputeAdds(c)
    <2>1. UNCHANGED parts /\ batch'[c] = Append(batch[c], cur[c])
      BY <1>12 DEF ComputeAdds, shelfVars
    <2>2. batch[c] \in Seq(Positions) /\ NoRepeat(batch[c])
      BY DEF IInv, TypeOK, PlacesTypeOK, CInv, SequencesInv
    <2>3. cur[c] \notin ElementsOf(batch[c])
      BY <1>10, <1>12, MineIs DEF IInv, CInv
    <2>4. ElementsOf(batch'[c]) = ElementsOf(batch[c]) \cup {cur[c]}
      BY <1>10, <1>12, <2>1, <2>2, <2>3, AppendOnce
    <2>5. QED
      BY <1>2, <1>3, <1>4, <1>10, <1>12, <2>1, <2>4
  <1>13. QED
    BY <1>5, <1>6, <1>7, <1>8, <1>9, <1>11, <1>12 DEF Computed

\* A compute thread ends its loop when there is nothing to take.
LEMMA ComputeDemand ==
    ASSUME IInv, CInv, JInv, IInv', NEW c \in Computes, OnlyBy(c), Computed(c),
           GivingUp => GivingUp', UNCHANGED <<stopVars, endVars>>
    PROVE  DemandInv'
  <1>1. c \in Workforce /\ DemandInv /\ c \in Readers \cup Computes
    BY DEF JInv, Workforce
  <1>2. InputReaders \in Nat /\ expected \in Nat
    BY PipelineAssumption DEF IInv, TypeOK, CountersTypeOK
  <1>3. CASE ComputeClaims(c)
    BY <1>1, <1>2, <1>3 DEF ComputeClaims, DemandInv
  <1>4. CASE StaysDown(c) /\ ~ComputeOrders(c)
    <2>1. \A p \in Positions : p \in Upstream' <=> p \in Upstream
      BY <1>4, ComputeUpstream
    <2>2. UNCHANGED <<expected, queue>>
      BY <1>4 DEF StaysDown, ComputeGoes, ComputeKeeps, ComputeFails,
         ComputeSkips, ComputePuts, ComputeCounts, ComputeAdds, workVars
    <2>3. Wants(c)' => Wants(c) /\ cur'[c] = cur[c]
      BY <1>4 DEF StaysDown, ComputeGoes, ComputeKeeps, ComputeFails,
         ComputeSkips, ComputePuts, ComputeCounts, ComputeAdds, Wants
    <2>4. Wants(c) => GivingUp' \/ Wants(c)' \/ cur[c] \notin Positions
      <3>1. CASE ComputeGoes(c) \/ ComputeSkips(c)
        <4>1. CASE pc[c] = "pop" /\ (inputStopped \/ (inputFinished /\ cur[c] \notin queue))
          BY <4>1, RefusedAtEnd
        <4>2. CASE failed
          BY <4>2 DEF GivingUp
        <4>3. CASE InputReaders = 0 \/ pc[c] \in {"loop", "claim"}
          <5>1. Wants(c) => InputReaders > 0
            BY DEF Wants, IInv, HandsOK, HandOK
          <5>2. QED
            BY <1>2, <4>3, <5>1 DEF Wants
        <4>4. QED
          BY <3>1, <4>1, <4>2, <4>3 DEF ComputeGoes, ComputeSkips
      <3>2. CASE ~(ComputeGoes(c) \/ ComputeSkips(c))
        BY <1>4, <3>2 DEF StaysDown, ComputeKeeps, ComputeFails, ComputePuts,
           ComputeCounts, ComputeAdds, Wants, TakenLabels
      <3>3. QED
        BY <3>1, <3>2
    <2>5. QED
      BY <1>1, <2>1, <2>2, <2>3, <2>4, DemandStep
  <1>5. CASE ComputeOrders(c)
    <2>1. /\ InputReaders > 0 /\ pc[c] \in {"claim", "next"} /\ pc'[c] = "try"
          /\ cur'[c] = expected /\ expected' = expected + 1 /\ UNCHANGED queue
      BY <1>5 DEF ComputeOrders
    <2>2. \A p \in Positions : p \in Upstream' <=> p \in Upstream
      BY <1>5, ComputeUpstream DEF StaysDown
    <2>3. /\ ~Wants(c) /\ Wants(c)'
          /\ \A d \in Computes : d # c => (Wants(d)' <=> Wants(d)) /\ cur'[d] = cur[d]
      BY <2>1, OthersKeep DEF Wants, OnlyBy
    <2>4. \A d \in Computes : Wants(d)' => cur'[d] < expected'
      <3>1. \A d \in Computes : Wants(d) => cur[d] < expected /\ cur[d] \in Nat
        BY <2>1, <1>1, <1>2 DEF DemandInv, IInv, TypeOK, ThreadsTypeOK
      <3>2. QED
        BY <1>2, <2>1, <2>3, <3>1
    <2>5. \A d, e \in Computes : Wants(d)' /\ Wants(e)' /\ cur'[d] = cur'[e] => d = e
      <3>1. /\ \A d, e \in Computes : Wants(d) /\ Wants(e) /\ cur[d] = cur[e] => d = e
            /\ \A d \in Computes : Wants(d) => cur[d] # expected
        BY <2>1, <1>1, <1>2 DEF DemandInv, IInv, TypeOK, ThreadsTypeOK
      <3>2. QED
        BY <2>1, <2>3, <3>1
    <2>6. \A p \in Positions : Wanted(p)' <=> Wanted(p)
      <3>1. \A p \in Positions : p >= expected <=> p >= expected' \/ p = expected
        BY <1>2, <2>1, BudgetAssumption DEF Positions
      <3>2. QED
        BY <2>1, <2>3, <3>1 DEF Wanted
    <2>7. GivingUp' \/ \A p \in Positions : p \in Upstream' <=> Wanted(p)'
      BY <1>1, <2>1, <2>2, <2>6 DEF DemandInv
    <2>8. InputReaders # 0
      BY <1>2, <2>1
    <2>9. QED
      BY <2>4, <2>5, <2>7, <2>8 DEF DemandInv
  <1>6. CASE ComputeTakes(c)
    <2>1. /\ pc[c] \in {"try", "pop"} /\ pc'[c] = "process" /\ cur[c] \in queue
          /\ queue' = queue \ {cur[c]} /\ UNCHANGED expected
      BY <1>6 DEF ComputeTakes
    <2>2. InputReaders > 0
      BY <2>1 DEF IInv, HandsOK, HandOK
    <2>3. /\ Wants(c) /\ ~Wants(c)'
          /\ \A d \in Computes : d # c => (Wants(d)' <=> Wants(d)) /\ cur'[d] = cur[d]
      BY <2>1, OthersKeep DEF Wants, OnlyBy
    <2>4. /\ \A d \in Computes : Wants(d)' => cur'[d] < expected'
          /\ \A d, e \in Computes : Wants(d)' /\ Wants(e)' /\ cur'[d] = cur'[e] => d = e
      BY <1>1, <2>1, <2>2, <2>3 DEF DemandInv
    <2>5. \A p \in Positions : Wanted(p)' <=> Wanted(p) /\ p # cur[c]
      <3>1. ~(cur[c] >= expected)
        <4>1. cur[c] < expected /\ cur[c] \in Nat
          BY <1>1, <2>2, <2>3 DEF DemandInv, IInv, TypeOK, ThreadsTypeOK
        <4>2. QED
          BY <1>2, <4>1
      <3>2. \A d \in Computes : d # c /\ Wants(d) => cur[d] # cur[c]
        BY <1>1, <2>2, <2>3 DEF DemandInv
      <3>3. QED
        BY <2>1, <2>3, <3>1, <3>2 DEF Wanted
    <2>6. \A p \in Positions : p \in Upstream' <=> p \in Upstream /\ p # cur[c]
      BY <1>6, ComputeUpstream
    <2>7. GivingUp' \/ \A p \in Positions : p \in Upstream' <=> Wanted(p)'
      BY <1>1, <2>2, <2>5, <2>6 DEF DemandInv
    <2>8. InputReaders # 0
      BY <1>2, <2>2
    <2>9. QED
      BY <2>4, <2>7, <2>8 DEF DemandInv
  <1>7. QED
    BY <1>3, <1>4, <1>5, <1>6 DEF Computed, StaysDown

\* The sets that queued_ is compared with.
LEMMA CountFinite ==
    /\ IsFiniteSet(Counting) /\ Cardinality(Counting) \in Nat
    /\ IsFiniteSet(Unaccounted) /\ Cardinality(Unaccounted) \in Nat
  <1>1. IsFiniteSet(0 .. CpuWorkers - 1) /\ IsFiniteSet(Positions)
    BY FS_Interval, PipelineAssumption, BudgetAssumption DEF Positions
  <1>2. IsFiniteSet(Computes)
    BY <1>1, FS_Singleton, FS_Product DEF Computes
  <1>3. IsFiniteSet(Counting) /\ IsFiniteSet(Unaccounted)
    BY <1>1, <1>2, FS_Subset DEF Counting, Unaccounted
  <1>4. QED
    BY <1>3, FS_CardinalityType

\* A chart that is put on a shelf.
LEMMA PutOnShelf ==
    ASSUME IInv, CInv, NEW c \in Computes, ComputePuts(c)
    PROVE  /\ cur[c] \in Positions
           /\ \A i \in Partitions : cur[c] \notin ElementsOf(parts[i])
           /\ \A t \in Computes \cup Writers : cur[c] \notin ElementsOf(batch[t])
           /\ PartitionOf(cur[c]) \in Partitions
           /\ \A i \in Partitions : ElementsOf(parts'[i]) =
                  IF i = PartitionOf(cur[c]) THEN ElementsOf(parts[i]) \cup {cur[c]}
                                             ELSE ElementsOf(parts[i])
  <1> DEFINE k == PartitionOf(cur[c])
  <1>1. cur[c] \in Mine(c) /\ cur[c] \in Positions
    BY ComputeHand DEF ComputePuts, TakenLabels
  <1>2. /\ \A i \in Partitions : cur[c] \notin ElementsOf(parts[i])
        /\ \A t \in Computes \cup Writers : cur[c] \notin ElementsOf(batch[t])
    BY <1>1, MineIs DEF IInv, CInv
  <1>3. k \in Partitions
    BY <1>1, PartitionOfType
  <1>4. parts[k] \in Seq(Positions) /\ NoRepeat(parts[k])
    BY <1>3 DEF IInv, TypeOK, PlacesTypeOK, CInv, SequencesInv
  <1>5. ElementsOf(Append(parts[k], cur[c])) = ElementsOf(parts[k]) \cup {cur[c]}
    BY <1>1, <1>2, <1>3, <1>4, AppendOnce
  <1>6. parts \in [Partitions -> Seq(Positions)]
    BY DEF IInv, TypeOK, PlacesTypeOK
  <1>7. parts' = [parts EXCEPT ![k] = Append(@, cur[c])]
    BY DEF ComputePuts
  <1>8. /\ parts'[k] = Append(parts[k], cur[c])
        /\ \A i \in Partitions : i # k => parts'[i] = parts[i]
    BY ONLY <1>3, <1>6, <1>7
  <1>9. QED
    BY <1>1, <1>2, <1>3, <1>5, <1>8

\* queued_ after a step of a compute thread.
LEMMA ComputeCount ==
    ASSUME IInv, CInv, JInv, NEW c \in Computes, OnlyBy(c), Computed(c)
    PROVE  CountInv'
  <1>1. CountInv /\ c \in Workforce /\ c \notin Writers
    BY Kinds DEF JInv, Workforce
  <1>2. CASE ComputeClaims(c) \/ ComputeGoes(c) \/ ComputeKeeps(c) \/ ComputeFails(c)
    <2>1. UNCHANGED shelfVars /\ pc[c] # "count" /\ pc'[c] # "count"
      BY <1>2 DEF ComputeClaims, ComputeGoes, ComputeKeeps, ComputeFails, TakenLabels
    <2>2. QED
      BY <1>1, <2>1, CountStep
  <1>3. CASE ComputeOrders(c) \/ ComputeTakes(c) \/ ComputeSkips(c) \/ ComputeAdds(c)
    <2>1. UNCHANGED shelfVars /\ pc[c] # "count" /\ pc'[c] # "count"
      BY <1>3 DEF ComputeOrders, ComputeTakes, ComputeSkips, ComputeAdds
    <2>2. QED
      BY <1>1, <2>1, CountStep
  <1>4. CASE (ComputePuts(c) \/ ComputeCounts(c)) /\ Policy # "Strict" /\ ~outputBroken
    <2>1. \A d \in Computes : d # c => pc'[d] = pc[d]
      BY Kinds DEF OnlyBy
    <2>2. \A w \in Writers : pc'[w] = pc[w] /\ batch'[w] = batch[w]
      BY Kinds DEF OnlyBy
    <2>3. queued + Cardinality(Counting) = Cardinality(Unaccounted) /\ queued \in Nat
      BY <1>1, <1>4 DEF CountInv, IInv, TypeOK, CountersTypeOK
    <2>4. CASE ComputePuts(c)
      <3>1. c \notin Counting /\ Counting' = Counting \cup {c} /\ UNCHANGED queued
        BY <1>4, <2>1, <2>4 DEF ComputePuts, Counting
      <3>2. cur[c] \notin Unaccounted
        BY <2>4, PutOnShelf DEF Unaccounted
      <3>3. \A p \in Positions : p \in Unaccounted' <=> p \in Unaccounted \/ p = cur[c]
        <4>1. \A p : (\E i \in Partitions : p \in ElementsOf(parts'[i])) <=>
                  (\E i \in Partitions : p \in ElementsOf(parts[i])) \/ p = cur[c]
          BY <2>4, PutOnShelf
        <4>2. /\ \A i : ElementsOf(parts[i])' = ElementsOf(parts'[i])
              /\ \A w : ElementsOf(batch[w])' = ElementsOf(batch'[w])
          BY DEF ElementsOf
        <4>3. QED
          BY <2>2, <4>1, <4>2 DEF Unaccounted
      <3>4. Unaccounted' = Unaccounted \cup {cur[c]}
        <4>1. cur[c] \in Positions
          BY <2>4, PutOnShelf
        <4>2. Unaccounted' \subseteq Positions /\ Unaccounted \subseteq Positions
          BY DEF Unaccounted
        <4>3. QED
          BY <3>3, <4>1, <4>2
      <3>5. /\ Cardinality(Unaccounted') = Cardinality(Unaccounted) + 1
            /\ Cardinality(Counting') = Cardinality(Counting) + 1
        BY <3>1, <3>2, <3>4, CountFinite, FS_AddElement
      <3>6. queued' + Cardinality(Counting') = Cardinality(Unaccounted')
        BY ONLY <2>3, <3>1, <3>5, CountFinite
      <3>7. QED
        BY <3>6 DEF CountInv
    <2>5. CASE ComputeCounts(c)
      <3>1. c \in Counting /\ Counting' = Counting \ {c} /\ queued' = queued + 1
        BY <2>1, <2>5 DEF ComputeCounts, Counting
      <3>2. Unaccounted' = Unaccounted
        <4>1. UNCHANGED parts
          BY <2>5 DEF ComputeCounts
        <4>2. \A p \in Positions : p \in Unaccounted' <=> p \in Unaccounted
          BY <2>2, <4>1 DEF Unaccounted, ElementsOf
        <4>3. QED
          BY <4>2 DEF Unaccounted
      <3>3. Cardinality(Counting') = Cardinality(Counting) - 1
        BY <3>1, CountFinite, FS_RemoveElement
      <3>4. queued' + Cardinality(Counting') = Cardinality(Unaccounted')
        BY ONLY <2>3, <3>1, <3>2, <3>3, CountFinite
      <3>5. QED
        BY <3>4 DEF CountInv
    <2>6. QED
      BY <1>4, <2>4, <2>5
  <1>5. CASE (ComputePuts(c) \/ ComputeCounts(c)) /\ ~(Policy # "Strict" /\ ~outputBroken)
    <2>1. UNCHANGED outputBroken
      BY <1>5 DEF ComputePuts, ComputeCounts
    <2>2. QED
      BY <1>5, <2>1 DEF CountInv
  <1>6. QED
    BY <1>2, <1>3, <1>4, <1>5 DEF Computed

\* The partitions, when a compute thread puts a chart there.
LEMMA ComputeShelves ==
    ASSUME IInv, JInv, NEW c \in Computes, OnlyBy(c), Computed(c), pc[c] # "done",
           GivingUp => GivingUp', UNCHANGED stopVars
    PROVE  ShelvesInv'
  <1>1. c \in Workforce /\ c \notin Writers /\ ShelvesInv
    BY Kinds DEF Workforce, JInv
  <1>2. CASE ComputePuts(c)
    <2>1. IoWorkers > 0 /\ pc'[c] # "done" /\ batch'[c] = batch[c]
      BY <1>2 DEF ComputePuts
    <2>2. ~outputFinished
      BY NotJoined DEF JInv
    <2>3. \A d \in Computes : d # c => pc'[d] = pc[d] /\ batch'[d] = batch[d]
      BY Kinds DEF OnlyBy
    <2>4. ASSUME NEW w \in Writers PROVE WriterPlace(w)'
      <3>1. pc'[w] = pc[w] /\ resume'[w] = resume[w] /\ batch'[w] = batch[w]
        BY Kinds DEF OnlyBy
      <3>2. WriterPlace(w)
        BY <1>1 DEF ShelvesInv
      <3>3. QED
        BY <2>2, <3>1, <3>2 DEF WriterPlace
    <2>5. IoWorkers # 0
      BY <2>1, PipelineAssumption
    <2>6. QED
      BY <1>1, <2>1, <2>3, <2>4, <2>5 DEF ShelvesInv
  <1>3. CASE ~ComputePuts(c)
    <2>1. UNCHANGED parts
      BY <1>3 DEF Computed, ComputeClaims, ComputeGoes, ComputeKeeps, ComputeFails,
         ComputeOrders, ComputeTakes, ComputeSkips, ComputeCounts, ComputeAdds, shelfVars
    <2>2. IoWorkers > 0 => batch'[c] = <<>>
      <3>1. IoWorkers > 0 => batch'[c] = batch[c]
        BY <1>3, PipelineAssumption DEF Computed, ComputeClaims, ComputeGoes, ComputeKeeps,
           ComputeFails, ComputeOrders, ComputeTakes, ComputeSkips, ComputeCounts, ComputeAdds
      <3>2. QED
        BY <1>1, <3>1 DEF ShelvesInv
    <2>3. pc'[c] = "done" => IoWorkers > 0
      BY <1>3, PipelineAssumption DEF Computed, ComputeClaims, ComputeGoes, ComputeKeeps,
         ComputeFails, ComputeOrders, ComputeTakes, ComputeSkips, ComputeCounts, ComputeAdds
    <2>4. QED
      BY <1>1, <2>1, <2>2, <2>3, ShelvesStep DEF stopVars
  <1>4. QED
    BY <1>2, <1>3

\* The batch a compute thread collects.
LEMMA ComputeBatches ==
    ASSUME IInv, CInv, JInv, NEW c \in Computes, Computed(c), wix'[c] = wix[c],
           UNCHANGED written
    PROVE  BatchWritten(c)'
  <1>1. BatchWritten(c) /\ c \in Computes \cup Writers
    BY DEF JInv, WrittenInv
  <1>2. /\ pc[c] \notin {"flush", "clear", "done"} \cup Failing
        /\ pc'[c] # "clear"
    BY DEF Computed, ComputeClaims, ComputeGoes, ComputeKeeps, ComputeFails,
       ComputeOrders, ComputeTakes, ComputeSkips, ComputePuts, ComputeCounts,
       ComputeAdds, TakenLabels, Failing, FailSteps
  <1>3. /\ wix[c] = 0
        /\ \A i \in DOMAIN batch[c] : written[batch[c][i]] = 0
    <2>1. \A i \in DOMAIN batch[c] : ~(i <= 0)
      BY LenProperties DEF IInv, TypeOK, PlacesTypeOK
    <2>2. QED
      BY <1>1, <1>2, <2>1 DEF BatchWritten
  <1>4. \A i \in DOMAIN batch'[c] : ~(i <= 0) /\ written[batch'[c][i]] = 0
    <2>1. batch[c] \in Seq(Positions)
      BY DEF IInv, TypeOK, PlacesTypeOK
    <2>2. CASE batch'[c] = batch[c]
      BY <1>3, <2>1, <2>2, LenProperties
    <2>3. CASE ComputeAdds(c)
      <3>1. batch'[c] = Append(batch[c], cur[c])
        BY <2>3 DEF ComputeAdds
      <3>2. cur[c] \in Mine(c) /\ cur[c] \in Positions
        BY <2>3, ComputeHand DEF ComputeAdds, TakenLabels
      <3>3. written[cur[c]] = 0
        BY <3>2, Whereabouts DEF JInv, WrittenInv
      <3>4. QED
        BY <1>3, <2>1, <3>1, <3>2, <3>3, AppendProperties, LenProperties
    <2>4. QED
      BY <2>2, <2>3 DEF Computed, ComputeClaims, ComputeGoes, ComputeKeeps, ComputeFails,
         ComputeOrders, ComputeTakes, ComputeSkips, ComputePuts, ComputeCounts
  <1>5. QED
    BY <1>2, <1>3, <1>4 DEF BatchWritten

LEMMA ComputeJob ==
    ASSUME IInv, CInv, JInv, IInv', NEW c \in Computes, Compute(c)
    PROVE  JInv'
  <1>1. /\ OnlyBy(c) /\ UNCHANGED <<stopVars, endVars, written>> /\ wix'[c] = wix[c]
        /\ Computed(c)
    BY ComputeDoes DEF Computed
  <1>2. c \in Workforce /\ c \notin Readers /\ c \notin Writers /\ c \in Computes \cup Writers
    BY Kinds DEF Workforce
  <1>3. pc[c] \notin {"cancel", "fail", "done"}
    BY DEF Compute, ComputeLoop, DirectClaim, DirectTryAcquire, DirectAcquire, DirectRead,
       DirectNext, OrderedClaim, OrderedTry, OrderedPop, OrderedNext,
       Process, KernelReturns, KernelThrows, SubmitQueued, SubmitCounted,
       SubmitInline, Leaving, Goes, Moves
  <1>4. GivingUp => GivingUp'
    BY <1>1, <1>2, <1>3, GivingUpStays DEF Doomed, stopVars
  <1>5. /\ pc'[c] \notin FailSteps
        /\ next >= Charts => next' >= Charts
        /\ expected >= Charts => expected' >= Charts
    <2>1. /\ next \in Nat /\ next' \in Nat /\ expected \in Nat /\ Charts \in Nat
          /\ ComputeBatch \in Nat
      BY BudgetAssumption, PipelineAssumption DEF IInv, TypeOK, CountersTypeOK
    <2>2. /\ pc'[c] \notin FailSteps
          /\ next' >= next \/ next' = next \/ next' = next + ComputeBatch
          /\ expected' = expected \/ expected' = expected + 1
      BY <1>1 DEF Computed, ComputeClaims, ComputeGoes, ComputeKeeps, ComputeFails,
         ComputeOrders, ComputeTakes, ComputeSkips, ComputePuts, ComputeCounts,
         ComputeAdds, workVars, Failing, FailSteps
    <2>3. QED
      BY ONLY <2>1, <2>2
  <1>6. StopsInv /\ LeaveInv /\ WrittenInv
    BY DEF JInv
  <1>7. StopsInv'
    BY <1>1, <1>2, <1>3, <1>5, <1>6, StopsStep DEF stopVars
  <1>8. LeaveInv'
    <2>1. ASSUME Gone(c)'
          PROVE  \/ GivingUp'
                 \/ InputReaders > 0 /\ inputFinished /\ expected' >= Charts
                 \/ InputReaders = 0 /\ next' >= Charts
      <3>1. ComputeGoes(c)
        BY <1>1, <2>1 DEF Computed, ComputeClaims, ComputeKeeps, ComputeFails,
           ComputeOrders, ComputeTakes, ComputeSkips, ComputePuts, ComputeCounts,
           ComputeAdds, Gone, Failing, FailSteps
      <3>2. CASE failed
        BY <1>4, <3>2 DEF GivingUp
      <3>3. CASE InputReaders = 0 /\ next >= Charts
        BY <1>5, <3>3
      <3>4. CASE InputReaders > 0 /\ pc[c] = "pop"
                     /\ (inputStopped \/ (inputFinished /\ cur[c] \notin queue))
        <4>1. GivingUp \/ expected >= Charts
          BY <3>4, RefusedAtEnd
        <4>2. inputStopped => failed
          BY <1>3, <1>6, NotJoined
        <4>3. QED
          BY <1>4, <1>5, <3>4, <4>1, <4>2 DEF GivingUp
      <3>5. QED
        BY <3>1, <3>2, <3>3, <3>4 DEF ComputeGoes
    <2>2. QED
      BY <1>1, <1>2, <1>3, <1>4, <1>5, <1>6, <2>1, LeaveStep
  <1>9. DemandInv'
    BY <1>1, <1>4, ComputeDemand
  <1>10. ShelvesInv'
    BY <1>1, <1>3, <1>4, ComputeShelves
  <1>11. CountInv'
    BY <1>1, ComputeCount
  <1>12. WrittenInv'
    <2>1. BatchWritten(c)'
      BY <1>1, ComputeBatches
    <2>2. \A p \in Positions : p \in Waiting' => p \in Waiting
      BY <1>1, ComputeWaiting
    <2>3. \A p \in Positions : p \in Waiting \/ p \in InBatch =>
              p \in Waiting' \/ p \in InBatch' \/ GivingUp'
      BY <1>1, ComputeWaiting
    <2>4. QED
      BY <1>1, <1>2, <1>4, <1>6, <2>1, <2>2, <2>3, WrittenStep
  <1>13. QED
    BY <1>7, <1>8, <1>9, <1>10, <1>11, <1>12 DEF JInv

-----------------------------------------------------------------------------
(***************************************************************************)
(* The loop over a batch.                                                  *)
(***************************************************************************)
\* A thread that is in the loop over a batch.
LEMMA FlushStays ==
    ASSUME NEW t \in Computes \cup Writers, OnlyBy(t), UNCHANGED stopVars,
           \/ BatchWrites(t) \/ BatchFails(t) \/ BatchDone(t) \/ BatchDrops(t)
           \/ BatchEnds(t)
    PROVE  /\ pc[t] \in {"flush", "clear"}
           /\ GivingUp => GivingUp'
           /\ BatchFails(t) => GivingUp'
  <1>1. t \in Workforce
    BY DEF Workforce
  <1>2. pc[t] \in {"flush", "clear"}
    BY DEF BatchWrites, BatchFails, BatchDone, BatchDrops, BatchEnds
  <1>3. Doomed(t) => Doomed(t)'
    BY DEF Doomed, BatchWrites, BatchFails, BatchDone, BatchDrops, BatchEnds
  <1>4. BatchFails(t) => Doomed(t)'
    BY DEF BatchFails, Doomed
  <1>5. QED
    BY <1>1, <1>2, <1>3, <1>4, GivingUpStays DEF stopVars, GivingUp

\* Writing, failing and clearing leave the charts that wait alone.
LEMMA FlushWaiting ==
    ASSUME IInv, NEW t \in Computes \cup Writers, OnlyBy(t),
           UNCHANGED <<workVars, shelfVars>>, NEW p \in Positions,
           t \in Computes => BatchFails(t) \/ Mine(t)' = Mine(t),
           t \in Computes /\ BatchFails(t) => GivingUp'
    PROVE  /\ p \in Upstream' <=> p \in Upstream
           /\ p \in Waiting' => p \in Waiting
           /\ p \in Waiting => p \in Waiting' \/ GivingUp'
  <1>1. /\ \A r \in Readers : Mine(r)' = Mine(r)
        /\ \A c \in Computes : c # t => Mine(c)' = Mine(c)
    BY Kinds, OthersKeep
  <1>2. UNCHANGED <<next, queue, parts>>
    BY DEF workVars, shelfVars
  <1>3. p \in Upstream' <=> p \in Upstream
    BY <1>1, <1>2, Whereabouts, WhereaboutsAfter
  <1>4. ASSUME t \in Computes, BatchFails(t) PROVE p \notin Mine(t)'
    <2>1. pc'[t] = "fail"
      BY <1>4, Kinds DEF BatchFails
    <2>2. QED
      BY <1>4, <2>1, ComputeMine DEF TakenLabels, Busy
  <1>5. ASSUME NEW c \in Computes PROVE p \in Mine(c)' => p \in Mine(c)
    BY <1>1, <1>4
  <1>6. ASSUME NEW c \in Computes PROVE p \in Mine(c) => p \in Mine(c)' \/ GivingUp'
    BY <1>1
  <1>7. QED
    BY <1>2, <1>3, <1>5, <1>6, Whereabouts, WhereaboutsAfter

\* A chart in a batch is there once, and waits nowhere.
LEMMA InOneBatch ==
    ASSUME IInv, CInv, NEW t \in Computes \cup Writers, NEW p \in ElementsOf(batch[t])
    PROVE  /\ p \in Positions /\ p \notin Waiting
           /\ \A x \in Computes \cup Writers : x # t => p \notin ElementsOf(batch[x])
  <1> DEFINE k == <<"batch", t>>
  <1>1. p \in Positions
    BY DEF IInv, TypeOK, PlacesTypeOK, ElementsOf
  <1>2. /\ k \in Places /\ FreePlace \in Places /\ QueuePlace \in Places
        /\ \A x \in Readers \cup Computes : <<"thread", x>> \in Places
        /\ \A i \in Partitions : <<"part", i>> \in Places
        /\ \A x \in Computes \cup Writers : <<"batch", x>> \in Places
    BY DEF Places
  <1>3. \A j \in Places : p \in Held(j) => j = k
    BY <1>1, <1>2, HeldOf DEF CInv, PlacesInv, PlacedOnce
  <1>4. /\ FreePlace # k /\ QueuePlace # k
        /\ \A x : <<"thread", x>> # k
        /\ \A x : <<"part", x>> # k
        /\ \A x : x # t => <<"batch", x>> # k
    BY DEF FreePlace, QueuePlace
  <1> HIDE DEF k
  <1>5. /\ ~(p >= next) /\ p \notin queue
        /\ \A x \in Readers \cup Computes : p \notin Mine(x)
        /\ \A i \in Partitions : p \notin ElementsOf(parts[i])
        /\ \A x \in Computes \cup Writers : x # t => p \notin ElementsOf(batch[x])
    BY <1>1, <1>2, <1>3, <1>4, HeldOf
  <1>6. QED
    BY <1>1, <1>5, Whereabouts

\* The files of the next chart of the batch are written.
LEMMA WritesJob ==
    ASSUME IInv, CInv, JInv, NEW t \in Computes \cup Writers, OnlyBy(t),
           BatchWrites(t), GivingUp => GivingUp',
           \A p \in Positions : p \in Waiting' => p \in Waiting,
           \A p \in Positions : p \in Waiting => p \in Waiting' \/ GivingUp'
    PROVE  /\ WrittenInv'
           /\ \E p \in Positions : written[p] = 0 /\ written' = [written EXCEPT ![p] = 1]
  <1> DEFINE n == wix[t] + 1
             q == batch[t][n]
  <1>1. /\ pc[t] = "flush" /\ pc'[t] = "flush" /\ wix[t] < Len(batch[t])
        /\ written' = [written EXCEPT ![q] = @ + 1]
        /\ wix'[t] = n /\ batch'[t] = batch[t]
    BY DEF BatchWrites
  <1>2. /\ batch[t] \in Seq(Positions) /\ wix[t] \in Nat /\ written \in [Positions -> Nat]
        /\ NoRepeat(batch[t])
    BY DEF IInv, TypeOK, PlacesTypeOK, ThreadsTypeOK, CountersTypeOK, CInv, SequencesInv
  <1>3. n \in DOMAIN batch[t] /\ DOMAIN batch[t] = 1 .. Len(batch[t]) /\ Len(batch[t]) \in Nat
    BY <1>1, <1>2, LenProperties
  <1>4. q \in Positions /\ q \in ElementsOf(batch[t])
    BY <1>2, <1>3, ElementOfSeq DEF ElementsOf
  <1>5. BatchWritten(t)
    BY DEF JInv, WrittenInv
  <1>6. \A i \in DOMAIN batch[t] : written[batch[t][i]] = IF i <= wix[t] THEN 1 ELSE 0
    BY <1>1, <1>5 DEF BatchWritten, Failing, FailSteps
  <1>7. written[q] = 0
    BY <1>2, <1>3, <1>6
  <1> HIDE DEF q
  <1>8. /\ written' = [written EXCEPT ![q] = 1] /\ written'[q] = 1
        /\ \A p \in Positions : p # q => written'[p] = written[p]
    BY <1>1, <1>2, <1>4, <1>7
  <1>9. q \notin Waiting /\ \A x \in Computes \cup Writers : x # t => q \notin ElementsOf(batch[x])
    BY <1>4, InOneBatch
  <1>10. BatchWritten(t)'
    <2>1. ASSUME NEW i \in DOMAIN batch[t]
          PROVE  written'[batch[t][i]] = IF i <= n THEN 1 ELSE 0
      <3>1. i \in Nat /\ batch[t][i] \in Positions
        BY <1>2, <1>3, <2>1, ElementOfSeq
      <3>2. CASE i = n
        BY <1>2, <1>8, <3>1, <3>2 DEF q
      <3>3. CASE i # n
        <4>1. batch[t][i] # q
          BY <1>2, <1>3, <2>1, <3>3 DEF NoRepeat, q
        <4>2. i <= n <=> i <= wix[t]
          BY <1>2, <3>1, <3>3
        <4>3. QED
          BY <1>6, <1>8, <2>1, <3>1, <4>1, <4>2
      <3>4. QED
        BY <3>2, <3>3
    <2>2. QED
      BY <1>1, <2>1 DEF BatchWritten
  <1>11. ASSUME NEW x \in Computes \cup Writers PROVE BatchWritten(x)'
    <2>1. CASE x = t
      BY <1>10, <2>1
    <2>2. CASE x # t
      <3>1. pc'[x] = pc[x] /\ batch'[x] = batch[x] /\ wix'[x] = wix[x]
        BY <2>2, Kinds DEF OnlyBy
      <3>2. BatchWritten(x) /\ batch[x] \in Seq(Positions)
        BY DEF JInv, WrittenInv, IInv, TypeOK, PlacesTypeOK
      <3>3. \A i \in DOMAIN batch[x] : written'[batch[x][i]] = written[batch[x][i]]
        <4>1. \A i \in DOMAIN batch[x] : batch[x][i] \in ElementsOf(batch[x])
                                         /\ batch[x][i] \in Positions
          BY <3>2, LenProperties, ElementOfSeq DEF ElementsOf
        <4>2. QED
          BY <1>8, <1>9, <2>2, <4>1
      <3>4. \A p \in ElementsOf(batch[x]) : written'[p] = written[p]
        BY <3>3 DEF ElementsOf
      <3>5. ElementsOf(batch[x])' = ElementsOf(batch[x])
        BY <3>1 DEF ElementsOf
      <3>6. QED
        BY <3>1, <3>2, <3>3, <3>4, <3>5 DEF BatchWritten
    <2>3. QED
      BY <2>1, <2>2
  <1>12. ASSUME NEW p \in Positions
         PROVE  /\ written'[p] \in {0, 1}
                /\ p \in Waiting' => written'[p] = 0
                /\ p \in Waiting' \/ p \in InBatch' \/ written'[p] = 1 \/ GivingUp'
    <2>1. /\ written[p] \in {0, 1}
          /\ p \in Waiting => written[p] = 0
          /\ p \in Waiting \/ p \in InBatch \/ written[p] = 1 \/ GivingUp
      BY DEF JInv, WrittenInv
    <2>2. p \in InBatch' <=> p \in InBatch
      <3>1. \A x \in Computes \cup Writers : batch'[x] = batch[x]
        BY <1>1 DEF OnlyBy
      <3>2. QED
        BY <3>1, Whereabouts, WhereaboutsAfter
    <2>3. QED
      BY <1>8, <1>9, <2>1, <2>2
  <1>13. QED
    BY <1>4, <1>7, <1>8, <1>11, <1>12 DEF WrittenInv

\* Nothing is written, and what leaves the batch was.
LEMMA FlushKeepsFiles ==
    ASSUME IInv, CInv, JInv, NEW t \in Computes \cup Writers, OnlyBy(t),
           GivingUp => GivingUp', BatchFails(t) => GivingUp',
           \/ BatchFails(t) \/ BatchDone(t) \/ BatchDrops(t) \/ BatchEnds(t),
           \A p \in Positions : p \in Waiting' => p \in Waiting,
           \A p \in Positions : p \in Waiting => p \in Waiting' \/ GivingUp'
    PROVE  WrittenInv'
  <1>1. /\ batch[t] \in Seq(Positions) /\ wix[t] \in Nat /\ NoRepeat(batch[t])
        /\ resume[t] \in Resumptions /\ BatchWritten(t)
    BY DEF IInv, TypeOK, PlacesTypeOK, ThreadsTypeOK, CInv, SequencesInv, JInv, WrittenInv
  <1>2. ASSUME BatchDrops(t)
        PROVE  /\ ElementsOf(batch'[t]) = ElementsOf(batch[t]) \ {Head(batch[t])}
               /\ GivingUp \/ written[Head(batch[t])] = 1
    <2>1. /\ Head(batch[t]) \in ElementsOf(batch[t])
          /\ ElementsOf(Tail(batch[t])) = ElementsOf(batch[t]) \ {Head(batch[t])}
      BY <1>1, <1>2, TailOnce DEF BatchDrops
    <2>2. GivingUp \/ \A p \in ElementsOf(batch[t]) : written[p] = 1
      BY <1>1, <1>2 DEF BatchDrops, BatchWritten
    <2>3. QED
      BY <1>2, <2>1, <2>2 DEF BatchDrops
  <1>3. ElementsOf(batch[t])' = ElementsOf(batch'[t])
    BY DEF ElementsOf
  <1>4. BatchWritten(t)'
    <2>1. CASE BatchFails(t)
      BY <1>1, <2>1 DEF BatchFails, BatchWritten, Failing, FailSteps
    <2>2. CASE BatchDone(t)
      <3>1. /\ pc[t] = "flush" /\ pc'[t] = "clear" /\ wix[t] = Len(batch[t])
            /\ UNCHANGED written /\ batch'[t] = batch[t]
        BY <2>2 DEF BatchDone
      <3>2. \A i \in DOMAIN batch[t] : written[batch[t][i]] = IF i <= wix[t] THEN 1 ELSE 0
        BY <1>1, <3>1 DEF BatchWritten, Failing, FailSteps
      <3>3. \A i \in DOMAIN batch[t] : i <= wix[t]
        BY <1>1, <3>1, LenProperties
      <3>4. \A p \in ElementsOf(batch[t]) : written[p] = 1
        BY <3>2, <3>3 DEF ElementsOf
      <3>5. QED
        BY <1>3, <3>1, <3>4 DEF BatchWritten
    <2>3. CASE BatchDrops(t)
      <3>1. /\ pc[t] = "clear" /\ pc'[t] = "clear" /\ UNCHANGED written
        BY <2>3 DEF BatchDrops
      <3>2. GivingUp \/ \A p \in ElementsOf(batch[t]) : written[p] = 1
        BY <1>1, <3>1 DEF BatchWritten
      <3>3. GivingUp' \/ \A p \in ElementsOf(batch'[t]) : written'[p] = 1
        BY <1>2, <2>3, <3>1, <3>2
      <3>4. QED
        BY <1>3, <3>1, <3>3 DEF BatchWritten
    <2>4. CASE BatchEnds(t)
      <3>1. /\ batch'[t] = <<>> /\ wix'[t] = 0 /\ pc'[t] = resume[t]
        BY <2>4 DEF BatchEnds
      <3>2. pc'[t] # "clear"
        BY <1>1, <3>1 DEF Resumptions
      <3>3. DOMAIN batch'[t] = {}
        BY <3>1
      <3>4. QED
        BY <3>1, <3>2, <3>3 DEF BatchWritten
    <2>5. QED
      BY <2>1, <2>2, <2>3, <2>4
  <1>5. UNCHANGED written
    BY DEF BatchFails, BatchDone, BatchDrops, BatchEnds
  <1>6. ASSUME NEW p \in Positions, p \in InBatch
        PROVE  p \in InBatch' \/ written[p] = 1 \/ GivingUp'
    <2>1. \A x \in Computes \cup Writers : x # t => batch'[x] = batch[x]
      BY DEF OnlyBy
    <2>2. PICK x \in Computes \cup Writers : p \in ElementsOf(batch[x])
      BY <1>6, Whereabouts
    <2>3. CASE x # t
      BY <2>1, <2>2, <2>3, WhereaboutsAfter
    <2>4. CASE x = t /\ BatchDrops(t)
      BY <1>2, <2>2, <2>4, WhereaboutsAfter
    <2>5. CASE x = t /\ ~BatchDrops(t)
      <3>1. batch'[t] = batch[t]
        BY <2>5 DEF BatchFails, BatchDone, BatchEnds
      <3>2. QED
        BY <2>2, <2>5, <3>1, WhereaboutsAfter
    <2>6. QED
      BY <2>3, <2>4, <2>5
  <1>7. WrittenInv /\ t \in Workforce
    BY DEF JInv, Workforce
  <1>8. \A p \in Positions : p \in Waiting \/ p \in InBatch =>
            p \in Waiting' \/ p \in InBatch' \/ written[p] = 1 \/ GivingUp'
    BY <1>6
  <1>9. QED
    BY <1>4, <1>5, <1>7, <1>8, WrittenStep

LEMMA FlushJob ==
    ASSUME IInv, CInv, JInv, NEW t \in Computes \cup Writers, Flush(t)
    PROVE  JInv'
  <1>1. /\ OnlyBy(t) /\ UNCHANGED <<workVars, shelfVars, stopVars, endVars>>
        /\ \/ BatchWrites(t) \/ BatchFails(t) \/ BatchDone(t) \/ BatchDrops(t)
           \/ BatchEnds(t)
        /\ t \in Computes => cur'[t] = cur[t]
        /\ t \in Computes => \/ BatchFails(t)
                             \/ /\ Mine(t)' = Mine(t)
                                /\ Wants(t)' <=> Wants(t)
                                /\ Gone(t)' <=> Gone(t)
    BY FlushDoes
  <1>2. t \in Workforce /\ t \notin Readers
    BY Kinds DEF Workforce
  <1>3. /\ pc[t] \in {"flush", "clear"}
        /\ GivingUp => GivingUp'
        /\ BatchFails(t) => GivingUp'
    BY <1>1, FlushStays
  <1>4. /\ resume[t] \in Resumptions
        /\ StopsInv /\ LeaveInv /\ DemandInv /\ ShelvesInv /\ CountInv /\ WrittenInv
    BY DEF IInv, TypeOK, ThreadsTypeOK, JInv
  <1>5. /\ pc'[t] \notin FailSteps \cup {"count", "account"}
        /\ pc'[t] \in {"flush", "clear", "fail"} \/ (pc'[t] = resume[t] /\ batch'[t] = <<>>)
    BY <1>1, <1>4 DEF BatchWrites, BatchFails, BatchDone, BatchDrops, BatchEnds, FailSteps,
       Resumptions
  <1>6. StopsInv'
    BY <1>1, <1>2, <1>3, <1>4, <1>5, StopsStep DEF stopVars
  <1>7. LeaveInv'
    BY <1>1, <1>2, <1>3, <1>4, LeaveStep DEF workVars
  <1>8. \A p \in Positions : /\ p \in Upstream' <=> p \in Upstream
                             /\ p \in Waiting' => p \in Waiting
                             /\ p \in Waiting => p \in Waiting' \/ GivingUp'
    BY <1>1, <1>3, FlushWaiting
  <1>9. DemandInv'
    <2>1. t \in Computes /\ Wants(t)' => Wants(t) /\ cur'[t] = cur[t]
      <3>1. t \in Computes /\ BatchFails(t) => ~Wants(t)'
        BY Kinds DEF BatchFails, Wants
      <3>2. QED
        BY <1>1, <3>1
    <2>2. t \in Computes /\ Wants(t) => GivingUp' \/ Wants(t)'
      BY <1>1, <1>3
    <2>3. GivingUp' \/ (~GivingUp /\ \A p \in Positions : p \in Upstream' <=> p \in Upstream)
      BY <1>3, <1>8
    <2>4. UNCHANGED <<expected, queue>>
      BY <1>1 DEF workVars
    <2>5. QED
      BY <1>1, <1>2, <1>4, <2>1, <2>2, <2>3, <2>4, DemandStep
  <1>10. ShelvesInv'
    <2>1. t \in Computes /\ IoWorkers > 0 => batch'[t] = <<>>
      BY <1>1, <1>4 DEF ShelvesInv, BatchWrites, BatchFails, BatchDone, BatchDrops, BatchEnds
    <2>2. t \in Writers => WriterPlace(t)'
      <3>1. t \in Writers => WriterPlace(t)
        BY <1>4 DEF ShelvesInv
      <3>2. QED
        BY <1>1, <1>3, <3>1, Kinds DEF WriterPlace, BatchWrites, BatchFails, BatchDone, BatchDrops, BatchEnds
    <2>3. pc'[t] = "done" => batch'[t] = <<>>
      BY <1>5
    <2>4. UNCHANGED <<parts, outputFinished>>
      BY <1>1 DEF shelfVars, stopVars
    <2>5. QED
      BY <1>1, <1>2, <1>3, <1>4, <2>1, <2>2, <2>3, <2>4, ShelvesStep
  <1>11. CountInv'
    BY <1>1, <1>2, <1>3, <1>4, <1>5, CountStep
  <1>12. WrittenInv'
    <2>1. CASE BatchWrites(t)
      BY <1>1, <1>3, <1>8, <2>1, WritesJob
    <2>2. CASE ~BatchWrites(t)
      BY <1>1, <1>3, <1>8, <2>2, FlushKeepsFiles
    <2>3. QED
      BY <2>1, <2>2
  <1>13. QED
    BY <1>6, <1>7, <1>9, <1>10, <1>11, <1>12 DEF JInv

-----------------------------------------------------------------------------
(***************************************************************************)
(* io threads.                                                             *)
(***************************************************************************)
LEMMA ElementCount ==
    ASSUME NEW s \in Seq(Positions), NoRepeat(s)
    PROVE  /\ IsFiniteSet(ElementsOf(s)) /\ Cardinality(ElementsOf(s)) = Len(s)
           /\ s = <<>> <=> ElementsOf(s) = {}
  <1> DEFINE n == Len(s)
             T == ElementsOf(s)
  <1>1. n \in Nat /\ DOMAIN s = 1 .. n
    BY LenProperties
  <1>2. T = {s[i] : i \in 1 .. n}
    BY <1>1 DEF ElementsOf
  <1>3. s \in [1 .. n -> T]
    <2>1. s \in [1 .. n -> Positions]
      BY SeqDef, LenProperties
    <2>2. \A i \in 1 .. n : s[i] \in T
      BY <1>2
    <2>3. QED
      BY <2>1, <2>2
  <1>4. s \in Bijection(1 .. n, T)
    <2>1. \A i, j \in 1 .. n : s[i] = s[j] => i = j
      BY <1>1 DEF NoRepeat
    <2>2. \A p \in T : \E i \in 1 .. n : s[i] = p
      BY <1>2
    <2> HIDE DEF T
    <2>3. QED
      BY <1>3, <2>1, <2>2 DEF Bijection, Injection, Surjection, IsInjective
  <1>5. IsFiniteSet(1 .. n) /\ Cardinality(1 .. n) = n
    BY <1>1, FS_Interval
  <1>6. IsFiniteSet(T) /\ Cardinality(T) = n
    BY <1>4, <1>5, FS_Bijection DEF ExistsBijection
  <1>7. s = <<>> <=> T = {}
    BY <1>6, EmptySeq, FS_EmptySet
  <1>8. QED
    BY <1>6, <1>7

\* The partition and the batch of an io thread that takes a batch.
LEMMA Takings ==
    ASSUME IInv, CInv, NEW w \in Writers, WriterTakes(w)
    PROVE  /\ pc[w] \in {"pop", "scan"} /\ ElementsOf(batch[w]) = {}
           /\ batch'[w] \in Seq(Positions)
           /\ \A i \in Partitions : /\ parts'[i] \in Seq(Positions)
                                    /\ NoRepeat(parts'[i])
                                    /\ ElementsOf(parts'[i]) \subseteq ElementsOf(parts[i])
           /\ \A p : (\E i \in Partitions : p \in ElementsOf(parts[i])) <=>
                  \/ p \in ElementsOf(batch'[w])
                  \/ \E i \in Partitions : p \in ElementsOf(parts'[i])
  <1>1. pc[w] \in {"pop", "scan"}
    BY DEF WriterTakes
  <1>2. batch[w] = <<>>
    BY <1>1 DEF CInv, SequencesInv
  <1>3. PICK k \in Partitions :
            /\ batch'[w] = Taken(k, WriteBatch)
            /\ parts' = [parts EXCEPT ![k] =
                             SubSeq(@, Len(Taken(k, WriteBatch)) + 1, Len(@))]
    BY DEF WriterTakes
  <1>4. parts \in [Partitions -> Seq(Positions)] /\ \A i \in Partitions : NoRepeat(parts[i])
    BY DEF IInv, TypeOK, PlacesTypeOK, CInv, SequencesInv
  <1> DEFINE s == parts[k]
             n == IF WriteBatch < Len(s) THEN WriteBatch ELSE Len(s)
             front == SubSeq(s, 1, n)
             back  == SubSeq(s, n + 1, Len(s))
  <1>5. s \in Seq(Positions) /\ NoRepeat(s) /\ Len(s) \in Nat
    BY <1>4, LenProperties
  <1>6. n \in 0 .. Len(s) /\ n \in Nat
    BY <1>5, PipelineAssumption
  <1>7. batch'[w] = front
    BY <1>3 DEF Taken
  <1> HIDE DEF n
  <1>8. front \in Seq(Positions) /\ Len(front) = n /\ back \in Seq(Positions)
    <2>1. \A i \in 1 .. n : s[i] \in Positions
      BY <1>5, <1>6, ElementOfSeq
    <2>2. \A i \in (n + 1) .. Len(s) : s[i] \in Positions
      BY <1>5, <1>6, ElementOfSeq
    <2>3. QED
      BY <1>5, <1>6, <2>1, <2>2, SubSeqProperties
  <1>9. /\ NoRepeat(front) /\ NoRepeat(back)
        /\ ElementsOf(front) \subseteq ElementsOf(s)
        /\ ElementsOf(back) = ElementsOf(s) \ ElementsOf(front)
    BY <1>5, <1>6, SplitOnce
  <1>10. parts' = [parts EXCEPT ![k] = back]
    BY <1>3, <1>7, <1>8
  <1>11. /\ parts'[k] = back
         /\ \A i \in Partitions : i # k => parts'[i] = parts[i]
    BY ONLY <1>3, <1>4, <1>10
  <1> HIDE DEF front, back
  <1>12. \A i \in Partitions : /\ parts'[i] \in Seq(Positions)
                               /\ NoRepeat(parts'[i])
                               /\ ElementsOf(parts'[i]) \subseteq ElementsOf(parts[i])
    BY <1>4, <1>8, <1>9, <1>11
  <1>13. ASSUME NEW p
         PROVE  (\E i \in Partitions : p \in ElementsOf(parts[i])) <=>
                  \/ p \in ElementsOf(batch'[w])
                  \/ \E i \in Partitions : p \in ElementsOf(parts'[i])
    <2>1. p \in ElementsOf(parts[k]) <=> p \in ElementsOf(front) \/ p \in ElementsOf(parts'[k])
      BY <1>9, <1>11
    <2>2. QED
      BY <1>7, <1>11, <2>1
  <1>14. ElementsOf(batch[w]) = {}
    BY <1>2 DEF ElementsOf
  <1>15. QED
    BY <1>1, <1>7, <1>8, <1>12, <1>13, <1>14

\* What an io thread that is not writing leaves alone.
LEMMA WriterKeeps ==
    ASSUME IInv, JInv, NEW w \in Writers, OnlyBy(w),
           UNCHANGED <<workVars, stopVars, endVars>>,
           WriterTakes(w) \/ WriterCounts(w) \/ WriterEnds(w) \/ WriterWaits(w)
    PROVE  /\ w \in Workforce /\ w \notin Readers /\ w \notin Computes
           /\ pc[w] \in {"pop", "scan", "meta", "account"}
           /\ GivingUp => GivingUp'
           /\ StopsInv' /\ LeaveInv' /\ DemandInv'
           /\ \A p \in Positions : p \in Upstream' <=> p \in Upstream
           /\ \A c \in Computes : Mine(c)' = Mine(c)
           /\ \A x \in Computes \cup Writers : x # w => batch'[x] = batch[x]
  <1>1. w \in Workforce /\ w \notin Readers /\ w \notin Computes
    BY Kinds DEF Workforce
  <1>2. /\ pc[w] \in {"pop", "scan", "meta", "account"} /\ pc'[w] \notin FailSteps
        /\ pc'[w] \in {"pop", "scan", "meta", "account", "flush", "done"}
    BY DEF WriterTakes, WriterCounts, WriterEnds, WriterWaits, FailSteps
  <1>3. GivingUp => GivingUp'
    <2>1. ~Doomed(w)
      BY <1>2 DEF Doomed
    <2>2. QED
      BY <1>1, <2>1, GivingUpStays DEF stopVars
  <1>4. StopsInv /\ LeaveInv /\ DemandInv
    BY DEF JInv
  <1>5. StopsInv' /\ LeaveInv'
    BY <1>1, <1>2, <1>3, <1>4, StopsStep, LeaveStep DEF stopVars, workVars
  <1>6. /\ \A r \in Readers : Mine(r)' = Mine(r)
        /\ \A c \in Computes : Mine(c)' = Mine(c)
        /\ \A x \in Computes \cup Writers : x # w => batch'[x] = batch[x]
    BY <1>1, OthersKeep DEF OnlyBy
  <1>7. \A p \in Positions : p \in Upstream' <=> p \in Upstream
    BY <1>6, Whereabouts, WhereaboutsAfter DEF workVars
  <1>8. DemandInv'
    BY <1>1, <1>3, <1>4, <1>7, DemandStep DEF workVars
  <1>9. QED
    BY <1>1, <1>2, <1>3, <1>5, <1>6, <1>7, <1>8

\* The charts of a batch that is taken have not been written.
LEMMA WriterWaiting ==
    ASSUME IInv, CInv, JInv, NEW w \in Writers, OnlyBy(w), wix'[w] = wix[w],
           UNCHANGED <<workVars, stopVars, endVars, written>>,
           WriterTakes(w) \/ WriterCounts(w) \/ WriterEnds(w) \/ WriterWaits(w)
    PROVE  WrittenInv'
  <1>1. /\ w \in Workforce /\ w \notin Readers /\ w \notin Computes
        /\ pc[w] \in {"pop", "scan", "meta", "account"}
        /\ GivingUp => GivingUp'
        /\ \A p \in Positions : p \in Upstream' <=> p \in Upstream
        /\ \A c \in Computes : Mine(c)' = Mine(c)
        /\ \A x \in Computes \cup Writers : x # w => batch'[x] = batch[x]
    BY WriterKeeps
  <1>2. WrittenInv /\ BatchWritten(w)
    BY DEF JInv, WrittenInv
  <1>3. ~WriterTakes(w) => UNCHANGED parts /\ batch'[w] = batch[w]
    BY DEF WriterCounts, WriterEnds, WriterWaits, shelfVars
  <1>4. ASSUME NEW p \in Positions
        PROVE  /\ p \in Waiting' => p \in Waiting
               /\ p \in Waiting \/ p \in InBatch => p \in Waiting' \/ p \in InBatch'
    <2>1. CASE ~WriterTakes(w)
      <3>1. UNCHANGED parts /\ \A x \in Computes \cup Writers : batch'[x] = batch[x]
        BY <1>1, <1>3, <2>1
      <3>2. QED
        BY <1>1, <3>1, Whereabouts, WhereaboutsAfter
    <2>2. CASE WriterTakes(w)
      <3>1. /\ ElementsOf(batch[w]) = {}
            /\ (\E i \in Partitions : p \in ElementsOf(parts[i])) <=>
                  \/ p \in ElementsOf(batch'[w])
                  \/ \E i \in Partitions : p \in ElementsOf(parts'[i])
        BY <2>2, Takings
      <3>2. p \in ElementsOf(batch'[w]) => p \in InBatch'
        BY WhereaboutsAfter
      <3>3. p \in InBatch => p \in InBatch'
        BY <1>1, <3>1, Whereabouts, WhereaboutsAfter
      <3>4. QED
        BY <1>1, <3>1, <3>2, <3>3, Whereabouts, WhereaboutsAfter
    <2>3. QED
      BY <2>1, <2>2
  <1>5. wix[w] = 0
    BY <1>1, <1>2 DEF BatchWritten, Failing, FailSteps
  <1>6. \A i \in DOMAIN batch'[w] : ~(i <= 0) /\ written[batch'[w][i]] = 0
    <2>1. CASE WriterTakes(w)
      <3>1. batch'[w] \in Seq(Positions)
        BY <2>1, Takings
      <3>2. \A i \in DOMAIN batch'[w] : /\ batch'[w][i] \in ElementsOf(batch'[w])
                                        /\ batch'[w][i] \in Positions /\ ~(i <= 0)
        BY <3>1, LenProperties, ElementOfSeq DEF ElementsOf
      <3>3. ASSUME NEW p \in Positions, p \in ElementsOf(batch'[w]) PROVE written[p] = 0
        <4>1. \E i \in Partitions : p \in ElementsOf(parts[i])
          BY <2>1, <3>3, Takings
        <4>2. p \in Waiting
          BY <4>1, Whereabouts
        <4>3. QED
          BY <1>2, <4>2 DEF WrittenInv
      <3>4. QED
        BY <3>2, <3>3
    <2>2. CASE ~WriterTakes(w)
      <3>1. batch[w] \in Seq(Positions) /\ batch'[w] = batch[w]
        BY <1>3, <2>2 DEF IInv, TypeOK, PlacesTypeOK
      <3>2. \A i \in DOMAIN batch[w] : written[batch[w][i]] = IF i <= 0 THEN 1 ELSE 0
        BY <1>1, <1>2, <1>5 DEF BatchWritten, Failing, FailSteps
      <3>3. \A i \in DOMAIN batch[w] : ~(i <= 0)
        BY <3>1, LenProperties
      <3>4. QED
        BY <3>1, <3>2, <3>3
    <2>3. QED
      BY <2>1, <2>2
  <1>7. pc'[w] # "clear"
    BY DEF WriterTakes, WriterCounts, WriterEnds, WriterWaits
  <1>8. BatchWritten(w)'
    BY <1>5, <1>6, <1>7 DEF BatchWritten
  <1>9. QED
    BY <1>1, <1>2, <1>4, <1>8, WrittenStep

\* When nothing is queued after the compute threads have left, every partition
\* is empty.
LEMMA NothingQueued ==
    ASSUME IInv, JInv, Policy # "Strict", ~outputBroken, queued = 0, Joined(Computes)
    PROVE  \A i \in Partitions : parts[i] = <<>>
  <1>1. Counting = {}
    BY DEF Counting, Joined
  <1>2. Cardinality(Counting) = 0
    BY <1>1, FS_EmptySet
  <1>3. Cardinality(Unaccounted) = 0
    BY <1>2 DEF JInv, CountInv
  <1>4. Unaccounted = {}
    BY <1>3, CountFinite, FS_EmptySet
  <1>5. ASSUME NEW i \in Partitions PROVE parts[i] = <<>>
    <2>1. parts[i] \in Seq(Positions)
      BY DEF IInv, TypeOK, PlacesTypeOK
    <2>2. CASE Len(parts[i]) = 0
      BY <2>1, <2>2, EmptySeq
    <2>3. CASE Len(parts[i]) # 0
      <3>1. 1 \in DOMAIN parts[i] /\ parts[i][1] \in Positions
        BY <2>1, <2>3, LenProperties, ElementOfSeq
      <3>2. parts[i][1] \in Unaccounted
        BY <3>1 DEF Unaccounted, ElementsOf
      <3>3. QED
        BY <1>4, <3>2
    <2>4. QED
      BY <2>2, <2>3
  <1>6. QED
    BY <1>5

\* The partitions after a step of an io thread.
LEMMA WriterShelves ==
    ASSUME IInv, CInv, JInv, NEW w \in Writers, OnlyBy(w), ~outputBroken,
           UNCHANGED <<workVars, stopVars, endVars>>,
           WriterTakes(w) \/ WriterCounts(w) \/ WriterEnds(w) \/ WriterWaits(w)
    PROVE  ShelvesInv'
  <1>1. /\ w \in Workforce /\ w \notin Computes
        /\ GivingUp => GivingUp'
        /\ \A x \in Computes \cup Writers : x # w => batch'[x] = batch[x]
    BY WriterKeeps
  <1>2. ShelvesInv /\ StopsInv /\ WriterPlace(w) /\ UNCHANGED outputFinished
    BY DEF JInv, ShelvesInv, stopVars
  <1>3. CASE WriterTakes(w)
    <2>1. ASSUME NEW i \in Partitions, parts[i] = <<>> PROVE parts'[i] = <<>>
      <3>1. ElementsOf(parts[i]) = {}
        BY <2>1 DEF ElementsOf
      <3>2. /\ parts'[i] \in Seq(Positions) /\ NoRepeat(parts'[i])
            /\ ElementsOf(parts'[i]) \subseteq ElementsOf(parts[i])
        BY <1>3, Takings
      <3>3. QED
        BY <3>1, <3>2, ElementCount
    <2>2. ASSUME NEW x \in Writers PROVE WriterPlace(x)'
      <3>1. CASE x = w
        BY <1>3, <3>1 DEF WriterTakes, WriterPlace
      <3>2. CASE x # w
        <4>1. pc'[x] = pc[x] /\ resume'[x] = resume[x] /\ batch'[x] = batch[x]
          BY <3>2, Kinds DEF OnlyBy
        <4>2. WriterPlace(x)
          BY <1>2 DEF ShelvesInv
        <4>3. QED
          BY <1>1, <1>2, <2>1, <4>1, <4>2 DEF WriterPlace
      <3>3. QED
        BY <3>1, <3>2
    <2>3. IoWorkers # 0
      BY DEF Writers
    <2>4. \A c \in Computes : pc'[c] = pc[c] /\ batch'[c] = batch[c]
      BY <1>1, Kinds DEF OnlyBy
    <2>5. QED
      BY <1>2, <2>2, <2>3, <2>4 DEF ShelvesInv
  <1>4. CASE WriterCounts(w) \/ WriterWaits(w)
    <2>1. UNCHANGED parts
      BY <1>4 DEF WriterCounts, WriterWaits, shelfVars
    <2>2. WriterPlace(w)'
      BY <1>2, <1>4 DEF WriterPlace, WriterCounts, WriterWaits
    <2>3. QED
      BY <1>1, <1>2, <2>1, <2>2, ShelvesStep
  <1>5. CASE WriterEnds(w)
    <2>1. /\ pc'[w] = "done" /\ pc[w] \in {"pop", "meta"}
          /\ UNCHANGED shelfVars /\ batch'[w] = batch[w]
          /\ outputStopped \/ outputFinished
      BY <1>5 DEF WriterEnds
    <2>2. batch[w] = <<>>
      BY <2>1 DEF CInv, SequencesInv
    <2>3. outputStopped => GivingUp'
      BY <1>1, <1>2 DEF StopsInv, GivingUp
    <2>4. ASSUME outputFinished
          PROVE  \A i \in Partitions : Policy # "Strict" \/ i = Home(w) => parts[i] = <<>>
      <3>1. CASE Policy = "Strict"
        BY <1>5, <3>1 DEF WriterEnds
      <3>2. CASE Policy # "Strict"
        <4>1. queued = 0 /\ Joined(Computes)
          BY <1>2, <1>5, <2>4, <3>2 DEF WriterEnds, StopsInv
        <4>2. QED
          BY <3>2, <4>1, NothingQueued
      <3>3. QED
        BY <3>1, <3>2
    <2>5. UNCHANGED parts
      BY <2>1 DEF shelfVars
    <2>6. WriterPlace(w)'
      <3>1. GivingUp' \/ outputFinished'
        BY <1>2, <2>1, <2>3
      <3>2. outputFinished' =>
                \A i \in Partitions : Policy # "Strict" \/ i = Home(w) => parts'[i] = <<>>
        BY <1>2, <2>4, <2>5
      <3>3. batch'[w] = <<>>
        BY <2>1, <2>2
      <3>4. QED
        BY <2>1, <3>1, <3>2, <3>3 DEF WriterPlace
    <2>7. QED
      BY <1>1, <1>2, <2>5, <2>6, ShelvesStep
  <1>6. QED
    BY <1>3, <1>4, <1>5

\* queued_ after a step of an io thread.
LEMMA WriterCount ==
    ASSUME IInv, CInv, JInv, NEW w \in Writers, OnlyBy(w),
           WriterTakes(w) \/ WriterCounts(w) \/ WriterEnds(w) \/ WriterWaits(w)
    PROVE  CountInv'
  <1>1. CountInv /\ w \in Workforce /\ w \notin Computes
    BY Kinds DEF JInv, Workforce
  <1>2. CASE WriterEnds(w) \/ WriterWaits(w)
    <2>1. UNCHANGED shelfVars /\ pc[w] # "account" /\ pc'[w] # "account"
      BY <1>2 DEF WriterEnds, WriterWaits
    <2>2. QED
      BY <1>1, <2>1, CountStep
  <1>3. ASSUME Policy # "Strict", ~outputBroken', WriterTakes(w) \/ WriterCounts(w)
        PROVE  queued' + Cardinality(Counting') = Cardinality(Unaccounted')
    <2>1. /\ Counting' = Counting
          /\ \A x \in Writers : x # w => pc'[x] = pc[x] /\ batch'[x] = batch[x]
      BY <1>1, Kinds DEF OnlyBy, Counting
    <2>2. /\ \A i : ElementsOf(parts[i])' = ElementsOf(parts'[i])
          /\ \A x : ElementsOf(batch[x])' = ElementsOf(batch'[x])
      BY DEF ElementsOf
    <2>3. queued \in Nat /\ outputBroken \in BOOLEAN
      BY DEF IInv, TypeOK, CountersTypeOK, FlagsTypeOK
    <2>4. CASE WriterTakes(w)
      <3>1. /\ pc[w] # "account" /\ pc'[w] = "account" /\ UNCHANGED <<queued, outputBroken>>
        BY <1>3, <2>4 DEF WriterTakes
      <3>2. \A p : (\E i \in Partitions : p \in ElementsOf(parts[i])) <=>
                  \/ p \in ElementsOf(batch'[w])
                  \/ \E i \in Partitions : p \in ElementsOf(parts'[i])
        BY <2>4, Takings
      <3>3. \A p \in Positions : p \in Unaccounted' <=> p \in Unaccounted
        BY <2>1, <2>2, <3>1, <3>2 DEF Unaccounted
      <3>4. Unaccounted' = Unaccounted
        BY <3>3 DEF Unaccounted
      <3>5. QED
        BY <1>1, <1>3, <2>1, <3>1, <3>4 DEF CountInv
    <2>5. CASE WriterCounts(w)
      <3>1. /\ pc[w] = "account" /\ pc'[w] = "flush" /\ UNCHANGED parts
        BY <2>5 DEF WriterCounts
      <3>2. /\ Len(batch[w]) <= queued /\ queued' = queued - Len(batch[w])
            /\ UNCHANGED outputBroken /\ Len(batch[w]) \in Nat
        <4>1. Len(batch[w]) \in Nat
          BY LenProperties DEF IInv, TypeOK, PlacesTypeOK
        <4>2. ~(Len(batch[w]) > queued)
          BY <1>3, <2>5 DEF WriterCounts
        <4>3. QED
          BY <2>3, <2>5, <4>1, <4>2 DEF WriterCounts
      <3> DEFINE B == ElementsOf(batch[w])
      <3>3. IsFiniteSet(B) /\ Cardinality(B) = Len(batch[w])
        BY ElementCount DEF IInv, TypeOK, PlacesTypeOK, CInv, SequencesInv
      <3>4. \A p \in B : /\ p \in Positions
                         /\ \A i \in Partitions : p \notin ElementsOf(parts[i])
                         /\ \A x \in Writers : x # w => p \notin ElementsOf(batch[x])
        BY InOneBatch, Whereabouts
      <3>5. B \subseteq Unaccounted
        BY <3>1, <3>4 DEF Unaccounted
      <3> HIDE DEF B
      <3>6. \A p \in Positions : p \in Unaccounted' <=> p \in Unaccounted /\ p \notin B
        BY <2>1, <2>2, <3>1, <3>4 DEF Unaccounted, B
      <3>7. Unaccounted' = Unaccounted \ B
        BY <3>6 DEF Unaccounted
      <3>8. Cardinality(Unaccounted') = Cardinality(Unaccounted) - Cardinality(B)
        <4>1. Unaccounted \cap B = B
          BY <3>5
        <4>2. Cardinality(Unaccounted \ B)
                  = Cardinality(Unaccounted) - Cardinality(Unaccounted \cap B)
          BY CountFinite, FS_Difference
        <4>3. QED
          BY <3>7, <4>1, <4>2
      <3>9. queued + Cardinality(Counting) = Cardinality(Unaccounted)
        BY <1>1, <1>3, <3>2 DEF CountInv
      <3>10. QED
        BY ONLY <2>1, <2>3, <3>2, <3>3, <3>8, <3>9, CountFinite
    <2>6. QED
      BY <1>3, <2>4, <2>5
  <1>4. QED
    BY <1>2, <1>3 DEF CountInv

LEMMA WriterJob ==
    ASSUME IInv, CInv, JInv, NEW w \in Writers, Writer(w), ~Sleep(w), ~outputBroken
    PROVE  JInv'
  <1>1. /\ OnlyBy(w) /\ UNCHANGED <<workVars, stopVars, endVars, written>>
        /\ wix'[w] = wix[w]
        /\ WriterTakes(w) \/ WriterCounts(w) \/ WriterEnds(w) \/ WriterWaits(w)
    BY WriterDoes
  <1>2. StopsInv' /\ LeaveInv' /\ DemandInv'
    BY <1>1, WriterKeeps
  <1>3. ShelvesInv' /\ CountInv' /\ WrittenInv'
    BY <1>1, WriterShelves, WriterCount, WriterWaiting
  <1>4. QED
    BY <1>2, <1>3 DEF JInv

-----------------------------------------------------------------------------
(***************************************************************************)
(* fail, and the main thread.                                              *)
(***************************************************************************)
LEMMA FailJob ==
    ASSUME IInv, JInv, NEW t \in Workforce, Fail(t)
    PROVE  JInv'
  <1>1. /\ OnlyBy(t) /\ UNCHANGED <<workVars, shelfVars, endVars, written, batch, wix>>
        /\ UNCHANGED <<cur, ahead, outputFinished>>
        /\ failed' /\ pc[t] \in Failing
        /\ \/ pc'[t] \in FailSteps
           \/ t \in Readers /\ pc'[t] = "leave"
           \/ t \in Computes /\ pc'[t] = "clear" /\ resume'[t] = "done"
           \/ t \in Writers /\ pc'[t] = "done"
    BY FailDoes DEF JInv
  <1>2. StopsInv /\ LeaveInv /\ DemandInv /\ ShelvesInv /\ CountInv /\ WrittenInv
    BY DEF JInv
  <1>3. GivingUp' /\ pc[t] # "done"
    BY <1>1 DEF GivingUp, Failing, FailSteps
  <1>4. /\ pc[t] \notin {"count", "account"} /\ pc'[t] \notin {"count", "account"}
        /\ t \in Readers => pc'[t] # "done"
        /\ t \in Computes => pc'[t] # "done"
    BY <1>1, Kinds DEF Failing, FailSteps
  <1>5. StopsInv'
    BY <1>1, <1>2, <1>3, StopsStep
  <1>6. LeaveInv'
    BY <1>1, <1>2, <1>3, <1>4, LeaveStep DEF workVars
  <1>7. DemandInv'
    <2>1. t \in Computes => ~Wants(t)'
      BY <1>1, Kinds DEF Wants, FailSteps
    <2>2. QED
      BY <1>1, <1>2, <1>3, <2>1, DemandStep DEF workVars
  <1>8. ShelvesInv'
    <2>1. t \in Writers => WriterPlace(t)'
      BY <1>1, <1>3, Kinds DEF WriterPlace, FailSteps
    <2>2. t \in Computes /\ IoWorkers > 0 => batch'[t] = <<>>
      BY <1>1, <1>2 DEF ShelvesInv
    <2>3. QED
      BY <1>1, <1>2, <1>3, <1>4, <2>1, <2>2, ShelvesStep DEF shelfVars
  <1>9. CountInv'
    BY <1>1, <1>2, <1>4, CountStep
  <1>10. WrittenInv'
    <2>1. ASSUME t \in Computes \cup Writers PROVE BatchWritten(t)'
      BY <1>1, <1>3, <2>1, Kinds DEF BatchWritten, Failing
    <2>2. /\ \A r \in Readers : r # t => Mine(r)' = Mine(r)
          /\ \A c \in Computes : c # t => Mine(c)' = Mine(c)
      BY <1>1, OthersKeep
    <2>3. ASSUME NEW p \in Positions, t \in Readers \cup Computes PROVE p \notin Mine(t)'
      <3>1. CASE t \in Readers
        BY <1>1, <3>1, Kinds, ReaderMine DEF HandLabels, FailSteps
      <3>2. CASE t \in Computes
        BY <1>1, <3>2, Kinds, ComputeMine DEF TakenLabels, Busy, FailSteps
      <3>3. QED
        BY <2>3, <3>1, <3>2
    <2>4. \A p \in Positions : p \in Waiting' => p \in Waiting
      BY <1>1, <2>2, <2>3, Whereabouts, WhereaboutsAfter DEF workVars, shelfVars
    <2>5. QED
      BY <1>1, <1>2, <1>3, <2>1, <2>4, WrittenStep
  <1>11. QED
    BY <1>5, <1>6, <1>7, <1>8, <1>9, <1>10 DEF JInv

\* What the main thread does, what a sleeper does, and what a thread that is
\* woken does: nothing that JInv speaks of, but for the end of the queues.
LEMMA IdleJob ==
    ASSUME JInv, StopsInv', OnlyBy(Main),
           UNCHANGED <<workVars, shelfVars, endVars, written, failed>>,
           outputFinished => outputFinished'
    PROVE  JInv'
  <1>1. /\ \A x \in Workforce : x # Main /\ x \in Threads
        /\ Computes \subseteq Workforce /\ Readers \subseteq Workforce
        /\ Writers \subseteq Workforce
    BY Kinds DEF Workforce
  <1>2. /\ \A x \in Workforce : pc'[x] = pc[x] /\ (Doomed(x)' <=> Doomed(x))
        /\ \A x \in Readers \cup Computes : Mine(x)' = Mine(x) /\ cur'[x] = cur[x]
        /\ \A x \in Computes : (Wants(x)' <=> Wants(x)) /\ (Gone(x)' <=> Gone(x))
        /\ \A x \in Computes \cup Writers :
               resume'[x] = resume[x] /\ batch'[x] = batch[x] /\ wix'[x] = wix[x]
    BY <1>1, OthersKeep DEF OnlyBy
  <1>3. GivingUp' <=> GivingUp
    BY <1>2 DEF GivingUp
  <1>4. LeaveInv /\ DemandInv /\ ShelvesInv /\ CountInv /\ WrittenInv
    BY DEF JInv
  <1>5. \A p \in Positions : /\ p \in Upstream' <=> p \in Upstream
                             /\ p \in Waiting' <=> p \in Waiting
                             /\ p \in InBatch' <=> p \in InBatch
    BY <1>2, Whereabouts, WhereaboutsAfter DEF workVars, shelfVars
  <1>6. LeaveInv'
    <2>1. {r \in Readers : pc[r] # "done"}' = {r \in Readers : pc[r] # "done"}
      BY <1>1, <1>2
    <2>2. Joined(Readers)' <=> Joined(Readers)
      BY <1>1, <1>2 DEF Joined
    <2>3. \A r \in Readers : pc'[r] = pc[r]
      BY <1>1, <1>2
    <2>4. UNCHANGED <<remainingReaders, inputFinished, next, expected>>
      BY DEF endVars, workVars
    <2>5. QED
      BY <1>2, <1>3, <1>4, <2>1, <2>2, <2>3, <2>4 DEF LeaveInv
  <1>7. DemandInv'
    <2>1. UNCHANGED <<queue, expected>>
      BY DEF workVars
    <2>2. \A p \in Positions : Wanted(p)' <=> Wanted(p)
      BY <1>2, <2>1 DEF Wanted
    <2>3. QED
      BY <1>2, <1>3, <1>4, <1>5, <2>1, <2>2 DEF DemandInv
  <1>8. ShelvesInv'
    <2>1. ASSUME NEW w \in Writers PROVE WriterPlace(w)'
      <3>1. /\ pc'[w] = pc[w] /\ resume'[w] = resume[w] /\ batch'[w] = batch[w]
            /\ WriterPlace(w) /\ UNCHANGED parts
        BY <1>1, <1>2, <1>4 DEF ShelvesInv, shelfVars
      <3>2. QED
        BY <1>3, <3>1 DEF WriterPlace
    <2>2. \A c \in Computes : pc'[c] = pc[c] /\ batch'[c] = batch[c]
      BY <1>1, <1>2
    <2>3. QED
      BY <1>4, <2>1, <2>2 DEF ShelvesInv, shelfVars
  <1>9. CountInv'
    <2>1. Counting' = Counting
      BY <1>1, <1>2 DEF Counting
    <2>2. \A p \in Positions : p \in Unaccounted' <=> p \in Unaccounted
      <3>1. \A w \in Writers : pc'[w] = pc[w] /\ batch'[w] = batch[w]
        BY <1>1, <1>2
      <3>2. QED
        BY <3>1 DEF Unaccounted, ElementsOf, shelfVars
    <2>3. Unaccounted' = Unaccounted
      BY <2>2 DEF Unaccounted
    <2>4. QED
      BY <1>4, <2>1, <2>3 DEF CountInv, shelfVars
  <1>10. WrittenInv'
    <2>1. ASSUME NEW x \in Computes \cup Writers PROVE BatchWritten(x)'
      <3>1. /\ pc'[x] = pc[x] /\ batch'[x] = batch[x] /\ wix'[x] = wix[x] /\ BatchWritten(x)
        BY <1>1, <1>2, <1>4 DEF WrittenInv
      <3>2. QED
        BY <1>3, <3>1, BatchStep
    <2>2. QED
      BY <1>3, <1>4, <1>5, <2>1 DEF WrittenInv
  <1>11. QED
    BY <1>6, <1>7, <1>8, <1>9, <1>10 DEF JInv

\* Nothing of the threads and the charts changes.
LEMMA QuietJob ==
    ASSUME JInv,
           UNCHANGED <<threadVars, workVars, shelfVars, stopVars, endVars, written>>
    PROVE  JInv'
  <1>1. OnlyBy(Main)
    BY DEF OnlyBy, threadVars
  <1>2. StopsInv'
    BY DEF JInv, StopsInv, Joined, threadVars, stopVars
  <1>3. QED
    BY <1>1, <1>2, IdleJob DEF stopVars

LEMMA MainJob ==
    ASSUME IInv, JInv, MainStep
    PROVE  JInv'
  <1> USE DEF Goes, Moves, KeepLocals
  <1>1. /\ UNCHANGED <<workVars, shelfVars, endVars, written, failed, outputStopped>>
        /\ UNCHANGED <<resume, cur, ahead, batch, wix>>
    BY DEF MainStep, JoinComputes, ShutDown, JoinRest, MarkFinished, NotifyWriters, StopInput,
       workVars, shelfVars, endVars, sharedVars, inputVars, outputVars
  <1>2. pc \in [Threads -> Labels] /\ Main \in Threads
    BY Kinds DEF IInv, TypeOK, ThreadsTypeOK
  <1>3. PICK to : pc' = [pc EXCEPT ![Main] = to]
    BY DEF MainStep, JoinComputes, ShutDown, JoinRest
  <1>4. pc'[Main] = to /\ \A x \in Threads : x # Main => pc'[x] = pc[x]
    BY <1>2, <1>3
  <1>5. OnlyBy(Main)
    BY <1>1, <1>4 DEF OnlyBy
  <1>6. \A x \in Workforce : pc'[x] = pc[x]
    BY <1>4, Kinds DEF Workforce
  <1>7. /\ Joined(Computes)' <=> Joined(Computes)
        /\ Joined(Readers)' <=> Joined(Readers)
        /\ Joined(Writers)' <=> Joined(Writers)
    BY <1>6 DEF Joined, Workforce
  <1>8. StopsInv
    BY DEF JInv
  <1>9. /\ outputFinished' = outputFinished \/ pc[Main] # "join_compute"
        /\ outputFinished => outputFinished'
        /\ inputStopped' = inputStopped \/ pc[Main] # "join_compute"
    BY DEF MainStep, JoinComputes, ShutDown, JoinRest, MarkFinished, NotifyWriters, StopInput,
       inputVars, outputVars
  <1>10. /\ pc'[Main] \in MainLabels \ {"join_compute"}
         /\ pc[Main] # "join_compute" \/ Joined(Computes)
         /\ pc'[Main] \in {"returned", "threw"} => Joined(Readers) /\ Joined(Writers)
         /\ pc'[Main] = "returned" => ~failed
    BY <1>2 DEF MainStep, JoinComputes, ShutDown, JoinRest, MainLabels
  <1>11. StopsInv'
    BY <1>1, <1>6, <1>7, <1>8, <1>9, <1>10 DEF StopsInv
  <1>12. QED
    BY <1>1, <1>5, <1>9, <1>11, IdleJob

-----------------------------------------------------------------------------
(***************************************************************************)
(* Every state.                                                            *)
(***************************************************************************)
LEMMA InitJob == Init => JInv
  <1> SUFFICES ASSUME Init PROVE JInv
    OBVIOUS
  <1> USE DEF Init, BudgetInit, InputInit, OutputInit
  <1>1. /\ \A r \in Readers : pc[r] = "loop"
        /\ \A c \in Computes : pc[c] = "loop"
        /\ \A w \in Writers : pc[w] = "pop"
        /\ pc[Main] = "join_compute"
    BY Kinds
  <1>2. /\ \A t \in Computes \cup Writers : batch[t] = <<>> /\ wix[t] = 0
        /\ \A c \in Computes : resume[c] = "done"
    OBVIOUS
  <1>3. /\ \A i \in Partitions : parts[i] = <<>>
        /\ \A p \in Positions : written[p] = 0 /\ p >= next /\ p >= expected
    BY BudgetAssumption DEF Positions
  <1>4. \A s : s = <<>> => DOMAIN s = {} /\ ElementsOf(s) = {}
    BY DEF ElementsOf
  <1>5. ~failed /\ ~inputStopped /\ ~inputFinished /\ ~outputStopped /\ ~outputFinished
    OBVIOUS
  <1>6. queue = {} /\ queued = 0 /\ remainingReaders = InputReaders
    OBVIOUS
  <1> USE DEF Init
  <1>7. StopsInv
    BY ONLY <1>1, <1>5 DEF StopsInv, Workforce, FailSteps, MainLabels
  <1>8. LeaveInv
    <2>1. {r \in Readers : pc[r] # "done"} = {"reader"} \X (0 .. InputReaders - 1)
      BY ONLY <1>1 DEF Readers
    <2>2. /\ IsFiniteSet(0 .. InputReaders - 1)
          /\ Cardinality(0 .. InputReaders - 1) = InputReaders
      BY ONLY PipelineAssumption, FS_Interval
    <2>3. IsFiniteSet({"reader"}) /\ Cardinality({"reader"}) = 1
      BY ONLY FS_Singleton
    <2>4. Cardinality({"reader"} \X (0 .. InputReaders - 1)) = InputReaders
      <3>1. Cardinality({"reader"} \X (0 .. InputReaders - 1))
                = Cardinality({"reader"}) * Cardinality(0 .. InputReaders - 1)
        BY ONLY <2>2, <2>3, FS_Product
      <3>2. Cardinality({"reader"}) * Cardinality(0 .. InputReaders - 1) = InputReaders
        BY ONLY <2>2, <2>3, PipelineAssumption
      <3>3. QED
        BY ONLY <3>1, <3>2
    <2>5. QED
      BY ONLY <1>1, <1>5, <1>6, <2>1, <2>4 DEF LeaveInv, Gone
  <1>9. DemandInv
    <2>1. \A p \in Positions : p \in Upstream /\ Wanted(p)
      BY ONLY <1>3, Whereabouts DEF Wanted
    <2>2. \A c \in Computes : ~Wants(c)
      BY ONLY <1>1 DEF Wants
    <2>3. QED
      BY ONLY <1>6, <2>1, <2>2 DEF DemandInv
  <1>10. ShelvesInv
    <2>1. \A w \in Writers : WriterPlace(w)
      BY ONLY <1>1 DEF WriterPlace
    <2>2. QED
      BY ONLY <1>2, <1>3, <2>1 DEF ShelvesInv
  <1>11. CountInv
    <2>1. Counting = {} /\ Unaccounted = {}
      BY ONLY <1>1, <1>3, <1>4 DEF Counting, Unaccounted
    <2>2. Cardinality({}) = 0
      BY ONLY FS_EmptySet
    <2>3. QED
      BY ONLY <1>6, <2>1, <2>2 DEF CountInv
  <1>12. WrittenInv
    <2>1. ASSUME NEW t \in Computes \cup Writers PROVE BatchWritten(t)
      <3>1. pc[t] # "clear" /\ wix[t] = 0 /\ DOMAIN batch[t] = {}
        BY ONLY <1>1, <1>2, <1>4, t \in Computes \cup Writers
      <3>2. QED
        BY ONLY <3>1 DEF BatchWritten
    <2>2. \A p \in Positions : p \in Waiting /\ written[p] = 0
      BY ONLY <1>3, Whereabouts
    <2>3. QED
      BY ONLY <2>1, <2>2 DEF WrittenInv
  <1>13. QED
    BY ONLY <1>7, <1>8, <1>9, <1>10, <1>11, <1>12 DEF JInv

LEMMA NextJob ==
    ASSUME IInv, CInv, JInv, IInv', CInv', [Next]_vars
    PROVE  JInv'
  <1>1. ASSUME NEW t \in Threads, Step(t) PROVE JInv'
    <2>1. ~outputBroken
      BY <1>1 DEF Step, Terminated
    <2>2. CASE t \in Readers /\ Reader(t)
      BY <2>2, ReaderJob
    <2>3. CASE t \in Computes /\ Compute(t)
      BY <2>3, ComputeJob
    <2>4. CASE t \in Computes \cup Writers /\ Flush(t)
      BY <2>4, FlushJob
    <2>5. CASE t \in Workforce /\ Fail(t)
      BY <2>5, FailJob
    <2>6. CASE t \in Writers /\ Writer(t) /\ ~Sleep(t)
      BY <2>1, <2>6, WriterJob
    <2>7. CASE t \in Writers /\ Sleep(t)
      <3>1. UNCHANGED <<threadVars, workVars, shelfVars, stopVars, endVars, written>>
        BY <2>7 DEF Sleep, FallAsleep, workVars, shelfVars, stopVars, endVars, inputVars,
           sharedVars
      <3>2. QED
        BY <3>1, QuietJob
    <2>8. CASE t = Main /\ MainStep
      BY <2>8, MainJob
    <2>9. QED
      BY <1>1, <2>2, <2>3, <2>4, <2>5, <2>6, <2>7, <2>8 DEF Step, Workforce
  <1>2. ASSUME NEW t \in Threads, SpuriousWakeup(t) PROVE JInv'
    <2>1. UNCHANGED <<threadVars, workVars, shelfVars, stopVars, endVars, written>>
      BY <1>2 DEF SpuriousWakeup, workVars, shelfVars, stopVars, endVars, sharedVars
    <2>2. QED
      BY <2>1, QuietJob
  <1>3. CASE UNCHANGED vars
    <2>1. UNCHANGED <<threadVars, workVars, shelfVars, stopVars, endVars, written>>
      BY <1>3 DEF vars, inputVars, outputVars, workVars, shelfVars, stopVars, endVars, sharedVars
    <2>2. QED
      BY <2>1, QuietJob
  <1>4. QED
    BY <1>1, <1>2, <1>3 DEF Next, Exited

\* The three invariants together are inductive under every step of every
\* thread, for any manifest, any number of threads and any policy.
THEOREM JobInvariant == Spec => [](IInv /\ CInv /\ JInv)
  <1>1. Init => IInv /\ CInv /\ JInv
    BY InitInvariant, InitCredit, InitJob
  <1>2. IInv /\ CInv /\ JInv /\ [Next]_vars => (IInv /\ CInv /\ JInv)'
    BY NextInvariant, NextCredit, NextJob
  <1>3. QED
    BY <1>1, <1>2, PTL DEF Spec

-----------------------------------------------------------------------------
(***************************************************************************)
(* The job.                                                                *)
(***************************************************************************)
\* When every thread is joined without an error, no chart is upstream, none
\* is in the hands of a thread, and none is in a partition or a batch.
LEMMA AllDone ==
    ASSUME IInv, CInv, JInv, pc[Main] = "returned"
    PROVE  /\ ~GivingUp /\ Joined(Readers) /\ Joined(Computes) /\ Joined(Writers)
           /\ queue = {}
           /\ \A p \in Positions : ~(p >= next)
           /\ \A t \in Readers \cup Computes : Mine(t) = {}
           /\ \A i \in Partitions : parts[i] = <<>>
           /\ \A t \in Computes \cup Writers : batch[t] = <<>>
  <1>1. ~failed /\ Joined(Readers) /\ Joined(Computes) /\ Joined(Writers)
    BY DEF JInv, StopsInv
  <1>2. ~GivingUp
    BY <1>1 DEF GivingUp, Doomed, Workforce, Joined
  <1>3. Gone(<<"compute", 0>>)
    BY <1>1, SomeCompute DEF Joined, Gone
  <1>4. \/ InputReaders > 0 /\ inputFinished /\ expected >= Charts
        \/ InputReaders = 0 /\ next >= Charts
    BY <1>2, <1>3, SomeCompute DEF JInv, LeaveInv
  <1>5. next \in Nat /\ expected \in Nat /\ InputReaders \in Nat
    BY PipelineAssumption DEF IInv, TypeOK, CountersTypeOK
  <1>6. next >= Charts
    <2>1. CASE InputReaders > 0
      <3>1. <<"reader", 0>> \in Readers
        BY <1>5, <2>1 DEF Readers
      <3>2. QED
        BY <1>1, <1>2, <3>1 DEF JInv, LeaveInv, Joined
    <2>2. QED
      BY <1>4, <2>1
  <1>7. \A p \in Positions : ~(p >= next)
    BY <1>5, <1>6, BudgetAssumption DEF Positions
  <1>8. \A t \in Readers \cup Computes : Mine(t) = {}
    <2>1. \A r \in Readers : Mine(r) = {}
      BY <1>1, ReaderMine DEF Joined, HandLabels
    <2>2. \A c \in Computes : Mine(c) = {}
      BY <1>1, ComputeMine DEF Joined, TakenLabels, Busy
    <2>3. QED
      BY <2>1, <2>2
  <1>9. queue = {}
    <2>1. CASE InputReaders = 0
      BY <2>1 DEF JInv, DemandInv
    <2>2. CASE InputReaders > 0
      <3>1. \A p \in Positions : ~Wanted(p)
        <4>1. \A c \in Computes : ~Wants(c)
          BY <1>1 DEF Wants, Joined
        <4>2. expected >= Charts
          BY <1>4, <2>2
        <4>3. QED
          BY <1>5, <4>1, <4>2, BudgetAssumption DEF Wanted, Positions
      <3>2. \A p \in Positions : p \notin Upstream
        BY <1>2, <2>2, <3>1 DEF JInv, DemandInv
      <3>3. QED
        BY <3>2, Whereabouts DEF IInv, TypeOK, PlacesTypeOK
    <2>3. QED
      BY <1>5, <2>1, <2>2
  <1>10. \A w \in Writers :
             /\ batch[w] = <<>>
             /\ \A i \in Partitions : Policy # "Strict" \/ i = Home(w) => parts[i] = <<>>
    BY <1>1, <1>2 DEF JInv, ShelvesInv, WriterPlace, Joined
  <1>11. \A c \in Computes : batch[c] = <<>>
    BY <1>1 DEF JInv, ShelvesInv, Joined
  <1>12. ASSUME NEW i \in Partitions PROVE parts[i] = <<>>
    <2>1. CASE IoWorkers = 0
      BY <2>1 DEF JInv, ShelvesInv
    <2>2. CASE IoWorkers > 0 /\ Policy # "Strict"
      <3>1. <<"io", 0>> \in Writers
        BY <2>2, PipelineAssumption DEF Writers
      <3>2. QED
        BY <1>10, <2>2, <3>1
    <2>3. CASE IoWorkers > 0 /\ PartitionCount <= IoWorkers
      <3>1. i \in 0 .. IoWorkers - 1 /\ i \in Nat /\ i < PartitionCount
        BY <2>3, PipelineAssumption, OutputAssumption DEF Partitions
      <3>2. <<"io", i>> \in Writers /\ i % PartitionCount = i
        BY <3>1, OutputAssumption DEF Writers
      <3>3. Home(<<"io", i>>) = i
        BY <3>2 DEF Home
      <3>4. QED
        BY <1>10, <3>2, <3>3
    <2>4. CASE IoWorkers > 0 /\ PartitionCount = 1
      <3>1. <<"io", 0>> \in Writers /\ i = 0
        BY <2>4, PipelineAssumption DEF Writers, Partitions
      <3>2. Home(<<"io", 0>>) = 0
        BY <2>4 DEF Home
      <3>3. QED
        BY <1>10, <3>1, <3>2
    <2>5. QED
      BY <2>1, <2>2, <2>3, <2>4, PipelineAssumption
  <1>13. QED
    BY <1>1, <1>2, <1>7, <1>8, <1>9, <1>10, <1>11, <1>12

\* run returns normally only when the files of every chart were written, once,
\* and nothing is left in any queue, lease or batch.
LEMMA ReturnIsComplete == IInv /\ CInv /\ JInv => CompleteReturn
  <1> SUFFICES ASSUME IInv, CInv, JInv, pc[Main] = "returned"
               PROVE  /\ \A p \in Positions : written[p] = 1
                      /\ used = 0 /\ reserved = 0
                      /\ \A i \in Partitions : parts[i] = <<>>
    BY DEF CompleteReturn
  <1>1. /\ ~GivingUp /\ Joined(Readers) /\ Joined(Computes) /\ Joined(Writers)
        /\ queue = {}
        /\ \A p \in Positions : ~(p >= next)
        /\ \A t \in Readers \cup Computes : Mine(t) = {}
        /\ \A i \in Partitions : parts[i] = <<>>
        /\ \A t \in Computes \cup Writers : batch[t] = <<>>
    BY AllDone
  <1>2. \A s : s = <<>> => ElementsOf(s) = {}
    BY DEF ElementsOf
  <1>3. ASSUME NEW p \in Positions
        PROVE  written[p] = 1 /\ \A k \in Places : p \notin Held(k)
    <2>1. p \notin Upstream
      BY <1>1, Whereabouts
    <2>2. p \notin Waiting /\ p \notin InBatch
      BY <1>1, <1>2, <2>1, Whereabouts
    <2>3. \A k \in Places : p \notin Held(k)
      BY <1>1, <1>2, PlaceKinds, HeldOf
    <2>4. QED
      BY <1>1, <2>2, <2>3 DEF JInv, WrittenInv
  <1>4. used = 0
    <2>1. \A p \in Positions : lease[p] = 0
      BY <1>3 DEF CInv, PlacesInv, LeaseDue
    <2>2. CreditUnits = {}
      BY <2>1 DEF CreditUnits
    <2>3. QED
      BY <2>2, FS_EmptySet DEF CInv, BudgetInv
  <1>5. reserved = 0
    <2>1. SlotHolders = {}
      BY <1>1 DEF SlotHolders, Joined
    <2>2. QED
      BY <1>1, <2>1, FS_EmptySet DEF IInv, SlotsConserved
  <1>6. QED
    BY <1>1, <1>3, <1>4, <1>5

\* When run returns normally the files of every chart are written once, the
\* output partitions are empty and all credit and output slots are given back:
\* no thread may leave its loop with a chart still on the way.
THEOREM ReturnsComplete == Spec => []CompleteReturn
  BY JobInvariant, ReturnIsComplete, PTL

\* The outcome of ConversionJob that a state of the threads stands for.
Outcome ==
    IF Terminated \/ pc[Main] = "threw" THEN "error"
    ELSE IF pc[Main] = "returned" THEN "ok" ELSE "running"


\* Only the loop over a batch writes files: the next ones, and nothing else
\* happens then.
LEMMA StepWrites ==
    ASSUME IInv, CInv, JInv, NEW t \in Threads, Step(t)
    PROVE  \/ UNCHANGED written
           \/ /\ \E p \in Positions :
                     written[p] = 0 /\ written' = [written EXCEPT ![p] = 1]
              /\ pc'[Main] = pc[Main] /\ UNCHANGED outputBroken
  <1>1. CASE t \in Computes \cup Writers /\ Flush(t)
    <2>1. /\ OnlyBy(t) /\ UNCHANGED <<workVars, shelfVars, stopVars, endVars>>
          /\ \/ BatchWrites(t) \/ BatchFails(t) \/ BatchDone(t) \/ BatchDrops(t)
             \/ BatchEnds(t)
          /\ t \in Computes => BatchFails(t) \/ Mine(t)' = Mine(t)
      BY <1>1, FlushDoes
    <2>2. GivingUp => GivingUp'
      BY <1>1, <2>1, FlushStays
    <2>3. CASE BatchWrites(t)
      <3>1. ~BatchFails(t)
        BY <2>3 DEF BatchWrites, BatchFails
      <3>2. \A p \in Positions : /\ p \in Waiting' => p \in Waiting
                                 /\ p \in Waiting => p \in Waiting' \/ GivingUp'
        BY <1>1, <2>1, <3>1, FlushWaiting
      <3>3. \E p \in Positions : written[p] = 0 /\ written' = [written EXCEPT ![p] = 1]
        BY <1>1, <2>1, <2>2, <2>3, <3>2, WritesJob
      <3>4. pc'[Main] = pc[Main] /\ UNCHANGED outputBroken
        BY <1>1, <2>1, Kinds DEF OnlyBy, shelfVars
      <3>5. QED
        BY <3>3, <3>4
    <2>4. CASE ~BatchWrites(t)
      BY <2>1, <2>4 DEF BatchFails, BatchDone, BatchDrops, BatchEnds
    <2>5. QED
      BY <2>3, <2>4
  <1>2. CASE t \in Readers /\ Reader(t)
    BY <1>2 DEF Reader, ReaderLoop, ReaderClaim, ReaderReserve, ReaderAcquire, ReaderRead,
       ReaderPush, ReaderCancel, ReaderLeave, sharedVars
  <1>3. CASE t \in Computes /\ Compute(t)
    BY <1>3 DEF Compute, ComputeLoop, DirectClaim, DirectTryAcquire, DirectAcquire, DirectRead,
       DirectNext, OrderedClaim, OrderedTry, OrderedPop, OrderedNext,
       Process, KernelReturns, KernelThrows, SubmitQueued, SubmitCounted,
       SubmitInline, sharedVars
  <1>4. CASE t \in Writers /\ Writer(t)
    BY <1>4 DEF Writer, StrictPop, LocalPop, Scan, MetaWait, Account, Sleep, sharedVars
  <1>5. CASE t \in Workforce /\ Fail(t)
    BY <1>5 DEF Fail, FailFirst, FailAgain, FailStops, FailAbortsWorkers, sharedVars
  <1>6. CASE t = Main /\ MainStep
    BY <1>6 DEF MainStep, JoinComputes, ShutDown, JoinRest, sharedVars
  <1>7. QED
    BY <1>1, <1>2, <1>3, <1>4, <1>5, <1>6 DEF Step, Workforce

\* After run has returned no thread does anything but fall asleep.
LEMMA NothingAfter ==
    ASSUME IInv, CInv, JInv, CInv', NEW t \in Threads, Step(t), Returned
    PROVE  UNCHANGED <<pc, written, outputBroken>>
  <1>1. \A x \in Workforce : pc[x] = "done"
    BY NotJoined DEF JInv, Returned
  <1>2. ~(t \in Readers /\ Reader(t))
    <2>1. ASSUME t \in Readers, Reader(t) PROVE pc[t] # "done"
      BY <2>1, ReaderDoes DEF ReaderTakes, ReaderGoes, ReaderKeeps, ReaderFails,
         ReaderGives, ReaderEnds, HandLabels
    <2>2. QED
      BY <1>1, <2>1 DEF Workforce
  <1>3. ~(t \in Computes /\ Compute(t))
    <2>1. Compute(t) => pc[t] # "done"
      BY DEF Compute, ComputeLoop, DirectClaim, DirectTryAcquire, DirectAcquire, DirectRead,
         DirectNext, OrderedClaim, OrderedTry, OrderedPop, OrderedNext,
         Process, KernelReturns, KernelThrows, SubmitQueued, SubmitCounted,
         SubmitInline, Leaving, Goes, Moves
    <2>2. QED
      BY <1>1, <2>1 DEF Workforce
  <1>4. ~(t \in Computes \cup Writers /\ Flush(t))
    BY <1>1 DEF Workforce, Flush, WriteItem, AllWritten, ClearItem, Cleared, Goes, Moves
  <1>5. ~(t \in Workforce /\ Fail(t))
    BY <1>1 DEF Fail, FailFirst, FailAgain, FailStops, FailAbortsWorkers, Goes, Moves
  <1>6. ~(t = Main /\ MainStep)
    BY DEF MainStep, JoinComputes, ShutDown, JoinRest, Goes, Moves, Returned
  <1>7. t \in Writers /\ Writer(t) => Sleep(t)
    BY <1>1 DEF Workforce, Writer, StrictPop, LocalPop, Scan, MetaWait, Account, TakesBatch,
       Goes, Moves
  <1>8. Sleep(t)
    BY <1>2, <1>3, <1>4, <1>5, <1>6, <1>7 DEF Step, Workforce
  <1>9. QED
    BY <1>8 DEF Sleep, FallAsleep, threadVars, sharedVars

\* A step of the threads is a step of the job, or none.
LEMMA JobStep ==
    ASSUME IInv, CInv, JInv, IInv', CInv', JInv', [Next]_vars
    PROVE  [Job!JobNext]_(Job!jobVars)
  <1>1. /\ Terminated <=> outputBroken
        /\ Terminated' <=> outputBroken'
    BY DEF Terminated, CInv, BudgetInv, BuffersInv
  <1>2. /\ \A p : Job!Convert(p) <=>
                      /\ Outcome = "running" /\ written[p] = 0
                      /\ written' = [written EXCEPT ![p] = 1] /\ Outcome' = Outcome
        /\ Job!Succeed <=> /\ Outcome = "running" /\ \A p \in Positions : written[p] = 1
                           /\ Outcome' = "ok" /\ UNCHANGED written
        /\ Job!GiveUp <=> Outcome = "running" /\ Outcome' = "error" /\ UNCHANGED written
        /\ UNCHANGED Job!jobVars <=> UNCHANGED written /\ Outcome' = Outcome
    BY DEF Job!Convert, Job!Succeed, Job!GiveUp, Job!jobVars, Outcome
  <1>3. ASSUME UNCHANGED <<pc, written, outputBroken>> PROVE UNCHANGED Job!jobVars
    BY <1>1, <1>2, <1>3 DEF Outcome
  <1>4. ASSUME NEW t \in Threads, Step(t), ~Returned PROVE [Job!JobNext]_(Job!jobVars)
    <2>1. Outcome = "running"
      BY <1>4 DEF Outcome, Step, Returned
    <2>2. CASE UNCHANGED written
      <3>1. CASE Outcome' = "ok"
        <4>1. pc'[Main] = "returned"
          BY <3>1 DEF Outcome
        <4>2. CompleteReturn'
          BY ReturnIsComplete, PTL
        <4>3. \A p \in Positions : written[p] = 1
          BY <2>2, <4>1, <4>2 DEF CompleteReturn
        <4>4. QED
          BY <1>2, <2>1, <2>2, <3>1, <4>3 DEF Job!JobNext
      <3>2. CASE Outcome' # "ok"
        <4>1. Outcome' \in {"running", "error"}
          BY <3>2 DEF Outcome
        <4>2. QED
          BY <1>2, <2>1, <2>2, <4>1 DEF Job!JobNext
      <3>3. QED
        BY <3>1, <3>2
    <2>3. CASE ~(UNCHANGED written)
      <3>1. PICK p \in Positions : written[p] = 0 /\ written' = [written EXCEPT ![p] = 1]
        BY <1>4, <2>3, StepWrites
      <3>2. pc'[Main] = pc[Main] /\ UNCHANGED outputBroken
        BY <1>4, <2>3, StepWrites
      <3>3. Outcome' = Outcome
        BY <1>1, <3>2 DEF Outcome
      <3>4. QED
        BY <1>2, <2>1, <3>1, <3>3 DEF Job!JobNext
    <2>4. QED
      BY <2>2, <2>3
  <1>5. ASSUME NEW t \in Threads, Step(t), Returned PROVE UNCHANGED Job!jobVars
    BY <1>3, <1>5, NothingAfter
  <1>6. ASSUME NEW t \in Threads, SpuriousWakeup(t) PROVE UNCHANGED Job!jobVars
    <2>1. UNCHANGED <<pc, written, outputBroken>>
      BY <1>6 DEF SpuriousWakeup, threadVars, sharedVars
    <2>2. QED
      BY <1>3, <2>1
  <1>7. ASSUME UNCHANGED vars PROVE UNCHANGED Job!jobVars
    <2>1. UNCHANGED <<pc, written, outputBroken>>
      BY <1>7 DEF vars, threadVars, sharedVars, outputVars
    <2>2. QED
      BY <1>3, <2>1
  <1>8. QED
    BY <1>4, <1>5, <1>6, <1>7 DEF Next, Exited

\* The threads implement the job, whatever the number of charts and threads
\* and whichever of them fail.
THEOREM JobImplemented == Spec => ImplementsJob
  <1>1. Init => Job!JobInit
    BY Kinds DEF Init, BudgetInit, InputInit, OutputInit, Job!JobInit, Terminated
  <1>2. /\ IInv /\ CInv /\ JInv
        /\ (IInv /\ CInv /\ JInv)'
        /\ [Next]_vars
        => [Job!JobNext]_(Job!jobVars)
    BY JobStep
  <1>3. QED
    BY <1>1, <1>2, JobInvariant, PTL DEF Spec, ImplementsJob, Job!JobSpec
=============================================================================
