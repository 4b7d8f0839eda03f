---------------------------- MODULE HostPipeline ----------------------------
(***************************************************************************)
(* maimoe::host::run of 07-maimoe/src/host/HostRuntime.cpp: the reader,    *)
(* compute and io threads that turn every chart of the manifest into its   *)
(* output files, over the queues of CreditBudget, InputQueue and           *)
(* OutputQueue, with the first error stopping all of them.                 *)
(*                                                                         *)
(* A chart is named by its position in the work order (a permutation of    *)
(* the manifest, see Schedule). A thread is <<kind, index>>. A step is one *)
(* critical section, one atomic operation on a shared counter, one read    *)
(* or write of a file, or one call of the kernel. In two modes the code    *)
(* has no reader or no io threads; the constants select them:              *)
(*   InputReaders = 0  the compute threads read the charts themselves      *)
(*   IoWorkers = 0     the compute threads write their own batches         *)
(***************************************************************************)
EXTENDS CreditBudget, InputQueue, OutputQueue

CONSTANTS
    CpuWorkers,     \* config.cpu_workers
    InputReaders,   \* config.input_readers
    IoWorkers,      \* config.io_workers
    ComputeBatch,   \* config.compute_batch
    WriteBatch,     \* config.write_batch
    Faults,         \* what may throw: "read", "kernel", "write"
    Spurious        \* whether a wait may return without a notification

ASSUME PipelineAssumption ==
    /\ CpuWorkers \in Nat \ {0}
    /\ InputReaders \in Nat
    /\ IoWorkers \in Nat
    /\ ComputeBatch \in Nat \ {0}
    /\ WriteBatch \in Nat \ {0}
    /\ Faults \subseteq {"read", "kernel", "write"}
    /\ Spurious \in BOOLEAN
    /\ Bucket \in [Positions -> Nat]
    /\ PartitionCount = 1 \/ PartitionCount <= IoWorkers

Readers  == {"reader"} \X (0 .. InputReaders - 1)
Computes == {"compute"} \X (0 .. CpuWorkers - 1)
Writers  == {"io"} \X (0 .. IoWorkers - 1)
Main     == <<"main", 0>>
Threads  == Readers \cup Computes \cup Writers \cup {Main}

VARIABLES
    next,           \* next: the position to claim
    expected,       \* expected_index: the schedule index to claim
    remainingReaders,
    failed,         \* failed, with first_error set
    workersAborted, \* how many workers WorkerProcess::abort was called on
    pc,             \* where each thread is
    resume,         \* where a thread goes on after flush_inline or clear
    cur,            \* position in the hands of a reader or compute thread
    ahead,          \* compute threads: charts left of the compute batch
    batch,          \* inline_batch of a compute thread, batch of an io thread
    wix,            \* how many items of batch have been written
    cursor,         \* steal_cursor of an io thread
    offset,         \* offset of its scan over the partitions, 0 outside it
    written         \* how often the files of a position were written

threadVars == <<pc, resume, cur, ahead, batch, wix, cursor, offset>>
sharedVars == <<next, expected, remainingReaders, failed, workersAborted,
                written>>
vars == <<budgetVars, poolVars, inputVars, outputVars, sharedVars, threadVars>>

Init ==
    /\ BudgetInit
    /\ InputInit
    /\ OutputInit
    /\ next = 0
    /\ expected = 0
    /\ remainingReaders = InputReaders
    /\ failed = FALSE
    /\ workersAborted = 0
    /\ pc = [t \in Threads |-> CASE t \in Readers  -> "loop"
                                 [] t \in Computes -> "loop"
                                 [] t \in Writers  -> "pop"
                                 [] t = Main       -> "join_compute"]
    /\ resume = [t \in Computes \cup Writers |->
                    IF t \in Computes THEN "done" ELSE "pop"]
    /\ cur = [t \in Readers \cup Computes |-> 0]
    /\ ahead = [c \in Computes |-> 0]
    /\ batch = [t \in Computes \cup Writers |-> <<>>]
    /\ wix = [t \in Computes \cup Writers |-> 0]
    /\ cursor = [w \in Writers |-> NextPartition(Home(w))]
    /\ offset = [w \in Writers |-> 0]
    /\ written = [p \in Positions |-> 0]

(***************************************************************************)
(* Steps of a thread: from one label to the next, and nothing else of the  *)
(* thread's own state.                                                     *)
(***************************************************************************)
Moves(t, from, to) == pc[t] = from /\ pc' = [pc EXCEPT ![t] = to]

KeepLocals == UNCHANGED <<resume, cur, ahead, batch, wix, cursor, offset>>

Goes(t, from, to) == Moves(t, from, to) /\ KeepLocals

(***************************************************************************)
(* fail: the first error sets failed, then stops the queues one by one.    *)
(***************************************************************************)
AfterFail(t) ==
    CASE t \in Readers  -> "leave"
      [] t \in Computes -> "clear"   \* inline_batch goes out of scope
      [] t \in Writers  -> "done"

Unwound(t) ==
    IF t \in Computes
    THEN resume' = [resume EXCEPT ![t] = "done"]
    ELSE UNCHANGED resume

FailFirst(t) ==
    /\ ~failed
    /\ Goes(t, "fail", "fail_credit")
    /\ failed' = TRUE
    /\ UNCHANGED <<budgetVars, poolVars, inputVars, outputVars, next,
                   expected, remainingReaders, workersAborted, written>>

FailAgain(t) ==
    /\ failed
    /\ Moves(t, "fail", AfterFail(t))
    /\ Unwound(t)
    /\ UNCHANGED <<budgetVars, poolVars, inputVars, outputVars, sharedVars,
                   cur, ahead, batch, wix, cursor, offset>>

FailStops(t) ==
    /\ \/ /\ Goes(t, "fail_credit", "fail_input")
          /\ StopCredit
          /\ UNCHANGED <<inputVars, outputVars>>
       \/ /\ Goes(t, "fail_input", "fail_output")
          /\ StopInput
          /\ UNCHANGED <<budgetVars, outputVars>>
       \/ /\ \/ Goes(t, "fail_output", "fail_notify") /\ MarkStopped
             \/ Goes(t, "fail_notify", "fail_workers") /\ NotifyWriters
          /\ UNCHANGED <<budgetVars, inputVars>>
    /\ UNCHANGED <<poolVars, sharedVars>>

\* The workers are aborted one after another, in the order of their threads.
FailAbortsWorkers(t) ==
    /\ workersAborted' = workersAborted + 1
    /\ \/ /\ workersAborted + 1 < CpuWorkers
          /\ Goes(t, "fail_workers", "fail_workers")
       \/ /\ workersAborted + 1 >= CpuWorkers
          /\ Moves(t, "fail_workers", AfterFail(t))
          /\ Unwound(t)
          /\ UNCHANGED <<cur, ahead, batch, wix, cursor, offset>>
    /\ UNCHANGED <<budgetVars, poolVars, inputVars, outputVars, next, expected,
                   remainingReaders, failed, written>>

WorkerAborted(c) == c[2] < workersAborted

Fail(t) == FailFirst(t) \/ FailAgain(t) \/ FailStops(t) \/ FailAbortsWorkers(t)

(***************************************************************************)
(* Reader threads: while not failed, claim a position, reserve a slot,     *)
(* reserve credit, read the file, push the item.                           *)
(***************************************************************************)
ReaderLoop(r) ==
    /\ Goes(r, "loop", IF failed THEN "leave" ELSE "claim")
    /\ UNCHANGED <<budgetVars, poolVars, inputVars, outputVars, sharedVars>>

\* A faulty ReaderClaim: next is loaded and not advanced.
ReaderClaimsTwice(r) ==
    /\ next < Charts
    /\ Moves(r, "claim", "reserve")
    /\ cur' = [cur EXCEPT ![r] = next]
    /\ UNCHANGED <<budgetVars, poolVars, inputVars, outputVars, sharedVars,
                   resume, ahead, batch, wix, cursor, offset>>

ReaderClaim(r) ==
    /\ next' = next + 1
    /\ \/ /\ next < Charts
          /\ Moves(r, "claim", "reserve")
          /\ cur' = [cur EXCEPT ![r] = next]
          /\ UNCHANGED <<resume, ahead, batch, wix, cursor, offset>>
       \/ next >= Charts /\ Goes(r, "claim", "leave")
    /\ UNCHANGED <<budgetVars, poolVars, inputVars, outputVars, expected,
                   remainingReaders, failed, workersAborted, written>>

ReaderReserve(r) ==
    /\ \/ Goes(r, "reserve", "acquire") /\ SlotReserved(r)
       \/ Goes(r, "reserve", "leave") /\ SlotRefused(r)
       \/ Goes(r, "reserve", "reserve") /\ SlotAwaited(r)
    /\ UNCHANGED <<budgetVars, poolVars, outputVars, sharedVars>>

ReaderAcquire(r) ==
    /\ \/ Goes(r, "acquire", "read") /\ CreditGranted(r, cur[r])
       \/ Goes(r, "acquire", "cancel") /\ CreditRefused(r)
       \/ Goes(r, "acquire", "acquire") /\ CreditAwaited(r, cur[r])
    /\ UNCHANGED <<poolVars, inputVars, outputVars, sharedVars>>

\* A fault destroys the lease while read_reserved_item unwinds.
ReaderRead(r) ==
    /\ \/ Goes(r, "read", "push") /\ UNCHANGED budgetVars
       \/ /\ "read" \in Faults
          /\ Goes(r, "read", "cancel")
          /\ ReleaseCredit(cur[r], lease[cur[r]])
    /\ UNCHANGED <<poolVars, inputVars, outputVars, sharedVars>>

\* A refused item and its lease go out of scope at the break.
ReaderPush(r) ==
    /\ \/ /\ Goes(r, "push", "loop")
          /\ PushReserved(cur[r])
          /\ UNCHANGED budgetVars
       \/ /\ Goes(r, "push", "leave")
          /\ PushRefused
          /\ ReleaseCredit(cur[r], lease[cur[r]])
    /\ UNCHANGED <<poolVars, outputVars, sharedVars>>

ReaderCancel(r) ==
    /\ Goes(r, "cancel", "fail")
    /\ CancelReservation
    /\ UNCHANGED <<budgetVars, poolVars, outputVars, sharedVars>>

\* The last reader to leave finishes the input queue.
ReaderLeave(r) ==
    /\ Goes(r, "leave", "done")
    /\ remainingReaders' = remainingReaders - 1
    /\ IF remainingReaders = 1 THEN FinishInput ELSE UNCHANGED inputVars
    /\ UNCHANGED <<budgetVars, poolVars, outputVars, next, expected, failed,
                   workersAborted, written>>

Reader(r) ==
    \/ ReaderLoop(r)
    \/ ReaderClaim(r)
    \/ ReaderReserve(r)
    \/ ReaderAcquire(r)
    \/ ReaderRead(r)
    \/ ReaderPush(r)
    \/ ReaderCancel(r)
    \/ ReaderLeave(r)

(***************************************************************************)
(* Compute threads. First how they get a chart: from the files ...         *)
(***************************************************************************)
\* What follows the last chart of a batch read directly.
EndOfBatch == IF IoWorkers = 0 THEN "flush" ELSE "loop"

\* The loop over the charts is over: flush_inline, or done.
Leaving(c, from) ==
    /\ Moves(c, from, IF IoWorkers = 0 THEN "flush" ELSE "done")
    /\ resume' = [resume EXCEPT ![c] = "done"]

ComputeLoop(c) ==
    /\ \/ failed /\ Leaving(c, "loop")
       \/ ~failed /\ Moves(c, "loop", "claim") /\ UNCHANGED resume
    /\ UNCHANGED <<budgetVars, poolVars, inputVars, outputVars, sharedVars,
                   cur, ahead, batch, wix, cursor, offset>>

DirectClaim(c) ==
    /\ InputReaders = 0
    /\ next' = next + ComputeBatch
    /\ \/ next >= Charts /\ Leaving(c, "claim") /\ UNCHANGED <<cur, ahead>>
       \/ /\ next < Charts
          /\ Moves(c, "claim", IF IoWorkers = 0 THEN "try_acquire" ELSE "acquire")
          /\ cur' = [cur EXCEPT ![c] = next]
          /\ ahead' = [ahead EXCEPT ![c] =
                 (IF next + ComputeBatch < Charts
                  THEN ComputeBatch ELSE Charts - next) - 1]
          /\ UNCHANGED resume
    /\ UNCHANGED <<budgetVars, poolVars, inputVars, outputVars, expected,
                   remainingReaders, failed, workersAborted, written, batch,
                   wix, cursor, offset>>

\* try_acquire fails: write what this thread holds, then block.
DirectTryAcquire(c) ==
    /\ \/ Goes(c, "try_acquire", "read") /\ CreditGranted(c, cur[c])
       \/ /\ Moves(c, "try_acquire", "flush")
          /\ creditStopped \/ ~Admits(Reservation(cur[c]))
          /\ resume' = [resume EXCEPT ![c] = "acquire"]
          /\ UNCHANGED <<budgetVars, cur, ahead, batch, wix, cursor, offset>>
    /\ UNCHANGED <<poolVars, inputVars, outputVars, sharedVars>>

DirectAcquire(c) ==
    /\ \/ Goes(c, "acquire", "read") /\ CreditGranted(c, cur[c])
       \/ Goes(c, "acquire", "fail") /\ CreditRefused(c)
       \/ Goes(c, "acquire", "acquire") /\ CreditAwaited(c, cur[c])
    /\ UNCHANGED <<poolVars, inputVars, outputVars, sharedVars>>

DirectRead(c) ==
    /\ \/ Goes(c, "read", "process") /\ UNCHANGED budgetVars
       \/ /\ "read" \in Faults
          /\ Goes(c, "read", "fail")
          /\ ReleaseCredit(cur[c], lease[cur[c]])
    /\ UNCHANGED <<poolVars, inputVars, outputVars, sharedVars>>

DirectNext(c) ==
    /\ InputReaders = 0
    /\ \/ /\ ahead[c] > 0
          /\ Moves(c, "next", IF IoWorkers = 0 THEN "try_acquire" ELSE "acquire")
          /\ cur' = [cur EXCEPT ![c] = @ + 1]
          /\ ahead' = [ahead EXCEPT ![c] = @ - 1]
          /\ UNCHANGED resume
       \/ /\ ahead[c] = 0
          /\ Moves(c, "next", EndOfBatch)
          /\ resume' = [resume EXCEPT ![c] = "loop"]
          /\ UNCHANGED <<cur, ahead>>
    /\ UNCHANGED <<budgetVars, poolVars, inputVars, outputVars, sharedVars,
                   batch, wix, cursor, offset>>

(***************************************************************************)
(* ... or from the input queue, in the order of the schedule.              *)
(***************************************************************************)
FirstOfBatch(c) == ahead[c] = ComputeBatch - 1

OrderedClaim(c) ==
    /\ InputReaders > 0
    /\ Moves(c, "claim", "try")
    /\ cur' = [cur EXCEPT ![c] = expected]
    /\ ahead' = [ahead EXCEPT ![c] = ComputeBatch - 1]
    /\ expected' = expected + 1
    /\ UNCHANGED <<budgetVars, poolVars, inputVars, outputVars, next,
                   remainingReaders, failed, workersAborted, written, resume,
                   batch, wix, cursor, offset>>

\* try_pop_ordered; when it fails the first chart of a batch is preceded by
\* flush_inline, so that this thread holds no credit while it blocks.
OrderedTry(c) ==
    /\ \/ Goes(c, "try", "process") /\ TakeOrdered(cur[c])
       \/ /\ cur[c] \notin queue
          /\ FirstOfBatch(c) /\ IoWorkers = 0
          /\ Moves(c, "try", "flush")
          /\ resume' = [resume EXCEPT ![c] = "pop"]
          /\ UNCHANGED <<inputVars, cur, ahead, batch, wix, cursor, offset>>
       \/ /\ cur[c] \notin queue
          /\ ~FirstOfBatch(c) \/ IoWorkers > 0
          /\ Goes(c, "try", "pop")
          /\ UNCHANGED inputVars
    /\ UNCHANGED <<budgetVars, poolVars, outputVars, sharedVars>>

\* FALSE leaves the inner loop of a batch, or the outer loop.
OrderedPop(c) ==
    /\ \/ Goes(c, "pop", "process") /\ PoppedOrdered(c, cur[c])
       \/ /\ FirstOfBatch(c)
          /\ Leaving(c, "pop")
          /\ PopRefused(c, cur[c])
          /\ UNCHANGED <<cur, ahead, batch, wix, cursor, offset>>
       \/ /\ ~FirstOfBatch(c)
          /\ Goes(c, "pop", "loop")
          /\ PopRefused(c, cur[c])
       \/ Goes(c, "pop", "pop") /\ PopAwaited(c, cur[c])
    /\ UNCHANGED <<budgetVars, poolVars, outputVars, sharedVars>>

OrderedNext(c) ==
    /\ InputReaders > 0
    /\ \/ /\ ahead[c] > 0
          /\ Moves(c, "next", "try")
          /\ cur' = [cur EXCEPT ![c] = expected]
          /\ ahead' = [ahead EXCEPT ![c] = @ - 1]
          /\ expected' = expected + 1
       \/ /\ ahead[c] = 0
          /\ Moves(c, "next", "loop")
          /\ UNCHANGED <<cur, ahead, expected>>
    /\ UNCHANGED <<budgetVars, poolVars, inputVars, outputVars, next,
                   remainingReaders, failed, workersAborted, written, resume,
                   batch, wix, cursor, offset>>

(***************************************************************************)
(* process_item and submit.                                                *)
(***************************************************************************)
\* WorkerProcess::process refuses a worker that was aborted before.
Process(c) ==
    /\ Goes(c, "process", IF WorkerAborted(c) THEN "refused" ELSE "kernel")
    /\ AcquireBuffer
    /\ UNCHANGED <<budgetVars, inputVars, outputVars, sharedVars>>

\* A faulty KernelReturns: the result keeps no credit.
KernelReleasesAll(c) ==
    /\ Goes(c, "kernel", "submit")
    /\ ReleaseCredit(cur[c], lease[cur[c]])
    /\ UNCHANGED <<poolVars, inputVars, outputVars, sharedVars>>

\* The result keeps the credit of the encoded bytes.
KernelReturns(c) ==
    /\ Goes(c, "kernel", "submit")
    /\ ReleaseCredit(cur[c], Bytes[cur[c]])
    /\ UNCHANGED <<poolVars, inputVars, outputVars, sharedVars>>

KernelThrows(c) ==
    /\ \/ Goes(c, "refused", "fail")
       \/ /\ "kernel" \in Faults \/ WorkerAborted(c)
          /\ Goes(c, "kernel", "fail")
    /\ ReleaseBuffer
    /\ ReleaseCredit(cur[c], lease[cur[c]])
    /\ UNCHANGED <<inputVars, outputVars, sharedVars>>

SubmitQueued(c) ==
    /\ IoWorkers > 0
    /\ \/ /\ Goes(c, "submit", IF Policy = "Strict" THEN "next" ELSE "count")
          /\ PushOutput(cur[c])
          /\ UNCHANGED <<budgetVars, poolVars>>
       \/ /\ Goes(c, "submit", "fail")
          /\ OutputRefused(cur[c])
          /\ ReleaseBuffer
          /\ ReleaseCredit(cur[c], lease[cur[c]])
    /\ UNCHANGED <<inputVars, sharedVars>>

SubmitCounted(c) ==
    /\ Goes(c, "count", "next")
    /\ CountPushed
    /\ UNCHANGED <<budgetVars, poolVars, inputVars, sharedVars>>

SubmitInline(c) ==
    /\ IoWorkers = 0
    /\ batch' = [batch EXCEPT ![c] = Append(@, cur[c])]
    /\ \/ /\ Len(batch[c]) + 1 >= WriteBatch
          /\ Moves(c, "submit", "flush")
          /\ resume' = [resume EXCEPT ![c] = "next"]
       \/ /\ Len(batch[c]) + 1 < WriteBatch
          /\ Moves(c, "submit", "next")
          /\ UNCHANGED resume
    /\ UNCHANGED <<budgetVars, poolVars, inputVars, outputVars, sharedVars,
                   cur, ahead, wix, cursor, offset>>

(***************************************************************************)
(* The loop over a batch: flush_inline, and the body of an io thread. The  *)
(* batch of an io thread dies with its try block, before fail is called;   *)
(* inline_batch outlives it.                                               *)
(***************************************************************************)
WriteItem(t) ==
    LET p == batch[t][wix[t] + 1]
    IN  /\ pc[t] = "flush" /\ wix[t] < Len(batch[t])
        /\ \/ /\ Moves(t, "flush", "flush")
              /\ written' = [written EXCEPT ![p] = @ + 1]
              /\ wix' = [wix EXCEPT ![t] = @ + 1]
              /\ UNCHANGED resume
           \/ /\ "write" \in Faults
              /\ \/ t \in Computes /\ Moves(t, "flush", "fail")
                    /\ UNCHANGED resume
                 \/ t \in Writers /\ Moves(t, "flush", "clear")
                    /\ resume' = [resume EXCEPT ![t] = "fail"]
              /\ UNCHANGED <<written, wix>>
        /\ UNCHANGED <<budgetVars, poolVars, inputVars, outputVars, next,
                       expected, remainingReaders, failed, workersAborted,
                       cur, ahead, batch, cursor, offset>>

AllWritten(t) ==
    /\ wix[t] = Len(batch[t])
    /\ Goes(t, "flush", "clear")
    /\ UNCHANGED <<budgetVars, poolVars, inputVars, outputVars, sharedVars>>

ClearItem(t) ==
    /\ batch[t] # <<>>
    /\ Moves(t, "clear", "clear")
    /\ batch' = [batch EXCEPT ![t] = Tail(@)]
    /\ ReleaseBuffer
    /\ ReleaseCredit(Head(batch[t]), lease[Head(batch[t])])
    /\ UNCHANGED <<inputVars, outputVars, sharedVars, resume, cur, ahead, wix,
                   cursor, offset>>

Cleared(t) ==
    /\ batch[t] = <<>>
    /\ Moves(t, "clear", resume[t])
    /\ wix' = [wix EXCEPT ![t] = 0]
    /\ UNCHANGED <<budgetVars, poolVars, inputVars, outputVars, sharedVars,
                   resume, cur, ahead, batch, cursor, offset>>

Flush(t) == WriteItem(t) \/ AllWritten(t) \/ ClearItem(t) \/ Cleared(t)

Compute(c) ==
    \/ ComputeLoop(c)
    \/ DirectClaim(c)
    \/ DirectTryAcquire(c)
    \/ DirectAcquire(c)
    \/ DirectRead(c)
    \/ DirectNext(c)
    \/ OrderedClaim(c)
    \/ OrderedTry(c)
    \/ OrderedPop(c)
    \/ OrderedNext(c)
    \/ Process(c)
    \/ KernelReturns(c)
    \/ KernelThrows(c)
    \/ SubmitQueued(c)
    \/ SubmitCounted(c)
    \/ SubmitInline(c)

(***************************************************************************)
(* io threads: pop_batch, Strict and not, then Flush.                      *)
(***************************************************************************)
Awake(w) == w \notin outputWaiters /\ w \notin dozing

TakesBatch(w, i, from, to) ==
    /\ Moves(w, from, to)
    /\ TakeBatch(i, WriteBatch)
    /\ batch' = [batch EXCEPT ![w] = Taken(i, WriteBatch)]
    /\ resume' = [resume EXCEPT ![w] = "pop"]
    /\ UNCHANGED <<cur, ahead, wix>>

StrictPop(w) ==
    /\ Policy = "Strict"
    /\ Awake(w)
    /\ PartitionFree(Home(w))
    /\ \/ /\ TakesBatch(w, Home(w), "pop", "flush")
          /\ cursor' = [cursor EXCEPT ![w] = NextPartition(Home(w))]
          /\ UNCHANGED offset
       \/ /\ parts[Home(w)] = <<>>
          /\ outputStopped \/ outputFinished
          /\ Goes(w, "pop", "done")
          /\ UNCHANGED outputVars
       \/ /\ parts[Home(w)] = <<>>
          /\ Goes(w, "pop", "pop")
          /\ Doze(w)
    /\ UNCHANGED <<budgetVars, poolVars, inputVars, sharedVars>>

LocalPop(w) ==
    /\ Policy # "Strict"
    /\ \/ /\ Policy = "PreferLocal"
          /\ TakesBatch(w, Home(w), "pop", "account")
          /\ UNCHANGED <<cursor, offset>>
       \/ /\ Policy = "Shared" \/ parts[Home(w)] = <<>>
          /\ Moves(w, "pop", "scan")
          /\ UNCHANGED <<outputVars, resume, cur, ahead, batch, wix, cursor, offset>>
    /\ UNCHANGED <<budgetVars, poolVars, inputVars, sharedVars>>

Scan(w) ==
    LET candidate == (cursor[w] + offset[w]) % PartitionCount
        skipped   == Policy = "PreferLocal" /\ candidate = Home(w)
    IN  /\ \/ /\ ~skipped
              /\ TakesBatch(w, candidate, "scan", "account")
              /\ cursor' = [cursor EXCEPT ![w] = NextPartition(candidate)]
              /\ offset' = [offset EXCEPT ![w] = 0]
           \/ /\ skipped \/ parts[candidate] = <<>>
              /\ Moves(w, "scan", IF offset[w] + 1 = PartitionCount
                                  THEN "meta" ELSE "scan")
              /\ offset' = [offset EXCEPT ![w] =
                     IF @ + 1 = PartitionCount THEN 0 ELSE @ + 1]
              /\ UNCHANGED <<outputVars, resume, cur, ahead, batch, wix, cursor>>
        /\ UNCHANGED <<budgetVars, poolVars, inputVars, sharedVars>>

MetaWait(w) ==
    /\ Awake(w)
    /\ MetaFree
    /\ \/ queued # 0 /\ Goes(w, "meta", "pop") /\ UNCHANGED outputVars
       \/ /\ queued = 0
          /\ outputStopped \/ outputFinished
          /\ Goes(w, "meta", "done")
          /\ UNCHANGED outputVars
       \/ queued = 0 /\ Goes(w, "meta", "meta") /\ Doze(w)
    /\ UNCHANGED <<budgetVars, poolVars, inputVars, sharedVars>>

Account(w) ==
    /\ Goes(w, "account", "flush")
    /\ AccountPopped(Len(batch[w]))
    /\ UNCHANGED <<budgetVars, poolVars, inputVars, sharedVars>>

Sleep(w) ==
    /\ FallAsleep(w)
    /\ UNCHANGED <<budgetVars, poolVars, inputVars, sharedVars, threadVars>>

Writer(w) ==
    StrictPop(w) \/ LocalPop(w) \/ Scan(w) \/ MetaWait(w) \/ Account(w) \/ Sleep(w)

(***************************************************************************)
(* The main thread: join, shut down, join, and return or rethrow.          *)
(***************************************************************************)
Joined(S) == \A t \in S : pc[t] = "done"

JoinComputes ==
    /\ Joined(Computes)
    /\ Goes(Main, "join_compute", "finish_output")
    /\ UNCHANGED <<budgetVars, poolVars, inputVars, outputVars, sharedVars>>

\* The output queue is finished, the input queue and the budget are stopped.
ShutDown ==
    /\ \/ /\ \/ Goes(Main, "finish_output", "notify_output") /\ MarkFinished
             \/ Goes(Main, "notify_output", "stop_input") /\ NotifyWriters
          /\ UNCHANGED <<budgetVars, inputVars>>
       \/ /\ Goes(Main, "stop_input", "stop_credit")
          /\ StopInput
          /\ UNCHANGED <<budgetVars, outputVars>>
       \/ /\ Goes(Main, "stop_credit", "join_readers")
          /\ StopCredit
          /\ UNCHANGED <<inputVars, outputVars>>
    /\ UNCHANGED <<poolVars, sharedVars>>

\* A faulty JoinRest: the io threads are not joined.
JoinReaders ==
    /\ Joined(Readers)
    /\ Goes(Main, "join_readers", IF failed THEN "threw" ELSE "returned")
    /\ UNCHANGED <<budgetVars, poolVars, inputVars, outputVars, sharedVars>>

JoinRest ==
    /\ Joined(Readers)
    /\ Joined(Writers)
    /\ Goes(Main, "join_readers", IF failed THEN "threw" ELSE "returned")
    /\ UNCHANGED <<budgetVars, poolVars, inputVars, outputVars, sharedVars>>

MainStep == JoinComputes \/ ShutDown \/ JoinRest

Terminated == creditBroken \/ poolBroken \/ inputBroken \/ outputBroken

(***************************************************************************)
(* condition_variable::wait may return without a notification.             *)
(***************************************************************************)
SpuriousWakeup(t) ==
    /\ Spurious
    /\ ~Terminated
    /\ \/ /\ t \in creditWaiters
          /\ creditWaiters' = creditWaiters \ {t}
          /\ UNCHANGED <<spaceWaiters, dataWaiters, outputWaiters>>
       \/ /\ t \in spaceWaiters
          /\ spaceWaiters' = spaceWaiters \ {t}
          /\ UNCHANGED <<creditWaiters, dataWaiters, outputWaiters>>
       \/ /\ t \in dataWaiters
          /\ dataWaiters' = dataWaiters \ {t}
          /\ UNCHANGED <<creditWaiters, spaceWaiters, outputWaiters>>
       \/ /\ t \in outputWaiters
          /\ outputWaiters' = outputWaiters \ {t}
          /\ UNCHANGED <<creditWaiters, spaceWaiters, dataWaiters>>
    /\ UNCHANGED <<used, creditStopped, creditBroken, lease, poolVars, reserved,
                   queue, inputStopped, inputFinished, inputBroken, parts,
                   queued, outputStopped, outputFinished, dozing, outputBroken,
                   sharedVars, threadVars>>

Returned == pc[Main] \in {"returned", "threw"}

\* The process is gone: nothing moves any more.
Exited == (Terminated \/ Returned) /\ UNCHANGED vars

Step(t) ==
    /\ ~Terminated
    /\ \/ t \in Readers /\ (Reader(t) \/ Fail(t))
       \/ t \in Computes /\ (Compute(t) \/ Flush(t) \/ Fail(t))
       \/ t \in Writers /\ (Writer(t) \/ Flush(t) \/ Fail(t))
       \/ t = Main /\ MainStep

Next ==
    \/ \E t \in Threads : Step(t)
    \/ \E t \in Threads : SpuriousWakeup(t)
    \/ Exited

\* The operating system runs every thread, and a kernel call ends: it answers
\* or WorkerProcess::wait_for_response gives up at its deadline.
Fairness == \A t \in Threads : WF_vars(Step(t))

Spec == Init /\ [][Next]_vars /\ Fairness

(***************************************************************************)
(* Properties.                                                             *)
(***************************************************************************)
Labels ==
    {"loop", "claim", "reserve", "acquire", "read", "push", "cancel", "leave", "done",
     "try_acquire", "try", "pop", "process", "kernel", "refused", "submit",
     "count", "next", "flush", "clear", "scan", "meta", "account",
     "fail", "fail_credit", "fail_input", "fail_output", "fail_notify",
     "fail_workers", "join_compute", "finish_output", "notify_output",
     "stop_input", "stop_credit", "join_readers", "returned", "threw"}

Resumptions == {"acquire", "pop", "next", "loop", "fail", "done"}

FlagsTypeOK ==
    /\ creditStopped \in BOOLEAN
    /\ creditBroken \in BOOLEAN
    /\ poolBroken \in BOOLEAN
    /\ inputStopped \in BOOLEAN
    /\ inputFinished \in BOOLEAN
    /\ inputBroken \in BOOLEAN
    /\ outputStopped \in BOOLEAN
    /\ outputFinished \in BOOLEAN
    /\ outputBroken \in BOOLEAN
    /\ failed \in BOOLEAN

CountersTypeOK ==
    /\ used \in Nat
    /\ lease \in [Positions -> Nat]
    /\ freeBuffers \in Nat
    /\ reserved \in Int
    /\ queued \in Nat
    /\ next \in Nat
    /\ expected \in Nat
    /\ remainingReaders \in Int
    /\ workersAborted \in Nat
    /\ written \in [Positions -> Nat]

PlacesTypeOK ==
    /\ queue \subseteq Positions
    /\ parts \in [Partitions -> Seq(Positions)]
    /\ batch \in [Computes \cup Writers -> Seq(Positions)]

WaitersTypeOK ==
    /\ creditWaiters \subseteq Readers \cup Computes
    /\ spaceWaiters \subseteq Readers
    /\ dataWaiters \subseteq Computes
    /\ dozing \subseteq Writers
    /\ outputWaiters \subseteq Writers

ThreadsTypeOK ==
    /\ pc \in [Threads -> Labels]
    /\ resume \in [Computes \cup Writers -> Resumptions]
    /\ cur \in [Readers \cup Computes -> Nat]
    /\ ahead \in [Computes -> Nat]
    /\ wix \in [Computes \cup Writers -> Nat]
    /\ cursor \in [Writers -> Partitions]
    /\ offset \in [Writers -> Nat]

\* Every variable holds a value of its type, over all steps of all threads.
TypeOK ==
    /\ FlagsTypeOK
    /\ CountersTypeOK
    /\ PlacesTypeOK
    /\ WaitersTypeOK
    /\ ThreadsTypeOK

\* A compute thread between the claim of a chart and the end of its loop.
Busy(c) ==
    \/ pc[c] \in {"try_acquire", "acquire", "read", "process", "kernel",
                  "refused", "submit", "count", "next"}
    \/ pc[c] \in {"flush", "clear"} /\ resume[c] \in {"acquire", "next"}

\* The chart a compute thread works on exists, and so do those it has yet to
\* take of the batch it claimed from next.
HandOK(c) ==
    /\ pc[c] \in {"process", "kernel", "refused", "submit"} =>
           cur[c] \in Positions
    /\ \/ pc[c] \in {"try_acquire", "acquire", "read"}
       \/ pc[c] \in {"flush", "clear"} /\ resume[c] = "acquire"
       => InputReaders = 0
    /\ \/ pc[c] \in {"try", "pop"}
       \/ pc[c] \in {"flush", "clear"} /\ resume[c] = "pop"
       => InputReaders > 0
    /\ InputReaders = 0 /\ Busy(c) => cur[c] + ahead[c] < Charts

HandsOK == \A c \in Computes : HandOK(c)

\* A reader between its claim and its push.
Claimers == {r \in Readers : pc[r] \in {"reserve", "acquire", "read", "push"}}

\* A position of the schedule is read once: it is in the hands of one reader,
\* or in the input queue, or neither, and it was claimed before.
ClaimedOnce ==
    /\ \A r \in Claimers :
          cur[r] \in Positions /\ cur[r] < next /\ cur[r] \notin queue
    /\ \A r1, r2 \in Claimers : cur[r1] = cur[r2] => r1 = r2
    /\ \A p \in queue : p < next

\* Readers that hold a slot of the input queue and have not filled it.
SlotHolders == {r \in Readers : pc[r] \in {"acquire", "read", "push", "cancel"}}

\* InputQueue::reserved_ counts the slots in use, filled or about to be, and
\* never passes the prefetch depth, whichever way a reader leaves its loop.
SlotsConserved ==
    /\ reserved = Cardinality(queue) + Cardinality(SlotHolders)
    /\ reserved <= QueueCapacity

ElementsOf(s) == {s[i] : i \in DOMAIN s}

\* Where a chart that holds credit is: read but not converted ...
Unconverted ==
    queue
    \cup {cur[r] : r \in {x \in Readers : pc[x] \in {"read", "push"}}}
    \cup {cur[c] : c \in {x \in Computes :
              pc[x] \in {"read", "process", "refused", "kernel"}}}

\* ... or converted and not yet released by the thread that writes it.
Converted ==
    {cur[c] : c \in {x \in Computes : pc[x] = "submit"}}
    \cup (UNION {ElementsOf(parts[i]) : i \in Partitions})
    \cup (UNION {ElementsOf(batch[t]) : t \in Computes \cup Writers})

CreditUnits == UNION {{p} \X (1 .. lease[p]) : p \in Positions}

\* CreditBudget::used_ is the sum of the leases, and a lease is exactly what
\* the stage its chart is in must hold: no credit leaks on any path out of a
\* loop, a fault included, and none is given back twice.
CreditConserved ==
    /\ used = Cardinality(CreditUnits)
    /\ \A p \in Positions :
           lease[p] = CASE p \in Unconverted -> Reservation(p)
                        [] p \in Converted   -> EncodedBytes
                        [] OTHER             -> 0

\* The pipeline passes its budget only for one chart alone in it.
BudgetBound ==
    used > PipelineBytes => \E p \in Positions : lease[p] = used

\* No member of the queues, the budget or the pool calls std::terminate.
NeverBroken == ~Terminated

\* run returns normally only when the files of every chart were written, once,
\* and nothing is left in any queue, lease or batch.
CompleteReturn ==
    pc[Main] = "returned" =>
        /\ \A p \in Positions : written[p] = 1
        /\ used = 0 /\ reserved = 0
        /\ \A i \in Partitions : parts[i] = <<>>

\* The abstract job: outcome and files as its user sees them.
Job == INSTANCE ConversionJob WITH
    Items <- Positions,
    times <- written,
    outcome <- IF Terminated \/ pc[Main] = "threw" THEN "error"
               ELSE IF pc[Main] = "returned" THEN "ok" ELSE "running"

\* The threads implement the job: a chart is written once, never after the
\* outcome is known, and success needs all of them.
ImplementsJob == Job!JobSpec

\* Every chart gets its files unless something failed: with one input reader
\* that has a slot of the queue and credit for each compute thread, one of the
\* charts it has pushed is always the one some awake thread goes on to take.
EveryChartWritten == <>(failed \/ \A p \in Positions : written[p] = 1)

\* The one notification of finish has been made while an io thread was between
\* its predicate, which found the queue open, and its wait.
SleepsThroughTheEnd ==
    dozing # {} /\ pc[Main] \in {"stop_input", "stop_credit", "join_readers"}

\* run comes to an end, with or without an error, and whichever of the threads
\* blocks in whichever queue when the error occurs. The one exception is an io
\* thread that sleeps through the end of the output queue, which run may join
\* for ever.
RunReturns == <>(Returned \/ SleepsThroughTheEnd)
=============================================================================
