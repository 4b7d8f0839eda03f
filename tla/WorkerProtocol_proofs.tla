------------------------ MODULE WorkerProtocol_proofs ------------------------
(***************************************************************************)
(* Proofs about one kernel worker, for any number of calls and any set of  *)
(* faults. The argument rests on SharedBlock::state: it says whose turn it *)
(* is (Turn), so that the response the host reads belongs to the request   *)
(* it stored (Matched), and what the calls returned is known at every step *)
(* of the owner (Delivered). Accounted follows the pid of the child from   *)
(* the constructor to the thread that reaps it.                            *)
(***************************************************************************)
EXTENDS WorkerProtocol, TLAPS

IInv ==
    /\ TypeOK
    /\ Turn
    /\ Matched
    /\ Delivered
    /\ Accounted
    /\ Unusable

\* The initial states satisfy the invariant: the block is idle, nothing was
\* asked, and the child runs.
LEMMA InitInvariant ==
    ASSUME Init
    PROVE  IInv
  <1> USE WorkerAssumption DEF Init, Charts, Nothing
  <1>1. TypeOK
    <2>1. /\ requestId \in Charts \cup {Nothing} /\ responseId \in Charts \cup {Nothing}
          /\ output \in Charts \cup {Nothing, Partial} /\ chart \in 1 .. Calls + 1
      BY DEF Init
    <2>2. answers \in [Charts -> Charts \cup {Nothing}] BY DEF Init
    <2>3. pc \in [Hosts -> HostLabels] /\ pid \in [Hosts -> BOOLEAN] BY DEF HostLabels
    <2>4. QED BY <2>1, <2>2, <2>3 DEF TypeOK, WorkerLabels
  <1>2. Turn /\ Matched /\ Accounted /\ Unusable
    BY DEF Turn, Matched, Accounted, Unusable, Working, Waiting, Hosts
  <1>3. Delivered
    BY DEF Delivered, Waiting, Hosts
  <1>4. QED
    BY <1>1, <1>2, <1>3 DEF IInv
-----------------------------------------------------------------------------
(***************************************************************************)
(* WorkerProcess::abort, by either thread.                                 *)
(***************************************************************************)
\* A thread in abort goes from one label of it to the next or leaves it, and
\* touches nothing but the flag, its copy of the pid and the signal.
LEMMA AbortEffect ==
    ASSUME IInv, NEW t \in Hosts, Abort(t)
    PROVE  /\ pc' = [pc EXCEPT ![t] = pc'[t]]
           /\ pc[t] \in {"abort", "load_pid", "kill"}
           /\ pc'[t] \in IF t = "owner"
                         THEN {"load_pid", "kill", "threw", "take_pid"}
                         ELSE {"load_pid", "kill", "done"}
           /\ aborted' /\ aborted' \in BOOLEAN
           /\ pid' \in [Hosts -> BOOLEAN]
           /\ \A x \in Hosts : x # t => pid'[x] = pid[x]
           /\ killed' \in BOOLEAN
           /\ UNCHANGED <<blockVars, chart, hasPid, expired, answers, child,
                          wpc, seen, blame>>
  <1> USE DEF IInv, TypeOK, Moves, childVars
  <1>1. AfterAbort(t) \in IF t = "owner" THEN {"threw", "take_pid"} ELSE {"done"}
    BY DEF AfterAbort, Hosts
  <1>2. CASE AbortFlag(t)
    <2>1. aborted' /\ aborted' \in BOOLEAN
      BY <1>2 DEF AbortFlag
    <2>2. QED
      BY <1>1, <1>2, <2>1 DEF AbortFlag
  <1>3. CASE AbortPid(t)
    BY <1>3 DEF AbortPid, Unusable
  <1>4. CASE AbortKill(t)
    BY <1>1, <1>4 DEF AbortKill, Unusable
  <1>5. QED
    BY <1>2, <1>3, <1>4 DEF Abort

\* An abort, by the owner or by another thread, keeps the invariant.
LEMMA AbortStep ==
    ASSUME IInv, NEW t \in Hosts, Abort(t)
    PROVE  IInv'
  <1> USE WorkerAssumption
      DEF IInv, TypeOK, Turn, Matched, Delivered, Accounted, Unusable, Working,
          Waiting, InCall, Charts, Nothing, Partial, Hosts, HostLabels,
          WorkerLabels, blockVars, hostVars, childVars
  <1>1. TypeOK'
    <2>1. pc' \in [Hosts -> HostLabels]
      BY AbortEffect
    <2>2. /\ aborted' \in BOOLEAN /\ hasPid' \in BOOLEAN
          /\ expired' \in BOOLEAN /\ killed' \in BOOLEAN
      BY AbortEffect
    <2>3. /\ pid' \in [Hosts -> BOOLEAN]
          /\ UNCHANGED <<state, requestId, responseId, responseStatus, output,
                         chart, answers, child, wpc, seen, blame>>
      BY AbortEffect
    <2>4. QED
      BY <2>1, <2>2, <2>3
  <1>2. Turn' /\ Matched' /\ Delivered'
    BY AbortEffect
  <1>3. Accounted'
    BY AbortEffect
  <1>4. Unusable'
    BY AbortEffect
  <1>5. QED
    BY <1>1, <1>2, <1>3, <1>4
-----------------------------------------------------------------------------
(***************************************************************************)
(* The other steps of the owner: process and the destructor.               *)
(***************************************************************************)
LEMMA OwnerStep ==
    ASSUME IInv, Owner
    PROVE  IInv'
  <1> USE WorkerAssumption
      DEF IInv, TypeOK, Turn, Matched, Delivered, Accounted, Unusable, Working,
          Waiting, InCall, Charts, Nothing, Partial, Hosts, HostLabels,
          WorkerLabels, blockVars, hostVars, childVars, Moves, WakeChild
  <1>1. CASE CheckAborted
    BY <1>1 DEF CheckAborted
  <1>2. CASE FillRequest
    BY <1>2 DEF FillRequest
  <1>3. CASE StoreRequest
    BY <1>3 DEF StoreRequest
  <1>4. CASE WakeRequest
    <2>1. expired' \in BOOLEAN
      BY <1>4 DEF WakeRequest
    <2>2. TypeOK'
      BY <1>4, <2>1 DEF WakeRequest
    <2>3. Turn' /\ Matched' /\ Delivered' /\ Accounted' /\ Unusable'
      BY <1>4 DEF WakeRequest
    <2>4. QED
      BY <2>2, <2>3
  <1>5. CASE LookAtState
    BY <1>5 DEF LookAtState
  <1>6. CASE LookAtChild
    <2>1. CASE ~hasPid
      BY <1>6, <2>1 DEF LookAtChild
    <2>2. CASE hasPid /\ child = "running"
      BY <1>6, <2>2 DEF LookAtChild
    <2>3. CASE hasPid /\ child # "running"
      BY <1>6, <2>3 DEF LookAtChild
    <2>4. QED
      BY <2>1, <2>2, <2>3
  <1>7. CASE ForgetPid
    <2>1. ~hasPid' /\ hasPid' \in BOOLEAN
      BY <1>7 DEF ForgetPid
    <2>2. QED
      BY <1>7, <2>1 DEF ForgetPid
  <1>8. CASE LookAtClock
    BY <1>8 DEF LookAtClock
  <1>9. CASE Validate
    BY <1>9 DEF Validate
  <1>10. CASE CopyOutput
    BY <1>10 DEF CopyOutput
  <1>11. CASE StoreIdle
    BY <1>11 DEF StoreIdle
  <1>12. CASE WakeIdle
    BY <1>12 DEF WakeIdle
  <1>13. CASE Destroy
    <2>1. TypeOK'
      BY <1>13 DEF Destroy
    <2>2. Turn' /\ Matched' /\ Delivered' /\ Accounted' /\ Unusable'
      BY <1>13 DEF Destroy
    <2>3. QED
      BY <2>1, <2>2
  <1>14. CASE TakePid
    <2>1. ~hasPid' /\ hasPid' \in BOOLEAN
      BY <1>14 DEF TakePid
    <2>2. QED
      BY <1>14, <2>1 DEF TakePid
  <1>15. CASE WaitChild
    BY <1>15 DEF WaitChild
  <1>16. QED
    BY AbortStep, <1>1, <1>2, <1>3, <1>4, <1>5, <1>6, <1>7, <1>8, <1>9, <1>10, <1>11, <1>12, <1>13, <1>14, <1>15 DEF Owner
-----------------------------------------------------------------------------
(***************************************************************************)
(* run_worker, the faults, and what time does.                             *)
(***************************************************************************)
LEMMA WorkerStep ==
    ASSUME IInv, Worker
    PROVE  IInv'
  <1> USE WorkerAssumption
      DEF IInv, TypeOK, Turn, Matched, Delivered, Accounted, Unusable, Working,
          Waiting, InCall, Charts, Nothing, Partial, Hosts, HostLabels,
          WorkerLabels, blockVars, hostVars, childVars, Works
  <1>1. CASE Start
    BY <1>1 DEF Start
  <1>2. CASE LoadState
    BY <1>2 DEF LoadState
  <1>3. CASE Sleep
    BY <1>3 DEF Sleep
  <1>4. CASE TakeRequest
    BY <1>4 DEF TakeRequest
  <1>5. CASE KernelEnds
    BY <1>5 DEF KernelEnds
  <1>6. CASE KernelThrows
    BY <1>6 DEF KernelThrows
  <1>7. CASE KernelHangs
    BY <1>7 DEF KernelHangs
  <1>8. CASE WriteAnswer
    BY <1>8 DEF WriteAnswer
  <1>9. CASE StoreResponse
    BY <1>9 DEF StoreResponse
  <1>10. QED
    BY <1>1, <1>2, <1>3, <1>4, <1>5, <1>6, <1>7, <1>8, <1>9 DEF Worker

\* So do the faults: a crash, a signal, time, an answer that comes late.
LEMMA FaultStep ==
    ASSUME IInv,
           OtherFails \/ Interrupted \/ DeadlinePasses \/ LateAnswer
               \/ DieOfKill \/ Crash
    PROVE  IInv'
  <1> USE WorkerAssumption
      DEF IInv, TypeOK, Turn, Matched, Delivered, Accounted, Unusable, Working,
          Waiting, InCall, Charts, Nothing, Partial, Hosts, HostLabels,
          WorkerLabels, blockVars, hostVars, childVars, Moves,
          Works, Dies, TimeIsUp
  <1>1. CASE OtherFails
    BY <1>1 DEF OtherFails
  <1>2. CASE Interrupted
    BY <1>2 DEF Interrupted
  <1>3. CASE DeadlinePasses
    BY <1>3 DEF DeadlinePasses
  <1>4. CASE LateAnswer
    BY <1>4 DEF LateAnswer
  <1>5. CASE DieOfKill
    BY <1>5 DEF DieOfKill
  <1>6. CASE Crash
    BY <1>6 DEF Crash
  <1>7. QED
    BY <1>1, <1>2, <1>3, <1>4, <1>5, <1>6

\* Every step keeps the invariant.
LEMMA NextInvariant ==
    ASSUME IInv, [Next]_vars
    PROVE  IInv'
  <1>1. CASE Next
    <2>1. "other" \in Hosts
      BY DEF Hosts
    <2>2. CASE Finished
      BY <2>2 DEF Finished, vars, blockVars, hostVars, childVars, IInv, TypeOK,
                  Turn, Matched, Delivered, Accounted, Unusable, InCall
    <2>3. QED
      BY <1>1, <2>1, <2>2, AbortStep, OwnerStep, WorkerStep, FaultStep DEF Next
  <1>2. CASE UNCHANGED vars
    BY <1>2 DEF vars, blockVars, hostVars, childVars, IInv, TypeOK, Turn,
                Matched, Delivered, Accounted, Unusable, InCall
  <1>3. QED
    BY <1>1, <1>2
-----------------------------------------------------------------------------
(***************************************************************************)
(* Theorems.                                                               *)
(***************************************************************************)
\* The inductive invariant the other theorems follow from: whose turn it is,
\* which request a response answers, what was delivered, where the pid is.
THEOREM Invariant == Spec => []IInv
  <1>1. Init => IInv
    BY InitInvariant
  <1>2. IInv /\ [Next]_vars => IInv'
    BY NextInvariant
  <1>3. QED
    BY <1>1, <1>2, PTL DEF Spec

\* Type correctness; in particular process never returns an output that the
\* kernel was still writing.
THEOREM TypeCorrect == Spec => []TypeOK
  <1>1. IInv => TypeOK
    BY DEF IInv
  <1>2. QED
    BY <1>1, Invariant, PTL

\* Host and worker are never both at work on the text and the output of the
\* block, whatever times out, dies or is aborted.
THEOREM BlockHasOneSide == Spec => []OneSide
  <1>1. IInv => OneSide
    BY DEF IInv, OneSide, Turn
  <1>2. QED
    BY <1>1, Invariant, PTL

\* The destructor returns only when the child was reaped, by it or by
\* wait_for_response before.
THEOREM ChildIsReaped == Spec => []ChildReaped
  <1>1. IInv => ChildReaped
    BY DEF IInv, ChildReaped, Accounted
  <1>2. QED
    BY <1>1, Invariant, PTL
-----------------------------------------------------------------------------
(***************************************************************************)
(* The protocol implements KernelService. Four steps are visible there:    *)
(* CheckAborted begins a call, CopyOutput answers it, AbortFlag makes the  *)
(* worker unusable, Destroy ends a call that threw.                        *)
(***************************************************************************)
current ==
    IF InCall /\ pc["owner"] \notin {"idle", "refused", "release", "wake_idle"}
    THEN chart ELSE 0

\* A step that changes none of the three stutters.
LEMMA Stutter ==
    ASSUME UNCHANGED <<current, answers, aborted>>
    PROVE  [Service!ServiceNext]_(Service!serviceVars)
  BY DEF current, Service!serviceVars, InCall

\* The protocol starts as the service does.
LEMMA InitRefines ==
    ASSUME Init
    PROVE  Service!ServiceInit
  BY DEF Init, Service!ServiceInit, Charts, Nothing, InCall, Hosts

\* The owner begins a call only on a worker that nobody aborted, after all
\* the calls before were answered.
LEMMA CheckRefines ==
    ASSUME IInv, CheckAborted
    PROVE  [Service!ServiceNext]_(Service!serviceVars)
  <1> USE DEF IInv, TypeOK, Moves, CheckAborted, InCall, Hosts
  <1>1. CASE aborted
    <2>1. current = 0 /\ current' = 0
      BY <1>1 DEF current
    <2>2. QED
      BY <2>1, Stutter
  <1>2. CASE ~aborted
    <2>1. current = 0 /\ current' = chart /\ ~aborted'
      BY <1>2 DEF current
    <2>2. chart \in 1 .. Calls /\ answers[chart] = Nothing
      BY WorkerAssumption DEF Delivered, Charts
    <2>3. \A j \in 1 .. chart - 1 : answers[j] = j
      BY WorkerAssumption DEF Delivered, Charts
    <2>4. Service!Invoke(chart)
      BY <1>2, <2>1, <2>2, <2>3 DEF Service!Invoke, current
    <2>5. QED
      BY <2>2, <2>4 DEF Service!ServiceNext
  <1>3. QED
    BY <1>1, <1>2

\* The answer of a call is the encoding of its own chart.
LEMMA CopyRefines ==
    ASSUME IInv, CopyOutput
    PROVE  [Service!ServiceNext]_(Service!serviceVars)
  <1> USE DEF IInv, TypeOK, Moves, CopyOutput, InCall, Hosts
  <1>1. output = chart /\ chart \in 1 .. Calls
    BY WorkerAssumption DEF Turn, Matched, Delivered
  <1>2. current = chart /\ current' = 0
    BY <1>1 DEF current
  <1>3. Service!Answer
    BY <1>1, <1>2 DEF Service!Answer, current
  <1>4. QED
    BY <1>3 DEF Service!ServiceNext

\* The exchange of the flag ends the use of the worker, once.
LEMMA AbortRefines ==
    ASSUME IInv, NEW t \in Hosts, Abort(t)
    PROVE  [Service!ServiceNext]_(Service!serviceVars)
  <1> USE DEF IInv, TypeOK, Hosts
  <1>1. current' = current
    BY AbortEffect DEF current, InCall
  <1>2. UNCHANGED answers
    BY AbortEffect
  <1>3. CASE aborted
    <2>1. aborted' = aborted
      BY <1>3, AbortEffect
    <2>2. QED
      BY <1>1, <1>2, <2>1, Stutter
  <1>4. CASE ~aborted
    <2>1. aborted'
      BY AbortEffect
    <2>2. Service!Spoil
      BY <1>1, <1>2, <1>4, <2>1 DEF Service!Spoil, current
    <2>3. QED
      BY <2>2 DEF Service!ServiceNext
  <1>5. QED
    BY <1>3, <1>4

\* A call that threw is over when the WorkerProcess is destroyed, and the
\* worker was aborted by then.
LEMMA DestroyRefines ==
    ASSUME IInv, Destroy
    PROVE  [Service!ServiceNext]_(Service!serviceVars)
  <1> USE DEF IInv, TypeOK, Destroy, InCall, Hosts
  <1>1. current' = 0 /\ UNCHANGED <<answers, aborted>>
    BY WorkerAssumption DEF current
  <1>2. CASE current = 0
    BY <1>1, <1>2, Stutter
  <1>3. CASE current # 0
    <2>1. aborted
      BY <1>3 DEF current, Unusable
    <2>2. Service!Throw
      BY <1>1, <1>3, <2>1 DEF Service!Throw, current
    <2>3. QED
      BY <2>2 DEF Service!ServiceNext
  <1>4. QED
    BY <1>2, <1>3

\* No other step of the owner shows.
LEMMA QuietOwner ==
    ASSUME IInv, Owner, ~Abort("owner"), ~CheckAborted, ~CopyOutput, ~Destroy
    PROVE  UNCHANGED <<current, answers, aborted>>
  <1> USE DEF IInv, TypeOK, Moves, InCall, Hosts, current
  <1>1. CASE FillRequest
    BY <1>1 DEF FillRequest
  <1>2. CASE StoreRequest
    BY <1>2 DEF StoreRequest
  <1>3. CASE WakeRequest
    BY <1>3 DEF WakeRequest
  <1>4. CASE LookAtState
    BY <1>4 DEF LookAtState
  <1>5. CASE LookAtChild
    BY <1>5 DEF LookAtChild
  <1>6. CASE ForgetPid
    BY <1>6 DEF ForgetPid
  <1>7. CASE LookAtClock
    BY <1>7 DEF LookAtClock
  <1>8. CASE Validate
    BY <1>8 DEF Validate
  <1>9. CASE StoreIdle
    BY <1>9 DEF StoreIdle
  <1>10. CASE WakeIdle
    BY <1>10 DEF WakeIdle
  <1>11. CASE TakePid
    BY <1>11 DEF TakePid
  <1>12. CASE WaitChild
    BY <1>12 DEF WaitChild
  <1>13. QED
    BY <1>1, <1>2, <1>3, <1>4, <1>5, <1>6, <1>7, <1>8, <1>9, <1>10, <1>11, <1>12 DEF Owner

\* Nor does a step of the worker or a fault.
LEMMA QuietRest ==
    ASSUME IInv,
           Worker \/ OtherFails \/ Interrupted \/ DeadlinePasses \/ LateAnswer
               \/ DieOfKill \/ Crash \/ Finished
    PROVE  UNCHANGED <<current, answers, aborted>>
  <1> USE DEF IInv, TypeOK, Moves, InCall, Hosts, Works, hostVars
  <1>1. UNCHANGED <<pc["owner"], chart, answers, aborted>>
    <2>1. CASE Worker
      BY <2>1 DEF Worker, Start, LoadState, Sleep, TakeRequest, KernelEnds,
                  KernelThrows, KernelHangs, WriteAnswer, StoreResponse
    <2>2. CASE OtherFails
      BY <2>2 DEF OtherFails
    <2>3. CASE Interrupted \/ DieOfKill \/ Crash \/ Finished
      BY <2>3 DEF Interrupted, DieOfKill, Crash, Dies, Finished, vars
    <2>4. CASE DeadlinePasses \/ LateAnswer
      BY <2>4 DEF DeadlinePasses, LateAnswer, TimeIsUp
    <2>5. QED
      BY <2>1, <2>2, <2>3, <2>4
  <1>2. QED
    BY <1>1 DEF current

\* Every step is a step of the service or one it stutters on.
LEMMA StepRefines ==
    ASSUME IInv, [Next]_vars
    PROVE  [Service!ServiceNext]_(Service!serviceVars)
  <1>1. CASE Owner
    <2>1. "owner" \in Hosts
      BY DEF Hosts
    <2>2. QED
      BY <1>1, <2>1, CheckRefines, CopyRefines, AbortRefines, DestroyRefines,
         QuietOwner, Stutter
  <1>2. CASE Abort("other")
    BY <1>2, AbortRefines DEF Hosts
  <1>3. CASE Worker \/ OtherFails \/ Interrupted \/ DeadlinePasses
                \/ LateAnswer \/ DieOfKill \/ Crash \/ Finished
    BY <1>3, QuietRest, Stutter
  <1>4. CASE UNCHANGED vars
    <2>1. UNCHANGED <<current, answers, aborted>>
      BY <1>4 DEF vars, hostVars, current, InCall
    <2>2. QED
      BY <2>1, Stutter
  <1>5. QED
    BY <1>1, <1>2, <1>3, <1>4 DEF Next

\* process implements what the pipeline assumes of it, for any number of
\* calls and any faults: a call answers with the encoding of its own chart or
\* throws, and none begins on a worker that was aborted.
THEOREM ServiceIsImplemented == Spec => ImplementsKernel
  <1>1. Init => Service!ServiceInit
    BY InitRefines
  <1>2. IInv /\ [Next]_vars => [Service!ServiceNext]_(Service!serviceVars)
    BY StepRefines
  <1>3. QED
    BY <1>1, <1>2, Invariant, PTL DEF Spec, ImplementsKernel, Service!ServiceSpec
=============================================================================
