--------------------------- MODULE WorkerProtocol ---------------------------
(***************************************************************************)
(* One kernel worker of maimoe on Linux: WorkerProcess of 07-maimoe/src/   *)
(* host/WorkerProcess.cpp on one side of a block of shared memory, and     *)
(* run_worker of 07-maimoe/src/worker/WorkerMain.cpp on the other.         *)
(*                                                                         *)
(* Three parties move. "owner" is the compute thread: it calls process for *)
(* one chart after another, and when it is done, or a call threw, the main *)
(* thread destroys the WorkerProcess. "other" is the thread whose fail()   *)
(* aborts every worker, at most once and before the destructor runs. The   *)
(* child is the worker process.                                            *)
(*                                                                         *)
(* A step is one access to an atomic, one system call, or the copies       *)
(* between two of them. The participant's kernel (process_chart) is        *)
(* external: it fills the output, throws, crashes or hangs.                *)
(***************************************************************************)
EXTENDS Naturals

CONSTANTS
    Calls,          \* how many charts the owner has, named by their number
    Faults          \* what may happen: the child crashes, the kernel hangs or
                    \* throws, an answer is late, the other thread aborts

ASSUME WorkerAssumption ==
    /\ Calls \in Nat
    /\ Faults \subseteq {"crash", "hang", "throw", "late", "abort"}

Charts  == 1 .. Calls
Nothing == 0                \* no answer, and chart_id before a request
Partial == Calls + 1        \* an output the kernel is still writing

VARIABLES
    \* SharedBlock
    state,          \* "Idle", "Request" or "Response"
    requestId,      \* request_chart_id, and the text
    responseId,     \* response_chart_id
    responseStatus, \* response_status
    output,         \* the chart whose encoding output holds
    \* the host process
    pc,             \* of the owner and of the other thread
    chart,          \* the chart of the call in progress, or of the next
    aborted,        \* State::aborted
    hasPid,         \* State::process is the pid of the child, not -1
    pid,            \* a thread's copy of it: hasPid when it was loaded
    expired,        \* the deadline of the call has passed
    answers,        \* what each call returned
    \* the child
    child,          \* "running", "dead" or "reaped"
    killed,         \* SIGKILL is pending
    wpc,            \* where run_worker is
    seen,           \* current, in run_worker
    blame           \* the faults that happened

blockVars == <<state, requestId, responseId, responseStatus, output>>
hostVars  == <<pc, chart, aborted, hasPid, pid, expired, answers>>
childVars == <<child, killed, wpc, seen>>
vars      == <<blockVars, hostVars, childVars, blame>>

Hosts == {"owner", "other"}

Init ==
    /\ state = "Idle"
    /\ requestId = Nothing
    /\ responseId = Nothing
    /\ responseStatus = 0
    /\ output = Nothing
    /\ pc = [t \in Hosts |-> "idle"]
    /\ chart = 1
    /\ aborted = FALSE
    /\ hasPid = TRUE
    /\ pid = [t \in Hosts |-> FALSE]
    /\ expired = FALSE
    /\ answers = [i \in Charts |-> Nothing]
    /\ child = "running"
    /\ killed = FALSE
    /\ wpc = "start"
    /\ seen = "Idle"
    /\ blame = {}

Moves(t, from, to) == pc[t] = from /\ pc' = [pc EXCEPT ![t] = to]

\* FUTEX_WAKE: the child leaves its FUTEX_WAIT.
WakeChild ==
    /\ wpc' = IF wpc = "asleep" THEN "load" ELSE wpc
    /\ UNCHANGED <<child, killed, seen>>

(***************************************************************************)
(* WorkerProcess::abort: the exchange, the load of the pid, the kill. The  *)
(* owner runs it in a call and again in the destructor.                    *)
(***************************************************************************)
InCall == chart <= Calls

AfterAbort(t) ==
    IF t = "other" THEN "done" ELSE IF InCall THEN "threw" ELSE "take_pid"

AbortFlag(t) ==
    /\ Moves(t, "abort", IF aborted THEN AfterAbort(t) ELSE "load_pid")
    /\ aborted' = TRUE
    /\ UNCHANGED <<blockVars, chart, hasPid, pid, expired, answers, childVars,
                   blame>>

AbortPid(t) ==
    /\ Moves(t, "load_pid", "kill")
    /\ pid' = [pid EXCEPT ![t] = hasPid]
    /\ UNCHANGED <<blockVars, chart, aborted, hasPid, expired, answers,
                   childVars, blame>>

AbortKill(t) ==
    /\ Moves(t, "kill", AfterAbort(t))
    /\ killed' = (killed \/ (pid[t] /\ child = "running"))
    /\ UNCHANGED <<blockVars, chart, aborted, hasPid, pid, expired, answers,
                   child, wpc, seen, blame>>

Abort(t) == AbortFlag(t) \/ AbortPid(t) \/ AbortKill(t)

\* Another thread fails first and aborts this worker.
OtherFails ==
    /\ "abort" \in Faults
    /\ Moves("other", "idle", "abort")
    /\ InCall \/ pc["owner"] = "idle"
    /\ blame' = blame \cup {"abort"}
    /\ UNCHANGED <<blockVars, chart, aborted, hasPid, pid, expired, answers,
                   childVars>>

(***************************************************************************)
(* WorkerProcess::process: the request.                                    *)
(***************************************************************************)
\* A faulty CheckAborted: an aborted worker is used again.
CheckNothing ==
    /\ InCall
    /\ Moves("owner", "idle", "fill")
    /\ UNCHANGED <<blockVars, chart, aborted, hasPid, pid, expired, answers,
                   childVars, blame>>

CheckAborted ==
    /\ InCall
    /\ Moves("owner", "idle", IF aborted THEN "refused" ELSE "fill")
    /\ UNCHANGED <<blockVars, chart, aborted, hasPid, pid, expired, answers,
                   childVars, blame>>

FillRequest ==
    /\ Moves("owner", "fill", "request")
    /\ requestId' = chart
    /\ UNCHANGED <<state, responseId, responseStatus, output, chart, aborted,
                   hasPid, pid, expired, answers, childVars, blame>>

StoreRequest ==
    /\ Moves("owner", "request", "wake_request")
    /\ state' = "Request"
    /\ UNCHANGED <<requestId, responseId, responseStatus, output, chart,
                   aborted, hasPid, pid, expired, answers, childVars, blame>>

\* The deadline is taken after the wake.
WakeRequest ==
    /\ Moves("owner", "wake_request", "wait")
    /\ WakeChild
    /\ expired' = FALSE
    /\ UNCHANGED <<blockVars, chart, aborted, hasPid, pid, answers, blame>>

(***************************************************************************)
(* wait_for_response: look at the state, at the child, at the clock, and   *)
(* sleep for at most 10 ms; the sleep takes time and nothing else.         *)
(***************************************************************************)
LookAtState ==
    /\ Moves("owner", "wait", IF state = "Request" THEN "look" ELSE "validate")
    /\ UNCHANGED <<blockVars, chart, aborted, hasPid, pid, expired, answers,
                   childVars, blame>>

\* waitpid(WNOHANG) reaps a dead child
LookAtChild ==
    /\ Moves("owner", "look", IF ~hasPid THEN "abort"
                              ELSE IF child = "running" THEN "clock"
                              ELSE "forget")
    /\ child' = IF hasPid /\ child = "dead" THEN "reaped" ELSE child
    /\ UNCHANGED <<blockVars, chart, aborted, hasPid, pid, expired, answers,
                   killed, wpc, seen, blame>>

ForgetPid ==
    /\ Moves("owner", "forget", "abort")
    /\ hasPid' = FALSE
    /\ UNCHANGED <<blockVars, chart, aborted, pid, expired, answers, childVars,
                   blame>>

\* A faulty LookAtClock: a call that timed out is tried again.
RetryLate ==
    /\ Moves("owner", "clock", IF expired THEN "fill" ELSE "wait")
    /\ UNCHANGED <<blockVars, chart, aborted, hasPid, pid, expired, answers,
                   childVars, blame>>

LookAtClock ==
    /\ Moves("owner", "clock", IF expired THEN "abort" ELSE "wait")
    /\ UNCHANGED <<blockVars, chart, aborted, hasPid, pid, expired, answers,
                   childVars, blame>>

\* The child will not answer: its kernel hangs, or it sleeps on a request.
Stuck ==
    /\ child = "running"
    /\ wpc = "hung" \/ (wpc = "asleep" /\ state = "Request")

TimeIsUp ==
    /\ pc["owner"] \in {"wait", "look", "clock"}
    /\ ~expired
    /\ expired' = TRUE
    /\ UNCHANGED <<blockVars, pc, chart, aborted, hasPid, pid, answers,
                   childVars>>

\* A faulty DeadlinePasses: no deadline.
NoDeadline == FALSE /\ UNCHANGED vars

DeadlinePasses == Stuck /\ TimeIsUp /\ UNCHANGED blame

LateAnswer ==
    /\ "late" \in Faults
    /\ TimeIsUp
    /\ blame' = blame \cup {"late"}

(***************************************************************************)
(* WorkerProcess::process: the response.                                   *)
(***************************************************************************)
Validate ==
    /\ Moves("owner", "validate",
             IF responseId = chart /\ responseStatus = 0 THEN "copy" ELSE "abort")
    /\ UNCHANGED <<blockVars, chart, aborted, hasPid, pid, expired, answers,
                   childVars, blame>>

CopyOutput ==
    /\ Moves("owner", "copy", "release")
    /\ answers' = [answers EXCEPT ![chart] = output]
    /\ UNCHANGED <<blockVars, chart, aborted, hasPid, pid, expired, childVars,
                   blame>>

StoreIdle ==
    /\ Moves("owner", "release", "wake_idle")
    /\ state' = "Idle"
    /\ UNCHANGED <<requestId, responseId, responseStatus, output, chart,
                   aborted, hasPid, pid, expired, answers, childVars, blame>>

WakeIdle ==
    /\ Moves("owner", "wake_idle", "idle")
    /\ WakeChild
    /\ chart' = chart + 1
    /\ UNCHANGED <<blockVars, aborted, hasPid, pid, expired, answers, blame>>

(***************************************************************************)
(* ~WorkerProcess, when every thread of the host was joined.               *)
(***************************************************************************)
Destroy ==
    /\ pc["owner"] \in {"threw", "refused"} \/ (pc["owner"] = "idle" /\ ~InCall)
    /\ pc["other"] \in {"idle", "done"}
    /\ pc' = [pc EXCEPT !["owner"] = "abort"]
    /\ chart' = Calls + 1
    /\ UNCHANGED <<blockVars, aborted, hasPid, pid, expired, answers, childVars,
                   blame>>

TakePid ==
    /\ Moves("owner", "take_pid", "wait_child")
    /\ pid' = [pid EXCEPT !["owner"] = hasPid]
    /\ hasPid' = FALSE
    /\ UNCHANGED <<blockVars, chart, aborted, expired, answers, childVars, blame>>

\* A faulty WaitChild: waitpid does not block.
PollChild ==
    /\ Moves("owner", "wait_child", "gone")
    /\ child' = IF pid["owner"] /\ child = "dead" THEN "reaped" ELSE child
    /\ UNCHANGED <<blockVars, chart, aborted, hasPid, pid, expired, answers,
                   killed, wpc, seen, blame>>

\* waitpid blocks until the child is dead; then munmap
WaitChild ==
    /\ Moves("owner", "wait_child", "gone")
    /\ pid["owner"] => child = "dead"
    /\ child' = IF pid["owner"] THEN "reaped" ELSE child
    /\ UNCHANGED <<blockVars, chart, aborted, hasPid, pid, expired, answers,
                   killed, wpc, seen, blame>>

Owner ==
    \/ Abort("owner")
    \/ CheckAborted
    \/ FillRequest
    \/ StoreRequest
    \/ WakeRequest
    \/ LookAtState
    \/ LookAtChild
    \/ ForgetPid
    \/ LookAtClock
    \/ Validate
    \/ CopyOutput
    \/ StoreIdle
    \/ WakeIdle
    \/ Destroy
    \/ TakePid
    \/ WaitChild

(***************************************************************************)
(* run_worker.                                                             *)
(***************************************************************************)
Works(from, to) ==
    /\ child = "running"
    /\ wpc = from
    /\ wpc' = to
    /\ UNCHANGED <<hostVars, child, killed>>

\* execve, mmap
Start ==
    /\ Works("start", "load")
    /\ UNCHANGED <<blockVars, seen, blame>>

LoadState ==
    /\ Works("load", IF state = "Request" THEN "take" ELSE "sleep")
    /\ seen' = state
    /\ UNCHANGED <<blockVars, blame>>

\* A faulty Sleep: the state is not compared again.
SleepAnyway ==
    /\ Works("sleep", "asleep")
    /\ UNCHANGED <<blockVars, seen, blame>>

\* FUTEX_WAIT sleeps only while the state is the one that was loaded.
Sleep ==
    /\ Works("sleep", IF state = seen THEN "asleep" ELSE "load")
    /\ UNCHANGED <<blockVars, seen, blame>>

\* FUTEX_WAIT may return for no reason.
Interrupted ==
    /\ Works("asleep", "load")
    /\ UNCHANGED <<blockVars, seen, blame>>

\* A faulty TakeRequest: the header of the answer is sent before the answer.
AnswerFirst ==
    /\ Works("take", "kernel")
    /\ output' = Partial
    /\ responseId' = requestId
    /\ responseStatus' = 0
    /\ state' = "Response"
    /\ UNCHANGED <<requestId, seen, blame>>

TakeRequest ==
    /\ Works("take", "kernel")
    /\ output' = Partial
    /\ UNCHANGED <<state, requestId, responseId, responseStatus, seen, blame>>

KernelEnds ==
    /\ Works("kernel", "answer")
    /\ output' = requestId
    /\ UNCHANGED <<state, requestId, responseId, responseStatus, seen, blame>>

KernelThrows ==
    /\ "throw" \in Faults
    /\ Works("kernel", "answer_error")
    /\ blame' = blame \cup {"throw"}
    /\ UNCHANGED <<blockVars, seen>>

KernelHangs ==
    /\ "hang" \in Faults
    /\ Works("kernel", "hung")
    /\ blame' = blame \cup {"hang"}
    /\ UNCHANGED <<blockVars, seen>>

WriteAnswer ==
    /\ \/ Works("answer", "respond") /\ responseStatus' = 0
       \/ Works("answer_error", "respond") /\ responseStatus' = 1
    /\ responseId' = requestId
    /\ UNCHANGED <<state, requestId, output, seen, blame>>

\* The wake only shortens the sleep of the owner.
StoreResponse ==
    /\ Works("respond", "load")
    /\ state' = "Response"
    /\ UNCHANGED <<requestId, responseId, responseStatus, output, seen, blame>>

Worker ==
    \/ Start
    \/ LoadState
    \/ Sleep
    \/ TakeRequest
    \/ KernelEnds
    \/ KernelThrows
    \/ KernelHangs
    \/ WriteAnswer
    \/ StoreResponse

Dies ==
    /\ child = "running"
    /\ child' = "dead"
    /\ UNCHANGED <<blockVars, hostVars, killed, wpc, seen>>

DieOfKill == killed /\ Dies /\ UNCHANGED blame

Crash ==
    /\ "crash" \in Faults
    /\ Dies
    /\ blame' = blame \cup {"crash"}

Finished == pc["owner"] = "gone" /\ UNCHANGED vars

Next ==
    \/ Owner
    \/ Abort("other")
    \/ OtherFails
    \/ Worker
    \/ Interrupted
    \/ DeadlinePasses
    \/ LateAnswer
    \/ DieOfKill
    \/ Crash
    \/ Finished

\* Threads and the child are scheduled, SIGKILL kills, and time passes.
Fairness ==
    /\ WF_vars(Owner)
    /\ WF_vars(Abort("other"))
    /\ WF_vars(Worker)
    /\ WF_vars(DieOfKill)
    /\ WF_vars(DeadlinePasses)

Spec == Init /\ [][Next]_vars /\ Fairness

(***************************************************************************)
(* Properties.                                                             *)
(***************************************************************************)
HostLabels ==
    {"idle", "fill", "request", "wake_request", "wait", "look", "forget",
     "clock", "validate", "copy", "release", "wake_idle", "abort", "load_pid",
     "kill", "threw", "refused", "take_pid", "wait_child", "gone", "done"}

WorkerLabels ==
    {"start", "load", "sleep", "asleep", "take", "kernel", "hung", "answer",
     "answer_error", "respond"}

\* Every variable holds a value of its type; no answer is one the kernel was
\* still writing.
TypeOK ==
    /\ state \in {"Idle", "Request", "Response"}
    /\ requestId \in Charts \cup {Nothing}
    /\ responseId \in Charts \cup {Nothing}
    /\ responseStatus \in {0, 1}
    /\ output \in Charts \cup {Nothing, Partial}
    /\ pc \in [Hosts -> HostLabels]
    /\ chart \in 1 .. Calls + 1
    /\ aborted \in BOOLEAN
    /\ hasPid \in BOOLEAN
    /\ pid \in [Hosts -> BOOLEAN]
    /\ expired \in BOOLEAN
    /\ answers \in [Charts -> Charts \cup {Nothing}]
    /\ child \in {"running", "dead", "reaped"}
    /\ killed \in BOOLEAN
    /\ wpc \in WorkerLabels
    /\ seen \in {"Idle", "Request", "Response"}
    /\ blame \subseteq Faults

\* run_worker between the load of a request and the store of the response.
Working == {"take", "kernel", "answer", "answer_error", "respond"}

\* process between the store of a request and the end of its wait.
Waiting == {"wake_request", "wait", "look", "forget", "clock"}

\* SharedBlock::state says whose turn it is, in every label of the owner.
Turn ==
    /\ wpc \in Working => state = "Request"
    /\ pc["owner"] \in {"idle", "fill", "request", "wake_idle"} => state = "Idle"
    /\ pc["owner"] \in Waiting => state # "Idle"
    /\ pc["owner"] \in {"validate", "copy", "release"} => state = "Response"

\* A response, written or about to be, is the one to the request in the block.
Matched ==
    /\ pc["owner"] \in Waiting \cup {"request", "validate", "copy"} =>
           requestId = chart
    /\ wpc = "answer" => output = requestId
    /\ wpc = "respond" \/ state = "Response" =>
           responseId = requestId /\ (responseStatus = 0 => output = requestId)
    /\ pc["owner"] = "copy" => responseStatus = 0

\* What the calls returned so far, while the owner goes through its charts.
Delivered ==
    /\ pc["owner"] \in Waiting \cup {"fill", "request", "validate", "copy",
                                    "release", "wake_idle"} => InCall
    /\ pc["owner"] \in Waiting \cup {"idle", "fill", "request", "validate",
                                    "copy"} =>
           \A i \in Charts : answers[i] = IF i < chart THEN i ELSE Nothing
    /\ pc["owner"] \in {"release", "wake_idle"} =>
           \A i \in Charts : answers[i] = IF i <= chart THEN i ELSE Nothing

\* Where the child's pid is until somebody reaps the child.
Accounted ==
    /\ ~hasPid /\ pc["owner"] # "wait_child" => child = "reaped"
    /\ pc["owner"] = "forget" => child = "reaped"
    /\ pc["owner"] \in {"wait_child", "gone"} => ~hasPid
    /\ pc["owner"] = "wait_child" /\ ~pid["owner"] => child = "reaped"

\* Whoever is past the exchange in abort, or had a call throw, set the flag.
Unusable == \A t \in Hosts : pc[t] \in {"load_pid", "kill", "threw"} => aborted

\* While the worker works on a request the host keeps its hands off the text
\* and the output, also when the call timed out or was aborted.
OneSide ==
    wpc \in Working /\ child = "running" =>
        pc["owner"] \notin {"fill", "request", "copy", "release"}

\* The destructor leaves no child behind, running or unreaped, when the block
\* it writes to is unmapped.
ChildReaped == pc["owner"] = "gone" => child = "reaped"

\* Unless a fault happens every chart is answered: no wakeup is lost between
\* the load of the state and the sleep of the worker.
AnsweredUnlessBlamed == <>(blame # {} \/ \A i \in Charts : answers[i] = i)

\* Whatever hangs, dies or is aborted, the WorkerProcess is destroyed.
Destroyed == <>(pc["owner"] = "gone")

Service == INSTANCE KernelService WITH
    current <- IF InCall /\ pc["owner"] \notin {"idle", "refused", "release",
                                                "wake_idle"}
               THEN chart ELSE 0,
    delivered <- answers,
    usable <- ~aborted

\* process answers with the encoding of its own chart or throws, and no call
\* begins on a worker that was aborted.
ImplementsKernel == Service!ServiceSpec
=============================================================================
