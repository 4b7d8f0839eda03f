------------------------- MODULE RuneScenario_proofs -------------------------
(***************************************************************************)
(* Proofs about a scenario of 06-rune.                                     *)
(*                                                                         *)
(* DecisionLog has no requests, and here one may be sent up to three       *)
(* times, answered late or not at all, and reach the cluster after the     *)
(* scheduler went on. That the cluster still accepts each decision once    *)
(* rests on four facts, which are the invariant:                           *)
(*   - InStep, the policy is at most one decision ahead of the cluster,    *)
(*     and then the request being made is for that decision;               *)
(*   - OnTheirWay, no step request on any connection is newer than the     *)
(*     last decision, and one for it carries the same batch, so that a     *)
(*     request that comes late is a repetition and not a new answer;       *)
(*   - Aligned, the connection in use holds the current request or the     *)
(*     reply to it and nothing else: whatever came late is on a connection *)
(*     that was forgotten;                                                 *)
(*   - Awaiting, the coroutine and the io thread agree on the job that is  *)
(*     waited for, also after a cancellation has given others up.          *)
(* Ending and Paid add what is true of the end of a scenario. Each step of *)
(* the coroutine, of the io thread and of the cluster has a lemma that it  *)
(* keeps the invariant.                                                    *)
(***************************************************************************)
EXTENDS RuneScenario, SequenceTheorems, TLAPS

\* Once the policy was asked the cluster serves or has exited.
Answerable == {"up", "exited"}

\* The policy is at most one decision ahead of the cluster, and while it is
\* ahead it asks for nothing but that decision.
InStep ==
    /\ asked = lastDecision + 1
    /\ decision \in {asked - 1, asked}
    /\ asked > 0 => call.req.kind = "step" /\ call.req.id = lastDecision
    /\ asked = 0 => call.req.kind # "step"
    /\ asked > 0 /\ decision = asked => lastBatch = call.req.batch
    /\ decision < asked => ended = "open"
    /\ decision = 0 => ended = "open"
    /\ ended = "open" => decision < MaxDecisions
    /\ asked > 0 => life \in Answerable

\* No step request that is still on its way, on any connection, is newer than
\* the last decision, and none for it has another batch.
Current ==
    {req \in Requests :
        req.kind = "step" =>
            /\ req.id <= lastDecision
            /\ req.id = lastDecision => req.batch = call.req.batch}

OnTheirWay ==
    /\ \A c \in 1 .. Len(conns) : conns[c].sent \in Seq(Current)
    /\ \A i \in 1 .. Len(jobs) : jobs[i].what = "send" => jobs[i].req = call.req

\* The replies to the request being made: the model, or the state the cluster
\* is in when it has accepted every decision.
Due ==
    {r \in Replies :
        /\ life \in Answerable
        /\ call.req.kind = "model" => r.kind = "model"
        /\ call.req.kind # "model" =>
            /\ r.kind = IF ended = "open" THEN "observation" ELSE ended
            /\ r.id = decision
            /\ decision = asked}

\* On the connection in use there is nothing but that request, or the reply to
\* it: whatever came late is on a connection that was forgotten.
Aligned ==
    /\ sock # 0 /\ ~reading => conns[sock].sent = <<>> /\ conns[sock].replies = <<>>
    /\ reading => sock # 0 /\ Running("send")
    /\ reading =>
        \/ conns[sock].sent = <<call.req>> /\ conns[sock].replies = <<>>
        \/ /\ conns[sock].sent = <<>>
           /\ conns[sock].replies # <<>>
           /\ Tail(conns[sock].replies) = <<>>
           /\ Head(conns[sock].replies) \in Due

\* What the coroutine waits for, and what is left of the jobs it gave up.
Awaiting ==
    /\ pc \in {"readline", "socket"} => ~hasClient
    /\ pc \in {"call", "reconnect", "close"} => hasClient
    /\ ~hasClient => jobs = <<>> /\ sock = 0 /\ asked = 0
    /\ pc = "call" =>
        \/ answer = Pending /\ jobs = <<[what |-> "send", req |-> call.req, awaited |-> TRUE]>>
        \/ answer \in Due \cup {Failed} /\ jobs = <<>>
    /\ pc = "reconnect" => call.why = "transport" /\ uds
    /\ pc = "reconnect" =>
        \/ answer = Pending /\ jobs = <<[what |-> "close", req |-> ModelRequest, awaited |-> TRUE]>>
        \/ answer = Closed /\ jobs = <<>> /\ sock = 0
    /\ pc \in {"wait", "done"} => \A i \in 1 .. Len(jobs) : ~jobs[i].awaited
    /\ pc = "close" =>
        \/ /\ answer = Pending
           /\ jobs # <<>>
           /\ jobs[Len(jobs)].what = "close"
           /\ \A i \in 1 .. Len(jobs) : jobs[i].awaited <=> i = Len(jobs)
        \/ answer = Closed /\ jobs = <<>> /\ sock = 0

\* How the body of the coroutine ended is known when it did.
Ending ==
    /\ outcome = "none" <=> pc \in {"readline", "socket", "call", "reconnect"}
    /\ pc = "close" => life = "exited" /\ (uds => ~socketFile)
    /\ CleanedUp

\* Over the socket, once the cluster has answered, each attempt that failed was
\* a fault.
Paid ==
    uds /\ asked > 0 /\ life # "exited" =>
        /\ pc = "call" /\ answer # Failed => faults + 1 >= call.tries
        /\ pc = "call" /\ answer = Failed => faults >= call.tries
        /\ pc = "reconnect" => faults >= call.tries

\* The inductive invariant.
IInv ==
    /\ TypeOK
    /\ InStep
    /\ OnTheirWay
    /\ Aligned
    /\ Awaiting
    /\ Ending
    /\ Paid
-----------------------------------------------------------------------------
(***************************************************************************)
(* The requests, the replies and the marks of a future.                    *)
(***************************************************************************)
LEMMA LimitsAre == MaxDecisions \in Nat /\ MaxDecisions > 0 /\ MaxFaults \in Nat
<1>1. MaxDecisions \in Nat \ {0} /\ MaxFaults \in Nat
  BY ClientAssumption
<1>2. QED
  BY <1>1

LEMMA RequestsAre ==
    /\ ModelRequest \in Requests /\ ModelRequest.kind = "model"
    /\ StateRequest \in Requests /\ StateRequest.kind = "state"
    /\ \A d \in 0 .. MaxDecisions - 1, b \in Batches :
        /\ StepRequest(d, b) \in Requests
        /\ StepRequest(d, b).kind = "step"
        /\ StepRequest(d, b).id = d
        /\ StepRequest(d, b).batch = b
    /\ \A req \in Requests : req.kind = "step" => req.id \in 0 .. MaxDecisions - 1
<1>1. ModelRequest \in Requests /\ StateRequest \in Requests
  BY DEF Requests
<1>2. ModelRequest.kind = "model" /\ StateRequest.kind = "state"
  BY DEF ModelRequest, StateRequest, Request
<1>3. ASSUME NEW d \in 0 .. MaxDecisions - 1, NEW b \in Batches
      PROVE  /\ StepRequest(d, b) \in Requests
             /\ StepRequest(d, b).kind = "step"
             /\ StepRequest(d, b).id = d
             /\ StepRequest(d, b).batch = b
  <2>1. StepRequest(d, b) \in Requests
    BY DEF Requests
  <2>2. QED
    BY <2>1 DEF StepRequest, Request
<1>4. ASSUME NEW req \in Requests, req.kind = "step"
      PROVE  req.id \in 0 .. MaxDecisions - 1
  <2>1. PICK d \in 0 .. MaxDecisions - 1, b \in Batches : req = StepRequest(d, b)
    BY <1>2, <1>4 DEF Requests
  <2>2. QED
    BY <1>3, <2>1
<1>5. QED
  BY <1>1, <1>2, <1>3, <1>4

LEMMA AnswersAre ==
    /\ Pending.kind = "pending" /\ Failed.kind = "failed" /\ Closed.kind = "closed"
    /\ Pending # Failed /\ Pending # Closed /\ Failed # Closed
    /\ Pending \notin Replies /\ Failed \notin Replies /\ Closed \notin Replies
    /\ \A r \in Replies :
        /\ r.kind \in {"observation", "valid", "invalid", "model", "error"}
        /\ r.id \in 0 .. MaxDecisions
  BY DEF Pending, Failed, Closed, Replies, StepResult, Verdict

\* The initial states satisfy the invariant: nothing was asked or answered.
LEMMA InitInvariant ==
    ASSUME Init
    PROVE  IInv
<1>1. conns = <<>> /\ jobs = <<>> /\ sock = 0 /\ ~reading /\ reading \in BOOLEAN
  BY DEF Init, ClientInit
<1>2. decision = 0 /\ asked = 0 /\ lastDecision = -1 /\ faults = 0
  BY DEF Init, ClientInit
<1>3. ended = "open" /\ life = "starting" /\ answer = Pending /\ pc = "readline"
  BY DEF Init, ClientInit
<1>4. call = NoCall /\ call.req = ModelRequest
  BY DEF Init, NoCall
<1>5. TypeOK
  <2>1. conns \in Seq(Links) /\ jobs \in Seq(Jobs)
    BY <1>1, EmptySeq
  <2>2. ModelRequest \in Requests
    BY RequestsAre
  <2>3. call \in [req : Requests, tries : 0 .. 3, why : {"none", "transport", "rejected"}]
    BY <1>4, <2>2 DEF NoCall
  <2>4. /\ decision \in 0 .. MaxDecisions /\ faults \in 0 .. MaxFaults
        /\ lastDecision \in -1 .. MaxDecisions - 1 /\ asked \in 0 .. MaxDecisions + 1
        /\ sock \in 0 .. Len(conns)
    BY LimitsAre, <1>1, <1>2
  <2>5. ClientTypeOK
    BY <1>1, <1>3, <2>1, <2>4 DEF ClientTypeOK, Init, ClientInit
  <2>6. QED
    BY <1>3, <2>3, <2>4, <2>5 DEF TypeOK, Awaits, Init
<1>6. InStep
  BY LimitsAre, RequestsAre, <1>2, <1>3, <1>4 DEF InStep
<1>7. OnTheirWay /\ Aligned
  BY <1>1 DEF OnTheirWay, Aligned
<1>8. Awaiting
  BY <1>1, <1>2, <1>3 DEF Awaiting, Init
<1>9. Ending /\ Paid
  BY <1>2, <1>3 DEF Ending, CleanedUp, Paid, Init
<1>10. QED
  BY <1>5, <1>6, <1>7, <1>8, <1>9 DEF IInv
-----------------------------------------------------------------------------
(***************************************************************************)
(* What _submit, a cancellation and the end of a job do to the jobs.       *)
(***************************************************************************)
LEMMA SubmitDoes ==
    ASSUME ClientTypeOK, NEW what \in {"send", "close"}, NEW req \in Requests,
           Submit(what, req)
    PROVE  /\ jobs' \in Seq(Jobs)
           /\ Len(jobs') = Len(jobs) + 1
           /\ \A i \in 1 .. Len(jobs) : jobs'[i] = jobs[i]
           /\ jobs'[Len(jobs')] = [what |-> what, req |-> req, awaited |-> TRUE]
           /\ jobs = <<>> => jobs' = <<[what |-> what, req |-> req, awaited |-> TRUE]>>
           /\ answer' = Pending
<1> DEFINE job == [what |-> what, req |-> req, awaited |-> TRUE]
<1>1. job \in Jobs
  BY DEF Jobs
<1>2. jobs \in Seq(Jobs) /\ jobs' = Append(jobs, job) /\ answer' = Pending
  BY DEF ClientTypeOK, Submit
<1>3. job = [what |-> what, req |-> req, awaited |-> TRUE]
  OBVIOUS
<1> HIDE DEF job
<1>4. /\ Append(jobs, job) \in Seq(Jobs)
      /\ Len(Append(jobs, job)) = Len(jobs) + 1
      /\ \A i \in 1 .. Len(jobs) : Append(jobs, job)[i] = jobs[i]
      /\ Append(jobs, job)[Len(jobs) + 1] = job
  BY <1>1, <1>2
<1>5. jobs = <<>> => Append(jobs, job) = <<job>>
  BY <1>1
<1>6. QED
  BY <1>2, <1>3, <1>4, <1>5

LEMMA AbandonDoes ==
    ASSUME ClientTypeOK, Abandon
    PROVE  /\ jobs' \in Seq(Jobs)
           /\ Len(jobs') = Len(jobs)
           /\ \A i \in 1 .. Len(jobs) :
                /\ jobs'[i].what = jobs[i].what
                /\ jobs'[i].req = jobs[i].req
                /\ ~jobs'[i].awaited
           /\ answer' = Pending
<1>1. jobs \in Seq(Jobs) /\ DOMAIN jobs = 1 .. Len(jobs) /\ Len(jobs) \in Nat
  BY LenProperties DEF ClientTypeOK
<1>2. \A i \in 1 .. Len(jobs) : jobs[i] \in Jobs
  BY <1>1
<1>3. \A i \in 1 .. Len(jobs) :
        /\ [jobs[i] EXCEPT !.awaited = FALSE] \in Jobs
        /\ [jobs[i] EXCEPT !.awaited = FALSE].what = jobs[i].what
        /\ [jobs[i] EXCEPT !.awaited = FALSE].req = jobs[i].req
        /\ ~[jobs[i] EXCEPT !.awaited = FALSE].awaited
  BY <1>2 DEF Jobs
<1>4. jobs' = [i \in 1 .. Len(jobs) |-> [jobs[i] EXCEPT !.awaited = FALSE]]
  BY <1>1 DEF Abandon
<1>5. jobs' \in [1 .. Len(jobs) -> Jobs]
  BY <1>3, <1>4
<1>6. jobs' \in Seq(Jobs) /\ Len(jobs') = Len(jobs)
  BY <1>1, <1>5
<1>7. QED
  BY <1>3, <1>4, <1>6 DEF Abandon

LEMMA CompleteDoes ==
    ASSUME ClientTypeOK, jobs # <<>>, NEW a, Complete(a)
    PROVE  /\ jobs' \in Seq(Jobs)
           /\ Len(jobs) \in Nat \ {0}
           /\ Len(jobs') = Len(jobs) - 1
           /\ \A i \in 1 .. Len(jobs') : jobs'[i] = jobs[i + 1]
           /\ Head(jobs) = jobs[1]
           /\ Len(jobs) = 1 => jobs' = <<>>
           /\ answer' = IF jobs[1].awaited THEN a ELSE answer
           /\ uds' = uds
           /\ ~reading' /\ reading' \in BOOLEAN
<1>1. jobs \in Seq(Jobs) /\ jobs' = Tail(jobs)
  BY DEF ClientTypeOK, Complete
<1>2. /\ jobs' \in Seq(Jobs)
      /\ Len(jobs) \in Nat \ {0}
      /\ Len(jobs') = Len(jobs) - 1
      /\ \A i \in 1 .. Len(jobs') : jobs'[i] = jobs[i + 1]
      /\ Head(jobs) = jobs[1]
  BY <1>1, HeadTailProperties, EmptySeq
<1>3. Len(jobs) = 1 => jobs' = <<>>
  BY <1>2, EmptySeq
<1>4. QED
  BY <1>2, <1>3 DEF Complete

(***************************************************************************)
(* The parts of the state, taken out of the type invariant.                *)
(***************************************************************************)
LEMMA NumbersAre ==
    ASSUME TypeOK
    PROVE  /\ decision \in Nat /\ asked \in Nat /\ faults \in Nat
           /\ lastDecision \in Int /\ uds \in BOOLEAN
<1>1. /\ decision \in 0 .. MaxDecisions /\ faults \in 0 .. MaxFaults
      /\ lastDecision \in -1 .. MaxDecisions - 1 /\ asked \in 0 .. MaxDecisions + 1
      /\ uds \in BOOLEAN
  BY DEF TypeOK, ClientTypeOK
<1>2. QED
  BY <1>1, LimitsAre

LEMMA ConnectionsAre ==
    ASSUME TypeOK
    PROVE  /\ conns \in Seq(Links) /\ Len(conns) \in Nat
           /\ sock \in 0 .. Len(conns) /\ 0 \in 0 .. Len(conns)
<1>1. conns \in Seq(Links) /\ sock \in 0 .. Len(conns)
  BY DEF TypeOK, ClientTypeOK
<1>2. Len(conns) \in Nat
  BY <1>1, LenProperties
<1>3. QED
  BY <1>1, <1>2

LEMMA LinkWith ==
    ASSUME NEW S, NEW T, NEW link \in [sent : S, replies : T], NEW x
    PROVE  /\ [link EXCEPT !.sent = x] = [sent |-> x, replies |-> link.replies]
           /\ [link EXCEPT !.replies = x] = [sent |-> link.sent, replies |-> x]
  OBVIOUS
-----------------------------------------------------------------------------
(***************************************************************************)
(* Steps of the coroutine. They leave the cluster and the connections to   *)
(* the other actors, and a step that submits a job finds none.             *)
(***************************************************************************)
linkVars == <<life, decision, lastBatch, ended, conns, sock, reading>>

\* What is due and what is on its way depend on the cluster and the request only.
LEMMA DueFrame ==
    ASSUME UNCHANGED <<life, decision, ended, asked>>, call'.req = call.req
    PROVE  Due' = Due
  BY DEF Due

LEMMA WayFrame ==
    ASSUME OnTheirWay, UNCHANGED <<conns, lastDecision>>, call'.req = call.req,
           \A i \in 1 .. Len(jobs') : jobs'[i].what = "send" => jobs'[i].req = call.req
    PROVE  OnTheirWay'
<1>1. Current' = Current
  BY DEF Current
<1>2. QED
  BY <1>1 DEF OnTheirWay

LEMMA ClientFrame ==
    ASSUME ClientTypeOK, UNCHANGED linkVars, uds' \in BOOLEAN, jobs' \in Seq(Jobs),
           answer' \in Replies \cup {Pending, Failed, Closed}, faults' \in 0 .. MaxFaults
    PROVE  ClientTypeOK'
  BY DEF ClientTypeOK, linkVars

\* The jobs and the request stay as they are.
LEMMA QuietFrame ==
    ASSUME IInv, UNCHANGED <<linkVars, jobs, answer, lastDecision, asked>>,
           call'.req = call.req, uds' \in BOOLEAN,
           faults' = faults \/ Fault
    PROVE  ClientTypeOK' /\ InStep' /\ OnTheirWay' /\ Aligned' /\ Due' = Due
<1>1. Due' = Due
  BY DueFrame DEF linkVars
<1>2. OnTheirWay'
  BY WayFrame DEF IInv, OnTheirWay, linkVars
<1>3. Aligned'
  BY <1>1 DEF IInv, Aligned, Running, linkVars
<1>4. InStep'
  BY DEF IInv, InStep, linkVars
<1>5. faults \in 0 .. MaxFaults
  BY DEF IInv, TypeOK, ClientTypeOK
<1>6. faults' \in 0 .. MaxFaults
  BY <1>5, LimitsAre DEF Fault
<1>7. ClientTypeOK'
  BY <1>6, ClientFrame DEF IInv, TypeOK, ClientTypeOK
<1>8. QED
  BY <1>1, <1>2, <1>3, <1>4, <1>7

\* A request is sent when there is no job.
LEMMA SendFrame ==
    ASSUME IInv, jobs = <<>>, NEW req \in Requests, Send(req), call'.req = req,
           UNCHANGED <<linkVars, faults>>, uds' \in BOOLEAN, Current \subseteq Current'
    PROVE  /\ ClientTypeOK' /\ OnTheirWay' /\ Aligned'
           /\ jobs' = <<[what |-> "send", req |-> req, awaited |-> TRUE]>>
           /\ answer' = Pending
<1>1. /\ jobs' = <<[what |-> "send", req |-> req, awaited |-> TRUE]>>
      /\ jobs' \in Seq(Jobs)
      /\ answer' = Pending
  BY SubmitDoes DEF Send, IInv, TypeOK
<1>2. \A c \in 1 .. Len(conns) : conns[c].sent \in Seq(Current')
  BY SeqMonotonic DEF IInv, OnTheirWay
<1>3. OnTheirWay'
  BY <1>1, <1>2 DEF OnTheirWay, linkVars
<1>4. ~reading
  BY DEF IInv, Aligned, Running
<1>5. Aligned'
  BY <1>4 DEF IInv, Aligned, linkVars
<1>6. ClientTypeOK'
  BY <1>1, ClientFrame DEF IInv, TypeOK, ClientTypeOK
<1>7. QED
  BY <1>1, <1>3, <1>5, <1>6

\* What the coroutine finds when its request is answered: a failure, or a reply
\* to that request. None is an error or of another kind than was asked for.
LEMMA Answered ==
    ASSUME IInv, pc = "call", answer # Pending
    PROVE  /\ jobs = <<>> /\ hasClient
           /\ answer = Failed \/ answer \in Due
           /\ answer \in Due =>
                /\ answer # Failed
                /\ answer.kind # "error"
                /\ answer.kind = "model" <=> call.req.kind = "model"
                /\ call.req.kind # "model" =>
                    /\ answer.kind = IF ended = "open" THEN "observation" ELSE ended
                    /\ answer.id = decision
                    /\ decision = asked
                    /\ ended \in {"open", "valid", "invalid"}
<1>1. jobs = <<>> /\ hasClient /\ (answer = Failed \/ answer \in Due)
  BY DEF IInv, Awaiting
<1>2. ended \in {"open", "valid", "invalid"}
  BY DEF IInv, TypeOK, ClientTypeOK, Verdict
<1>3. Due \subseteq Replies
  BY DEF Due
<1>4. answer \in Due => answer # Failed
  BY <1>3, AnswersAre
<1>5. QED
  BY <1>1, <1>2, <1>4 DEF Due

\* The end of the body: nobody waits for anything.
LEMMA LeaveFrame ==
    ASSUME IInv, pc' = "wait", jobs' = <<>>, UNCHANGED <<sock, asked, hasClient>>
    PROVE  Awaiting'
  BY DEF IInv, Awaiting

LEMMA HandshakeFailsKeeps ==
    ASSUME IInv, HandshakeFails
    PROVE  IInv'
<1>1. jobs = <<>> /\ UNCHANGED jobs
  BY DEF IInv, Awaiting, HandshakeFails, clientVars
<1>2. ClientTypeOK' /\ InStep' /\ OnTheirWay' /\ Aligned'
  BY QuietFrame
     DEF HandshakeFails, linkVars, clusterVars, clientVars, IInv, TypeOK, ClientTypeOK
<1>3. TypeOK'
  BY <1>2 DEF IInv, HandshakeFails, Leave, TypeOK, Awaits, Failures
<1>4. Awaiting'
  BY <1>1, LeaveFrame DEF HandshakeFails, Leave, clientVars
<1>5. Ending' /\ Paid'
  BY DEF IInv, Ending, CleanedUp, Paid, HandshakeFails, Leave
<1>6. QED
  BY <1>2, <1>3, <1>4, <1>5 DEF IInv

LEMMA SocketFailsKeeps ==
    ASSUME IInv, SocketFails
    PROVE  IInv'
<1>1. jobs = <<>> /\ UNCHANGED jobs
  BY DEF IInv, Awaiting, SocketFails, clientVars
<1>2. ClientTypeOK' /\ InStep' /\ OnTheirWay' /\ Aligned'
  BY QuietFrame
     DEF SocketFails, linkVars, clusterVars, clientVars, IInv, TypeOK, ClientTypeOK
<1>3. TypeOK'
  BY <1>2 DEF IInv, SocketFails, Leave, TypeOK, Awaits, Failures
<1>4. Awaiting'
  BY <1>1, LeaveFrame DEF SocketFails, Leave, clientVars
<1>5. Ending' /\ Paid'
  BY DEF IInv, Ending, CleanedUp, Paid, SocketFails, Leave
<1>6. QED
  BY <1>2, <1>3, <1>4, <1>5 DEF IInv

\* A request raises for the transport only: its reply is none of another.
LEMMA RaisesTransport ==
    ASSUME IInv, RequestRaises
    PROVE  /\ pc = "call" /\ answer # Pending
           /\ ~uds /\ outcome' = "transport"
           /\ pc' = "wait" /\ terminated'
<1>1. pc = "call" /\ answer # Pending
  BY AnswersAre DEF RequestRaises, Retried, StepResult, Verdict
<1>2. answer \in Due => /\ answer.kind \notin {"error"}
                        /\ answer.kind = "model" <=> call.req.kind = "model"
  BY <1>1, Answered
<1>3. answer = Failed \/ answer \in Due
  BY <1>1, Answered
<1>4. CASE answer = Failed
  BY <1>1, <1>4, AnswersAre DEF RequestRaises, Retried, Why, Leave, StepResult, Verdict
<1>5. CASE answer \in Due
  BY <1>1, <1>2, <1>5, Answered DEF RequestRaises, Retried
<1>6. QED
  BY <1>3, <1>4, <1>5

LEMMA RequestRaisesKeeps ==
    ASSUME IInv, RequestRaises
    PROVE  IInv'
<1>1. jobs = <<>> /\ UNCHANGED jobs
  BY RaisesTransport, Answered DEF RequestRaises, clientVars
<1>2. ClientTypeOK' /\ InStep' /\ OnTheirWay' /\ Aligned'
  BY QuietFrame
     DEF RequestRaises, linkVars, clusterVars, clientVars, IInv, TypeOK, ClientTypeOK
<1>3. TypeOK'
  BY <1>2, RaisesTransport DEF IInv, RequestRaises, TypeOK, Awaits, Failures
<1>4. Awaiting'
  BY <1>1, LeaveFrame, RaisesTransport DEF RequestRaises, clientVars
<1>5. Ending' /\ Paid'
  BY RaisesTransport DEF IInv, Ending, CleanedUp, Paid, RequestRaises
<1>6. QED
  BY <1>2, <1>3, <1>4, <1>5 DEF IInv

LEMMA TerminalKeeps ==
    ASSUME IInv, Terminal
    PROVE  IInv'
<1>1. jobs = <<>> /\ UNCHANGED jobs
  BY Answered, AnswersAre DEF Terminal, Verdict, clientVars
<1>2. ClientTypeOK' /\ InStep' /\ OnTheirWay' /\ Aligned'
  BY QuietFrame DEF Terminal, linkVars, clusterVars, clientVars, IInv, TypeOK, ClientTypeOK
<1>3. TypeOK'
  BY <1>2 DEF IInv, Terminal, Leave, TypeOK, Awaits, Verdict
<1>4. Awaiting'
  BY <1>1, LeaveFrame DEF Terminal, Leave, clientVars
<1>5. Ending' /\ Paid'
  BY DEF IInv, Ending, CleanedUp, Paid, Terminal, Leave, Verdict
<1>6. QED
  BY <1>2, <1>3, <1>4, <1>5 DEF IInv

LEMMA ClientClosedKeeps ==
    ASSUME IInv, ClientClosed
    PROVE  IInv'
<1>1. jobs = <<>> /\ sock = 0 /\ UNCHANGED <<jobs, sock, answer, uds>> /\ hasClient
  BY AnswersAre DEF IInv, Awaiting, ClientClosed, clientVars
<1>2. ClientTypeOK' /\ InStep' /\ OnTheirWay' /\ Aligned'
  BY QuietFrame
     DEF ClientClosed, linkVars, clusterVars, clientVars, IInv, TypeOK, ClientTypeOK
<1>3. TypeOK'
  BY <1>2 DEF IInv, ClientClosed, TypeOK, Awaits
<1>4. Awaiting'
  BY <1>1 DEF IInv, Awaiting, ClientClosed
<1>5. Ending' /\ Paid'
  BY <1>1 DEF IInv, Ending, CleanedUp, Paid, ClientClosed, clusterVars
<1>6. QED
  BY <1>2, <1>3, <1>4, <1>5 DEF IInv

\* Before the policy was asked no step request is on its way.
LEMMA FirstRequests ==
    ASSUME IInv, asked = 0, UNCHANGED lastDecision
    PROVE  Current \subseteq Current'
<1>1. lastDecision = -1
  BY DEF IInv, InStep, TypeOK
<1>2. \A req \in Current : req \in Requests /\ req.kind # "step"
  BY <1>1, RequestsAre, LimitsAre DEF Current
<1>3. QED
  BY <1>2 DEF Current

\* The first request of a client asks for the model.
LEMMA MakeClientDoes ==
    ASSUME IInv, pc \in {"readline", "socket"}, MakeClient, uds' \in BOOLEAN,
           UNCHANGED <<clusterVars, conns, faults, socketFile>>
    PROVE  IInv'
<1>1. /\ jobs = <<>> /\ asked = 0 /\ sock = 0
      /\ UNCHANGED <<linkVars, faults, lastDecision, asked, outcome, terminated, cancelled>>
      /\ hasClient' = TRUE /\ pc' = "call"
      /\ call' = [req |-> ModelRequest, tries |-> 1, why |-> "none"]
      /\ call'.req = ModelRequest
      /\ Send(ModelRequest)
  BY DEF IInv, Awaiting, MakeClient, Start, linkVars, clusterVars
<1>2. /\ ClientTypeOK' /\ OnTheirWay' /\ Aligned'
      /\ jobs' = <<[what |-> "send", req |-> ModelRequest, awaited |-> TRUE]>>
      /\ answer' = Pending
  BY <1>1, FirstRequests, SendFrame, RequestsAre
<1>3. TypeOK'
  <2>1. call' \in [req : Requests, tries : 0 .. 3, why : {"none", "transport", "rejected"}]
    BY <1>1, RequestsAre
  <2>2. QED
    BY <1>1, <1>2, <2>1 DEF IInv, TypeOK, Awaits
<1>4. InStep'
  BY <1>1, RequestsAre DEF IInv, InStep, linkVars
<1>5. Awaiting'
  BY <1>1, <1>2 DEF Awaiting
<1>6. Ending' /\ Paid'
  BY <1>1 DEF IInv, Ending, CleanedUp, Paid
<1>7. QED
  BY <1>2, <1>3, <1>4, <1>5, <1>6 DEF IInv

LEMMA HandshakeKeeps ==
    ASSUME IInv, Handshake
    PROVE  IInv'
<1>1. CASE MakeClient
  BY <1>1, MakeClientDoes DEF Handshake
<1>2. CASE ~MakeClient
  <2>1. /\ jobs = <<>> /\ UNCHANGED <<jobs, answer, sock, hasClient, asked, call, outcome>>
        /\ ~hasClient /\ uds' = TRUE /\ pc' = "socket" /\ pc = "readline"
        /\ UNCHANGED <<clusterVars, conns, faults, reading, lastDecision, terminated, cancelled,
                       socketFile>>
    BY <1>2 DEF IInv, Awaiting, Handshake
  <2>2. ClientTypeOK' /\ InStep' /\ OnTheirWay' /\ Aligned'
    BY <2>1, QuietFrame DEF linkVars, clusterVars
  <2>3. TypeOK'
    BY <2>1, <2>2 DEF IInv, TypeOK, Awaits
  <2>4. Awaiting' /\ Ending' /\ Paid'
    BY <2>1 DEF IInv, Awaiting, Ending, CleanedUp, Paid
  <2>5. QED
    BY <2>2, <2>3, <2>4 DEF IInv
<1>3. QED
  BY <1>1, <1>2

LEMMA SocketAppearsKeeps ==
    ASSUME IInv, SocketAppears
    PROVE  IInv'
<1>1. SocketAppears => uds' \in BOOLEAN
  BY DEF SocketAppears, IInv, TypeOK, ClientTypeOK
<1>2. QED
  BY <1>1, MakeClientDoes DEF SocketAppears

LEMMA ModelArrivesKeeps ==
    ASSUME IInv, ModelArrives
    PROVE  IInv'
<1> USE DEF IInv
<1>1. /\ pc = "call" /\ call.req.kind = "model" /\ answer # Pending
      /\ UNCHANGED <<linkVars, uds, faults, lastDecision, asked, hasClient, cancelled, socketFile>>
  BY AnswersAre DEF ModelArrives, linkVars, clusterVars
<1>2. jobs = <<>> /\ hasClient
  BY <1>1, Answered
<1>3. outcome = "none" /\ asked = 0 /\ uds \in BOOLEAN
  <2>1. asked \in Nat /\ uds \in BOOLEAN
    BY NumbersAre
  <2>2. asked = 0
    BY <1>1, <2>1 DEF InStep
  <2>3. QED
    BY <1>1, <2>1, <2>2 DEF Ending
<1>4. CASE Start(StateRequest) /\ UNCHANGED <<outcome, terminated>>
  <2>1. /\ pc' = "call" /\ Send(StateRequest) /\ call'.req = StateRequest
        /\ call' = [req |-> StateRequest, tries |-> 1, why |-> "none"]
    BY <1>4 DEF Start
  <2>2. /\ ClientTypeOK' /\ OnTheirWay' /\ Aligned'
        /\ jobs' = <<[what |-> "send", req |-> StateRequest, awaited |-> TRUE]>>
        /\ answer' = Pending
    BY <1>1, <1>2, <1>3, <2>1, FirstRequests, SendFrame, RequestsAre
  <2>3. call' \in [req : Requests, tries : 0 .. 3, why : {"none", "transport", "rejected"}]
    BY <2>1, RequestsAre
  <2>4. TypeOK'
    BY <1>1, <1>2, <1>3, <1>4, <2>1, <2>2, <2>3 DEF IInv, TypeOK, Awaits
  <2>5. InStep'
    BY <1>1, <1>2, <1>3, <2>1, RequestsAre DEF IInv, InStep, linkVars
  <2>6. Awaiting' /\ Ending' /\ Paid'
    BY <1>1, <1>2, <1>3, <1>4, <2>1, <2>2 DEF IInv, Awaiting, Ending, CleanedUp, Paid
  <2>7. QED
    BY <2>2, <2>4, <2>5, <2>6 DEF IInv
<1>5. CASE \E o \in {"startup", "policy_violation"} : Leave(o) /\ UNCHANGED <<call, jobs, answer>>
  <2>1. /\ outcome' \in {"startup", "policy_violation"} /\ pc' = "wait" /\ terminated' = TRUE
        /\ UNCHANGED <<call, jobs, answer>>
    BY <1>5 DEF Leave
  <2>2. ClientTypeOK' /\ InStep' /\ OnTheirWay' /\ Aligned'
    BY <1>1, <1>2, <1>3, <2>1, QuietFrame
  <2>3. TypeOK'
    BY <1>1, <1>2, <1>3, <2>1, <2>2 DEF IInv, TypeOK, Awaits, Failures
  <2>4. Awaiting'
    BY <1>1, <1>2, <1>3, <2>1, LeaveFrame DEF linkVars
  <2>5. Ending' /\ Paid'
    BY <1>1, <1>2, <1>3, <2>1 DEF IInv, Ending, CleanedUp, Paid
  <2>6. QED
    BY <2>2, <2>3, <2>4, <2>5 DEF IInv
<1>6. QED
  BY <1>4, <1>5 DEF ModelArrives

LEMMA ObserveKeeps ==
    ASSUME IInv, Observe
    PROVE  IInv'
<1> USE DEF IInv
<1>1. /\ pc = "call" /\ answer.kind = "observation" /\ answer # Pending /\ answer # Failed
      /\ call.req.kind # "model"
      /\ UNCHANGED <<linkVars, uds, faults, hasClient, cancelled, socketFile>>
  BY AnswersAre DEF Observe, linkVars, clusterVars
<1>2. /\ jobs = <<>> /\ hasClient /\ answer \in Due
      /\ answer.id = decision /\ decision = asked /\ ended = "open"
  BY <1>1, Answered
<1>3. /\ outcome = "none" /\ uds \in BOOLEAN
      /\ asked = lastDecision + 1 /\ asked \in 0 .. MaxDecisions - 1 /\ life \in Answerable
  <2>1. decision \in Nat /\ uds \in BOOLEAN
    BY NumbersAre
  <2>2. decision < MaxDecisions /\ asked = lastDecision + 1
    BY <1>2 DEF InStep
  <2>3. life \in Answerable
    BY <1>2 DEF Due
  <2>4. QED
    BY <1>1, <1>2, <2>1, <2>2, <2>3, LimitsAre DEF Ending
<1>4. answer.id # lastDecision /\ lastDecision \in Int
  BY <1>2, <1>3 DEF TypeOK
<1>5. ASSUME NEW b \in Batches, Start(StepRequest(answer.id, b)),
             lastDecision' = answer.id, asked' = asked + 1, UNCHANGED <<outcome, terminated>>
      PROVE  IInv'
  <2> DEFINE req == StepRequest(answer.id, b)
  <2>1. /\ req \in Requests /\ req.kind = "step" /\ req.id = asked
    BY <1>2, <1>3, RequestsAre
  <2>2. /\ pc' = "call" /\ Send(req) /\ call'.req = req
        /\ call' = [req |-> req, tries |-> 1, why |-> "none"]
        /\ lastDecision' = asked
    BY <1>2, <1>5 DEF Start
  <2> HIDE DEF req
  <2>3. Current \subseteq Current'
    <3>1. \A r \in Current : r \in Requests /\ (r.kind = "step" => r.id <= lastDecision /\ r.id \in Int)
      BY RequestsAre DEF Current
    <3>2. \A r \in Current : r.kind = "step" => r.id < asked
      BY <1>3, <1>4, <3>1
    <3>3. QED
      BY <1>3, <2>2, <3>1, <3>2 DEF Current
  <2>4. /\ ClientTypeOK' /\ OnTheirWay' /\ Aligned'
        /\ jobs' = <<[what |-> "send", req |-> req, awaited |-> TRUE]>>
        /\ answer' = Pending
    BY <1>1, <1>2, <1>3, <2>1, <2>2, <2>3, SendFrame
  <2>5. call' \in [req : Requests, tries : 0 .. 3, why : {"none", "transport", "rejected"}]
    BY <2>1, <2>2
  <2>6. lastDecision' \in -1 .. MaxDecisions - 1 /\ asked' \in 0 .. MaxDecisions + 1
    BY <1>3, <1>5, <2>2, LimitsAre
  <2>7. TypeOK'
    BY <1>1, <1>5, <2>2, <2>4, <2>5, <2>6 DEF TypeOK, Awaits
  <2>8. InStep'
    BY <1>1, <1>2, <1>3, <1>5, <2>1, <2>2 DEF InStep, linkVars
  <2>9. Awaiting'
    BY <1>1, <1>2, <2>2, <2>4 DEF Awaiting
  <2>10. Ending'
    BY <1>3, <1>5, <2>2 DEF Ending, CleanedUp
  <2>11. Paid'
    <3>1. call'.tries = 1
      BY <2>2
    <3>2. faults \in Nat /\ faults' = faults
      BY <1>1, NumbersAre
    <3>3. faults' + 1 >= 1 /\ answer' # Failed
      BY <2>4, <3>2, AnswersAre
    <3>4. pc' = "call"
      BY <2>2
    <3>5. QED
      BY <3>1, <3>3, <3>4 DEF Paid
  <2>12. QED
    BY <2>4, <2>7, <2>8, <2>9, <2>10, <2>11
<1>6. ASSUME Leave("policy_violation"), UNCHANGED <<call, jobs, answer, lastDecision, asked>>
      PROVE  IInv'
  <2>1. outcome' = "policy_violation" /\ pc' = "wait" /\ terminated' = TRUE
    BY <1>6 DEF Leave
  <2>2. ClientTypeOK' /\ InStep' /\ OnTheirWay' /\ Aligned'
    BY <1>1, <1>3, <1>6, QuietFrame
  <2>3. TypeOK'
    BY <1>1, <1>6, <2>1, <2>2 DEF TypeOK, Awaits, Failures
  <2>4. Awaiting'
    BY <1>1, <1>2, <1>6, <2>1, LeaveFrame DEF linkVars
  <2>5. Ending' /\ Paid'
    BY <2>1 DEF Ending, CleanedUp, Paid
  <2>6. QED
    BY <2>2, <2>3, <2>4, <2>5
<1>7. QED
  BY <1>4, <1>5, <1>6 DEF Observe

\* A request that is made again is the same request.
LEMMA ReconnectedKeeps ==
    ASSUME IInv, Reconnected
    PROVE  IInv'
<1> USE DEF IInv
<1>1. /\ pc = "reconnect" /\ answer = Closed
      /\ UNCHANGED <<linkVars, uds, faults, lastDecision, asked, hasClient, cancelled, socketFile>>
  BY DEF Reconnected, linkVars, clusterVars
<1>2. /\ jobs = <<>> /\ sock = 0 /\ hasClient /\ outcome = "none"
      /\ call.why = "transport" /\ uds
  BY <1>1, AnswersAre DEF Awaiting, Ending
<1>3. /\ call \in [req : Requests, tries : 0 .. 3, why : {"none", "transport", "rejected"}]
      /\ uds \in BOOLEAN
  BY DEF TypeOK, ClientTypeOK
<1>4. CASE MayRetry
  <2>1. /\ call' = [call EXCEPT !.tries = @ + 1]
        /\ pc' = "call" /\ Send(call.req) /\ UNCHANGED <<outcome, terminated>>
    BY <1>4 DEF Reconnected, Again
  <2>2. /\ call'.req = call.req /\ call.req \in Requests
        /\ call'.tries = call.tries + 1 /\ call.tries \in Nat
        /\ call' \in [req : Requests, tries : 0 .. 3, why : {"none", "transport", "rejected"}]
    BY <1>3, <1>4, <2>1 DEF MayRetry
  <2>3. Current \subseteq Current'
    BY <1>1, <2>2 DEF Current
  <2>4. /\ ClientTypeOK' /\ OnTheirWay' /\ Aligned'
        /\ jobs' = <<[what |-> "send", req |-> call.req, awaited |-> TRUE]>>
        /\ answer' = Pending
    BY <1>1, <1>2, <1>3, <2>1, <2>2, <2>3, SendFrame
  <2>5. TypeOK'
    BY <1>1, <2>1, <2>2, <2>4 DEF TypeOK, Awaits
  <2>6. InStep'
    BY <1>1, <2>2 DEF InStep, linkVars
  <2>7. Awaiting'
    BY <1>1, <1>2, <2>1, <2>2, <2>4 DEF Awaiting
  <2>8. Ending'
    BY <1>2, <2>1 DEF Ending, CleanedUp
  <2>9. Paid'
    <3>1. faults \in Nat
      BY NumbersAre
    <3>2. QED
      BY <1>1, <2>1, <2>2, <2>4, <3>1, AnswersAre DEF Paid, linkVars
  <2>10. QED
    BY <2>4, <2>5, <2>6, <2>7, <2>8, <2>9
<1>5. CASE ~MayRetry
  <2>1. outcome' = "transport" /\ pc' = "wait" /\ terminated' = TRUE /\ UNCHANGED <<call, jobs, answer>>
    BY <1>2, <1>5 DEF Reconnected, Leave
  <2>2. ClientTypeOK' /\ InStep' /\ OnTheirWay' /\ Aligned'
    BY <1>1, <1>3, <2>1, QuietFrame
  <2>3. TypeOK'
    BY <1>1, <2>1, <2>2 DEF TypeOK, Awaits, Failures
  <2>4. Awaiting'
    BY <1>1, <1>2, <2>1, LeaveFrame DEF linkVars
  <2>5. Ending' /\ Paid'
    BY <2>1 DEF Ending, CleanedUp, Paid
  <2>6. QED
    BY <2>2, <2>3, <2>4, <2>5
<1>6. QED
  BY <1>4, <1>5

\* Before it reconnects the coroutine has the io thread close the socket.
LEMMA AttemptFailsKeeps ==
    ASSUME IInv, AttemptFails
    PROVE  IInv'
<1> USE DEF IInv
<1>1. /\ pc = "call" /\ uds /\ answer # Pending /\ Retried
      /\ call' = [call EXCEPT !.why = Why] /\ pc' = "reconnect" /\ CloseJob
      /\ UNCHANGED <<linkVars, uds, faults, lastDecision, asked, outcome, hasClient,
                     terminated, cancelled, socketFile>>
  BY AnswersAre DEF AttemptFails, Retried, linkVars, clusterVars
<1>2. jobs = <<>> /\ hasClient /\ answer = Failed /\ Why = "transport"
  <2>1. answer \notin Due
    BY <1>1, Answered DEF Retried
  <2>2. QED
    BY <1>1, <2>1, Answered DEF Why
<1>3. /\ call \in [req : Requests, tries : 0 .. 3, why : {"none", "transport", "rejected"}]
      /\ outcome = "none" /\ uds \in BOOLEAN
  BY <1>1 DEF TypeOK, ClientTypeOK, Ending
<1>4. /\ call'.req = call.req /\ call'.tries = call.tries /\ call'.why = "transport"
      /\ call' \in [req : Requests, tries : 0 .. 3, why : {"none", "transport", "rejected"}]
  BY <1>1, <1>2, <1>3
<1>5. /\ jobs' = <<[what |-> "close", req |-> ModelRequest, awaited |-> TRUE]>>
      /\ jobs' \in Seq(Jobs) /\ answer' = Pending
  BY <1>1, <1>2, SubmitDoes, RequestsAre DEF CloseJob, TypeOK
<1>6. ClientTypeOK'
  BY <1>1, <1>3, <1>5, ClientFrame DEF TypeOK, ClientTypeOK
<1>7. TypeOK'
  BY <1>1, <1>4, <1>6 DEF TypeOK, Awaits
<1>8. InStep'
  BY <1>1, <1>4 DEF InStep, linkVars
<1>9. OnTheirWay'
  BY <1>1, <1>4, <1>5, WayFrame DEF linkVars
<1>10. Aligned'
  <2>1. ~reading
    BY <1>2 DEF Aligned, Running
  <2>2. QED
    BY <1>1, <2>1 DEF Aligned, linkVars
<1>11. Awaiting'
  BY <1>1, <1>2, <1>4, <1>5 DEF Awaiting
<1>12. Ending'
  BY <1>1, <1>3 DEF Ending, CleanedUp
<1>13. Paid'
  BY <1>1, <1>2, <1>4 DEF Paid, linkVars
<1>14. QED
  BY <1>7, <1>8, <1>9, <1>10, <1>11, <1>12, <1>13

\* The client is closed after its cluster was waited for.
LEMMA ReapedKeeps ==
    ASSUME IInv, Reaped
    PROVE  IInv'
<1> USE DEF IInv
<1>1. /\ pc = "wait" /\ life = "exited" /\ socketFile' = (socketFile /\ ~uds)
      /\ UNCHANGED <<linkVars, uds, faults, call, lastDecision, asked, outcome, hasClient,
                     terminated, cancelled>>
      /\ uds \in BOOLEAN /\ socketFile \in BOOLEAN /\ outcome # "none"
  BY DEF Reaped, linkVars, clusterVars, TypeOK, ClientTypeOK, Ending
<1>2. socketFile' \in BOOLEAN /\ (uds => ~socketFile')
  BY <1>1
<1>3. CASE hasClient
  <2>1. pc' = "close" /\ CloseJob
    BY <1>3 DEF Reaped
  <2>2. /\ jobs' \in Seq(Jobs) /\ Len(jobs') = Len(jobs) + 1
        /\ \A i \in 1 .. Len(jobs) : jobs'[i] = jobs[i]
        /\ jobs'[Len(jobs')] = [what |-> "close", req |-> ModelRequest, awaited |-> TRUE]
        /\ answer' = Pending
    BY <2>1, SubmitDoes, RequestsAre DEF CloseJob, TypeOK
  <2>3. Len(jobs) \in Nat /\ \A i \in 1 .. Len(jobs) : ~jobs[i].awaited
    BY <1>1, LenProperties DEF Awaiting, TypeOK, ClientTypeOK
  <2>4. ClientTypeOK'
    BY <1>1, <2>2, ClientFrame DEF TypeOK, ClientTypeOK
  <2>5. TypeOK'
    BY <1>1, <1>2, <2>1, <2>4 DEF TypeOK, Awaits
  <2>6. InStep'
    BY <1>1 DEF InStep, linkVars
  <2>7. OnTheirWay'
    <3>1. \A i \in 1 .. Len(jobs') : jobs'[i].what = "send" => jobs'[i].req = call.req
      BY <2>2, <2>3 DEF OnTheirWay
    <3>2. QED
      BY <1>1, <3>1, WayFrame DEF linkVars
  <2>8. Due' = Due
    BY <1>1, DueFrame DEF linkVars
  <2>9. Running("send") => Running("send")'
    <3>1. jobs \in Seq(Jobs)
      BY DEF TypeOK, ClientTypeOK
    <3>2. jobs # <<>> => jobs' # <<>> /\ Head(jobs') = Head(jobs)
      BY <2>2, <3>1, EmptySeq
    <3>3. QED
      BY <3>2 DEF Running
  <2>10. Aligned'
    BY <1>1, <2>8, <2>9 DEF Aligned, linkVars
  <2>11. Awaiting'
    <3>1. jobs' # <<>> /\ \A i \in 1 .. Len(jobs') : jobs'[i].awaited <=> i = Len(jobs')
      BY <2>2, <2>3
    <3>2. QED
      BY <1>1, <1>3, <2>1, <2>2, <3>1 DEF Awaiting
  <2>12. Ending' /\ Paid'
    BY <1>1, <1>2, <2>1 DEF Ending, CleanedUp, Paid, linkVars
  <2>13. QED
    BY <2>5, <2>6, <2>7, <2>10, <2>11, <2>12
<1>4. CASE ~hasClient
  <2>1. pc' = "done" /\ UNCHANGED <<jobs, answer>> /\ jobs = <<>> /\ sock = 0
    BY <1>4 DEF Reaped, Awaiting
  <2>2. ClientTypeOK' /\ InStep' /\ OnTheirWay' /\ Aligned'
    BY <1>1, <2>1, QuietFrame
  <2>3. TypeOK'
    BY <1>1, <1>2, <2>1, <2>2 DEF TypeOK, Awaits
  <2>4. Awaiting'
    BY <1>1, <1>4, <2>1 DEF Awaiting, linkVars
  <2>5. Ending' /\ Paid'
    BY <1>1, <1>2, <2>1 DEF Ending, CleanedUp, Paid, linkVars
  <2>6. QED
    BY <2>2, <2>3, <2>4, <2>5
<1>5. QED
  BY <1>3, <1>4

\* The jobs of a scenario that is cancelled stay, and nobody awaits them.
LEMMA CancelKeeps ==
    ASSUME IInv, Cancel
    PROVE  IInv'
<1> USE DEF IInv
<1>1. /\ pc # "done" /\ cancelled' = pc /\ Abandon
      /\ UNCHANGED <<linkVars, uds, faults, call, lastDecision, asked, hasClient, socketFile>>
      /\ uds \in BOOLEAN /\ pc \in Awaits /\ jobs \in Seq(Jobs)
  BY DEF Cancel, linkVars, clusterVars, TypeOK, ClientTypeOK
<1>2. \/ /\ pc \in {"wait", "close"} /\ pc' = "done" /\ UNCHANGED <<outcome, terminated>>
      \/ /\ pc \notin {"wait", "close"} /\ pc' = "wait"
         /\ outcome' = "cancelled" /\ terminated' = TRUE
  BY DEF Cancel, Leave
<1>3. /\ jobs' \in Seq(Jobs) /\ Len(jobs') = Len(jobs) /\ Len(jobs) \in Nat
      /\ \A i \in 1 .. Len(jobs) :
            /\ jobs'[i].what = jobs[i].what
            /\ jobs'[i].req = jobs[i].req
            /\ ~jobs'[i].awaited
      /\ answer' = Pending
  BY <1>1, AbandonDoes, LenProperties DEF TypeOK
<1>4. ClientTypeOK'
  BY <1>1, <1>3, ClientFrame DEF TypeOK, ClientTypeOK
<1>5. TypeOK'
  <2>1. outcome' \in {"none"} \cup Verdict \cup Failures /\ terminated' \in BOOLEAN
    BY <1>2 DEF TypeOK, Failures
  <2>2. pc' \in Awaits
    BY <1>2 DEF Awaits
  <2>3. QED
    BY <1>1, <1>4, <2>1, <2>2 DEF TypeOK
<1>6. InStep'
  BY <1>1 DEF InStep, linkVars
<1>7. OnTheirWay'
  <2>1. \A i \in 1 .. Len(jobs') : jobs'[i].what = "send" => jobs'[i].req = call.req
    BY <1>3 DEF OnTheirWay
  <2>2. QED
    BY <1>1, <2>1, WayFrame DEF linkVars
<1>8. Due' = Due
  BY <1>1, DueFrame DEF linkVars
<1>9. jobs = <<>> <=> jobs' = <<>>
  BY <1>1, <1>3, EmptySeq
<1>10. Running("send") => Running("send")'
  <2>1. jobs # <<>> => Head(jobs) = jobs[1] /\ Head(jobs') = jobs'[1] /\ 1 \in 1 .. Len(jobs)
    BY <1>1, <1>3, <1>9, EmptySeq
  <2>2. QED
    BY <1>3, <1>9, <2>1 DEF Running
<1>11. Aligned'
  BY <1>1, <1>8, <1>10 DEF Aligned, linkVars
<1>12. Awaiting'
  BY <1>1, <1>2, <1>3, <1>9 DEF Awaiting, linkVars
<1>13. Ending' /\ Paid'
  BY <1>1, <1>2 DEF Ending, CleanedUp, Paid, Awaits
<1>14. QED
  BY <1>5, <1>6, <1>7, <1>11, <1>12, <1>13
-----------------------------------------------------------------------------
(***************************************************************************)
(* Steps of the io thread.                                                 *)
(***************************************************************************)
\* The io thread leaves the scenario to the coroutine.
LEMMA IoFrame ==
    ASSUME IInv, UNCHANGED <<clusterVars, scenarioVars, socketFile>>
    PROVE  InStep' /\ Due' = Due /\ Current' = Current
<1>1. Due' = Due
  BY DueFrame DEF clusterVars, scenarioVars
<1>2. Current' = Current
  BY DEF Current, scenarioVars
<1>3. InStep'
  BY DEF IInv, InStep, clusterVars, scenarioVars
<1>4. QED
  BY <1>1, <1>2, <1>3

\* The end of a job gives the coroutine what it waits for, if it waits for that
\* job, and takes nothing from one that has the end of it.
LEMMA JobEnds ==
    ASSUME IInv, jobs # <<>>, NEW a, Complete(a),
           UNCHANGED <<clusterVars, scenarioVars, socketFile>>,
           \/ Running("send") /\ a \in Due \cup {Failed}
           \/ Running("close") /\ a = Closed /\ sock' = 0
    PROVE  /\ jobs' \in Seq(Jobs) /\ answer' \in Replies \cup {Pending, Failed, Closed}
           /\ ~reading' /\ reading' \in BOOLEAN /\ uds' = uds
           /\ \A i \in 1 .. Len(jobs') : jobs'[i].what = "send" => jobs'[i].req = call.req
           /\ InStep' /\ Due' = Due /\ Awaiting' /\ Ending'
           /\ answer' = a \/ answer' = answer
           /\ pc = "call" => answer = Pending /\ answer' = a /\ Running("send")
           /\ pc = "reconnect" => answer' = Closed
<1> USE DEF IInv
<1>1. /\ jobs' \in Seq(Jobs) /\ Len(jobs) \in Nat \ {0} /\ Len(jobs') = Len(jobs) - 1
      /\ \A i \in 1 .. Len(jobs') : jobs'[i] = jobs[i + 1]
      /\ Head(jobs) = jobs[1]
      /\ Len(jobs) = 1 => jobs' = <<>>
      /\ answer' = IF jobs[1].awaited THEN a ELSE answer
      /\ uds' = uds /\ ~reading' /\ reading' \in BOOLEAN
  BY CompleteDoes DEF TypeOK
<1>2. answer' \in Replies \cup {Pending, Failed, Closed}
  <2>1. Due \subseteq Replies
    BY DEF Due
  <2>2. QED
    BY <1>1, <2>1 DEF TypeOK, ClientTypeOK
<1>3. InStep' /\ Due' = Due
  BY IoFrame
<1>4. \A i \in 1 .. Len(jobs') : i + 1 \in 1 .. Len(jobs) /\ (i + 1 = Len(jobs) <=> i = Len(jobs'))
  BY <1>1
<1>5. \A i \in 1 .. Len(jobs') : jobs'[i].what = "send" => jobs'[i].req = call.req
  BY <1>1, <1>4 DEF OnTheirWay
<1>6. pc = "call" => /\ answer = Pending /\ Running("send") /\ answer' = a /\ jobs' = <<>>
  <2>1. pc = "call" =>
            answer = Pending /\ jobs = <<[what |-> "send", req |-> call.req, awaited |-> TRUE]>>
    BY DEF Awaiting
  <2>2. QED
    BY <1>1, <2>1 DEF Running
<1>7. pc = "reconnect" => Running("close") /\ answer' = Closed /\ jobs' = <<>>
  <2>1. pc = "reconnect" => jobs = <<[what |-> "close", req |-> ModelRequest, awaited |-> TRUE]>>
    BY DEF Awaiting
  <2>2. QED
    BY <1>1, <2>1 DEF Running
<1>8. pc = "close" =>
        \/ /\ answer' = Pending /\ jobs' # <<>> /\ jobs'[Len(jobs')].what = "close"
           /\ \A i \in 1 .. Len(jobs') : jobs'[i].awaited <=> i = Len(jobs')
        \/ answer' = Closed /\ jobs' = <<>> /\ Running("close")
  <2> SUFFICES ASSUME pc = "close"
               PROVE  \/ /\ answer' = Pending /\ jobs' # <<>> /\ jobs'[Len(jobs')].what = "close"
                         /\ \A i \in 1 .. Len(jobs') : jobs'[i].awaited <=> i = Len(jobs')
                      \/ answer' = Closed /\ jobs' = <<>> /\ Running("close")
    OBVIOUS
  <2>1. /\ answer = Pending /\ jobs[Len(jobs)].what = "close"
        /\ \A i \in 1 .. Len(jobs) : jobs[i].awaited <=> i = Len(jobs)
    BY DEF Awaiting
  <2>2. CASE Len(jobs) = 1
    BY <1>1, <2>1, <2>2 DEF Running
  <2>3. CASE Len(jobs) # 1
    <3>1. jobs' # <<>> /\ Len(jobs') \in 1 .. Len(jobs')
      BY <1>1, <2>3, EmptySeq
    <3>2. answer' = Pending
      BY <1>1, <2>1, <2>3
    <3>3. QED
      BY <1>1, <1>4, <2>1, <3>1, <3>2
  <2>4. QED
    BY <2>2, <2>3
<1>9. pc \in {"wait", "done"} => \A i \in 1 .. Len(jobs') : ~jobs'[i].awaited
  BY <1>1, <1>4 DEF Awaiting
<1>10. hasClient
  BY DEF Awaiting
<1>11. Awaiting'
  BY <1>1, <1>3, <1>6, <1>7, <1>8, <1>9, <1>10 DEF Awaiting, Running, scenarioVars
<1>12. Ending'
  BY <1>1 DEF Ending, CleanedUp, clusterVars, scenarioVars
<1>13. QED
  BY <1>1, <1>2, <1>3, <1>5, <1>6, <1>7, <1>11, <1>12

LEMMA ConnectKeeps ==
    ASSUME IInv, Connect, UNCHANGED <<scenarioVars, socketFile>>
    PROVE  IInv'
<1> USE DEF IInv
<1> DEFINE link == [sent |-> <<>>, replies |-> <<>>]
<1>1. /\ jobs # <<>> /\ sock = 0 /\ Running("send")
      /\ conns' = Append(conns, link) /\ sock' = Len(conns')
      /\ UNCHANGED <<clusterVars, uds, jobs, reading, answer, faults>>
  BY DEF Connect, Running
<1>2. link \in Links /\ link.sent = <<>> /\ link.replies = <<>>
  BY EmptySeq DEF Links
<1> HIDE DEF link
<1>3. conns \in Seq(Links) /\ Len(conns) \in Nat
  BY LenProperties DEF TypeOK, ClientTypeOK
<1>4. /\ conns' \in Seq(Links) /\ Len(conns') = Len(conns) + 1
      /\ \A c \in 1 .. Len(conns) : conns'[c] = conns[c]
      /\ conns'[Len(conns')] = link
  BY <1>1, <1>2, <1>3
<1>5. sock' \in 0 .. Len(conns') /\ sock' # 0
  BY <1>1, <1>3, <1>4
<1>6. InStep' /\ Due' = Due /\ Current' = Current
  BY <1>1, IoFrame
<1>7. ClientTypeOK'
  BY <1>1, <1>4, <1>5 DEF TypeOK, ClientTypeOK, clusterVars
<1>8. TypeOK'
  BY <1>7 DEF TypeOK, scenarioVars
<1>9. OnTheirWay'
  <2>1. <<>> \in Seq(Current)
    BY EmptySeq
  <2>2. \A c \in 1 .. Len(conns') : c \in 1 .. Len(conns) \/ c = Len(conns')
    BY <1>3, <1>4
  <2>3. \A c \in 1 .. Len(conns') : conns'[c].sent \in Seq(Current)
    BY <1>2, <1>4, <2>1, <2>2 DEF OnTheirWay
  <2>4. QED
    BY <1>1, <1>6, <2>3 DEF OnTheirWay, scenarioVars
<1>10. Aligned'
  BY <1>1, <1>2, <1>4 DEF Aligned
<1>11. Awaiting'
  BY <1>1, <1>6 DEF Awaiting, scenarioVars
<1>12. Ending' /\ Paid'
  BY <1>1 DEF Ending, CleanedUp, Paid, clusterVars, scenarioVars
<1>13. QED
  BY <1>6, <1>8, <1>9, <1>10, <1>11, <1>12

\* A connection or a request that fails: the request has its answer, and over
\* the socket that was a fault if the cluster still lives.
LEMMA AttemptLost ==
    ASSUME IInv, Running("send"), Complete(Failed), sock' = 0,
           UNCHANGED <<clusterVars, conns, scenarioVars, socketFile>>,
           \/ Fault
           \/ faults' = faults /\ (uds /\ asked > 0 => life = "exited")
    PROVE  IInv'
<1> USE DEF IInv
<1>1. /\ jobs' \in Seq(Jobs) /\ answer' \in Replies \cup {Pending, Failed, Closed}
      /\ ~reading' /\ reading' \in BOOLEAN /\ uds' = uds
      /\ \A i \in 1 .. Len(jobs') : jobs'[i].what = "send" => jobs'[i].req = call.req
      /\ InStep' /\ Awaiting' /\ Ending'
      /\ answer' = Failed \/ answer' = answer
      /\ pc = "call" => answer = Pending /\ answer' = Failed
      /\ pc # "reconnect"
  <2>1. jobs # <<>>
    BY DEF Running
  <2>2. pc # "reconnect"
    BY DEF Awaiting, Running
  <2>3. QED
    BY <2>1, <2>2, JobEnds
<1>2. faults \in 0 .. MaxFaults /\ faults' \in 0 .. MaxFaults
  <2>1. faults \in 0 .. MaxFaults
    BY DEF TypeOK, ClientTypeOK
  <2>2. QED
    BY <2>1, LimitsAre DEF Fault
<1>3. 0 \in 0 .. Len(conns)
  BY ConnectionsAre
<1>4. ClientTypeOK'
  BY <1>1, <1>2, <1>3 DEF TypeOK, ClientTypeOK, clusterVars
<1>5. TypeOK'
  BY <1>4 DEF TypeOK, scenarioVars
<1>6. OnTheirWay'
  BY <1>1, WayFrame DEF scenarioVars
<1>7. Aligned'
  BY <1>1 DEF Aligned
<1>8. Paid'
  <2> SUFFICES ASSUME uds, asked > 0, life # "exited", pc = "call"
               PROVE  faults' >= call.tries /\ answer' = Failed
    BY <1>1 DEF Paid, clusterVars, scenarioVars
  <2>1. faults + 1 >= call.tries /\ faults' = faults + 1
    BY <1>1, AnswersAre DEF Paid, Fault
  <2>2. QED
    BY <1>1, <2>1
<1>9. QED
  BY <1>1, <1>5, <1>6, <1>7, <1>8

LEMMA ConnectFailsKeeps ==
    ASSUME IInv, ConnectFails, UNCHANGED <<scenarioVars, socketFile>>
    PROVE  IInv'
<1>1. Listening \/ (asked > 0 => life = "exited")
  BY DEF IInv, InStep, Answerable, Listening
<1>2. Fault \/ (faults' = faults /\ (uds /\ asked > 0 => life = "exited"))
  BY <1>1 DEF ConnectFails
<1>3. QED
  BY <1>2, AttemptLost DEF ConnectFails

LEMMA TransportFailsKeeps ==
    ASSUME IInv, TransportFails, UNCHANGED <<scenarioVars, socketFile>>
    PROVE  IInv'
  BY AttemptLost DEF TransportFails

LEMMA WriteRequestKeeps ==
    ASSUME IInv, WriteRequest, UNCHANGED <<scenarioVars, socketFile>>
    PROVE  IInv'
<1> USE DEF IInv
<1>1. /\ Running("send") /\ jobs # <<>> /\ sock # 0 /\ ~reading /\ reading' = TRUE
      /\ conns' = [conns EXCEPT ![sock].sent = Append(@, Head(jobs).req)]
      /\ UNCHANGED <<clusterVars, uds, sock, jobs, answer, faults>>
  BY DEF WriteRequest, Running
<1>2. /\ conns \in Seq(Links) /\ sock \in 1 .. Len(conns) /\ Len(conns) \in Nat
      /\ conns[sock].sent = <<>> /\ conns[sock].replies = <<>>
  <2>1. conns \in Seq(Links) /\ sock \in 1 .. Len(conns) /\ Len(conns) \in Nat
    BY <1>1, ConnectionsAre DEF Aligned
  <2>2. QED
    BY <1>1, <2>1 DEF Aligned
<1>3. Head(jobs).req = call.req /\ call.req \in Requests
  <2>1. jobs \in Seq(Jobs) /\ call.req \in Requests
    BY DEF TypeOK, ClientTypeOK
  <2>2. Head(jobs) = jobs[1] /\ 1 \in 1 .. Len(jobs)
    BY <1>1, <2>1, EmptySeq
  <2>3. QED
    BY <1>1, <2>1, <2>2 DEF OnTheirWay, Running
<1> DEFINE link == [sent |-> <<call.req>>, replies |-> <<>>]
<1>4. conns' = [conns EXCEPT ![sock] = link]
  <2>1. conns[sock] \in Links
    BY <1>2
  <2>2. Append(conns[sock].sent, call.req) = <<call.req>>
    BY <1>2
  <2>3. [conns[sock] EXCEPT !.sent = <<call.req>>] = link
    <3>1. \A x : [conns[sock] EXCEPT !.sent = x] = [sent |-> x, replies |-> conns[sock].replies]
      BY <2>1, LinkWith DEF Links
    <3>2. QED
      BY <1>2, <3>1
  <2>4. QED
    BY <1>1, <1>2, <1>3, <2>2, <2>3
<1>5. link \in Links /\ link.sent = <<call.req>> /\ link.replies = <<>>
  BY <1>3, EmptySeq DEF Links
<1>6. <<call.req>> \in Seq(Current)
  <2>1. call.req.kind = "step" => call.req.id = lastDecision
    BY NumbersAre DEF InStep
  <2>2. call.req \in Current
    BY <1>3, <2>1, NumbersAre DEF Current
  <2>3. QED
    BY <2>2
<1> HIDE DEF link
<1>7. /\ conns' \in Seq(Links) /\ Len(conns') = Len(conns)
      /\ \A c \in 1 .. Len(conns) : conns'[c] = IF c = sock THEN link ELSE conns[c]
  BY <1>2, <1>4, <1>5, ExceptSeq
<1>8. InStep' /\ Due' = Due /\ Current' = Current
  BY <1>1, IoFrame
<1>9. ClientTypeOK'
  BY <1>1, <1>7 DEF TypeOK, ClientTypeOK, clusterVars
<1>10. TypeOK'
  BY <1>9 DEF TypeOK, scenarioVars
<1>11. OnTheirWay'
  BY <1>1, <1>5, <1>6, <1>7, <1>8 DEF OnTheirWay, scenarioVars
<1>12. Aligned'
  BY <1>1, <1>2, <1>5, <1>7 DEF Aligned, Running, scenarioVars
<1>13. Awaiting'
  BY <1>1, <1>8 DEF Awaiting, scenarioVars
<1>14. Ending' /\ Paid'
  BY <1>1 DEF Ending, CleanedUp, Paid, clusterVars, scenarioVars
<1>15. QED
  BY <1>8, <1>10, <1>11, <1>12, <1>13, <1>14

LEMMA ReadReplyKeeps ==
    ASSUME IInv, ReadReply, UNCHANGED <<scenarioVars, socketFile>>
    PROVE  IInv'
<1> USE DEF IInv
<1> DEFINE reply == Head(conns[sock].replies)
<1>1. /\ Running("send") /\ jobs # <<>> /\ reading /\ conns[sock].replies # <<>>
      /\ Complete(reply)
      /\ conns' = [conns EXCEPT ![sock].replies = Tail(@)]
      /\ UNCHANGED <<clusterVars, sock, faults>>
  BY DEF ReadReply, Running
<1>2. /\ conns \in Seq(Links) /\ sock \in 1 .. Len(conns) /\ Len(conns) \in Nat
      /\ conns[sock].sent = <<>> /\ Tail(conns[sock].replies) = <<>> /\ reply \in Due
  <2>1. conns \in Seq(Links) /\ sock \in 1 .. Len(conns) /\ Len(conns) \in Nat
    BY <1>1, ConnectionsAre DEF Aligned
  <2>2. QED
    BY <1>1, <2>1 DEF Aligned
<1> DEFINE link == [sent |-> <<>>, replies |-> <<>>]
<1>3. conns' = [conns EXCEPT ![sock] = link]
  <2>1. conns[sock] \in Links
    BY <1>2
  <2>2. [conns[sock] EXCEPT !.replies = <<>>] = link
    BY <1>2, <2>1, LinkWith DEF Links
  <2>3. QED
    BY <1>1, <1>2, <2>2
<1>4. link \in Links /\ link.sent = <<>> /\ link.replies = <<>>
  BY EmptySeq DEF Links
<1> HIDE DEF link, reply
<1>5. /\ conns' \in Seq(Links) /\ Len(conns') = Len(conns)
      /\ \A c \in 1 .. Len(conns) : conns'[c] = IF c = sock THEN link ELSE conns[c]
  BY <1>2, <1>3, <1>4, ExceptSeq
<1>6. /\ jobs' \in Seq(Jobs) /\ answer' \in Replies \cup {Pending, Failed, Closed}
      /\ ~reading' /\ reading' \in BOOLEAN /\ uds' = uds
      /\ \A i \in 1 .. Len(jobs') : jobs'[i].what = "send" => jobs'[i].req = call.req
      /\ InStep' /\ Awaiting' /\ Ending'
      /\ pc = "call" => answer = Pending /\ answer' = reply
  BY <1>1, <1>2, JobEnds
<1>7. Current' = Current
  BY <1>1, IoFrame
<1>8. ClientTypeOK'
  BY <1>1, <1>5, <1>6 DEF TypeOK, ClientTypeOK, clusterVars
<1>9. TypeOK'
  BY <1>8 DEF TypeOK, scenarioVars
<1>10. OnTheirWay'
  <2>1. <<>> \in Seq(Current)
    BY EmptySeq
  <2>2. QED
    BY <1>4, <1>5, <1>6, <1>7, <2>1 DEF OnTheirWay, scenarioVars
<1>11. Aligned'
  BY <1>1, <1>2, <1>4, <1>5, <1>6 DEF Aligned
<1>12. Paid'
  <2>1. reply # Failed
    BY <1>2, AnswersAre DEF Due
  <2>2. QED
    BY <1>1, <1>6, <2>1, AnswersAre DEF Paid, clusterVars, scenarioVars
<1>13. QED
  BY <1>6, <1>9, <1>10, <1>11, <1>12

LEMMA CloseSyncKeeps ==
    ASSUME IInv, CloseSync, UNCHANGED <<scenarioVars, socketFile>>
    PROVE  IInv'
<1> USE DEF IInv
<1>1. /\ Running("close") /\ jobs # <<>> /\ sock' = 0 /\ Complete(Closed)
      /\ UNCHANGED <<clusterVars, conns, faults>>
  BY DEF CloseSync, Running
<1>2. /\ jobs' \in Seq(Jobs) /\ answer' \in Replies \cup {Pending, Failed, Closed}
      /\ ~reading' /\ reading' \in BOOLEAN /\ uds' = uds
      /\ \A i \in 1 .. Len(jobs') : jobs'[i].what = "send" => jobs'[i].req = call.req
      /\ InStep' /\ Awaiting' /\ Ending'
      /\ answer' = Closed \/ answer' = answer
      /\ pc # "call"
  <2>1. pc # "call"
    BY <1>1 DEF Awaiting, Running
  <2>2. QED
    BY <1>1, <2>1, JobEnds
<1>3. 0 \in 0 .. Len(conns)
  BY ConnectionsAre
<1>4. ClientTypeOK'
  BY <1>1, <1>2, <1>3 DEF TypeOK, ClientTypeOK, clusterVars
<1>5. TypeOK'
  BY <1>4 DEF TypeOK, scenarioVars
<1>6. OnTheirWay'
  BY <1>1, <1>2, WayFrame DEF scenarioVars
<1>7. Aligned'
  BY <1>1, <1>2 DEF Aligned
<1>8. Paid'
  BY <1>1, <1>2 DEF Paid, clusterVars, scenarioVars
<1>9. QED
  BY <1>2, <1>5, <1>6, <1>7, <1>8
-----------------------------------------------------------------------------
(***************************************************************************)
(* Steps of the cluster.                                                   *)
(***************************************************************************)
\* The cluster starts, crashes or is stopped.
LEMMA LifeKeeps ==
    ASSUME IInv, UNCHANGED <<decision, lastBatch, ended, conns, clientVars, scenarioVars>>,
           faults' = faults \/ Fault,
           \/ ClusterStarts /\ socketFile' \in BOOLEAN
           \/ life # "exited" /\ life' = "exited" /\ UNCHANGED socketFile
    PROVE  IInv'
<1> USE DEF IInv
<1>1. /\ life' \in {"printed", "bound", "up", "exited"} /\ life # "exited"
      /\ life \in Answerable => life' \in Answerable
      /\ socketFile' \in BOOLEAN
  BY DEF ClusterStarts, Answerable, TypeOK
<1>2. faults' \in 0 .. MaxFaults
  <2>1. faults \in 0 .. MaxFaults
    BY DEF TypeOK, ClientTypeOK
  <2>2. QED
    BY <2>1, LimitsAre DEF Fault
<1>3. ClientTypeOK'
  BY <1>1, <1>2 DEF TypeOK, ClientTypeOK, clientVars
<1>4. TypeOK'
  BY <1>1, <1>3 DEF TypeOK, scenarioVars
<1>5. InStep'
  BY <1>1 DEF InStep, scenarioVars
<1>6. Due \subseteq Due'
  BY <1>1 DEF Due, scenarioVars
<1>7. OnTheirWay'
  BY WayFrame DEF OnTheirWay, clientVars, scenarioVars
<1>8. Aligned'
  BY <1>6 DEF Aligned, Running, clientVars, scenarioVars
<1>9. Awaiting'
  BY <1>6 DEF Awaiting, clientVars, scenarioVars
<1>10. Ending'
  BY <1>1 DEF Ending, CleanedUp, clientVars, scenarioVars
<1>11. Paid'
  <2>1. faults \in Nat /\ (faults' = faults \/ faults' = faults + 1)
    BY NumbersAre DEF Fault
  <2>2. call.tries \in Nat
    BY DEF TypeOK
  <2>3. life \in Answerable /\ life # "exited" => life = "up"
    BY DEF Answerable
  <2>4. QED
    BY <1>1, <2>1, <2>2, <2>3 DEF Paid, clientVars, scenarioVars
<1>12. QED
  BY <1>4, <1>5, <1>7, <1>8, <1>9, <1>10, <1>11

\* What serving a request of connection c does. It is a step of the log only if
\* the policy is ahead.
ServeEffect(c) ==
    \E kind \in StepResult \cup {"model", "error"} :
        LET req == Head(conns[c].sent) IN
        /\ c \in 1 .. Len(conns)
        /\ life = "up"
        /\ conns[c].sent # <<>>
        /\ conns' = [conns EXCEPT
                        ![c] = [sent |-> Tail(conns[c].sent),
                                replies |-> Append(conns[c].replies,
                                                   [kind |-> kind, id |-> decision'])]]
        /\ \/ /\ decision = asked - 1 /\ decision' = asked /\ ended = "open"
              /\ lastBatch' = call.req.batch
              /\ ended' \in Verdict \cup {"open"}
              /\ ended' = "open" => decision' < MaxDecisions
              /\ decision' \in 0 .. MaxDecisions
           \/ UNCHANGED <<decision, lastBatch, ended>>
        /\ req = call.req =>
            /\ req.kind = "model" => kind = "model"
            /\ req.kind # "model" =>
                /\ kind = IF ended' = "open" THEN "observation" ELSE ended'
                /\ decision' = asked
        /\ UNCHANGED <<life, clientVars, scenarioVars, faults, socketFile>>

\* The cluster takes the first request of a connection and appends its reply.
LEMMA LinkServed ==
    ASSUME NEW S, NEW T, NEW f \in Seq([sent : S, replies : T]), NEW c \in 1 .. Len(f), NEW x
    PROVE  [f EXCEPT ![c].sent = Tail(@), ![c].replies = Append(@, x)] =
               [f EXCEPT ![c] = [sent |-> Tail(f[c].sent), replies |-> Append(f[c].replies, x)]]
<1> DEFINE served == [sent |-> Tail(f[c].sent), replies |-> Append(f[c].replies, x)]
<1>1. f \in [1 .. Len(f) -> [sent : S, replies : T]] /\ f[c] \in [sent : S, replies : T]
  BY LenProperties
<1>2. [[f[c] EXCEPT !.sent = Tail(@)] EXCEPT !.replies = Append(@, x)] = served
  <2> DEFINE shorter == [f[c] EXCEPT !.sent = Tail(@)]
  <2>1. \A y : [f[c] EXCEPT !.sent = y] = [sent |-> y, replies |-> f[c].replies]
    BY <1>1, LinkWith
  <2>2. shorter = [sent |-> Tail(f[c].sent), replies |-> f[c].replies]
    BY <2>1
  <2> HIDE DEF shorter
  <2>3. shorter.replies = f[c].replies
    BY <2>2
  <2>4. \A w : [shorter EXCEPT !.replies = w] = [sent |-> Tail(f[c].sent), replies |-> w]
    <3>1. shorter \in [sent : {Tail(f[c].sent)}, replies : {f[c].replies}]
      BY <2>2
    <3>2. \A w : [shorter EXCEPT !.replies = w] = [sent |-> shorter.sent, replies |-> w]
      BY <3>1, LinkWith
    <3>3. shorter.sent = Tail(f[c].sent)
      BY <2>2
    <3>4. QED
      BY <3>2, <3>3
  <2>5. [shorter EXCEPT !.replies = Append(@, x)] = served
    BY <2>3, <2>4
  <2>6. QED
    BY <2>5 DEF shorter
<1>3. [f EXCEPT ![c].sent = Tail(@), ![c].replies = Append(@, x)] =
          [f EXCEPT ![c] = [[f[c] EXCEPT !.sent = Tail(@)] EXCEPT !.replies = Append(@, x)]]
  BY <1>1
<1>4. QED
  BY <1>2, <1>3

LEMMA ServeDoes ==
    ASSUME IInv, NEW c \in DOMAIN conns, Serve(c), UNCHANGED <<scenarioVars, socketFile>>
    PROVE  ServeEffect(c)
<1> USE DEF IInv
<1> DEFINE req == Head(conns[c].sent)
<1>1. c \in 1 .. Len(conns) /\ conns[c] \in Links
  BY ConnectionsAre
<1>2. /\ life = "up" /\ conns[c].sent # <<>>
      /\ UNCHANGED <<life, clientVars, scenarioVars, faults, socketFile>>
  BY DEF Serve
<1>3. req \in Current
  BY <1>1, <1>2, HeadTailProperties DEF OnTheirWay
<1> HIDE DEF req
<1>4. /\ req \in Requests /\ req.kind \in {"model", "state", "step"}
      /\ req.kind = "step" => /\ req.id \in 0 .. MaxDecisions - 1
                              /\ req.id <= lastDecision
                              /\ req.id = lastDecision => req.batch = call.req.batch
  <2>1. req \in Requests /\ (req.kind = "step" => /\ req.id <= lastDecision
                                                  /\ req.id = lastDecision => req.batch = call.req.batch)
    BY <1>3 DEF Current
  <2>2. req.kind \in {"model", "state", "step"}
    BY <2>1, RequestsAre DEF Requests
  <2>3. QED
    BY <2>1, <2>2, RequestsAre
<1> DEFINE current  == req.kind = "step" /\ req.id = decision /\ ended = "open"
           repeated == req.kind = "step" /\ req.id = decision - 1 /\ req.batch = lastBatch
           Kind(e)  == IF req.kind = "model" THEN "model"
                       ELSE IF req.kind = "state" \/ current \/ repeated
                       THEN Result(e) ELSE "error"
<1>5. PICK e \in Verdict \cup {"open"} :
        /\ IF current
           THEN /\ e = "open" => decision + 1 < MaxDecisions
                /\ decision' = decision + 1
                /\ lastBatch' = req.batch
           ELSE e = ended /\ UNCHANGED <<decision, lastBatch>>
        /\ ended' = e
        /\ conns' = [conns EXCEPT
                        ![c].sent = Tail(@),
                        ![c].replies = Append(@, [kind |-> Kind(e), id |-> decision'])]
  BY DEF Serve, req
<1> DEFINE kind == Kind(e)
<1>6. kind \in StepResult \cup {"model", "error"}
  BY DEF Result, StepResult
<1>7. /\ req.kind = "model" => kind = "model"
      /\ req.kind # "model" /\ (req.kind = "state" \/ current \/ repeated) =>
            kind = IF e = "open" THEN "observation" ELSE e
  BY DEF Result
<1> HIDE DEF kind
<1>8. conns' = [conns EXCEPT
                    ![c] = [sent |-> Tail(conns[c].sent),
                            replies |-> Append(conns[c].replies,
                                               [kind |-> kind, id |-> decision'])]]
  <2>1. conns' = [conns EXCEPT
                      ![c].sent = Tail(@),
                      ![c].replies = Append(@, [kind |-> kind, id |-> decision'])]
    BY <1>5 DEF kind
  <2>2. QED
    BY <1>1, <2>1, ConnectionsAre, LinkServed DEF Links
<1>9. /\ decision \in Nat /\ asked \in Nat /\ decision \in {asked - 1, asked}
      /\ asked = lastDecision + 1 /\ lastDecision \in Int
      /\ ended = "open" => decision < MaxDecisions
      /\ decision < asked => ended = "open"
      /\ asked > 0 /\ decision = asked => lastBatch = call.req.batch
  BY NumbersAre DEF InStep
<1>10. /\ current => /\ decision = asked - 1 /\ decision' = asked /\ ended = "open"
                     /\ lastBatch' = call.req.batch
                     /\ ended' \in Verdict \cup {"open"}
                     /\ ended' = "open" => decision' < MaxDecisions
                     /\ decision' \in 0 .. MaxDecisions
       /\ ~current => UNCHANGED <<decision, lastBatch, ended>>
  <2>1. CASE current
    <3>1. req.id = decision /\ req.id <= lastDecision
      BY <1>4, <2>1
    <3>2. decision = asked - 1 /\ req.id = lastDecision
      BY <1>9, <3>1
    <3>3. decision' = asked
      BY <1>5, <1>9, <2>1, <3>2
    <3>4. decision < MaxDecisions
      BY <1>9, <2>1
    <3>5. decision' \in 0 .. MaxDecisions
      BY <1>9, <3>2, <3>3, <3>4, LimitsAre
    <3>6. ended' = "open" => decision' < MaxDecisions
      BY <1>5, <1>9, <2>1
    <3>7. lastBatch' = call.req.batch
      BY <1>4, <1>5, <2>1, <3>2
    <3>8. QED
      BY <1>5, <2>1, <3>2, <3>3, <3>5, <3>6, <3>7
  <2>2. CASE ~current
    BY <1>5, <2>2
  <2>3. QED
    BY <2>1, <2>2
<1>11. ASSUME req = call.req
       PROVE  /\ req.kind = "model" => kind = "model"
              /\ req.kind # "model" =>
                   /\ kind = IF ended' = "open" THEN "observation" ELSE ended'
                   /\ decision' = asked
  <2>1. ended' = e
    BY <1>5
  <2>2. CASE req.kind = "state"
    <3>1. asked = 0
      BY <1>9, <1>11, <2>2 DEF InStep
    <3>2. decision = asked /\ ~current
      BY <1>9, <2>2, <3>1
    <3>3. QED
      BY <1>7, <1>10, <2>1, <2>2, <3>2
  <2>3. CASE req.kind = "step"
    <3>1. req.id = lastDecision /\ asked > 0
      BY <1>9, <1>11, <2>3 DEF InStep
    <3>2. CASE decision = asked - 1
      <4>1. current
        BY <1>9, <2>3, <3>1, <3>2
      <4>2. QED
        BY <1>7, <1>10, <2>1, <2>3, <4>1
    <3>3. CASE decision = asked
      <4>1. repeated /\ ~current
        BY <1>9, <1>11, <2>3, <3>1, <3>3
      <4>2. QED
        BY <1>7, <1>10, <2>1, <2>3, <3>3, <4>1
    <3>4. QED
      BY <1>9, <3>2, <3>3
  <2>4. QED
    BY <1>4, <1>7, <2>2, <2>3
<1> HIDE DEF current
<1>12. QED
  BY <1>1, <1>2, <1>6, <1>8, <1>10, <1>11 DEF ServeEffect, req

\* A reply is to the request at the head of its connection, and only the answer
\* to the last question moves the cluster.
LEMMA ServeKeeps ==
    ASSUME IInv, NEW c \in DOMAIN conns, Serve(c), UNCHANGED <<scenarioVars, socketFile>>
    PROVE  IInv'
<1> USE DEF IInv
<1> DEFINE req == Head(conns[c].sent)
<1>1. PICK kind \in StepResult \cup {"model", "error"} :
        /\ c \in 1 .. Len(conns)
        /\ life = "up"
        /\ conns[c].sent # <<>>
        /\ conns' = [conns EXCEPT
                        ![c] = [sent |-> Tail(conns[c].sent),
                                replies |-> Append(conns[c].replies,
                                                   [kind |-> kind, id |-> decision'])]]
        /\ \/ /\ decision = asked - 1 /\ decision' = asked /\ ended = "open"
              /\ lastBatch' = call.req.batch
              /\ ended' \in Verdict \cup {"open"}
              /\ ended' = "open" => decision' < MaxDecisions
              /\ decision' \in 0 .. MaxDecisions
           \/ UNCHANGED <<decision, lastBatch, ended>>
        /\ req = call.req =>
            /\ req.kind = "model" => kind = "model"
            /\ req.kind # "model" =>
                /\ kind = IF ended' = "open" THEN "observation" ELSE ended'
                /\ decision' = asked
        /\ UNCHANGED <<life, clientVars, scenarioVars, faults, socketFile>>
  BY ServeDoes DEF ServeEffect
<1> DEFINE reply == [kind |-> kind, id |-> decision']
           link  == [sent |-> Tail(conns[c].sent), replies |-> Append(conns[c].replies, reply)]
<1>2. /\ decision' \in 0 .. MaxDecisions /\ ended' \in Verdict \cup {"open"}
      /\ lastBatch' \in Batches \cup {"no batch"}
  <2>1. asked > 0 => call.req.batch \in Batches
    <3>1. asked > 0 => call.req \in Requests /\ call.req.kind = "step"
      BY DEF TypeOK, InStep
    <3>2. \A r \in Requests : r.kind = "step" => r.batch \in Batches
      BY RequestsAre DEF Requests
    <3>3. QED
      BY <3>1, <3>2
  <2>2. decision = asked - 1 => asked > 0
    BY NumbersAre
  <2>3. QED
    BY <1>1, <2>1, <2>2 DEF TypeOK, ClientTypeOK
<1>3. reply \in Replies
  BY <1>1, <1>2 DEF Replies
<1>4. conns[c] \in Links /\ conns[c].sent \in Seq(Requests) /\ conns[c].replies \in Seq(Replies)
  <2>1. c \in 1 .. Len(conns) /\ conns \in Seq(Links)
    BY <1>1, ConnectionsAre
  <2>2. conns[c] \in Links
    BY <2>1, ElementOfSeq
  <2>3. QED
    BY <2>2 DEF Links
<1>5. Tail(conns[c].sent) \in Seq(Current)
  BY <1>1, HeadTailProperties DEF OnTheirWay
<1>6. Tail(conns[c].sent) \in Seq(Requests) /\ Append(conns[c].replies, reply) \in Seq(Replies)
  <2> HIDE DEF reply
  <2>1. QED
    BY <1>1, <1>3, <1>4, HeadTailProperties
<1>7. /\ link \in Links /\ link.sent = Tail(conns[c].sent)
      /\ link.replies = Append(conns[c].replies, reply)
  <2> HIDE DEF reply
  <2>1. QED
    BY <1>6 DEF Links
<1>8. conns' = [conns EXCEPT ![c] = link]
  BY <1>1
<1> HIDE DEF link
<1>9. /\ conns' \in Seq(Links) /\ Len(conns') = Len(conns)
      /\ \A d \in 1 .. Len(conns) : conns'[d] = IF d = c THEN link ELSE conns[d]
  <2>1. c \in 1 .. Len(conns) /\ conns \in Seq(Links)
    BY <1>1, ConnectionsAre
  <2>2. QED
    BY <1>7, <1>8, <2>1, ExceptSeq
<1>10. ClientTypeOK'
  BY <1>1, <1>2, <1>9 DEF TypeOK, ClientTypeOK, clientVars
<1>11. TypeOK'
  BY <1>1, <1>10 DEF TypeOK, scenarioVars
<1>12. InStep'
  <2>1. decision \in Nat /\ asked \in Nat
    BY NumbersAre
  <2>2. QED
    BY <1>1, <2>1 DEF InStep, scenarioVars
<1>13. Current' = Current
  BY <1>1 DEF Current, scenarioVars
<1>14. OnTheirWay'
  BY <1>1, <1>5, <1>7, <1>9, <1>13 DEF OnTheirWay, clientVars, scenarioVars
<1>15. Due \subseteq Due'
  BY <1>1, NumbersAre DEF Due, scenarioVars
<1>16. Aligned'
  <2>1. CASE reading /\ c = sock
    <3>1. conns[sock].sent = <<call.req>> /\ conns[sock].replies = <<>>
      BY <1>1, <2>1 DEF Aligned
    <3>2. req = call.req
      BY <2>1, <3>1
    <3>3. reply \in Due'
      BY <1>1, <1>3, <3>2 DEF Due, Answerable, scenarioVars
    <3>4. conns'[sock].sent = <<>> /\ conns'[sock].replies = <<reply>>
      <4>1. sock \in 1 .. Len(conns)
        BY <1>1, <2>1
      <4>2. Tail(<<call.req>>) = <<>> /\ Append(<<>>, reply) = <<reply>>
        OBVIOUS
      <4>3. QED
        BY <1>7, <1>9, <2>1, <3>1, <4>1, <4>2
    <3>5. conns'[sock].replies # <<>> /\ Tail(conns'[sock].replies) = <<>>
          /\ Head(conns'[sock].replies) \in Due'
      BY <3>3, <3>4
    <3>6. QED
      BY <1>1, <2>1, <3>4, <3>5 DEF Aligned, Running, clientVars, scenarioVars
  <2>2. CASE ~(reading /\ c = sock)
    <3>1. sock # 0 => c # sock /\ conns'[sock] = conns[sock]
      <4>1. sock # 0 => c # sock
        BY <1>1, <2>2 DEF Aligned
      <4>2. QED
        BY <1>9, <4>1, ConnectionsAre
    <3>2. QED
      BY <1>1, <1>15, <3>1 DEF Aligned, Running, clientVars, scenarioVars
  <2>3. QED
    BY <2>1, <2>2
<1>17. Awaiting'
  BY <1>1, <1>15 DEF Awaiting, clientVars, scenarioVars
<1>18. Ending' /\ Paid'
  BY <1>1 DEF Ending, CleanedUp, Paid, clientVars, scenarioVars
<1>19. QED
  BY <1>11, <1>12, <1>14, <1>16, <1>17, <1>18
-----------------------------------------------------------------------------
(***************************************************************************)
(* The theorems.                                                           *)
(***************************************************************************)
LEMMA StepKeeps ==
    ASSUME IInv, Next
    PROVE  IInv'
<1>1. CASE Coroutine
  BY <1>1, HandshakeKeeps, HandshakeFailsKeeps, SocketAppearsKeeps, SocketFailsKeeps,
     AttemptFailsKeeps, ReconnectedKeeps, RequestRaisesKeeps, ModelArrivesKeeps,
     ObserveKeeps, TerminalKeeps, ReapedKeeps, ClientClosedKeeps
     DEF Coroutine
<1>2. CASE IoThread
  BY <1>2, ConnectKeeps, ConnectFailsKeeps, WriteRequestKeeps, ReadReplyKeeps,
     TransportFailsKeeps, CloseSyncKeeps
     DEF IoThread, IoStep
<1>3. CASE ClusterBoots
  <2>1. socketFile' \in BOOLEAN
    BY <1>3 DEF ClusterBoots, IInv, TypeOK
  <2>2. QED
    BY <1>3, <2>1, LifeKeeps DEF ClusterBoots, ClusterStarts
<1>4. CASE ClusterServes
  BY <1>4, ServeKeeps DEF ClusterServes
<1>5. CASE ClusterStops
  BY <1>5, LifeKeeps DEF ClusterStops
<1>6. CASE ClusterFails
  BY <1>6, LifeKeeps DEF ClusterFails, ClusterCrashes
<1>7. CASE Cancel
  BY <1>7, CancelKeeps
<1>8. QED
  BY <1>1, <1>2, <1>3, <1>4, <1>5, <1>6, <1>7 DEF Next

LEMMA StutterKeeps ==
    ASSUME IInv, UNCHANGED vars
    PROVE  IInv'
<1> USE DEF IInv, vars, clusterVars, clientVars, scenarioVars
<1>1. UNCHANGED <<linkVars, clientVars, faults, socketFile, scenarioVars>>
  BY DEF linkVars
<1>2. ClientTypeOK' /\ InStep' /\ OnTheirWay' /\ Aligned' /\ Due' = Due
  BY <1>1, QuietFrame, NumbersAre
<1>3. TypeOK'
  BY <1>2 DEF TypeOK
<1>4. Awaiting' /\ Ending' /\ Paid'
  BY <1>2 DEF Awaiting, Ending, CleanedUp, Paid
<1>5. QED
  BY <1>2, <1>3, <1>4

\* The scenario and its cluster stay in step, whatever is lost, late or
\* repeated on the way: the invariant this module is about.
THEOREM InvariantHolds == Spec => []IInv
<1>1. IInv /\ [Next]_vars => IInv'
  BY StepKeeps, StutterKeeps
<1>2. QED
  BY <1>1, InitInvariant, PTL DEF Spec

\* Variables of client and scenario keep their types: no request is sent a
\* fourth time, and the policy is not asked for more decisions than there are.
THEOREM TypeCorrect == Spec => []TypeOK
<1>1. IInv => TypeOK
  BY DEF IInv
<1>2. QED
  BY <1>1, InvariantHolds, PTL

\* When execute_scenario is over, and was not cancelled in its finally, its
\* cluster has exited, its socket file is gone, its client holds no socket and
\* its io thread has nothing to do.
THEOREM LeavesNothing == Spec => []CleanedUp
<1>1. IInv => CleanedUp
  BY DEF IInv, Ending
<1>2. QED
  BY <1>1, InvariantHolds, PTL

\* What a step may do to how the execution ended: a report is the verdict of
\* the cluster, and the transport ends it after a fault for every attempt.
LEMMA OutcomeIs ==
    ASSUME IInv, Next, outcome' # outcome
    PROVE  /\ outcome = "none"
           /\ UNCHANGED <<asked, decision, ended>>
           /\ \/ outcome' \in Verdict /\ outcome' = ended
              \/ outcome' \in Failures \ {"rejected", "mismatch", "repeated"}
           /\ outcome' = "transport" /\ uds /\ asked > 0 => faults >= 3 \/ life = "exited"
<1> USE DEF IInv
<1>1. CASE HandshakeFails \/ SocketFails
  BY <1>1 DEF HandshakeFails, SocketFails, Leave, Ending, Failures, Verdict, clusterVars
<1>2. CASE Reconnected
  <2>1. /\ outcome = "none" /\ outcome' = "transport" /\ ~MayRetry
        /\ UNCHANGED <<asked, decision, ended>>
    BY <1>2 DEF Reconnected, Leave, Awaiting, Ending, clusterVars
  <2>2. uds /\ asked > 0 /\ life # "exited" => faults >= call.tries
    BY <1>2 DEF Reconnected, Paid
  <2>3. call.tries \in 0 .. 3
    BY DEF TypeOK
  <2>4. call.tries = 3
    BY <2>1, <2>3 DEF MayRetry
  <2>5. QED
    BY <2>1, <2>2, <2>4 DEF Failures
<1>3. CASE RequestRaises
  <2>1. outcome' = "transport" /\ ~uds /\ pc = "call"
    BY <1>3, RaisesTransport
  <2>2. QED
    BY <1>3, <2>1 DEF RequestRaises, Ending, Failures, clusterVars
<1>4. CASE ModelArrives
  BY <1>4 DEF ModelArrives, Start, Leave, Ending, Failures, clusterVars
<1>5. CASE Observe
  <2>1. pc = "call" /\ UNCHANGED <<decision, ended>> /\ answer.kind = "observation"
    BY <1>5 DEF Observe, clusterVars
  <2>2. answer.id = asked /\ lastDecision = asked - 1
    <3>1. answer # Pending /\ answer # Failed /\ call.req.kind # "model"
      BY <1>5, <2>1, AnswersAre DEF Observe
    <3>2. QED
      BY <2>1, <3>1, Answered, NumbersAre DEF InStep
  <2>3. answer.id # lastDecision
    BY <2>2, NumbersAre
  <2>4. outcome' = "policy_violation" /\ UNCHANGED asked
    BY <1>5, <2>3 DEF Observe, Start, Leave
  <2>5. QED
    BY <2>1, <2>4 DEF Ending, Failures
<1>6. CASE Terminal
  <2>1. /\ pc = "call" /\ UNCHANGED <<asked, decision, ended>>
        /\ outcome' = answer.kind /\ answer.kind \in Verdict /\ call.req.kind # "model"
    BY <1>6 DEF Terminal, Leave, clusterVars
  <2>2. answer # Pending /\ answer # Failed
    BY <2>1, AnswersAre DEF Verdict
  <2>3. answer.kind = ended
    BY <2>1, <2>2, Answered DEF Verdict
  <2>4. QED
    BY <2>1, <2>3 DEF Ending, Verdict
<1>7. CASE Cancel
  BY <1>7 DEF Cancel, Leave, Ending, Failures, TypeOK, Awaits, clusterVars
<1>8. QED
  BY <1>1, <1>2, <1>3, <1>4, <1>5, <1>6, <1>7
     DEF Next, Coroutine, Handshake, MakeClient, SocketAppears, AttemptFails, Reaped, ClientClosed,
         IoThread, ClusterBoots, ClusterServes, ClusterStops, ClusterFails, scenarioVars

\* Three attempts survive two faults: over the socket, once the cluster has
\* answered, the transport ends a scenario only if three things went wrong or
\* the cluster died.
THEOREM RetriesHold == Spec => RetriesSurvive
<1>1. IInv /\ [Next]_vars =>
        [outcome = "none" /\ outcome' = "transport" /\ uds /\ asked > 0
            => faults >= 3 \/ life = "exited"]_vars
  BY OutcomeIs DEF vars, scenarioVars
<1>2. QED
  BY <1>1, InvariantHolds, PTL DEF Spec, RetriesSurvive

(***************************************************************************)
(* The refinement.                                                         *)
(***************************************************************************)
\* A step that does not end the execution asks, is accepted, or is none of the
\* log.
LEMMA AskedOrAccepted ==
    ASSUME IInv, Next, outcome' = outcome
    PROVE  Decisions!Ask \/ Decisions!Accept \/ UNCHANGED <<asked, decision, ended, outcome>>
<1> USE DEF IInv
<1>1. CASE Observe
  <2>1. /\ pc = "call" /\ UNCHANGED <<decision, ended>> /\ answer.kind = "observation"
        /\ call.req.kind # "model" /\ outcome = "none"
    BY <1>1 DEF Observe, clusterVars, Ending
  <2>2. decision = asked /\ ended = "open"
    <3>1. answer # Pending /\ answer # Failed
      BY <2>1, AnswersAre
    <3>2. QED
      BY <2>1, <3>1, Answered
  <2>3. asked < MaxDecisions
    BY <2>2 DEF InStep
  <2>4. asked' = asked + 1
    BY <1>1, <2>1 DEF Observe, Leave
  <2>5. QED
    BY <2>1, <2>2, <2>3, <2>4 DEF Decisions!Ask
<1>2. CASE ClusterServes
  <2>1. PICK c \in DOMAIN conns : Serve(c) /\ UNCHANGED <<scenarioVars, socketFile>>
    BY <1>2 DEF ClusterServes
  <2>2. \/ decision = asked - 1 /\ decision' = asked /\ ended' \in Verdict \cup {"open"}
        \/ UNCHANGED <<decision, ended>>
    BY <2>1, ServeDoes DEF ServeEffect
  <2>3. UNCHANGED <<asked, outcome>>
    BY <2>1 DEF scenarioVars
  <2>4. QED
    BY <2>2, <2>3, NumbersAre DEF Decisions!Accept
<1>3. QED
  BY <1>1, <1>2
     DEF Next, Coroutine, Handshake, HandshakeFails, MakeClient, Start, SocketAppears, SocketFails,
         AttemptFails, Reconnected, RequestRaises, ModelArrives, Terminal, Reaped, ClientClosed,
         IoThread, IoStep, Connect, ConnectFails, WriteRequest, ReadReply, TransportFails, CloseSync,
         ClusterBoots, ClusterStarts, ClusterStops, ClusterFails, ClusterCrashes, Cancel,
         scenarioVars, clusterVars

\* The scheduler implements DecisionLog: the policy decides each decision once
\* and in order, the cluster accepts each answer once before the next question
\* is put, and what is reported is the verdict of the cluster, whatever requests
\* and replies were lost, late or repeated.
THEOREM DecisionsAreImplemented == Spec => ImplementsDecisions
<1>1. Init => Decisions!LogInit
  BY DEF Init, ClientInit, Decisions!LogInit
<1>2. IInv /\ [Next]_vars => [Decisions!LogNext]_(Decisions!logVars)
  <2> SUFFICES ASSUME IInv, [Next]_vars
               PROVE  [Decisions!LogNext]_(Decisions!logVars)
    OBVIOUS
  <2>1. CASE UNCHANGED vars
    BY <2>1 DEF vars, clusterVars, scenarioVars, Decisions!logVars
  <2>2. CASE Next /\ outcome' = outcome
    BY <2>2, AskedOrAccepted DEF Decisions!LogNext, Decisions!logVars
  <2>3. CASE Next /\ outcome' # outcome
    <3>1. /\ outcome = "none" /\ UNCHANGED <<asked, decision, ended>>
          /\ \/ outcome' \in Verdict /\ outcome' = ended
             \/ outcome' \in Failures \ {"rejected", "mismatch", "repeated"}
      BY <2>3, OutcomeIs
    <3>2. QED
      BY <3>1 DEF Decisions!LogNext, Decisions!Report, Decisions!Fail
  <2>4. QED
    BY <2>1, <2>2, <2>3
<1>3. QED
  BY <1>1, <1>2, InvariantHolds, PTL DEF Spec, ImplementsDecisions, Decisions!LogSpec
=====
