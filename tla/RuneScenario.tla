---------------------------- MODULE RuneScenario ----------------------------
(***************************************************************************)
(* One scenario of 06-rune: execute_scenario of rune_scheduler/matrix.py,  *)
(* the Scheduler and the policy it asks, over the ClusterClient.           *)
(*                                                                         *)
(* The scenario is a coroutine. "pc" is the await it is suspended in, and  *)
(* an action is what it does from there to the next await. It may be       *)
(* cancelled in any of them, once: run_matrix gathers the scenarios, and   *)
(* when one of the others raises, asyncio.run cancels the rest.            *)
(***************************************************************************)
EXTENDS ClusterClient

VARIABLES
    pc,         \* the await the coroutine is suspended in
    call,       \* the request in progress, its attempts and its last_error
    lastDecision, \* last_decision of Scheduler.run
    asked,      \* how many times the policy was asked and decided
    outcome,    \* how the body of execute_scenario ended
    hasClient,  \* client is not None
    terminated, \* process.terminate() was called
    socketFile, \* a file is at uds_path
    cancelled   \* the coroutine was cancelled: nowhere, or in which await

scenarioVars == <<pc, call, lastDecision, asked, outcome, hasClient, terminated,
                  cancelled>>
vars == <<clusterVars, conns, clientVars, faults, scenarioVars, socketFile>>

NoCall == [req |-> ModelRequest, tries |-> 0, why |-> "none"]

Init ==
    /\ ClientInit
    /\ pc = "readline"
    /\ call = NoCall
    /\ lastDecision = -1
    /\ asked = 0
    /\ outcome = "none"
    /\ hasClient = FALSE
    /\ terminated = FALSE
    /\ socketFile = FALSE
    /\ cancelled = "no"

(***************************************************************************)
(* Ways on from an await.                                                  *)
(***************************************************************************)
\* A faulty Leave: the cluster is left to end by itself.
LeaveAlive(o) ==
    /\ outcome' = o
    /\ pc' = "wait"
    /\ UNCHANGED terminated

\* The body is left, with a result or an exception: the first step of its
\* finally.
Leave(o) ==
    /\ outcome' = o
    /\ pc' = "wait"
    /\ terminated' = TRUE

\* ClusterClient.model, state and step, up to the await of the first attempt.
Start(req) ==
    /\ call' = [req |-> req, tries |-> 1, why |-> "none"]
    /\ pc' = "call"
    /\ Send(req)

(***************************************************************************)
(* From the start of the cluster to a client.                              *)
(***************************************************************************)
MakeClient ==
    /\ hasClient' = TRUE
    /\ Start(ModelRequest)
    /\ UNCHANGED <<sock, reading, lastDecision, asked, outcome, terminated, cancelled>>

\* The line came. It names a socket, or the client will speak HTTP.
Handshake ==
    /\ pc = "readline"
    /\ life \notin {"starting", "exited"}
    /\ \/ /\ uds' = TRUE
          /\ pc' = "socket"
          /\ UNCHANGED <<sock, jobs, reading, answer, call, lastDecision, asked,
                         outcome, hasClient, terminated, cancelled>>
       \/ uds' = FALSE /\ MakeClient
    /\ UNCHANGED <<clusterVars, conns, faults, socketFile>>

\* Ten seconds passed, or the cluster died and json.loads found no line.
HandshakeFails ==
    /\ pc = "readline"
    /\ IF life = "exited" THEN UNCHANGED faults ELSE Fault
    /\ Leave("startup")
    /\ UNCHANGED <<clusterVars, conns, clientVars, call, lastDecision, asked,
                   hasClient, cancelled, socketFile>>

\* _wait_for_uds: the file is there.
SocketAppears ==
    /\ pc = "socket"
    /\ socketFile
    /\ MakeClient
    /\ UNCHANGED <<clusterVars, conns, uds, faults, socketFile>>

SocketFails ==
    /\ pc = "socket"
    /\ ~socketFile
    /\ IF life = "exited" THEN UNCHANGED faults ELSE Fault
    /\ Leave("startup")
    /\ UNCHANGED <<clusterVars, conns, clientVars, call, lastDecision, asked,
                   hasClient, cancelled, socketFile>>

(***************************************************************************)
(* A request and its replies.                                              *)
(***************************************************************************)
\* The replies the except clause catches: no reply, one that rejects, and for a
\* step one of another kind. Only step converts inside its try.
Retried ==
    \/ answer = Failed
    \/ answer.kind = "error"
    \/ call.req.kind = "step" /\ answer.kind = "model"

Why == IF answer = Failed THEN "transport" ELSE "rejected"

\* The except clause, over the socket.
AttemptFails ==
    /\ pc = "call"
    /\ uds
    /\ Retried
    /\ call' = [call EXCEPT !.why = Why]
    /\ pc' = "reconnect"
    /\ CloseJob
    /\ UNCHANGED <<clusterVars, conns, uds, sock, reading, faults, lastDecision,
                   asked, outcome, hasClient, terminated, cancelled, socketFile>>

\* A faulty MayRetry, one attempt short, and one that counts the first apart.
RetryOnce  == call.tries < 2
RetryThrice == call.tries <= 3

MayRetry == call.tries < 3

\* A faulty Again: where does the scenario stand?
AskState == StateRequest

Again == call.req

Reconnected ==
    /\ pc = "reconnect"
    /\ answer = Closed
    /\ IF MayRetry
       THEN /\ call' = [call EXCEPT !.tries = @ + 1]
            /\ pc' = "call"
            /\ Send(Again)
            /\ UNCHANGED <<outcome, terminated>>
       ELSE Leave(call.why) /\ UNCHANGED <<call, jobs, answer>>
    /\ UNCHANGED <<clusterVars, conns, uds, sock, reading, faults, lastDecision,
                   asked, hasClient, cancelled, socketFile>>

\* The request raises at once. Over HTTP no transport failure gets to the except
\* clause of step, because _json_sync has made a ClusterClientError of it, and
\* model and state have none; over the socket the two assert what they return.
RequestRaises ==
    /\ pc = "call"
    /\ \/ Retried /\ ~uds /\ Leave(Why)
       \/ /\ ~Retried
          /\ answer.kind \in StepResult \cup {"model"}
          /\ (answer.kind = "model") # (call.req.kind = "model")
          /\ Leave("mismatch")
    /\ UNCHANGED <<clusterVars, conns, clientVars, faults, call, lastDecision,
                   asked, hasClient, cancelled, socketFile>>

\* The model is the one of the handshake or of another profile; the factory of
\* the policy may raise.
ModelArrives ==
    /\ pc = "call"
    /\ call.req.kind = "model"
    /\ answer.kind = "model"
    /\ \/ /\ Start(StateRequest)
          /\ UNCHANGED <<outcome, terminated>>
       \/ /\ \E o \in {"startup", "policy_violation"} : Leave(o)
          /\ UNCHANGED <<call, jobs, answer>>
    /\ UNCHANGED <<clusterVars, conns, uds, sock, reading, faults, lastDecision,
                   asked, hasClient, cancelled, socketFile>>

\* Scheduler.run: an Observation is put to the policy, which decides or raises.
Observe ==
    /\ pc = "call"
    /\ call.req.kind # "model"
    /\ answer.kind = "observation"
    /\ IF answer.id = lastDecision
       THEN Leave("repeated") /\ UNCHANGED <<call, jobs, answer, lastDecision, asked>>
       ELSE \/ /\ \E b \in Batches : Start(StepRequest(answer.id, b))
               /\ lastDecision' = answer.id
               /\ asked' = asked + 1
               /\ UNCHANGED <<outcome, terminated>>
            \/ /\ Leave("policy_violation")
               /\ UNCHANGED <<call, jobs, answer, lastDecision, asked>>
    /\ UNCHANGED <<clusterVars, conns, uds, sock, reading, faults, hasClient,
                   cancelled, socketFile>>

Terminal ==
    /\ pc = "call"
    /\ call.req.kind # "model"
    /\ answer.kind \in Verdict
    /\ Leave(answer.kind)
    /\ UNCHANGED <<clusterVars, conns, clientVars, faults, call, lastDecision,
                   asked, hasClient, cancelled, socketFile>>

(***************************************************************************)
(* The finally of execute_scenario, and a cancellation.                    *)
(***************************************************************************)
\* await process.wait() returns; the file is unlinked, the client closed.
Reaped ==
    /\ pc = "wait"
    /\ life = "exited"
    /\ socketFile' = (socketFile /\ ~uds)
    /\ IF hasClient THEN pc' = "close" /\ CloseJob
                    ELSE pc' = "done" /\ UNCHANGED <<jobs, answer>>
    /\ UNCHANGED <<clusterVars, conns, uds, sock, reading, faults, call,
                   lastDecision, asked, outcome, hasClient, terminated, cancelled>>

ClientClosed ==
    /\ pc = "close"
    /\ answer = Closed
    /\ pc' = "done"
    /\ UNCHANGED <<clusterVars, conns, clientVars, faults, call, lastDecision,
                   asked, outcome, hasClient, terminated, cancelled, socketFile>>

\* CancelledError in the body takes the coroutine to its finally, in the
\* finally past the rest of it.
Cancel ==
    /\ cancelled = "no"
    /\ pc # "done"
    /\ cancelled' = pc
    /\ Abandon
    /\ IF pc \in {"wait", "close"} THEN pc' = "done" /\ UNCHANGED <<outcome, terminated>>
                                   ELSE Leave("cancelled")
    /\ UNCHANGED <<clusterVars, conns, uds, sock, reading, faults, call,
                   lastDecision, asked, hasClient, socketFile>>

(***************************************************************************)
(* The process of the cluster: its socket file, and SIGTERM.               *)
(***************************************************************************)
ClusterBoots ==
    /\ ClusterStarts
    /\ socketFile' = (socketFile \/ life' = "bound")
    /\ UNCHANGED scenarioVars

ClusterServes ==
    /\ \E c \in DOMAIN conns : Serve(c)
    /\ UNCHANGED <<scenarioVars, socketFile>>

ClusterStops ==
    /\ terminated
    /\ life # "exited"
    /\ life' = "exited"
    /\ UNCHANGED <<decision, lastBatch, ended, conns, clientVars, faults,
                   scenarioVars, socketFile>>

ClusterFails == ClusterCrashes /\ UNCHANGED <<scenarioVars, socketFile>>

IoThread == IoStep /\ UNCHANGED <<scenarioVars, socketFile>>

Coroutine ==
    \/ Handshake \/ HandshakeFails \/ SocketAppears \/ SocketFails
    \/ AttemptFails \/ Reconnected \/ RequestRaises
    \/ ModelArrives \/ Observe \/ Terminal
    \/ Reaped \/ ClientClosed

Next ==
    \/ Coroutine \/ IoThread
    \/ ClusterBoots \/ ClusterServes \/ ClusterStops \/ ClusterFails
    \/ Cancel

\* Every thread and process is scheduled; a program that got SIGTERM ends.
Fairness ==
    /\ WF_vars(Coroutine)
    /\ WF_vars(IoThread)
    /\ WF_vars(ClusterBoots)
    /\ WF_vars(ClusterServes)
    /\ WF_vars(ClusterStops)

Spec     == Init /\ [][Next]_vars
FairSpec == Spec /\ Fairness
-----------------------------------------------------------------------------
Awaits   == {"readline", "socket", "call", "reconnect", "wait", "close", "done"}
Failures == {"startup", "transport", "rejected", "mismatch", "repeated",
             "policy_violation", "cancelled"}
\* The type invariant of the scenario and its client.
TypeOK ==
    /\ ClientTypeOK
    /\ pc \in Awaits
    /\ call \in [req : Requests, tries : 0 .. 3, why : {"none", "transport", "rejected"}]
    /\ lastDecision \in -1 .. MaxDecisions - 1
    /\ asked \in 0 .. MaxDecisions + 1
    /\ outcome \in {"none"} \cup Verdict \cup Failures
    /\ hasClient \in BOOLEAN
    /\ terminated \in BOOLEAN
    /\ socketFile \in BOOLEAN
    /\ cancelled \in {"no"} \cup Awaits

\* A request is sent three times so that two faults do not lose a scenario: over
\* the socket, once the cluster has answered, the transport ends one only if
\* three things went wrong or the cluster died.
RetriesSurvive ==
    [][outcome = "none" /\ outcome' = "transport" /\ uds /\ asked > 0
            => faults >= 3 \/ life = "exited"]_vars

\* When the scenario is over, its cluster has exited, its file is gone, its
\* client holds no socket and the io thread has nothing to do, unless it was
\* cancelled in its finally.
CleanedUp ==
    pc = "done" /\ cancelled \notin {"wait", "close"} =>
        /\ life = "exited"
        /\ uds => ~socketFile
        /\ sock = 0
        /\ jobs = <<>>

\* The policy is asked for each decision once and in order, each of its answers
\* is accepted once, and the result reported is that of the cluster. No reply is
\* taken for that of another request, however many were lost, late or repeated:
\* the cluster never rejects what it is sent, no assert fails, and "cluster
\* repeated a decision after an accepted step" is never raised.
Decisions == INSTANCE DecisionLog WITH
    Limit <- MaxDecisions, Verdicts <- Verdict,
    Failures <- Failures \ {"rejected", "mismatch", "repeated"},
    questions <- asked, accepted <- decision, verdict <- ended, report <- outcome

ImplementsDecisions == Decisions!LogSpec

\* The scenario ends, whatever fails.
ScenarioEnds == <>(pc = "done")
=============================================================================
