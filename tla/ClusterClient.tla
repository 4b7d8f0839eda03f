---------------------------- MODULE ClusterClient ----------------------------
(***************************************************************************)
(* The transport of a scenario of 06-rune: ClusterClient of                *)
(* rune_scheduler/client.py with its one io thread, and the cluster at the *)
(* other end of its connections.                                           *)
(*                                                                         *)
(* The coroutine of the scenario submits jobs and awaits their futures;    *)
(* the io thread (the executor of one thread, over HTTP) runs them one     *)
(* after the other, also those nobody awaits any more. The job it runs is  *)
(* the head of "jobs" until it is complete.                                *)
(*                                                                         *)
(* The cluster is a program without source. What it does is what the       *)
(* client, the README and its own error texts ("batch decision is not      *)
(* current", "decision already accepted with another batch") rely on.      *)
(***************************************************************************)
EXTENDS Integers, Sequences

CONSTANTS
    MaxDecisions,   \* of a scenario, safety_limits of its profile
    Batches,        \* what a policy may decide
    MaxFaults       \* how many faults the environment is good for

ASSUME ClientAssumption ==
    /\ MaxDecisions \in Nat \ {0}
    /\ Batches # {}
    /\ "no batch" \notin Batches
    /\ MaxFaults \in Nat

VARIABLES
    \* the cluster
    life,       \* "starting", "printed", "bound", "up" or "exited"
    decision,   \* how many batches it accepted: the current decision_id
    lastBatch,  \* the batch it accepted last
    ended,      \* "open", or the validity of its Terminal Result
    \* the connections, by number: what each end wrote and the other did not read
    conns,
    \* ClusterClient
    uds,        \* the handshake named a socket: uds_path is not None
    sock,       \* _sock (over HTTP _conn): a connection, or 0 for None
    jobs,       \* _jobs, and the job that the io thread runs at the head
    reading,    \* the io thread has written its request and reads the reply
    answer,     \* the future that the coroutine awaits
    faults      \* how many faults happened

clusterVars == <<life, decision, lastBatch, ended>>
clientVars  == <<uds, sock, jobs, reading, answer>>

Request(k, d, b)  == [kind |-> k, id |-> d, batch |-> b]
ModelRequest      == Request("model", 0, "no batch")
StateRequest      == Request("state", 0, "no batch")
StepRequest(d, b) == Request("step", d, b)

Verdict    == {"valid", "invalid"}
StepResult == {"observation"} \cup Verdict
Reply(k)   == [kind |-> k, id |-> decision]
Pending    == [kind |-> "pending", id |-> 0]
Failed     == [kind |-> "failed", id |-> 0]
Closed     == [kind |-> "closed", id |-> 0]

ClientInit ==
    /\ life = "starting"
    /\ decision = 0
    /\ lastBatch = "no batch"
    /\ ended = "open"
    /\ conns = <<>>
    /\ uds = FALSE
    /\ sock = 0
    /\ jobs = <<>>
    /\ reading = FALSE
    /\ answer = Pending
    /\ faults = 0

Fault == faults < MaxFaults /\ faults' = faults + 1

(***************************************************************************)
(* The cluster. It prints its handshake when it listens for HTTP, its      *)
(* socket file is there before it listens on it, and it serves the         *)
(* requests of all connections one at a time.                              *)
(***************************************************************************)
ClusterStarts ==
    /\ \/ life = "starting" /\ life' = "printed"
       \/ life = "printed" /\ life' = "bound"
       \/ life = "bound" /\ life' = "up"
    /\ UNCHANGED <<decision, lastBatch, ended, conns, clientVars, faults>>

\* The result of the state the cluster is in, once it has accepted a batch.
Result(e) == IF e = "open" THEN "observation" ELSE e

Serve(c) ==
    LET req == Head(conns[c].sent) IN
    /\ life = "up"
    /\ conns[c].sent # <<>>
    /\ \E e \in Verdict \cup {"open"} :
        LET current  == req.kind = "step" /\ req.id = decision /\ ended = "open"
            repeated == req.kind = "step" /\ req.id = decision - 1 /\ req.batch = lastBatch
            kind     == IF req.kind = "model" THEN "model"
                        ELSE IF req.kind = "state" \/ current \/ repeated
                        THEN Result(e) ELSE "error"
        IN  /\ IF current
               THEN /\ e = "open" => decision + 1 < MaxDecisions
                    /\ decision' = decision + 1
                    /\ lastBatch' = req.batch
               ELSE e = ended /\ UNCHANGED <<decision, lastBatch>>
            /\ ended' = e
            /\ conns' = [conns EXCEPT
                            ![c].sent = Tail(@),
                            ![c].replies = Append(@, [kind |-> kind, id |-> decision'])]
    /\ UNCHANGED <<life, clientVars, faults>>

ClusterCrashes ==
    /\ life # "exited"
    /\ Fault
    /\ life' = "exited"
    /\ UNCHANGED <<decision, lastBatch, ended, conns, clientVars>>

(***************************************************************************)
(* The io thread. A job of kind "send" is _round_trip_sync (_json_sync),   *)
(* one of kind "close" is _close_sync.                                     *)
(***************************************************************************)
Running(what) == jobs # <<>> /\ Head(jobs).what = what

\* The end of a turn of _io_loop: a future that was cancelled takes no result.
Complete(a) ==
    /\ jobs' = Tail(jobs)
    /\ reading' = FALSE
    /\ answer' = IF Head(jobs).awaited THEN a ELSE answer
    /\ UNCHANGED uds

\* _uds_socket: the connection, the hello and the welcome.
Listening == life = "up" \/ (~uds /\ life \in {"printed", "bound"})

Connect ==
    /\ Running("send")
    /\ sock = 0
    /\ Listening
    /\ conns' = Append(conns, [sent |-> <<>>, replies |-> <<>>])
    /\ sock' = Len(conns')
    /\ UNCHANGED <<clusterVars, uds, jobs, reading, answer, faults>>

ConnectFails ==
    /\ Running("send")
    /\ sock = 0
    /\ IF Listening THEN Fault ELSE UNCHANGED faults
    /\ Complete(Failed)
    /\ UNCHANGED <<clusterVars, conns, sock>>

WriteRequest ==
    /\ Running("send")
    /\ sock # 0
    /\ ~reading
    /\ life # "exited"
    /\ conns' = [conns EXCEPT ![sock].sent = Append(@, Head(jobs).req)]
    /\ reading' = TRUE
    /\ UNCHANGED <<clusterVars, uds, sock, jobs, answer, faults>>

ReadReply ==
    /\ Running("send")
    /\ reading
    /\ conns[sock].replies # <<>>
    /\ Complete(Head(conns[sock].replies))
    /\ conns' = [conns EXCEPT ![sock].replies = Tail(@)]
    /\ UNCHANGED <<clusterVars, sock, faults>>

\* A write or a read that fails, or 30 seconds without a reply: the socket is
\* forgotten, and whatever is under way on it goes on.
TransportFails ==
    /\ Running("send")
    /\ sock # 0
    /\ IF life = "exited"
       THEN reading => conns[sock].replies = <<>>
       ELSE TRUE
    /\ IF life = "exited" THEN UNCHANGED faults ELSE Fault
    /\ sock' = 0
    /\ Complete(Failed)
    /\ UNCHANGED <<clusterVars, conns>>

\* A faulty CloseSync: the socket is closed and not forgotten.
CloseKeepsSock ==
    /\ Running("close")
    /\ Complete(Closed)
    /\ UNCHANGED <<clusterVars, conns, faults, sock>>

CloseSync ==
    /\ Running("close")
    /\ sock' = 0
    /\ Complete(Closed)
    /\ UNCHANGED <<clusterVars, conns, faults>>

IoStep ==
    Connect \/ ConnectFails \/ WriteRequest \/ ReadReply \/ TransportFails
        \/ CloseSync

(***************************************************************************)
(* _submit, for the coroutine.                                             *)
(***************************************************************************)
Submit(what, req) ==
    /\ jobs' = Append(jobs, [what |-> what, req |-> req, awaited |-> TRUE])
    /\ answer' = Pending

Send(req)   == Submit("send", req)
CloseJob    == Submit("close", ModelRequest)

\* The coroutine is cancelled, and with it the future it awaits.
Abandon ==
    /\ jobs' = [i \in DOMAIN jobs |-> [jobs[i] EXCEPT !.awaited = FALSE]]
    /\ answer' = Pending
-----------------------------------------------------------------------------
Requests == {ModelRequest, StateRequest}
                \cup {StepRequest(d, b) : d \in 0 .. MaxDecisions - 1, b \in Batches}
Replies  == [kind : StepResult \cup {"model", "error"}, id : 0 .. MaxDecisions]
Jobs     == [what : {"send", "close"}, req : Requests, awaited : BOOLEAN]
Links    == [sent : Seq(Requests), replies : Seq(Replies)]

\* The types of the cluster, the connections and the client.
ClientTypeOK ==
    /\ life \in {"starting", "printed", "bound", "up", "exited"}
    /\ decision \in 0 .. MaxDecisions
    /\ lastBatch \in Batches \cup {"no batch"}
    /\ ended \in Verdict \cup {"open"}
    /\ conns \in Seq(Links)
    /\ uds \in BOOLEAN
    /\ sock \in 0 .. Len(conns)
    /\ jobs \in Seq(Jobs)
    /\ reading \in BOOLEAN
    /\ answer \in Replies \cup {Pending, Failed, Closed}
    /\ faults \in 0 .. MaxFaults
=============================================================================
