----------------------------- MODULE Interactor -----------------------------
(***************************************************************************)
(* The relay of the interactor of 09-mahjx: it shows the game record to a  *)
(* submission event by event, waits after each for the FULL_ANALYZE_STEP   *)
(* records the event calls for, forwards what the submission writes, and   *)
(* waits for its end, or ends it and what is in its process group.         *)
(*                                                                         *)
(* One pump is one step (a poll and what it leads to); between the pump,   *)
(* the write, and the look at the child that follow each other in send the *)
(* submission moves. The deadlines of finish and of drain_until never run  *)
(* at the same time: one deadline stands for all. An event is written in   *)
(* one piece. Whether the reader of the two outputs keeps up is not known. *)
(***************************************************************************)
EXTENDS Submission

CONSTANT QueueSize              \* MAX_FORWARD_QUEUE

ASSUME QueueAssumption == QueueSize \in Nat \ {0}

VARIABLES
    pc,
    mode,           \* what the drain under way is for
    event,          \* the event sent last
    written, seen,  \* whether it was written; the players that reported it
    revents,        \* last_input_events_
    exitCode,       \* what waitpid told
    open,           \* the read ends of stdout and stderr
    queue,          \* what was read from them and not yet delivered
    consumer,       \* of the two: it "reads", is "late", or is "gone"
    deadline,       \* what the deadline that is set is for
    expired,        \* it has passed
    orphanDone,     \* orphan_cleanup_done
    signal,         \* a SIGTERM or SIGINT of the interactor is pending
    result          \* its exit status, once it is known

scanVars    == <<event, written, seen, revents>>
forwardVars == <<open, queue, consumer>>
clockVars   == <<deadline, expired>>
relayVars   == <<pc, mode, scanVars, exitCode, forwardVars, clockVars,
                 orphanDone, signal, result>>
vars        == <<submissionVars, faults, relayVars>>

Streams == {"out", "err"}
Last    == Len(Record)

Init ==
    /\ SubmissionInit
    /\ pc = "create"
    /\ mode = "none"
    /\ event = 0
    /\ written = FALSE
    /\ seen = {}
    /\ revents = {}
    /\ exitCode = "none"
    /\ open = [s \in Streams |-> TRUE]
    /\ queue = [s \in Streams |-> 0]
    /\ consumer = "reads"
    /\ deadline = "none"
    /\ expired = FALSE
    /\ orphanDone = FALSE
    /\ signal = FALSE
    /\ result = "none"

(***************************************************************************)
(* check_child, signal_group and the scanner.                              *)
(***************************************************************************)
CheckChild == IF exitCode = "none" /\ ~Running THEN status ELSE exitCode

\* A faulty SignalGroup: the group is thought gone with the child.
SignalChild(s) ==
    group' = IF ~Running THEN "none" ELSE IF group = "kill" THEN "kill" ELSE s

SignalGroup(s) ==
    group' = IF ~Running /\ ~Keeps("group") THEN "none"
             ELSE IF group = "kill" THEN "kill" ELSE s

\* A faulty Complete: any of the players will do.
AnySeen == ExpectedPlayers(event) = {} \/ seen # {}

Complete == ExpectedPlayers(event) \subseteq seen

Scans(records) ==
    /\ event > 0
    /\ \A i \in DOMAIN records :
        /\ records[i].event = event
        /\ records[i].player \in ExpectedPlayers(event) \ seen
        /\ \A j \in 1 .. i - 1 : records[j].player # records[i].player

(***************************************************************************)
(* pump. It fails when an output could not be delivered in time, seen      *)
(* before the poll or after all the rest; when a signal came (whatever it  *)
(* forwards, a SIGTERM or SIGKILL of the group was sent before it or       *)
(* follows); when there is nobody to deliver to; and when a record is not  *)
(* one that is due. Which descriptors are polled for input is decided      *)
(* before anything is delivered.                                           *)
(***************************************************************************)
Pending == \E s \in Streams : queue[s] > 0
InPipe(s)  == IF s = "out" THEN outPipe ELSE Len(errPipe)
CanRead(s) == open[s] /\ queue[s] < QueueSize
Polled(wanted) ==
    {r \in {"out", "err"} :
        /\ feeding
        /\ IF r = "err" THEN ~StdinHeld ELSE wanted /\ Len(stdinPipe) < PipeSize}
Readable == \E s \in Streams : CanRead(s) /\ (InPipe(s) > 0 \/ ~OutputHeld)

Undelivered == consumer = "gone" /\ Pending

\* Before anything is read: stdout may have been delivered when stderr cannot.
PumpFails ==
    /\ \/ signal /\ signal' = FALSE /\ UNCHANGED queue
       \/ consumer = "late" /\ UNCHANGED <<signal, queue>>
       \/ /\ Undelivered /\ ~signal
          /\ \E left \in 0 .. queue["out"] :
                /\ left < queue["out"] => queue["err"] > 0
                /\ queue' = [queue EXCEPT !["out"] = left]
          /\ UNCHANGED signal
    /\ UNCHANGED <<outPipe, errPipe, open, seen, revents>>

Pump(wanted, timed, scanned, ok) ==
    \/ ~ok /\ PumpFails
    \/ /\ ~Undelivered /\ ~signal
       /\ ok => consumer # "late"
       /\ \E delivered \in [Streams -> 0 .. QueueSize + 1] :
            LET left == [s \in Streams |-> queue[s] - delivered[s]]
                room(s) == QueueSize - left[s]
                taken == [s \in Streams |->
                            IF ~CanRead(s) THEN 0
                            ELSE IF InPipe(s) < room(s) THEN InPipe(s) ELSE room(s)]
                records == SubSeq(errPipe, 1, taken["err"])
            IN
            /\ \A s \in Streams : left[s] >= 0
            /\ timed \/ Readable \/ Polled(wanted) # {} \/ queue # left
               \/ consumer = "late"
            /\ consumer = "late" =>
                   \E s \in Streams : queue[s] > 0 /\ delivered[s] = 0
            /\ queue' = [s \in Streams |-> left[s] + taken[s]]
            /\ outPipe' = outPipe - taken["out"]
            /\ errPipe' = SubSeq(errPipe, taken["err"] + 1, Len(errPipe))
            /\ open' = [s \in Streams |->
                          open[s] /\ ~(/\ CanRead(s) /\ ~OutputHeld
                                       /\ taken[s] = InPipe(s) /\ taken[s] < room(s))]
            /\ ok = (consumer # "late" /\ (scanned => Scans(records)))
            /\ seen' = IF scanned
                       THEN seen \cup {records[i].player : i \in DOMAIN records}
                       ELSE seen
       /\ revents' = Polled(wanted)
       /\ UNCHANGED signal

(***************************************************************************)
(* terminate: stdin is closed, the group gets a SIGTERM, and after a drain *)
(* a SIGKILL. The status is known before: that of the child when it had    *)
(* failed and was reaped, else 2.                                          *)
(***************************************************************************)
\* A faulty Drain: what was signalled will close its outputs.
DrainPatiently(m, s) ==
    /\ pc' = "drain"
    /\ mode' = m
    /\ deadline' = "none"
    /\ expired' = FALSE
    /\ SignalGroup(s)

Drain(m, s) ==
    /\ pc' = "drain"
    /\ mode' = m
    /\ deadline' = "drain"
    /\ expired' = FALSE
    /\ SignalGroup(s)

Terminate(code) ==
    /\ result' = IF code \in {"nonzero", "signalled"} THEN code ELSE "two"
    /\ feeding' = FALSE
    /\ Drain("term", "term")

Goes(place) ==
    /\ pc' = place
    /\ UNCHANGED <<result, feeding, mode, clockVars, group>>

ownVars  == <<child, status, descendant, detached, hung, hasStdin, hasOutput,
              workVars>>

(***************************************************************************)
(* run: the relay is created, or the submission is killed at once; then    *)
(* the events of the record.                                               *)
(***************************************************************************)
Create ==
    /\ pc = "create"
    /\ pc' = "next"
    /\ UNCHANGED <<submissionVars, faults, mode, scanVars, exitCode, forwardVars,
                   clockVars, orphanDone, signal, result>>

\* kill_and_reap: the group, and the child.
CannotCreate ==
    /\ pc = "create"
    /\ Fault
    /\ pc' = "returned"
    /\ result' = "two"
    /\ IF Running THEN Exits("signalled") ELSE UNCHANGED <<child, status>>
    /\ KillsDescendant
    /\ exitCode' = status'
    /\ feeding' = FALSE
    /\ open' = [s \in Streams |-> FALSE]
    /\ UNCHANGED <<hung, hasStdin, hasOutput, group, stdinPipe, outPipe, errPipe,
                   workVars, mode, scanVars, queue, consumer, clockVars,
                   orphanDone, signal>>

\* A faulty MoreEvents.
OneMoreEvent == event <= Last

MoreEvents == event < Last

NextEvent ==
    /\ pc = "next"
    /\ MoreEvents
    /\ event' = event + 1
    /\ written' = FALSE
    /\ seen' = {}
    /\ Goes("send")
    /\ UNCHANGED <<ownVars, faults, stdinPipe, outPipe, errPipe, revents, exitCode,
                   forwardVars, orphanDone, signal>>

RecordFault ==
    /\ pc = "next"
    /\ Fault
    /\ Terminate("none")
    /\ UNCHANGED <<ownVars, stdinPipe, outPipe, errPipe, scanVars, exitCode,
                   forwardVars, orphanDone, signal>>

RecordEnds ==
    /\ pc = "next"
    /\ ~MoreEvents
    /\ pc' = "finish"
    /\ feeding' = FALSE
    /\ UNCHANGED <<processVars, faults, stdinPipe, outPipe, errPipe, workVars, mode,
                   scanVars, exitCode, forwardVars, clockVars, orphanDone,
                   signal, result>>

(***************************************************************************)
(* send. The poll has no timeout. A write that fails ends it without a     *)
(* look at the child.                                                      *)
(***************************************************************************)
SendPump ==
    /\ pc = "send"
    /\ \E ok \in BOOLEAN :
        /\ Pump(~written, FALSE, TRUE, ok)
        /\ IF ok THEN Goes("write") ELSE Terminate(exitCode)
    /\ UNCHANGED <<ownVars, faults, stdinPipe, event, written, exitCode, consumer,
                   orphanDone>>

SendWrite ==
    /\ pc = "write"
    /\ IF written \/ "out" \notin revents
       THEN Goes("check") /\ UNCHANGED <<written, stdinPipe>>
       ELSE IF StdinHeld
       THEN /\ stdinPipe' = Append(stdinPipe, event)
            /\ written' = TRUE
            /\ Goes("check")
       ELSE Terminate(exitCode) /\ UNCHANGED <<written, stdinPipe>>
    /\ UNCHANGED <<ownVars, faults, outPipe, errPipe, event, seen, revents, exitCode,
                   forwardVars, orphanDone, signal>>

SendCheck ==
    /\ pc = "check"
    /\ exitCode' = CheckChild
    /\ IF (exitCode' # "none" /\ ~Complete) \/ ("err" \in revents /\ exitCode' # "none")
       THEN Terminate(exitCode')
       ELSE IF "err" \in revents
       THEN /\ feeding' = FALSE
            /\ pc' = "settle"
            /\ UNCHANGED <<result, mode, clockVars, group>>
       ELSE Goes(IF written /\ Complete THEN "next" ELSE "send")
    /\ UNCHANGED <<ownVars, faults, stdinPipe, outPipe, errPipe, scanVars,
                   forwardVars, orphanDone, signal>>

\* The submission closed its stdin: 20 ms to see how it ends.
Settle ==
    /\ pc = "settle"
    /\ \E ok \in BOOLEAN :
        /\ Pump(FALSE, TRUE, TRUE, ok)
        /\ IF ok THEN Goes("settled") ELSE Terminate(exitCode)
    /\ UNCHANGED <<ownVars, faults, stdinPipe, event, written, exitCode, consumer,
                   orphanDone>>

Settled ==
    /\ pc = "settled"
    /\ exitCode' = CheckChild
    /\ Terminate(exitCode')
    /\ UNCHANGED <<ownVars, faults, stdinPipe, outPipe, errPipe, scanVars,
                   forwardVars, orphanDone, signal>>

(***************************************************************************)
(* finish. Once the child is gone its pipes should end: what it forked is  *)
(* killed when they do not. A child that closed its pipes should end.      *)
(***************************************************************************)
SomeOpen == \E s \in Streams : open[s]
Done     == exitCode # "none" /\ ~SomeOpen /\ ~Pending

FinishReturns ==
    /\ pc = "finish"
    /\ Done
    /\ pc' = "returned"
    /\ result' = exitCode
    /\ UNCHANGED <<submissionVars, faults, mode, scanVars, exitCode, forwardVars,
                   clockVars, orphanDone, signal>>

FinishDeadline(exited) ==
    IF deadline # "none" THEN deadline
    ELSE IF exited /\ SomeOpen /\ ~orphanDone THEN "orphan"
    ELSE IF ~exited /\ ~SomeOpen THEN "closed"
    ELSE "none"

FinishLooks ==
    /\ pc = "finish"
    /\ ~Done
    /\ ~signal
    /\ exitCode' = CheckChild
    /\ LET exited == exitCode' # "none" IN
       IF deadline = "orphan" /\ expired
       THEN Drain("orphan", "kill")
       ELSE IF deadline = "closed" /\ expired /\ ~exited
       THEN Drain("closed_term", "term")
       ELSE /\ deadline' = FinishDeadline(exited)
            /\ pc' = "poll"
            /\ UNCHANGED <<mode, expired, group>>
    /\ UNCHANGED <<ownVars, faults, feeding, stdinPipe, outPipe, errPipe, scanVars,
                   forwardVars, orphanDone, signal, result>>

FinishSignalled ==
    /\ pc = "finish"
    /\ ~Done
    /\ signal
    /\ signal' = FALSE
    /\ Terminate("none")
    /\ UNCHANGED <<ownVars, faults, stdinPipe, outPipe, errPipe, scanVars, exitCode,
                   forwardVars, orphanDone>>

\* A faulty FinishPump: the protocol is over.
FinishPumpBlind ==
    /\ pc = "poll"
    /\ \E ok \in BOOLEAN :
        /\ Pump(FALSE, TRUE, FALSE, ok)
        /\ IF ok THEN Goes("finish") ELSE Terminate("none")
    /\ UNCHANGED <<ownVars, faults, stdinPipe, event, written, exitCode, consumer,
                   orphanDone>>

FinishPump ==
    /\ pc = "poll"
    /\ \E ok \in BOOLEAN :
        /\ Pump(FALSE, TRUE, TRUE, ok)
        /\ IF ok THEN Goes("finish") ELSE Terminate("none")
    /\ UNCHANGED <<ownVars, faults, stdinPipe, event, written, exitCode, consumer,
                   orphanDone>>

(***************************************************************************)
(* drain_until and what follows it, by what it was for.                    *)
(***************************************************************************)
Finished(m) ==
    CASE m = "orphan" ->
            /\ pc' = "finish"
            /\ deadline' = "none"
            /\ expired' = FALSE
            /\ UNCHANGED <<mode, group>>
      [] m = "closed_term" -> Drain("closed_kill", "kill")
      [] m = "term"        -> Drain("kill", "kill")
      [] m \in {"closed_kill", "kill"} ->
            /\ pc' = "reap"
            /\ expired' = (expired /\ m = "kill")
            /\ UNCHANGED <<mode, deadline, group>>
      [] m = "report"      -> Goes("close")

Drained == exitCode' # "none" /\ ~SomeOpen /\ ~Pending

\* After an orphan was killed the sources are closed, read to the end or not.
DrainEnds ==
    /\ pc = "drain"
    /\ \/ expired /\ UNCHANGED exitCode
       \/ ~expired /\ exitCode' = CheckChild /\ Drained
    /\ Finished(mode)
    /\ orphanDone' = (orphanDone \/ mode = "orphan")
    /\ open' = [s \in Streams |-> open[s] /\ mode # "orphan"]
    /\ UNCHANGED <<ownVars, faults, feeding, stdinPipe, outPipe, errPipe, scanVars,
                   queue, consumer, signal, result>>

Drains ==
    /\ pc = "drain"
    /\ ~expired
    /\ exitCode' = CheckChild
    /\ ~Drained
    /\ Pump(FALSE, TRUE, mode = "orphan", TRUE)
    /\ UNCHANGED <<ownVars, faults, feeding, stdinPipe, event, written, consumer,
                   pc, mode, clockVars, group, orphanDone, result>>

\* Only after an orphan was killed does a pump that fails count; elsewhere it
\* cuts the drain short, and then one that moved something before is a step of
\* Drains before.
DrainFails ==
    /\ pc = "drain"
    /\ ~expired
    /\ exitCode' = CheckChild
    /\ ~Drained
    /\ IF mode = "orphan"
       THEN Pump(FALSE, TRUE, TRUE, FALSE) /\ Terminate("none")
       ELSE PumpFails /\ Finished(mode) /\ UNCHANGED <<feeding, result>>
    /\ UNCHANGED <<ownVars, faults, stdinPipe, event, written, consumer, orphanDone>>

\* reap_until, and after it the diagnostic of the report.
Reap ==
    /\ pc = "reap"
    /\ exitCode' = IF expired THEN exitCode ELSE CheckChild
    /\ exitCode' # "none" \/ expired
    /\ IF mode = "closed_kill"
       THEN Terminate("none") /\ UNCHANGED queue
       ELSE /\ queue' = [queue EXCEPT !["err"] = @ + 1]
            /\ pc' = "drain"
            /\ mode' = "report"
            /\ deadline' = "drain"
            /\ expired' = FALSE
            /\ UNCHANGED <<result, feeding, group>>
    /\ UNCHANGED <<ownVars, faults, stdinPipe, outPipe, errPipe, scanVars, open,
                   consumer, orphanDone, signal>>

CloseStreams ==
    /\ pc = "close"
    /\ pc' = "returned"
    /\ open' = [s \in Streams |-> FALSE]
    /\ UNCHANGED <<submissionVars, faults, mode, scanVars, exitCode, queue, consumer,
                   clockVars, orphanDone, signal, result>>

(***************************************************************************)
(* The rest of the world: time passes, the reader of the outputs goes or   *)
(* falls behind, the interactor is interrupted. A SIGKILL takes effect in  *)
(* less than the grace it is followed by.                                  *)
(***************************************************************************)
DeadlinePasses ==
    /\ deadline # "none" /\ ~expired
    /\ pc # "returned"
    /\ group # "kill"
    /\ expired' = TRUE
    /\ UNCHANGED <<submissionVars, faults, pc, mode, scanVars, exitCode, forwardVars,
                   deadline, orphanDone, signal, result>>

DeliveryLate ==
    /\ consumer = "reads"
    /\ Pending
    /\ pc # "returned"
    /\ consumer' = "late"
    /\ UNCHANGED <<submissionVars, faults, pc, mode, scanVars, exitCode, open, queue,
                   clockVars, orphanDone, signal, result>>

ConsumerGoes ==
    /\ consumer = "reads"
    /\ pc # "returned"
    /\ Fault
    /\ consumer' = "gone"
    /\ UNCHANGED <<submissionVars, pc, mode, scanVars, exitCode, open, queue,
                   clockVars, orphanDone, signal, result>>

Interrupt ==
    /\ ~signal
    /\ pc # "returned"
    /\ Fault
    /\ signal' = TRUE
    /\ UNCHANGED <<submissionVars, pc, mode, scanVars, exitCode, forwardVars,
                   clockVars, orphanDone, result>>

RelayStep ==
    \/ Create \/ NextEvent \/ RecordEnds
    \/ SendPump \/ SendWrite \/ SendCheck \/ Settle \/ Settled
    \/ FinishReturns \/ FinishLooks \/ FinishSignalled \/ FinishPump
    \/ DrainEnds \/ Drains \/ DrainFails \/ Reap \/ CloseStreams

SubmissionStep == Works \/ Misbehaves \/ DescendantEnds \/ GroupDies

Next ==
    \/ RelayStep
    \/ CannotCreate \/ RecordFault
    \/ SubmissionStep /\ UNCHANGED relayVars
    \/ DeadlinePasses \/ DeliveryLate \/ ConsumerGoes \/ Interrupt

Spec == Init /\ [][Next]_vars

(***************************************************************************)
(* The relay runs, time passes, a submission that works makes progress and *)
(* a SIGKILL arrives. A descendant may stay for ever.                      *)
(***************************************************************************)
FairSpec ==
    /\ Spec
    /\ WF_vars(RelayStep)
    /\ WF_vars(DeadlinePasses)
    /\ WF_vars(DeliveryLate)
    /\ WF_vars(Works /\ UNCHANGED relayVars)
    /\ WF_vars(group = "kill" /\ GroupDies /\ UNCHANGED relayVars)

-----------------------------------------------------------------------------
(***************************************************************************)
(* Types.                                                                  *)
(***************************************************************************)
Codes  == {"zero", "nonzero", "signalled"}
Places == {"create", "next", "send", "write", "check", "settle", "settled",
           "finish", "poll", "drain", "reap", "close", "returned"}
Modes  == {"none", "orphan", "closed_term", "closed_kill", "term", "kill", "report"}

TypeOK ==
    /\ pc \in Places
    /\ mode \in Modes
    /\ event \in 0 .. Last
    /\ written \in BOOLEAN
    /\ seen \subseteq Players
    /\ revents \subseteq {"out", "err"}
    /\ exitCode \in Codes \cup {"none"}
    /\ open \in [Streams -> BOOLEAN]
    /\ queue \in [Streams -> 0 .. QueueSize + 1]
    /\ outPipe \in 0 .. PipeSize
    /\ consumer \in {"reads", "late", "gone"}
    /\ deadline \in {"none", "orphan", "closed", "drain"}
    /\ expired \in BOOLEAN
    /\ orphanDone \in BOOLEAN
    /\ signal \in BOOLEAN
    /\ result \in Codes \cup {"none", "two"}

(***************************************************************************)
(* When run returns the child has ended, and of what it forked only such   *)
(* is left as has a SIGKILL on its way, has left the process group, or has *)
(* given up its outputs before finish ended without a look at the group.   *)
(* The ways to get there are many: an orphan found in finish, an error in  *)
(* the middle of anything, a drain cut short by a signal or by a reader    *)
(* that is gone, a child that ignores SIGTERM.                             *)
(***************************************************************************)
NobodyLeft ==
    pc = "returned" =>
        /\ ~Running
        /\ Keeps("group") =>
              group = "kill" \/ (mode = "none" /\ ~Keeps("output"))

(***************************************************************************)
(* Status zero means what the benchmark takes it for: the submission saw   *)
(* the whole record, reported every analysis, none that was not due, and   *)
(* all it wrote was delivered - a second record after the last event and   *)
(* output still in the pipe when it exited included. It is not known of a  *)
(* submission whose pipes were held open by an orphan: what it left in     *)
(* them is dropped once the grace of the drain has passed.                 *)
(***************************************************************************)
SuccessMeansClean ==
    result = "zero" =>
        /\ event = Last
        /\ \A k \in Events : reported[k] = ExpectedPlayers(k)
        /\ orphanDone \/ (~wrong /\ ~Pending /\ \A s \in Streams : InPipe(s) = 0)

(***************************************************************************)
(* The interactor feeds the submission as EventFeed says: no event before  *)
(* the analyses due for the earlier ones were reported by the submission,  *)
(* nothing shown after the verdict, no success otherwise.                  *)
(***************************************************************************)
Feed == INSTANCE EventFeed WITH
    Due      <- [k \in Events |-> ExpectedPlayers(k)],
    Results  <- Codes \cup {"two"},
    shown    <- IF event > 0 /\ ~written THEN event - 1 ELSE event,
    answered <- reported

ImplementsFeed == Feed!FeedSpec

(***************************************************************************)
(* The run ends, and what terminate starts ends whatever the submission    *)
(* does, for no drain lasts longer than its grace. Without a verdict the   *)
(* relay waits for ever only where the code sets no deadline: in send, on  *)
(* a child that does nothing more, or on the stdin that a descendant keeps *)
(* open after the child has died; and in finish, on such a child that      *)
(* holds its outputs open.                                                 *)
(***************************************************************************)
Idle == Running /\ (hung \/ ~hasStdin \/ (~hasOutput /\ todo # {}))

WaitsForEver ==
    /\ result = "none"
    /\ \/ pc = "send" /\ (Idle \/ Keeps("stdin"))
       \/ pc \in {"finish", "poll"} /\ Idle /\ SomeOpen

RelayReturns == <>(pc = "returned") \/ <>[]WaitsForEver
=============================================================================
