-------------------------- MODULE Interactor_proofs --------------------------
(***************************************************************************)
(* Proofs about the interactor of 09-mahjx.                                *)
(*                                                                         *)
(* SuccessMeansClean is about the last step of a run, and it holds for     *)
(* what all the steps before it did. The invariant says what that was:     *)
(*   - Stage, what each place of the relay means for event, mode and       *)
(*     result;                                                             *)
(*   - Fed, that the stdin pipe holds the events between the one the       *)
(*     submission is at and the last one written, and which analyses it    *)
(*     reported on each;                                                   *)
(*   - Traced, that a record the relay will accept was reported by the     *)
(*     submission, and that one it should not have written is still in the *)
(*     pipe, where reading it is found to be a fault;                      *)
(*   - Ended, that an output the relay has closed is at its end, unless a  *)
(*     descendant holds it that was not waited for.                        *)
(* NobodyLeft has an invariant of its own, Killed, over the same steps.    *)
(* Five steps of the relay pump. PumpDoes says once what a pump changes,   *)
(* and PumpStepKeeps that every such step keeps the invariant. For the     *)
(* refinement, only the write of an event, the report of an analysis and   *)
(* the verdict are steps of EventFeed.                                     *)
(***************************************************************************)
EXTENDS Interactor, SequenceTheorems, TLAPS

(***************************************************************************)
(* The inductive invariant, by parts.                                      *)
(***************************************************************************)
\* The types of the submission.
SubmissionTypeOK ==
    /\ child \in {"running", "exited"}
    /\ status \in Codes
    /\ descendant \in BOOLEAN
    /\ detached \subseteq {"stdin", "output", "group"}
    /\ hung \in BOOLEAN
    /\ hasStdin \in BOOLEAN
    /\ hasOutput \in BOOLEAN
    /\ feeding \in BOOLEAN
    /\ stdinPipe \in Seq(Events)
    /\ errPipe \in Seq([event : 0 .. Last, player : Players])
    /\ current \in 0 .. Last
    /\ todo \subseteq Players
    /\ outputs \in Nat
    /\ reported \in [Events -> SUBSET Players]
    /\ wrong \in BOOLEAN
    /\ group \in {"none", "term", "kill"}
    /\ faults \in Nat

\* Where the relay is with the record, and where it waits for the end of it.
Early       == {"create", "next", "send", "write", "check", "settle", "settled"}
Late        == {"finish", "poll"}
ClosedModes == {"closed_term", "closed_kill"}
EventDone   == event = 0 \/ (written /\ Complete)

\* The place the relay is in tells what the run has come to: whether a result is
\* decided, what a drain under way is for, and which event was written and
\* answered.
Stage ==
    /\ pc \in Early \cup Late => result = "none"
    /\ pc \in {"drain", "reap"} =>
        (result = "none" <=> mode \in ClosedModes \cup {"orphan"})
    /\ pc \in {"close", "returned"} => result # "none"
    /\ result = "zero" => pc = "returned"
    /\ pc = "drain" => mode # "none"
    /\ pc = "reap" => mode \in {"closed_kill", "kill"}
    /\ mode \in ClosedModes => pc \in {"drain", "reap"} \/ result # "none"
    /\ mode = "report" => pc \in {"drain", "close", "returned"}
    /\ mode # "report" => \A s \in Streams : queue[s] <= QueueSize
    /\ pc = "create" => event = 0
    /\ pc \in {"send", "write", "check", "settle", "settled"} => event > 0
    /\ pc = "next" => EventDone
    /\ (result = "none" /\ pc \notin Early) \/ result = "zero" =>
        event = Last /\ EventDone
    /\ result = "none" /\ event = 0 => seen = {}
    /\ exitCode # "none" => ~Running

\* The submission is shown the events in order, and reports on those it read.
Shown == IF event > 0 /\ ~written THEN event - 1 ELSE event

Fed ==
    /\ current + Len(stdinPipe) = Shown
    /\ \A i \in DOMAIN stdinPipe : stdinPipe[i] = current + i
    /\ \A k \in Events :
        /\ k < current \/ k < event => reported[k] = ExpectedPlayers(k)
        /\ k > current => reported[k] = {}
        /\ k = current => /\ reported[k] \subseteq ExpectedPlayers(k)
                          /\ todo = ExpectedPlayers(k) \ reported[k]
    /\ current = 0 => todo = {}

\* A record that is due is one of the submission's analyses, and one that is
\* not is found to be so when it is read.
Refused(i) ==
    \/ event = 0
    \/ errPipe[i].event # event
    \/ errPipe[i].player \notin ExpectedPlayers(event)
    \/ errPipe[i].player \in seen
    \/ \E j \in 1 .. i - 1 : errPipe[j].player = errPipe[i].player

Traced ==
    /\ \A i \in DOMAIN errPipe :
        LET r == errPipe[i] IN
        /\ r.event <= current
        /\ r.event > 0 /\ r.player \in ExpectedPlayers(r.event)
            => r.player \in reported[r.event]
    /\ result = "none" /\ event > 0 => seen \subseteq reported[event]
    /\ result = "none" /\ mode \notin ClosedModes /\ ~orphanDone =>
        /\ current = event /\ event > 0 =>
            \A p \in reported[event] :
                p \in seen \/ \E j \in DOMAIN errPipe : errPipe[j].player = p
        /\ wrong => \E i \in DOMAIN errPipe : Refused(i)

\* An output that was closed is at its end, except behind an orphan.
Ended ==
    /\ \A s \in Streams :
        \/ open[s]
        \/ orphanDone
        \/ pc = "returned" /\ result # "zero"
        \/ ~OutputHeld /\ InPipe(s) = 0
    /\ result = "zero" => /\ \A s \in Streams : ~open[s] /\ queue[s] = 0
                          /\ \A k \in Events : reported[k] = ExpectedPlayers(k)
                          /\ orphanDone \/ ~wrong

IInv == TypeOK /\ SubmissionTypeOK /\ Stage /\ Fed /\ Traced /\ Ended
-----------------------------------------------------------------------------
(***************************************************************************)
(* The players an event calls for.                                         *)
(***************************************************************************)
LEMMA ExpectedType ==
    ASSUME NEW k \in Events
    PROVE  ExpectedPlayers(k) \subseteq Players
<1>1. Mask \subseteq Players
  BY SubmissionAssumption DEF Players
<1>2. QED
  BY <1>1 DEF ExpectedPlayers

LEMMA EventsAreNumbers == Last \in Nat /\ Events = 1 .. Last
<1>1. \E S : Record \in Seq(S)
  BY SubmissionAssumption
<1>2. QED
  BY <1>1 DEF Events, Last

(***************************************************************************)
(* What a pump does to pipes, queues and the scanner. It takes the first   *)
(* n records of the stderr pipe; when it succeeds and scans, they are such *)
(* as are due.                                                             *)
(***************************************************************************)
PumpEffect(scanned, ok) ==
    \E n \in 0 .. Len(errPipe) :
        LET records == SubSeq(errPipe, 1, n) IN
        /\ errPipe' = SubSeq(errPipe, n + 1, Len(errPipe))
        /\ outPipe' \in 0 .. outPipe
        /\ ok /\ scanned => Scans(records)
        /\ seen' \subseteq seen \cup {records[i].player : i \in DOMAIN records}
        /\ ok => seen' = IF scanned
                            THEN seen \cup {records[i].player : i \in DOMAIN records}
                            ELSE seen
        /\ revents' \subseteq {"out", "err"}
        /\ signal' \in BOOLEAN
        /\ open' \in [Streams -> BOOLEAN]
        /\ queue' \in [Streams -> 0 .. QueueSize + 1]
        /\ \A s \in Streams : queue[s] <= QueueSize => queue'[s] <= QueueSize
        /\ \A s \in Streams : ~open[s] => ~open'[s]
        /\ ~open["err"] => n = 0
        /\ ~open["out"] => outPipe' = outPipe
        /\ \A s \in Streams :
            open[s] /\ ~open'[s] =>
                ~OutputHeld /\ IF s = "err" THEN n = Len(errPipe) ELSE outPipe' = 0

\* What a pump that fails before it reads leaves in the queues.
LEMMA PumpFailsQueue ==
    ASSUME TypeOK, PumpFails
    PROVE  /\ queue' \in [Streams -> 0 .. QueueSize + 1]
           /\ \A s \in Streams : queue'[s] <= queue[s]
           /\ \A s \in Streams : queue[s] <= QueueSize => queue'[s] <= QueueSize
<1>1. QueueSize \in Nat /\ "out" \in Streams /\ queue \in [Streams -> 0 .. QueueSize + 1]
  BY QueueAssumption DEF TypeOK, Streams
<1>2. CASE UNCHANGED queue
  BY <1>1, <1>2
<1>3. CASE \E left \in 0 .. queue["out"] : queue' = [queue EXCEPT !["out"] = left]
  <2>1. PICK left \in 0 .. queue["out"] : queue' = [queue EXCEPT !["out"] = left]
    BY <1>3
  <2>2. left \in 0 .. QueueSize + 1 /\ left <= queue["out"]
    BY <1>1, <2>1
  <2>3. QED
    BY <1>1, <2>1, <2>2
<1>4. QED
  BY <1>2, <1>3 DEF PumpFails

LEMMA PumpDoes ==
    ASSUME TypeOK, SubmissionTypeOK,
           NEW wanted \in BOOLEAN, NEW timed \in BOOLEAN, NEW scanned \in BOOLEAN,
           NEW ok \in BOOLEAN,
           Pump(wanted, timed, scanned, ok)
    PROVE  PumpEffect(scanned, ok)
<1>1. CASE ~ok /\ PumpFails
  <2>1. UNCHANGED <<outPipe, errPipe, open, seen, revents>> /\ signal' \in BOOLEAN /\ ~ok
    BY <1>1 DEF PumpFails, TypeOK
  <2>2. SubSeq(errPipe, 0 + 1, Len(errPipe)) = errPipe
    BY DEF SubmissionTypeOK
  <2>3. 0 \in 0 .. Len(errPipe)
    BY DEF SubmissionTypeOK
  <2>4. outPipe' \in 0 .. outPipe
    BY <2>1, SubmissionAssumption DEF TypeOK
  <2>5. /\ queue' \in [Streams -> 0 .. QueueSize + 1]
        /\ \A s \in Streams : queue[s] <= QueueSize => queue'[s] <= QueueSize
    BY <1>1, PumpFailsQueue
  <2>6. QED
    BY <2>1, <2>2, <2>3, <2>4, <2>5 DEF PumpEffect, TypeOK
<1>2. CASE ~(~ok /\ PumpFails)
  <2>1. PICK delivered \in [Streams -> 0 .. QueueSize + 1] :
            LET left == [s \in Streams |-> queue[s] - delivered[s]]
                room(s) == QueueSize - left[s]
                taken == [s \in Streams |->
                            IF ~CanRead(s) THEN 0
                            ELSE IF InPipe(s) < room(s) THEN InPipe(s) ELSE room(s)]
                records == SubSeq(errPipe, 1, taken["err"])
            IN
            /\ \A s \in Streams : left[s] >= 0
            /\ queue' = [s \in Streams |-> left[s] + taken[s]]
            /\ outPipe' = outPipe - taken["out"]
            /\ errPipe' = SubSeq(errPipe, taken["err"] + 1, Len(errPipe))
            /\ open' = [s \in Streams |->
                          open[s] /\ ~(/\ CanRead(s) /\ ~OutputHeld
                                       /\ taken[s] = InPipe(s) /\ taken[s] < room(s))]
            /\ ok = (consumer # "late" /\ (scanned => Scans(records)))
            /\ seen' = IF scanned
                       THEN seen \cup {records[i].player : i \in DOMAIN records}
                       ELSE seen
    BY <1>2 DEF Pump
  <2> DEFINE left  == [s \in Streams |-> queue[s] - delivered[s]]
             room(s) == QueueSize - left[s]
             taken == [s \in Streams |->
                         IF ~CanRead(s) THEN 0
                         ELSE IF InPipe(s) < room(s) THEN InPipe(s) ELSE room(s)]
             n == taken["err"]
             records == SubSeq(errPipe, 1, n)
  <2>2. revents' = Polled(wanted) /\ signal' = signal
    BY <1>2 DEF Pump
  <2>3. QueueSize \in Nat /\ PipeSize \in Nat
    BY QueueAssumption, SubmissionAssumption
  <2>4. \A s \in Streams : InPipe(s) \in Nat
    BY <2>3 DEF InPipe, TypeOK, SubmissionTypeOK
  <2>5. \A s \in Streams : /\ left[s] \in Nat /\ left[s] <= queue[s]
                           /\ queue[s] \in 0 .. QueueSize + 1
    <3>1. \A s \in Streams : /\ queue[s] \in 0 .. QueueSize + 1
                             /\ delivered[s] \in 0 .. QueueSize + 1
      BY DEF TypeOK
    <3>2. QED
      BY <2>1, <2>3, <3>1
  <2>6. \A s \in Streams : /\ taken[s] \in Nat /\ taken[s] <= InPipe(s)
                           /\ CanRead(s) => queue[s] < QueueSize /\ taken[s] <= room(s)
                           /\ ~CanRead(s) => taken[s] = 0
    BY <2>3, <2>4, <2>5 DEF CanRead
  <2>7. "err" \in Streams /\ "out" \in Streams /\ InPipe("err") = Len(errPipe)
        /\ InPipe("out") = outPipe
    BY DEF Streams, InPipe
  <2>8. n \in 0 .. Len(errPipe)
    BY <2>4, <2>6, <2>7
  <2>9. outPipe' \in 0 .. outPipe
    BY <2>1, <2>4, <2>6, <2>7
  <2>10. /\ queue' \in [Streams -> 0 .. QueueSize + 1]
         /\ \A s \in Streams : queue[s] <= QueueSize => queue'[s] <= QueueSize
    <3>1. queue' = [s \in Streams |-> left[s] + taken[s]]
      BY <2>1
    <3>2. \A s \in Streams : /\ left[s] + taken[s] \in 0 .. QueueSize + 1
                             /\ queue[s] <= QueueSize => left[s] + taken[s] <= QueueSize
      BY <2>3, <2>5, <2>6
    <3>3. QED
      BY <3>1, <3>2
  <2>11. /\ open' \in [Streams -> BOOLEAN]
         /\ \A s \in Streams : ~open[s] => ~open'[s]
         /\ \A s \in Streams : open[s] /\ ~open'[s] => ~OutputHeld /\ taken[s] = InPipe(s)
    <3>1. open' = [s \in Streams |->
                     open[s] /\ ~(/\ CanRead(s) /\ ~OutputHeld
                                  /\ taken[s] = InPipe(s) /\ taken[s] < room(s))]
      BY <2>1
    <3>2. \A s \in Streams : open[s] \in BOOLEAN
      BY DEF TypeOK
    <3>3. QED
      BY <3>1, <3>2
  <2>12. \A s \in Streams : ~open[s] => taken[s] = 0
    BY <2>6 DEF CanRead
  <2>13. Polled(wanted) \subseteq {"out", "err"}
    BY DEF Polled
  <2>14. signal \in BOOLEAN
    BY DEF TypeOK
  <2>15. /\ errPipe' = SubSeq(errPipe, n + 1, Len(errPipe))
         /\ outPipe' = outPipe - taken["out"]
         /\ ok /\ scanned => Scans(records)
         /\ seen' = IF scanned
                    THEN seen \cup {records[i].player : i \in DOMAIN records}
                    ELSE seen
    BY <2>1
  <2>16. /\ ~open["err"] => n = 0
         /\ ~open["out"] => outPipe' = outPipe
    BY <2>12, <2>15, <2>7, <2>4
  <2>17. \A s \in Streams :
            open[s] /\ ~open'[s] =>
                ~OutputHeld /\ IF s = "err" THEN n = Len(errPipe) ELSE outPipe' = 0
    <3>1. outPipe - outPipe = 0
      BY <2>4, <2>7
    <3>2. \A s \in Streams : s # "err" => s = "out"
      BY DEF Streams
    <3>3. QED
      BY <3>1, <3>2, <2>11, <2>15, <2>7
  <2> HIDE DEF n
  <2>18. QED
    BY <2>2, <2>8, <2>9, <2>10, <2>11, <2>13, <2>14, <2>15, <2>16, <2>17 DEF PumpEffect
<1>3. QED
  BY <1>1, <1>2

(***************************************************************************)
(* Records. Those that a scan accepts were not refused; what stays in the  *)
(* pipe after it is refused if it was before.                              *)
(***************************************************************************)
LEMMA ScannedAreDue ==
    ASSUME SubmissionTypeOK, NEW n \in 0 .. Len(errPipe), Scans(SubSeq(errPipe, 1, n))
    PROVE  /\ event > 0
           /\ \A i \in 1 .. n : /\ errPipe[i].event = event
                                /\ errPipe[i].player \in ExpectedPlayers(event)
                                /\ errPipe[i].player \notin seen
                                /\ \A j \in 1 .. i - 1 :
                                       errPipe[j].player # errPipe[i].player
<1> DEFINE records == SubSeq(errPipe, 1, n)
<1>1. DOMAIN records = 1 .. n /\ \A i \in 1 .. n : records[i] = errPipe[i]
  BY DEF SubmissionTypeOK
<1>2. \A i \in 1 .. n : \A j \in 1 .. i - 1 : j \in 1 .. n
  OBVIOUS
<1> HIDE DEF records
<1>3. Scans(records)
  BY DEF records
<1>4. QED
  BY <1>1, <1>2, <1>3 DEF Scans

LEMMA Remaining ==
    ASSUME SubmissionTypeOK, NEW n \in 0 .. Len(errPipe),
           errPipe' = SubSeq(errPipe, n + 1, Len(errPipe))
    PROVE  /\ DOMAIN errPipe' = 1 .. Len(errPipe) - n
           /\ DOMAIN errPipe = 1 .. Len(errPipe)
           /\ \A i \in 1 .. Len(errPipe) - n : errPipe'[i] = errPipe[i + n]
           /\ errPipe' \in Seq([event : 0 .. Last, player : Players])
           /\ n = Len(errPipe) => Len(errPipe') = 0
<1> DEFINE R == [event : 0 .. Last, player : Players]
<1>1. errPipe \in Seq(R)
  BY DEF SubmissionTypeOK
<1> HIDE DEF R
<1>2. Len(errPipe) \in Nat /\ DOMAIN errPipe = 1 .. Len(errPipe)
  BY <1>1
<1>3. /\ errPipe' \in Seq(R)
      /\ Len(errPipe') = Len(errPipe) - n
      /\ \A i \in 1 .. Len(errPipe) - n : errPipe'[i] = errPipe[i + n]
  <2>1. n + 1 \in Int /\ Len(errPipe) \in Int /\ n \in Nat /\ n <= Len(errPipe)
    BY <1>2
  <2>2. \A i \in n + 1 .. Len(errPipe) : errPipe[i] \in R
    BY <1>1, <1>2, <2>1
  <2>3. /\ errPipe' \in Seq(R)
        /\ Len(errPipe') = IF n + 1 <= Len(errPipe) THEN Len(errPipe) - (n + 1) + 1 ELSE 0
        /\ \A i \in 1 .. Len(errPipe) - (n + 1) + 1 : errPipe'[i] = errPipe[(n + 1) + i - 1]
    BY <2>1, <2>2, SubSeqProperties
  <2>4. Len(errPipe') = Len(errPipe) - n
    BY <2>1, <2>3
  <2>5. ASSUME NEW i \in 1 .. Len(errPipe) - n
        PROVE  errPipe'[i] = errPipe[i + n]
    <3>1. i \in 1 .. Len(errPipe) - (n + 1) + 1 /\ (n + 1) + i - 1 = i + n
      BY <2>1
    <3>2. errPipe'[i] = errPipe[(n + 1) + i - 1]
      BY <3>1, <2>3
    <3>3. QED
      BY <3>1, <3>2
  <2>6. QED
    BY <2>3, <2>4, <2>5
<1>4. DOMAIN errPipe' = 1 .. Len(errPipe) - n
  BY <1>3
<1>5. n = Len(errPipe) => Len(errPipe') = 0
  BY <1>2, <1>3
<1>6. errPipe' \in Seq([event : 0 .. Last, player : Players])
  BY <1>3 DEF R
<1>7. QED
  BY <1>2, <1>3, <1>4, <1>5, <1>6

LEMMA TracedPump ==
    ASSUME TypeOK, SubmissionTypeOK, Fed, Traced,
           NEW scanned \in BOOLEAN, NEW ok \in BOOLEAN, PumpEffect(scanned, ok),
           UNCHANGED <<event, current, reported, wrong>>,
           result' = "none" => ok /\ result = "none",
           result' = "none" /\ mode' \notin ClosedModes /\ ~orphanDone'
                => scanned /\ mode \notin ClosedModes /\ ~orphanDone
    PROVE  Traced'
<1>1. PICK n \in 0 .. Len(errPipe) :
        LET records == SubSeq(errPipe, 1, n) IN
        /\ errPipe' = SubSeq(errPipe, n + 1, Len(errPipe))
        /\ ok /\ scanned => Scans(records)
        /\ ok => seen' = IF scanned
                            THEN seen \cup {records[i].player : i \in DOMAIN records}
                            ELSE seen
  BY DEF PumpEffect
<1> DEFINE records == SubSeq(errPipe, 1, n)
<1>2. /\ DOMAIN errPipe' = 1 .. Len(errPipe) - n
      /\ DOMAIN errPipe = 1 .. Len(errPipe)
      /\ \A i \in 1 .. Len(errPipe) - n : errPipe'[i] = errPipe[i + n]
  BY <1>1, Remaining
<1>3. DOMAIN records = 1 .. n /\ \A i \in 1 .. n : records[i] = errPipe[i]
  BY DEF SubmissionTypeOK
<1>4. Len(errPipe) \in Nat
  BY DEF SubmissionTypeOK
<1>5. \A i \in DOMAIN errPipe' : i + n \in DOMAIN errPipe /\ errPipe'[i] = errPipe[i + n]
  BY <1>2, <1>4
<1>6. \A i \in DOMAIN errPipe' :
        LET r == errPipe'[i] IN
        /\ r.event <= current
        /\ r.event > 0 /\ r.player \in ExpectedPlayers(r.event) =>
               r.player \in reported[r.event]
  BY <1>5 DEF Traced
<1>7. ASSUME ok, scanned
      PROVE  /\ event > 0
             /\ \A i \in 1 .. n : /\ errPipe[i].event = event
                                  /\ errPipe[i].player \in ExpectedPlayers(event)
                                  /\ errPipe[i].player \notin seen
                                  /\ \A j \in 1 .. i - 1 :
                                         errPipe[j].player # errPipe[i].player
             /\ seen' = seen \cup {errPipe[i].player : i \in 1 .. n}
  <2>1. Scans(records)
    BY <1>1, <1>7
  <2>2. /\ event > 0
        /\ \A i \in 1 .. n : /\ errPipe[i].event = event
                             /\ errPipe[i].player \in ExpectedPlayers(event)
                             /\ errPipe[i].player \notin seen
                             /\ \A j \in 1 .. i - 1 : errPipe[j].player # errPipe[i].player
    BY <2>1, ScannedAreDue
  <2>3. seen' = seen \cup {records[i].player : i \in DOMAIN records}
    BY <1>1, <1>7
  <2> HIDE DEF records
  <2>4. {records[i].player : i \in DOMAIN records} = {errPipe[i].player : i \in 1 .. n}
    BY <1>3
  <2>5. QED
    BY <2>2, <2>3, <2>4
<1>8. ASSUME result' = "none", event > 0
      PROVE  seen' \subseteq reported[event]
  <2>1. seen \subseteq reported[event]
    BY <1>8 DEF Traced
  <2>2. CASE ~scanned
    BY <1>1, <1>8, <2>1, <2>2
  <2>3. CASE scanned
    <3>1. \A i \in 1 .. n : i \in DOMAIN errPipe
      BY <1>2, <1>4
    <3>2. \A i \in 1 .. n : errPipe[i].player \in reported[event]
      BY <3>1, <1>7, <1>8, <2>3 DEF Traced
    <3>3. QED
      BY <3>2, <1>7, <1>8, <2>1, <2>3
  <2>4. QED
    BY <2>2, <2>3
<1>9. ASSUME result' = "none", mode' \notin ClosedModes, ~orphanDone'
      PROVE  /\ current = event /\ event > 0 =>
                \A p \in reported[event] :
                    p \in seen' \/ \E j \in DOMAIN errPipe' : errPipe'[j].player = p
             /\ wrong => \E i \in DOMAIN errPipe' : Refused(i)'
  <2>1. /\ event > 0
        /\ \A i \in 1 .. n : /\ errPipe[i].event = event
                             /\ errPipe[i].player \in ExpectedPlayers(event)
                             /\ errPipe[i].player \notin seen
                             /\ \A j \in 1 .. i - 1 : errPipe[j].player # errPipe[i].player
        /\ seen' = seen \cup {errPipe[i].player : i \in 1 .. n}
    BY <1>7, <1>9
  <2>2. \A j \in DOMAIN errPipe :
            \/ j \in 1 .. n /\ errPipe[j].player \in seen'
            \/ j - n \in DOMAIN errPipe' /\ errPipe'[j - n] = errPipe[j]
    <3>1. \A j \in DOMAIN errPipe : j \notin 1 .. n =>
              j - n \in 1 .. Len(errPipe) - n /\ (j - n) + n = j
      BY <1>2, <1>4
    <3>2. QED
      BY <3>1, <1>2, <2>1
  <2>3. ASSUME current = event, NEW p \in reported[event]
        PROVE  p \in seen' \/ \E j \in DOMAIN errPipe' : errPipe'[j].player = p
    <3>1. p \in seen \/ \E j \in DOMAIN errPipe : errPipe[j].player = p
      BY <1>9, <2>1, <2>3 DEF Traced
    <3>2. QED
      BY <3>1, <2>1, <2>2
  <2>4. ASSUME wrong
        PROVE  \E i \in DOMAIN errPipe' : Refused(i)'
    <3>1. PICK i \in DOMAIN errPipe : Refused(i)
      BY <1>9, <2>4 DEF Traced
    <3>2. i \notin 1 .. n
      BY <3>1, <2>1 DEF Refused
    <3>3. i - n \in DOMAIN errPipe' /\ errPipe'[i - n] = errPipe[i]
      BY <3>2, <2>2
    <3>4. CASE \E j \in 1 .. i - 1 : errPipe[j].player = errPipe[i].player
      <4>1. PICK j \in 1 .. i - 1 : errPipe[j].player = errPipe[i].player
        BY <3>4
      <4>2. j \in DOMAIN errPipe /\ i \in 1 .. Len(errPipe)
        BY <1>2, <1>4
      <4>3. CASE j \in 1 .. n
        <5>1. errPipe'[i - n].player \in seen'
          BY <4>1, <4>2, <4>3, <3>3, <2>1
        <5>2. QED
          BY <5>1, <3>3 DEF Refused
      <4>4. CASE j \notin 1 .. n
        <5>1. j - n \in DOMAIN errPipe' /\ errPipe'[j - n] = errPipe[j]
          BY <4>2, <4>4, <2>2
        <5>2. j - n \in 1 .. (i - n) - 1
          BY <4>2, <4>4, <1>4
        <5>3. QED
          BY <5>1, <5>2, <4>1, <3>3 DEF Refused
      <4>5. QED
        BY <4>3, <4>4
    <3>5. CASE ~\E j \in 1 .. i - 1 : errPipe[j].player = errPipe[i].player
      <4>1. \/ errPipe[i].event # event
            \/ errPipe[i].player \notin ExpectedPlayers(event)
            \/ errPipe[i].player \in seen
        BY <3>1, <3>5, <2>1 DEF Refused
      <4>2. ExpectedPlayers(event)' = ExpectedPlayers(event)
        BY DEF ExpectedPlayers
      <4>3. QED
        BY <4>1, <4>2, <3>3, <2>1 DEF Refused
    <3>6. QED
      BY <3>4, <3>5
  <2>5. QED
    BY <2>3, <2>4
<1>10. \A k : ExpectedPlayers(k)' = ExpectedPlayers(k)
  BY DEF ExpectedPlayers
<1>11. QED
  BY <1>6, <1>8, <1>9, <1>10 DEF Traced

LEMMA TracedFrame ==
    ASSUME Traced, UNCHANGED <<errPipe, seen, event, current, reported, wrong>>,
           result' = "none" => result = "none",
           result' = "none" /\ mode' \notin ClosedModes /\ ~orphanDone'
                => mode \notin ClosedModes /\ ~orphanDone
    PROVE  Traced'
<1>1. \A k : ExpectedPlayers(k)' = ExpectedPlayers(k)
  BY DEF ExpectedPlayers
<1>2. \A i : Refused(i)' = Refused(i)
  BY DEF Refused, ExpectedPlayers
<1>3. QED
  BY <1>1, <1>2 DEF Traced

LEMMA FedFrame ==
    ASSUME Fed, UNCHANGED <<stdinPipe, current, todo, reported, event, written>>
    PROVE  Fed'
BY DEF Fed, Shown, ExpectedPlayers, Events

LEMMA EndedPump ==
    ASSUME TypeOK, SubmissionTypeOK, Ended,
           NEW scanned \in BOOLEAN, NEW ok \in BOOLEAN, PumpEffect(scanned, ok),
           UNCHANGED <<child, hasOutput, descendant, detached, wrong>>,
           pc # "returned", result' # "zero", orphanDone => orphanDone'
    PROVE  Ended'
<1>1. PICK n \in 0 .. Len(errPipe) :
        /\ errPipe' = SubSeq(errPipe, n + 1, Len(errPipe))
        /\ \A s \in Streams : ~open[s] => ~open'[s]
        /\ ~open["err"] => n = 0
        /\ ~open["out"] => outPipe' = outPipe
        /\ \A s \in Streams :
            open[s] /\ ~open'[s] =>
                ~OutputHeld /\ IF s = "err" THEN n = Len(errPipe) ELSE outPipe' = 0
  BY DEF PumpEffect
<1>2. OutputHeld' = OutputHeld
  BY DEF OutputHeld, Keeps, Running
<1>3. n = 0 => errPipe' = errPipe
  BY <1>1 DEF SubmissionTypeOK
<1>4. n = Len(errPipe) => Len(errPipe') = 0
  BY <1>1, Remaining
<1>5. \A s \in Streams : s = "out" \/ s = "err"
  BY DEF Streams
<1>6. ASSUME NEW s \in Streams
      PROVE  open'[s] \/ orphanDone' \/ (~OutputHeld' /\ InPipe(s)' = 0)
  <2>1. CASE open[s]
    BY <2>1, <1>1, <1>2, <1>4, <1>5 DEF InPipe
  <2>2. CASE ~open[s]
    BY <2>2, <1>1, <1>2, <1>3, <1>5 DEF InPipe, Ended
  <2>3. QED
    BY <2>1, <2>2
<1>7. QED
  BY <1>6 DEF Ended

LEMMA EndedFrame ==
    ASSUME Ended, UNCHANGED <<child, hasOutput, descendant, detached, outPipe, errPipe>>,
           \A s \in Streams : open'[s] = open[s] \/ orphanDone',
           pc # "returned", result' # "zero", orphanDone => orphanDone'
    PROVE  Ended'
<1>1. OutputHeld' = OutputHeld /\ \A s : InPipe(s)' = InPipe(s)
  BY DEF OutputHeld, Keeps, Running, InPipe
<1>2. QED
  BY <1>1 DEF Ended

LEMMA ConstantsAreNumbers ==
    QueueSize \in Nat /\ PipeSize \in Nat /\ Last \in Nat /\ Events = 1 .. Last
BY QueueAssumption, SubmissionAssumption, EventsAreNumbers


(***************************************************************************)
(* The parts that actions are made of.                                     *)
(***************************************************************************)
LEMMA FaultIsCounted ==
    ASSUME SubmissionTypeOK, Fault
    PROVE  faults' \in Nat
BY DEF SubmissionTypeOK, Fault

(***************************************************************************)
(* What the operations of the relay do to its variables.                   *)
(***************************************************************************)
LEMMA CheckChildSays ==
    ASSUME IInv
    PROVE  /\ CheckChild \in Codes \cup {"none"}
           /\ CheckChild # "none" => child # "running"
           /\ exitCode # "none" => CheckChild = exitCode
BY DEF IInv, TypeOK, SubmissionTypeOK, Stage, CheckChild, Running

LEMMA SignalGroupSends ==
    ASSUME SubmissionTypeOK, NEW s \in {"term", "kill"}, SignalGroup(s)
    PROVE  group' \in {"none", "term", "kill"}
BY DEF SubmissionTypeOK, SignalGroup

LEMMA DrainDoes ==
    ASSUME SubmissionTypeOK
    PROVE  \A m, s : Drain(m, s) /\ s \in {"term", "kill"} =>
               /\ pc' = "drain" /\ mode' = m /\ deadline' = "drain" /\ expired' = FALSE
               /\ group' \in {"none", "term", "kill"}
BY SignalGroupSends DEF Drain

LEMMA TerminateDoes ==
    ASSUME SubmissionTypeOK
    PROVE  \A code : Terminate(code) =>
               /\ result' \in {"nonzero", "signalled", "two"}
               /\ feeding' = FALSE
               /\ pc' = "drain" /\ mode' = "term" /\ deadline' = "drain" /\ expired' = FALSE
               /\ group' \in {"none", "term", "kill"}
BY DrainDoes DEF Terminate

\* What the end of a drain for m decides, and where the relay goes from there.
FinishedFor(m) ==
    \/ /\ m = "orphan" /\ pc' = "finish" /\ deadline' = "none" /\ expired' = FALSE
       /\ UNCHANGED <<mode, group>>
    \/ /\ m \in {"closed_term", "term"} /\ pc' = "drain" /\ deadline' = "drain" /\ expired' = FALSE
       /\ mode' = IF m = "term" THEN "kill" ELSE "closed_kill"
       /\ group' \in {"none", "term", "kill"}
    \/ /\ m \in {"closed_kill", "kill"} /\ pc' = "reap" /\ expired' \in BOOLEAN
       /\ UNCHANGED <<mode, deadline, group>>
    \/ /\ m = "report" /\ pc' = "close"
       /\ UNCHANGED <<mode, clockVars, group>>

LEMMA FinishedDoes ==
    ASSUME TypeOK, SubmissionTypeOK, mode # "none", Finished(mode)
    PROVE  FinishedFor(mode)
<1>1. CASE mode = "orphan"
  BY <1>1 DEF Finished, FinishedFor
<1>2. CASE mode = "closed_term"
  BY <1>2, DrainDoes DEF Finished, FinishedFor
<1>3. CASE mode = "term"
  BY <1>3, DrainDoes DEF Finished, FinishedFor
<1>4. CASE mode = "closed_kill"
  BY <1>4 DEF Finished, FinishedFor, TypeOK
<1>5. CASE mode = "kill"
  BY <1>5 DEF Finished, FinishedFor, TypeOK
<1>6. CASE mode = "report"
  BY <1>6 DEF Finished, FinishedFor, Goes
<1>7. QED
  BY <1>1, <1>2, <1>3, <1>4, <1>5, <1>6 DEF TypeOK, Modes
-----------------------------------------------------------------------------
(***************************************************************************)
(* The steps that do not pump, one lemma each.                             *)
(***************************************************************************)
LEMMA TypeFrame ==
    ASSUME TypeOK,
           pc' \in Places, mode' \in Modes, exitCode' \in Codes \cup {"none"},
           deadline' \in {"none", "orphan", "closed", "drain"}, expired' \in BOOLEAN,
           result' \in Codes \cup {"none", "two"}, open' \in [Streams -> BOOLEAN],
           orphanDone' \in BOOLEAN,
           UNCHANGED <<event, written, seen, revents, queue, consumer, outPipe, signal>>
    PROVE  TypeOK'
BY DEF TypeOK

LEMMA SubmissionTypeFrame ==
    ASSUME SubmissionTypeOK,
           UNCHANGED <<child, status, descendant, detached, hung, hasStdin, hasOutput, stdinPipe,
                       errPipe, current, todo, outputs, reported, wrong>>,
           feeding' \in BOOLEAN, group' \in {"none", "term", "kill"}, faults' \in Nat
    PROVE  SubmissionTypeOK'
BY DEF SubmissionTypeOK

LEMMA CreateKeeps ==
    ASSUME IInv, Create
    PROVE  IInv'
<1> USE DEF IInv
<1>1. TypeOK'
  BY DEF Create, TypeOK, Places, submissionVars, pipeVars, scanVars, forwardVars,
         clockVars
<1>2. SubmissionTypeOK'
  BY SubmissionTypeFrame
     DEF Create, submissionVars, processVars, pipeVars, workVars, SubmissionTypeOK
<1>3. Stage'
  BY DEF Create, Stage, Early, EventDone, Running, submissionVars, processVars,
         scanVars, forwardVars
<1>4. Fed'
  BY FedFrame DEF Create, submissionVars, pipeVars, workVars, scanVars
<1>5. Traced'
  BY TracedFrame DEF Create, submissionVars, pipeVars, workVars, scanVars
<1>6. Ended'
  BY EndedFrame DEF Create, Stage, submissionVars, processVars, pipeVars, forwardVars
<1>7. QED
  BY <1>2, <1>1, <1>3, <1>4, <1>5, <1>6

LEMMA RecordFaultKeeps ==
    ASSUME IInv, RecordFault
    PROVE  IInv'
<1> USE DEF IInv
<1>1. TypeOK'
  BY TerminateDoes DEF RecordFault, TypeOK, Codes, Places, Modes, scanVars, forwardVars
<1>2. SubmissionTypeOK'
  BY TerminateDoes, FaultIsCounted, SubmissionTypeFrame
     DEF RecordFault, ownVars, workVars
<1>3. Stage'
  BY TerminateDoes
     DEF RecordFault, Stage, Early, Late, ClosedModes, Running, ownVars, forwardVars
<1>4. Fed'
  BY FedFrame DEF RecordFault, ownVars, workVars, scanVars
<1>5. Traced'
  BY TerminateDoes, TracedFrame DEF RecordFault, ownVars, workVars, scanVars
<1>6. Ended'
  BY TerminateDoes, EndedFrame DEF RecordFault, ownVars, forwardVars
<1>7. QED
  BY <1>2, <1>1, <1>3, <1>4, <1>5, <1>6

LEMMA RecordEndsKeeps ==
    ASSUME IInv, RecordEnds
    PROVE  IInv'
<1> USE DEF IInv
<1>1. TypeOK'
  BY DEF RecordEnds, TypeOK, Places, scanVars, forwardVars, clockVars
<1>2. SubmissionTypeOK'
  BY SubmissionTypeFrame DEF RecordEnds, processVars, workVars, SubmissionTypeOK
<1>3. Stage'
  BY ConstantsAreNumbers
     DEF RecordEnds, Stage, Early, EventDone, Complete, Running, processVars, scanVars,
         forwardVars, TypeOK, MoreEvents
<1>4. Fed'
  BY FedFrame DEF RecordEnds, workVars, scanVars
<1>5. Traced'
  BY TracedFrame DEF RecordEnds, workVars, scanVars
<1>6. Ended'
  BY EndedFrame DEF RecordEnds, Stage, processVars, forwardVars
<1>7. QED
  BY <1>2, <1>1, <1>3, <1>4, <1>5, <1>6

LEMMA SendCheckKeeps ==
    ASSUME IInv, SendCheck
    PROVE  IInv'
<1> USE DEF IInv
<1>1. /\ exitCode' = CheckChild
      /\ UNCHANGED <<ownVars, faults, stdinPipe, outPipe, errPipe, scanVars, forwardVars,
                     orphanDone, signal>>
      /\ \/ /\ result' \in {"nonzero", "signalled", "two"} /\ feeding' = FALSE
            /\ pc' = "drain" /\ mode' = "term" /\ deadline' = "drain" /\ expired' = FALSE
            /\ group' \in {"none", "term", "kill"}
         \/ /\ feeding' = FALSE /\ pc' = "settle"
            /\ UNCHANGED <<result, mode, clockVars, group>>
         \/ /\ pc' = IF written /\ Complete THEN "next" ELSE "send"
            /\ UNCHANGED <<result, feeding, mode, clockVars, group>>
  BY TerminateDoes DEF SendCheck, Goes
<1>2. pc = "check"
  BY DEF SendCheck
<1>3. TypeOK'
  <2>1. pc' \in Places /\ mode' \in Modes
    BY <1>1 DEF TypeOK, Places, Modes
  <2>2. exitCode' \in Codes \cup {"none"}
    BY <1>1, CheckChildSays
  <2>3. deadline' \in {"none", "orphan", "closed", "drain"} /\ expired' \in BOOLEAN
    BY <1>1 DEF TypeOK, clockVars
  <2>4. result' \in Codes \cup {"none", "two"}
    BY <1>1 DEF TypeOK, Codes
  <2>5. open' \in [Streams -> BOOLEAN] /\ orphanDone' \in BOOLEAN
    BY <1>1 DEF TypeOK, forwardVars
  <2>6. UNCHANGED <<event, written, seen, revents, queue, consumer, outPipe, signal>>
    BY <1>1 DEF scanVars, forwardVars
  <2>7. QED
    BY <2>1, <2>2, <2>3, <2>4, <2>5, <2>6, TypeFrame
<1>4. SubmissionTypeOK'
  BY <1>1, SubmissionTypeFrame DEF ownVars, workVars, SubmissionTypeOK
<1>5. Stage'
  BY <1>1, <1>2, CheckChildSays
     DEF Stage, Early, Late, ClosedModes, EventDone, Complete, Running, ownVars,
         scanVars, forwardVars
<1>6. Fed'
  BY <1>1, FedFrame DEF ownVars, workVars, scanVars
<1>7. Traced'
  BY <1>1, TracedFrame DEF ownVars, workVars, scanVars
<1>8. Ended'
  BY <1>1, <1>2, EndedFrame DEF Stage, ownVars, forwardVars
<1>9. QED
  BY <1>4, <1>3, <1>5, <1>6, <1>7, <1>8

LEMMA SettledKeeps ==
    ASSUME IInv, Settled
    PROVE  IInv'
<1> USE DEF IInv
<1>1. TypeOK'
  BY TerminateDoes, CheckChildSays
     DEF Settled, TypeOK, Codes, Places, Modes, scanVars, forwardVars
<1>2. SubmissionTypeOK'
  BY TerminateDoes, SubmissionTypeFrame DEF Settled, ownVars, workVars, SubmissionTypeOK
<1>3. Stage'
  BY TerminateDoes, CheckChildSays
     DEF Settled, Stage, Early, Late, ClosedModes, Running, ownVars, forwardVars
<1>4. Fed'
  BY FedFrame DEF Settled, ownVars, workVars, scanVars
<1>5. Traced'
  BY TerminateDoes, TracedFrame DEF Settled, ownVars, workVars, scanVars
<1>6. Ended'
  BY TerminateDoes, EndedFrame DEF Settled, ownVars, forwardVars
<1>7. QED
  BY <1>2, <1>1, <1>3, <1>4, <1>5, <1>6

LEMMA FinishLooksKeeps ==
    ASSUME IInv, FinishLooks
    PROVE  IInv'
<1> USE DEF IInv
<1>1. /\ exitCode' = CheckChild
      /\ UNCHANGED <<ownVars, faults, feeding, stdinPipe, outPipe, errPipe, scanVars,
                     forwardVars, orphanDone, signal, result>>
      /\ \/ /\ pc' = "drain" /\ mode' \in {"orphan", "closed_term"}
            /\ deadline' = "drain" /\ expired' = FALSE
            /\ group' \in {"none", "term", "kill"}
         \/ /\ deadline' \in {deadline, "orphan", "closed", "none"} /\ pc' = "poll"
            /\ UNCHANGED <<mode, expired, group>>
  BY DrainDoes DEF FinishLooks, FinishDeadline
<1>2. pc = "finish"
  BY DEF FinishLooks
<1>3. TypeOK'
  <2>1. pc' \in Places /\ mode' \in Modes
    BY <1>1 DEF TypeOK, Places, Modes
  <2>2. exitCode' \in Codes \cup {"none"}
    BY <1>1, CheckChildSays
  <2>3. deadline' \in {"none", "orphan", "closed", "drain"} /\ expired' \in BOOLEAN
    BY <1>1 DEF TypeOK
  <2>4. result' \in Codes \cup {"none", "two"}
    BY <1>1 DEF TypeOK
  <2>5. open' \in [Streams -> BOOLEAN] /\ orphanDone' \in BOOLEAN
    BY <1>1 DEF TypeOK, forwardVars
  <2>6. UNCHANGED <<event, written, seen, revents, queue, consumer, outPipe, signal>>
    BY <1>1 DEF scanVars, forwardVars
  <2>7. QED
    BY <2>1, <2>2, <2>3, <2>4, <2>5, <2>6, TypeFrame
<1>4. SubmissionTypeOK'
  BY <1>1, SubmissionTypeFrame DEF ownVars, workVars, SubmissionTypeOK
<1>5. Stage'
  BY <1>1, <1>2, CheckChildSays
     DEF Stage, Early, Late, ClosedModes, EventDone, Complete, Running, ownVars,
         scanVars, forwardVars
<1>6. Fed'
  BY <1>1, FedFrame DEF ownVars, workVars, scanVars
<1>7. Traced'
  BY <1>1, <1>2, TracedFrame DEF Stage, ownVars, workVars, scanVars
<1>8. Ended'
  BY <1>1, <1>2, EndedFrame DEF Stage, ownVars, forwardVars
<1>9. QED
  BY <1>4, <1>3, <1>5, <1>6, <1>7, <1>8

LEMMA FinishSignalledKeeps ==
    ASSUME IInv, FinishSignalled
    PROVE  IInv'
<1> USE DEF IInv
<1>1. TypeOK'
  BY TerminateDoes
     DEF FinishSignalled, TypeOK, Codes, Places, Modes, scanVars, forwardVars
<1>2. SubmissionTypeOK'
  BY TerminateDoes, SubmissionTypeFrame
     DEF FinishSignalled, ownVars, workVars, SubmissionTypeOK
<1>3. Stage'
  BY TerminateDoes
     DEF FinishSignalled, Stage, Early, Late, ClosedModes, Running, ownVars, forwardVars
<1>4. Fed'
  BY FedFrame DEF FinishSignalled, ownVars, workVars, scanVars
<1>5. Traced'
  BY TerminateDoes, TracedFrame DEF FinishSignalled, ownVars, workVars, scanVars
<1>6. Ended'
  BY TerminateDoes, EndedFrame DEF FinishSignalled, ownVars, forwardVars
<1>7. QED
  BY <1>2, <1>1, <1>3, <1>4, <1>5, <1>6

LEMMA DrainEndsKeeps ==
    ASSUME IInv, DrainEnds
    PROVE  IInv'
<1> USE DEF IInv
<1>1. exitCode' \in {exitCode, CheckChild}
  BY DEF DrainEnds
<1>2. /\ pc = "drain" /\ mode \in Modes \ {"none"}
      /\ orphanDone' = (orphanDone \/ mode = "orphan")
      /\ open' = [s \in Streams |-> open[s] /\ mode # "orphan"]
      /\ UNCHANGED <<ownVars, faults, feeding, stdinPipe, outPipe, errPipe, scanVars,
                     queue, consumer, signal, result>>
      /\ Finished(mode)
  BY DEF DrainEnds, TypeOK, Stage
<1>3. FinishedFor(mode)
  BY <1>2, FinishedDoes
<1>4. TypeOK'
  <2>1. pc' \in Places /\ mode' \in Modes
    BY <1>3 DEF Places, Modes, FinishedFor
  <2>2. exitCode' \in Codes \cup {"none"}
    BY <1>1, CheckChildSays
  <2>3. deadline' \in {"none", "orphan", "closed", "drain"} /\ expired' \in BOOLEAN
    BY <1>3 DEF TypeOK, clockVars, FinishedFor
  <2>4. result' \in Codes \cup {"none", "two"}
    BY <1>2 DEF TypeOK
  <2>5. open' \in [Streams -> BOOLEAN] /\ orphanDone' \in BOOLEAN
    BY <1>2
  <2>6. UNCHANGED <<event, written, seen, revents, queue, consumer, outPipe, signal>>
    BY <1>2 DEF scanVars
  <2>7. QED
    BY <2>1, <2>2, <2>3, <2>4, <2>5, <2>6, TypeFrame
<1>5. SubmissionTypeOK'
  BY <1>2, <1>3, SubmissionTypeFrame
     DEF ownVars, workVars, FinishedFor, SubmissionTypeOK
<1>6. Stage'
  BY <1>1, <1>2, <1>3, CheckChildSays
     DEF Stage, Early, Late, ClosedModes, EventDone, Complete, Running, ownVars,
         scanVars, FinishedFor
<1>7. Fed'
  BY <1>2, FedFrame DEF ownVars, workVars, scanVars
<1>8. Traced'
  BY <1>2, <1>3, TracedFrame DEF ownVars, workVars, scanVars, FinishedFor, ClosedModes
<1>9. Ended'
  <2>1. UNCHANGED <<child, hasOutput, descendant, detached, outPipe, errPipe>>
    BY <1>2 DEF ownVars
  <2>2. \A s \in Streams : open'[s] = open[s] \/ orphanDone'
    BY <1>2 DEF TypeOK
  <2>3. pc # "returned" /\ result' # "zero"
    BY <1>2 DEF Stage
  <2>4. QED
    BY <1>2, <2>1, <2>2, <2>3, EndedFrame
<1>10. QED
  BY <1>5, <1>4, <1>6, <1>7, <1>8, <1>9

LEMMA ReapKeeps ==
    ASSUME IInv, Reap
    PROVE  IInv'
<1> USE DEF IInv
<1>1. /\ pc = "reap" /\ exitCode' \in {exitCode, CheckChild}
      /\ UNCHANGED <<ownVars, faults, stdinPipe, outPipe, errPipe, scanVars, open,
                     consumer, orphanDone, signal>>
      /\ pc' = "drain" /\ deadline' = "drain" /\ expired' = FALSE
  BY TerminateDoes DEF Reap
<1>2. \/ /\ mode = "closed_kill" /\ mode' = "term" /\ queue' = queue
         /\ result' \in {"nonzero", "signalled", "two"} /\ feeding' = FALSE
         /\ group' \in {"none", "term", "kill"}
      \/ /\ mode # "closed_kill" /\ mode' = "report"
         /\ queue' = [queue EXCEPT !["err"] = @ + 1]
         /\ UNCHANGED <<result, feeding, group>>
  BY TerminateDoes DEF Reap
<1>3. queue' \in [Streams -> 0 .. QueueSize + 1]
  <2>1. \A s \in Streams : queue[s] \in 0 .. QueueSize
    BY <1>1 DEF Stage, TypeOK
  <2>2. QED
    BY <2>1, <1>2, ConstantsAreNumbers DEF TypeOK
<1>4. TypeOK'
  <2>1. exitCode' \in Codes \cup {"none"}
    BY <1>1, CheckChildSays DEF TypeOK
  <2>2. mode' \in Modes /\ result' \in Codes \cup {"none", "two"}
    BY <1>2 DEF TypeOK, Codes, Modes
  <2>3. pc' \in Places
    BY <1>1 DEF Places
  <2>4. QED
    BY <1>1, <1>3, <2>1, <2>2, <2>3 DEF TypeOK, scanVars
<1>5. SubmissionTypeOK'
  BY <1>1, <1>2, SubmissionTypeFrame DEF ownVars, workVars, SubmissionTypeOK
<1>6. Stage'
  BY <1>1, <1>2, CheckChildSays DEF Stage, Early, Late, ClosedModes, Running, ownVars
<1>7. Fed'
  BY <1>1, FedFrame DEF ownVars, workVars, scanVars
<1>8. Traced'
  BY <1>1, <1>2, TracedFrame DEF Stage, ownVars, workVars, scanVars, ClosedModes
<1>9. Ended'
  BY <1>1, <1>2, EndedFrame DEF Stage, ownVars
<1>10. QED
  BY <1>5, <1>4, <1>6, <1>7, <1>8, <1>9

LEMMA DeadlinePassesKeeps ==
    ASSUME IInv, DeadlinePasses
    PROVE  IInv'
<1> USE DEF IInv
<1>1. TypeOK'
  BY DEF DeadlinePasses, TypeOK, submissionVars, pipeVars, scanVars, forwardVars
<1>2. SubmissionTypeOK'
  BY SubmissionTypeFrame
     DEF DeadlinePasses, submissionVars, processVars, pipeVars, workVars,
         SubmissionTypeOK
<1>3. Stage'
  BY DEF DeadlinePasses, Stage, EventDone, Complete, Running, submissionVars,
         processVars, scanVars, forwardVars
<1>4. Fed'
  BY FedFrame DEF DeadlinePasses, submissionVars, pipeVars, workVars, scanVars
<1>5. Traced'
  BY TracedFrame DEF DeadlinePasses, submissionVars, pipeVars, workVars, scanVars
<1>6. Ended'
  BY EndedFrame
     DEF DeadlinePasses, Stage, submissionVars, processVars, pipeVars, forwardVars
<1>7. QED
  BY <1>2, <1>1, <1>3, <1>4, <1>5, <1>6

LEMMA DeliveryLateKeeps ==
    ASSUME IInv, DeliveryLate
    PROVE  IInv'
<1> USE DEF IInv
<1>1. TypeOK'
  BY DEF DeliveryLate, TypeOK, submissionVars, pipeVars, scanVars, clockVars
<1>2. SubmissionTypeOK'
  BY SubmissionTypeFrame
     DEF DeliveryLate, submissionVars, processVars, pipeVars, workVars, SubmissionTypeOK
<1>3. Stage'
  BY DEF DeliveryLate, Stage, EventDone, Complete, Running, submissionVars, processVars,
         scanVars
<1>4. Fed'
  BY FedFrame DEF DeliveryLate, submissionVars, pipeVars, workVars, scanVars
<1>5. Traced'
  BY TracedFrame DEF DeliveryLate, submissionVars, pipeVars, workVars, scanVars
<1>6. Ended'
  BY EndedFrame DEF DeliveryLate, Stage, submissionVars, processVars, pipeVars
<1>7. QED
  BY <1>2, <1>1, <1>3, <1>4, <1>5, <1>6

LEMMA ConsumerGoesKeeps ==
    ASSUME IInv, ConsumerGoes
    PROVE  IInv'
<1> USE DEF IInv
<1>1. TypeOK'
  BY DEF ConsumerGoes, TypeOK, submissionVars, pipeVars, scanVars, clockVars
<1>2. SubmissionTypeOK'
  BY FaultIsCounted, SubmissionTypeFrame
     DEF ConsumerGoes, submissionVars, processVars, pipeVars, workVars, SubmissionTypeOK
<1>3. Stage'
  BY DEF ConsumerGoes, Stage, EventDone, Complete, Running, submissionVars, processVars,
         scanVars
<1>4. Fed'
  BY FedFrame DEF ConsumerGoes, submissionVars, pipeVars, workVars, scanVars
<1>5. Traced'
  BY TracedFrame DEF ConsumerGoes, submissionVars, pipeVars, workVars, scanVars
<1>6. Ended'
  BY EndedFrame DEF ConsumerGoes, Stage, submissionVars, processVars, pipeVars
<1>7. QED
  BY <1>2, <1>1, <1>3, <1>4, <1>5, <1>6

LEMMA InterruptKeeps ==
    ASSUME IInv, Interrupt
    PROVE  IInv'
<1> USE DEF IInv
<1>1. TypeOK'
  BY DEF Interrupt, TypeOK, submissionVars, pipeVars, scanVars, forwardVars, clockVars
<1>2. SubmissionTypeOK'
  BY FaultIsCounted, SubmissionTypeFrame
     DEF Interrupt, submissionVars, processVars, pipeVars, workVars, SubmissionTypeOK
<1>3. Stage'
  BY DEF Interrupt, Stage, EventDone, Complete, Running, submissionVars, processVars,
         scanVars, forwardVars
<1>4. Fed'
  BY FedFrame DEF Interrupt, submissionVars, pipeVars, workVars, scanVars
<1>5. Traced'
  BY TracedFrame DEF Interrupt, submissionVars, pipeVars, workVars, scanVars
<1>6. Ended'
  BY EndedFrame DEF Interrupt, Stage, submissionVars, processVars, pipeVars, forwardVars
<1>7. QED
  BY <1>2, <1>1, <1>3, <1>4, <1>5, <1>6

\* Neither place is ahead of what was shown.
LEMMA ShownInOrder ==
    ASSUME IInv
    PROVE  /\ current \in Nat /\ event \in Nat /\ Shown \in Nat
           /\ Len(stdinPipe) \in Nat /\ DOMAIN stdinPipe = 1 .. Len(stdinPipe)
           /\ current <= Shown /\ Shown <= event
           /\ event > 0 => event \in Events
           /\ current > 0 => current \in Events
BY ConstantsAreNumbers DEF IInv, TypeOK, SubmissionTypeOK, Fed, Shown

\* What is complete was reported, no more and no less.
LEMMA CompleteIsReported ==
    ASSUME IInv, result = "none", event > 0, Complete
    PROVE  reported[event] = ExpectedPlayers(event)
<1>1. event \in Events
  BY ShownInOrder
<1>2. seen \subseteq reported[event]
  BY DEF IInv, Traced
<1>3. reported[event] \subseteq ExpectedPlayers(event)
  BY <1>1, ShownInOrder DEF IInv, Fed
<1>4. QED
  BY <1>2, <1>3 DEF Complete

LEMMA EventOfRecord ==
    ASSUME IInv, NEW i \in DOMAIN errPipe
    PROVE  errPipe[i].event <= current /\ errPipe[i].event \in Nat /\ errPipe[i].player \in Players
<1> DEFINE R == [event : 0 .. Last, player : Players]
<1>1. errPipe \in Seq(R)
  BY DEF IInv, SubmissionTypeOK
<1> HIDE DEF R
<1>2. errPipe[i] \in R
  BY <1>1
<1>3. errPipe[i] \in [event : 0 .. Last, player : Players]
  BY <1>2 DEF R
<1>4. QED
  BY <1>3, ConstantsAreNumbers DEF IInv, Traced

LEMMA NextEventKeeps ==
    ASSUME IInv, NextEvent
    PROVE  IInv'
<1>1. /\ pc = "next" /\ pc' = "send" /\ event < Last /\ event' = event + 1
      /\ written' = FALSE /\ seen' = {}
      /\ UNCHANGED <<result, feeding, mode, clockVars, group>>
      /\ UNCHANGED <<ownVars, faults, stdinPipe, outPipe, errPipe, revents, exitCode,
                     forwardVars, orphanDone, signal>>
  BY DEF NextEvent, Goes, MoreEvents
<1>2. result = "none" /\ EventDone
  BY <1>1 DEF IInv, Stage, Early
<1>3. TypeOK'
  <2>1. event' \in 0 .. Last
    BY <1>1, ShownInOrder, ConstantsAreNumbers
  <2>2. pc' \in Places /\ written' \in BOOLEAN /\ seen' \subseteq Players
    BY <1>1 DEF Places
  <2>3. UNCHANGED <<mode, revents, exitCode, open, queue, consumer, outPipe, deadline,
                    expired, orphanDone, signal, result>>
    BY <1>1 DEF forwardVars, clockVars
  <2>4. QED
    BY <2>1, <2>2, <2>3 DEF IInv, TypeOK
<1>4. SubmissionTypeOK'
  BY <1>1, SubmissionTypeFrame DEF IInv, SubmissionTypeOK, ownVars, workVars
<1>5. Stage'
  BY <1>1, <1>2, ShownInOrder
     DEF IInv, Stage, Early, Late, ClosedModes, forwardVars, ownVars, Running
<1>6. Shown = event /\ Shown' = event
  BY <1>1, <1>2, ShownInOrder DEF EventDone, Shown
<1>7. Fed'
  <2>1. event > 0 => reported[event] = ExpectedPlayers(event)
    BY <1>2, CompleteIsReported, ShownInOrder DEF EventDone
  <2>2. \A k \in Events : k < event' => k < event \/ k = event
    BY <1>1, ShownInOrder, ConstantsAreNumbers
  <2>3. \A k \in Events : k > 0
    BY ConstantsAreNumbers
  <2>4. \A k \in Events : k < event' => reported[k] = ExpectedPlayers(k)
    BY <2>1, <2>2, <2>3 DEF IInv, Fed
  <2>5. UNCHANGED <<stdinPipe, current, todo, reported>>
    BY <1>1 DEF ownVars, workVars
  <2>6. QED
    BY <1>6, <2>4, <2>5 DEF IInv, Fed, ExpectedPlayers, Events
<1>8. Traced'
  <2>1. UNCHANGED <<errPipe, current, reported, wrong>>
    BY <1>1 DEF ownVars, workVars
  <2>2. current < event'
    BY <1>1, <1>6, ShownInOrder
  <2>3. \A i \in DOMAIN errPipe : errPipe[i].event <= current /\ errPipe[i].event \in Nat
    BY EventOfRecord
  <2>4. \A i \in DOMAIN errPipe : Refused(i)'
    BY <2>1, <2>2, <2>3, ShownInOrder DEF Refused
  <2>5. UNCHANGED <<mode, orphanDone, result>>
    BY <1>1
  <2>6. current' # event' /\ seen' = {}
    BY <1>1, <2>1, <2>2, ShownInOrder
  <2>7. \A k : ExpectedPlayers(k)' = ExpectedPlayers(k)
    BY DEF ExpectedPlayers
  <2>8. wrong' /\ result' = "none" /\ mode' \notin ClosedModes /\ ~orphanDone'
            => \E i \in DOMAIN errPipe' : Refused(i)'
    BY <2>1, <2>4, <2>5 DEF IInv, Traced
  <2>9. QED
    BY <2>1, <2>6, <2>7, <2>8 DEF IInv, Traced
<1>9. Ended'
  BY <1>1, <1>2, EndedFrame DEF IInv, ownVars, forwardVars, workVars
<1>10. QED
  BY <1>3, <1>4, <1>5, <1>7, <1>8, <1>9 DEF IInv

LEMMA SendWriteKeeps ==
    ASSUME IInv, SendWrite
    PROVE  IInv'
<1>1. /\ pc = "write"
      /\ UNCHANGED <<ownVars, faults, outPipe, errPipe, event, seen, revents, exitCode,
                     forwardVars, orphanDone, signal>>
  BY DEF SendWrite
<1>2. \/ /\ pc' = "check" /\ UNCHANGED <<result, feeding, mode, clockVars, group>>
         /\ \/ UNCHANGED <<written, stdinPipe>>
            \/ ~written /\ written' = TRUE /\ stdinPipe' = Append(stdinPipe, event)
      \/ /\ result' \in {"nonzero", "signalled", "two"} /\ feeding' = FALSE
         /\ pc' = "drain" /\ mode' = "term" /\ deadline' = "drain" /\ expired' = FALSE
         /\ group' \in {"none", "term", "kill"}
         /\ UNCHANGED <<written, stdinPipe>>
  BY TerminateDoes DEF IInv, SendWrite, Goes
<1>3. result = "none" /\ event > 0
  BY <1>1 DEF IInv, Stage, Early
<1>4. TypeOK'
  <2>1. pc' \in Places /\ mode' \in Modes
    BY <1>1, <1>2 DEF IInv, TypeOK, Places, Modes
  <2>2. deadline' \in {"none", "orphan", "closed", "drain"} /\ expired' \in BOOLEAN
    BY <1>2 DEF IInv, TypeOK, clockVars
  <2>3. result' \in Codes \cup {"none", "two"}
    BY <1>2 DEF IInv, TypeOK, Codes
  <2>4. written' \in BOOLEAN
    BY <1>2 DEF IInv, TypeOK
  <2>5. UNCHANGED <<event, seen, revents, exitCode, open, queue, consumer, outPipe,
                    orphanDone, signal>>
    BY <1>1 DEF forwardVars
  <2>6. QED
    BY <2>1, <2>2, <2>3, <2>4, <2>5 DEF IInv, TypeOK
<1>5. SubmissionTypeOK'
  <2>1. stdinPipe' \in Seq(Events)
    <3>1. event \in Events /\ stdinPipe \in Seq(Events)
      BY <1>3, ShownInOrder DEF IInv, SubmissionTypeOK
    <3>2. Append(stdinPipe, event) \in Seq(Events)
      BY <3>1
    <3>3. QED
      BY <1>2, <3>1, <3>2
  <2>2. feeding' \in BOOLEAN /\ group' \in {"none", "term", "kill"}
    BY <1>2 DEF IInv, SubmissionTypeOK
  <2>3. UNCHANGED <<child, status, descendant, detached, hung, hasStdin, hasOutput, errPipe,
                    current, todo, outputs, reported, wrong, faults>>
    BY <1>1 DEF ownVars, workVars
  <2>4. QED
    BY <2>1, <2>2, <2>3 DEF IInv, SubmissionTypeOK
<1>6. Stage'
  BY <1>1, <1>2, <1>3
     DEF IInv, Stage, Early, Late, ClosedModes, forwardVars, ownVars, Running
<1>7. Fed'
  <2>1. CASE UNCHANGED <<written, stdinPipe>>
    BY <1>1, <2>1, FedFrame DEF IInv, ownVars, workVars
  <2>2. CASE ~written /\ written' = TRUE /\ stdinPipe' = Append(stdinPipe, event)
    <3>1. Shown = event - 1 /\ Shown' = event
      BY <1>1, <1>3, <2>2, ShownInOrder DEF Shown
    <3>2. current + Len(stdinPipe) + 1 = event
      BY <1>3, <3>1, ShownInOrder DEF IInv, Fed
    <3>3. /\ Len(stdinPipe') = Len(stdinPipe) + 1
          /\ DOMAIN stdinPipe' = 1 .. Len(stdinPipe) + 1
          /\ \A i \in 1 .. Len(stdinPipe) : stdinPipe'[i] = stdinPipe[i]
          /\ stdinPipe'[Len(stdinPipe) + 1] = event
      BY <2>2 DEF IInv, SubmissionTypeOK
    <3>4. UNCHANGED <<current, todo, reported, event>>
      BY <1>1 DEF ownVars, workVars
    <3>5. \A i \in 1 .. Len(stdinPipe) + 1 :
              i \in 1 .. Len(stdinPipe) \/ i = Len(stdinPipe) + 1
      BY ShownInOrder
    <3>6. \A i \in DOMAIN stdinPipe' : stdinPipe'[i] = current + i
      <4>1. \A i \in 1 .. Len(stdinPipe) : stdinPipe[i] = current + i
        BY ShownInOrder DEF IInv, Fed
      <4>2. event = current + (Len(stdinPipe) + 1)
        BY <3>2, ShownInOrder
      <4>3. QED
        BY <3>3, <3>5, <4>1, <4>2
    <3>7. current' + Len(stdinPipe') = Shown'
      BY <3>1, <3>2, <3>3, <3>4, ShownInOrder
    <3>8. QED
      BY <3>4, <3>6, <3>7 DEF IInv, Fed, ExpectedPlayers, Events
  <2>3. QED
    BY <1>2, <2>1, <2>2
<1>8. Traced'
  BY <1>1, <1>2, <1>3, TracedFrame DEF IInv, ownVars, workVars
<1>9. Ended'
  BY <1>1, <1>2, <1>3, EndedFrame DEF IInv, ownVars, forwardVars, workVars
<1>10. QED
  BY <1>4, <1>5, <1>6, <1>7, <1>8, <1>9 DEF IInv

LEMMA CannotCreateKeeps ==
    ASSUME IInv, CannotCreate
    PROVE  IInv'
<1>1. /\ pc = "create" /\ pc' = "returned" /\ result' = "two"
      /\ child' = "exited" \/ (child' = child /\ ~Running)
      /\ status' \in Codes /\ exitCode' = status' /\ feeding' = FALSE
      /\ descendant' \in BOOLEAN /\ detached' \subseteq {"stdin", "output", "group"}
      /\ open' = [s \in Streams |-> FALSE]
      /\ UNCHANGED <<hung, hasStdin, hasOutput, group, stdinPipe, outPipe, errPipe,
                     workVars, mode, scanVars, queue, consumer, clockVars,
                     orphanDone, signal>>
  BY DEF CannotCreate, KillsDescendant, Exits, IInv, SubmissionTypeOK, Codes
<1>2. faults' \in Nat
  BY FaultIsCounted DEF IInv, CannotCreate
<1>3. child' \in {"running", "exited"} /\ child' # "running"
  BY <1>1 DEF IInv, SubmissionTypeOK, Running
<1>4. TypeOK'
  BY <1>1 DEF IInv, TypeOK, Places, Codes, scanVars, clockVars
<1>5. SubmissionTypeOK'
  <2>1. UNCHANGED <<hung, hasStdin, hasOutput, group, stdinPipe, errPipe,
                    current, todo, outputs, reported, wrong>>
    BY <1>1 DEF workVars
  <2>2. descendant' \in BOOLEAN /\ feeding' \in BOOLEAN
    BY <1>1
  <2>3. QED
    BY <1>1, <1>2, <1>3, <2>1, <2>2 DEF IInv, SubmissionTypeOK
<1>6. Stage'
  BY <1>1, <1>3 DEF IInv, Stage, Early, Late, ClosedModes, Running
<1>7. Fed'
  BY <1>1, FedFrame DEF IInv, scanVars, workVars
<1>8. Traced'
  BY <1>1, TracedFrame DEF IInv, scanVars, workVars
<1>9. Ended'
  BY <1>1 DEF Ended
<1>10. QED
  BY <1>4, <1>5, <1>6, <1>7, <1>8, <1>9 DEF IInv

\* Success is decided here, and nowhere else.
LEMMA FinishReturnsKeeps ==
    ASSUME IInv, FinishReturns
    PROVE  IInv'
<1>1. /\ pc = "finish" /\ pc' = "returned" /\ result' = exitCode /\ exitCode # "none"
      /\ ~SomeOpen /\ ~Pending
      /\ UNCHANGED <<submissionVars, faults, mode, scanVars, exitCode, forwardVars,
                     clockVars, orphanDone, signal>>
  BY DEF FinishReturns, Done
<1>2. UNCHANGED <<child, status, descendant, detached, hung, hasStdin, hasOutput, stdinPipe,
                  errPipe, outPipe, current, todo, outputs, reported, wrong, feeding,
                  group, faults>>
  BY <1>1 DEF submissionVars, processVars, pipeVars, workVars
<1>3. result = "none" /\ mode \notin ClosedModes
  BY <1>1 DEF IInv, Stage, Late, Early
<1>4. TypeOK'
  BY <1>1, <1>2 DEF IInv, TypeOK, Places, Codes, scanVars, clockVars, forwardVars
<1>5. SubmissionTypeOK'
  BY <1>2 DEF IInv, SubmissionTypeOK
<1>6. Stage'
  BY <1>1, <1>2, <1>3
     DEF IInv, Stage, Early, Late, Running, EventDone, Complete, scanVars, forwardVars
<1>7. Fed'
  BY <1>1, <1>2, FedFrame DEF IInv, scanVars
<1>8. Traced'
  BY <1>1, <1>2, <1>3, TracedFrame DEF IInv, scanVars
<1>9. \A s \in Streams : /\ ~open[s] /\ queue[s] = 0
                         /\ orphanDone \/ (~OutputHeld /\ InPipe(s) = 0)
  <2>1. \A s \in Streams : ~open[s] /\ ~(queue[s] > 0)
    BY <1>1 DEF SomeOpen, Pending
  <2>2. \A s \in Streams : queue[s] = 0
    BY <2>1, ConstantsAreNumbers DEF IInv, TypeOK
  <2>3. QED
    BY <1>1, <2>1, <2>2 DEF IInv, Ended
<1>10. orphanDone \/ ~wrong
  <2>1. orphanDone \/ Len(errPipe) = 0
    BY <1>9 DEF Streams, InPipe
  <2>2. orphanDone \/ DOMAIN errPipe = {}
    BY <2>1 DEF IInv, SubmissionTypeOK
  <2>3. QED
    BY <2>2, <1>3 DEF IInv, Traced
<1>11. \A k \in Events : reported[k] = ExpectedPlayers(k)
  <2>1. event = Last /\ EventDone
    BY <1>1, <1>3 DEF IInv, Stage, Early
  <2>2. event > 0 => reported[event] = ExpectedPlayers(event)
    BY <1>3, <2>1, CompleteIsReported, ShownInOrder DEF EventDone
  <2>3. \A k \in Events : k \in Nat /\ k > 0 /\ (k < event \/ k = event)
    BY <2>1, ConstantsAreNumbers
  <2>4. \A k \in Events : k < event => reported[k] = ExpectedPlayers(k)
    BY DEF IInv, Fed
  <2>5. QED
    BY <2>2, <2>3, <2>4
<1>12. Ended'
  <2>1. UNCHANGED <<open, queue, orphanDone, wrong, reported>> /\ OutputHeld' = OutputHeld
        /\ \A s : InPipe(s)' = InPipe(s)
    BY <1>1, <1>2 DEF forwardVars, OutputHeld, Keeps, Running, InPipe
  <2>2. \A k : ExpectedPlayers(k)' = ExpectedPlayers(k)
    BY DEF ExpectedPlayers
  <2>3. QED
    BY <1>9, <1>10, <1>11, <2>1, <2>2 DEF Ended, Events
<1>13. QED
  BY <1>4, <1>5, <1>6, <1>7, <1>8, <1>12 DEF IInv

LEMMA CloseStreamsKeeps ==
    ASSUME IInv, CloseStreams
    PROVE  IInv'
<1>1. /\ pc = "close" /\ pc' = "returned" /\ open' = [s \in Streams |-> FALSE]
      /\ UNCHANGED <<submissionVars, faults, mode, scanVars, exitCode, queue, consumer,
                     clockVars, orphanDone, signal, result>>
  BY DEF CloseStreams
<1>2. UNCHANGED <<child, status, descendant, detached, hung, hasStdin, hasOutput, stdinPipe,
                  errPipe, outPipe, current, todo, outputs, reported, wrong, feeding,
                  group, faults>>
  BY <1>1 DEF submissionVars, processVars, pipeVars, workVars
<1>3. result # "none" /\ result # "zero"
  BY <1>1 DEF IInv, Stage
<1>4. TypeOK'
  BY <1>1, <1>2 DEF IInv, TypeOK, Places, scanVars, clockVars
<1>5. SubmissionTypeOK'
  BY <1>2 DEF IInv, SubmissionTypeOK
<1>6. Stage'
  BY <1>1, <1>2, <1>3 DEF IInv, Stage, Early, Late, Running, scanVars
<1>7. Fed'
  BY <1>1, <1>2, FedFrame DEF IInv, scanVars
<1>8. Traced'
  BY <1>1, <1>2, <1>3, TracedFrame DEF IInv, scanVars
<1>9. Ended'
  BY <1>1, <1>3 DEF Ended
<1>10. QED
  BY <1>4, <1>5, <1>6, <1>7, <1>8, <1>9 DEF IInv
(***************************************************************************)
(* The steps that pump. What differs is where they go from there.          *)
(***************************************************************************)
PumpFrame ==
    UNCHANGED <<child, status, descendant, detached, hung, hasStdin, hasOutput, workVars, faults,
                stdinPipe, event, written, consumer>>

\* The relay goes on, gives the run up, or ends the drain under way.
Onward(ok) ==
    \/ /\ pc' \in {"write", "settled", "finish", "drain"}
       /\ ok
       /\ pc \in {"send", "settle", "poll", "drain"}
       /\ pc = "send" => pc' = "write"
       /\ pc = "settle" => pc' = "settled"
       /\ pc = "poll" => pc' = "finish"
       /\ pc = "drain" => pc' = "drain"
       /\ UNCHANGED <<result, feeding, mode, clockVars, group>>
    \/ /\ result' \in {"nonzero", "signalled", "two"} /\ feeding' = FALSE
       /\ pc \in {"send", "settle", "poll"} \/ (pc = "drain" /\ mode = "orphan")
       /\ pc' = "drain" /\ mode' = "term" /\ deadline' = "drain" /\ expired' = FALSE
       /\ group' \in {"none", "term", "kill"}

LEMMA PumpStepKeeps ==
    ASSUME IInv, NEW scanned \in BOOLEAN, NEW ok \in BOOLEAN,
           PumpEffect(scanned, ok), Onward(ok), PumpFrame, UNCHANGED orphanDone,
           exitCode' \in {exitCode, CheckChild},
           pc \in {"send", "settle", "poll"} => scanned,
           pc = "drain" => (scanned <=> mode = "orphan")
    PROVE  IInv'
<1>1. /\ errPipe' \in Seq([event : 0 .. Last, player : Players])
      /\ outPipe' \in 0 .. PipeSize
      /\ seen' \subseteq Players
      /\ revents' \subseteq {"out", "err"} /\ signal' \in BOOLEAN
      /\ open' \in [Streams -> BOOLEAN] /\ queue' \in [Streams -> 0 .. QueueSize + 1]
      /\ \A s \in Streams : queue[s] <= QueueSize => queue'[s] <= QueueSize
  <2>1. PICK n \in 0 .. Len(errPipe) :
        /\ errPipe' = SubSeq(errPipe, n + 1, Len(errPipe))
        /\ outPipe' \in 0 .. outPipe
        /\ seen' \subseteq seen \cup {SubSeq(errPipe, 1, n)[i].player :
               i \in DOMAIN SubSeq(errPipe, 1, n)}
        /\ revents' \subseteq {"out", "err"} /\ signal' \in BOOLEAN
        /\ open' \in [Streams -> BOOLEAN] /\ queue' \in [Streams -> 0 .. QueueSize + 1]
        /\ \A s \in Streams : queue[s] <= QueueSize => queue'[s] <= QueueSize
    BY DEF PumpEffect
  <2>2. errPipe' \in Seq([event : 0 .. Last, player : Players])
    BY <2>1, Remaining DEF IInv
  <2>3. outPipe' \in 0 .. PipeSize
    BY <2>1, ConstantsAreNumbers DEF IInv, TypeOK
  <2>4. \A i \in DOMAIN SubSeq(errPipe, 1, n) : SubSeq(errPipe, 1, n)[i].player \in Players
    <3>1. DOMAIN SubSeq(errPipe, 1, n) = 1 .. n /\ \A i \in 1 .. n :
              SubSeq(errPipe, 1, n)[i] = errPipe[i]
      BY DEF IInv, SubmissionTypeOK
    <3>2. \A i \in 1 .. n : i \in DOMAIN errPipe
      BY DEF IInv, SubmissionTypeOK
    <3>3. QED
      BY <3>1, <3>2, EventOfRecord
  <2>5. seen \subseteq Players
    BY DEF IInv, TypeOK
  <2>6. seen' \subseteq Players
    BY <2>1, <2>4, <2>5
  <2>7. QED
    BY <2>1, <2>2, <2>3, <2>6
<1>2. UNCHANGED <<child, status, descendant, detached, hung, hasStdin, hasOutput, stdinPipe,
                  current, todo, outputs, reported, wrong, faults, event, written,
                  consumer>>
  BY DEF PumpFrame, workVars
<1>3. /\ pc' \in Places /\ mode' \in Modes
      /\ deadline' \in {"none", "orphan", "closed", "drain"} /\ expired' \in BOOLEAN
      /\ result' \in Codes \cup {"none", "two"}
      /\ feeding' \in BOOLEAN /\ group' \in {"none", "term", "kill"}
      /\ result' # "zero" /\ pc # "returned"
  <2>1. result # "zero" /\ pc # "returned"
    BY DEF IInv, Stage, Onward
  <2>2. pc' \in Places /\ mode' \in Modes
    BY DEF IInv, TypeOK, Onward, Places, Modes
  <2>3. deadline' \in {"none", "orphan", "closed", "drain"} /\ expired' \in BOOLEAN
    BY DEF IInv, TypeOK, Onward, clockVars
  <2>4. result' \in Codes \cup {"none", "two"} /\ result' # "zero"
    BY <2>1 DEF IInv, TypeOK, Onward, Codes
  <2>5. feeding' \in BOOLEAN /\ group' \in {"none", "term", "kill"}
    BY DEF IInv, SubmissionTypeOK, Onward
  <2>6. QED
    BY <2>1, <2>2, <2>3, <2>4, <2>5
<1>4. exitCode' \in Codes \cup {"none"} /\ (exitCode' # "none" => child # "running")
  BY CheckChildSays DEF IInv, TypeOK, Stage, Running
<1>5. TypeOK'
  BY <1>1, <1>2, <1>3, <1>4 DEF IInv, TypeOK
<1>6. SubmissionTypeOK'
  BY <1>1, <1>2, <1>3 DEF IInv, SubmissionTypeOK
<1>7. result' = "none" => ok /\ result = "none"
  BY DEF Onward, IInv, Stage, Early, Late
<1>8. event = 0 => result' # "none" \/ seen' = seen
  <2>1. ASSUME event = 0, result' = "none" PROVE ~scanned
    <3>1. PICK n \in 0 .. Len(errPipe) : scanned => Scans(SubSeq(errPipe, 1, n))
      BY <1>7, <2>1 DEF PumpEffect
    <3>2. QED
      BY <2>1, <3>1 DEF Scans
  <2>2. QED
    BY <2>1, <1>7 DEF PumpEffect
<1>9. result' = "none" => seen \subseteq seen'
  BY <1>7 DEF PumpEffect
<1>10. Stage'
  <2>1. result' = "none" /\ EventDone => EventDone'
    BY <1>2, <1>9 DEF EventDone, Complete, ExpectedPlayers
  <2>2. Running' = Running
    BY <1>2 DEF Running
  <2>3. mode' # "report" => \A s \in Streams : queue'[s] <= QueueSize
    BY <1>1 DEF IInv, Stage, Onward
  <2>4. result' = "none" /\ event' = 0 => seen' = {}
    BY <1>2, <1>7, <1>8 DEF IInv, Stage
  <2>5. result' = "none" /\ pc' \notin Early => event' = Last /\ EventDone'
    BY <1>2, <1>7, <2>1 DEF IInv, Stage, Onward, Early
  <2>6. exitCode' # "none" => ~Running'
    BY <1>4, <2>2 DEF Running
  <2>7. /\ pc' \in Early \cup Late => result' = "none"
        /\ pc' \in {"drain", "reap"} =>
            (result' = "none" <=> mode' \in ClosedModes \cup {"orphan"})
        /\ pc' \notin {"close", "returned", "reap", "create", "next"}
        /\ pc' = "drain" => mode' # "none"
        /\ mode' \in ClosedModes => pc' \in {"drain", "reap"} \/ result' # "none"
        /\ mode' = "report" => pc' \in {"drain", "close", "returned"}
        /\ pc' \in {"send", "write", "check", "settle", "settled"} => event' > 0
    BY <1>2, <1>7 DEF IInv, Stage, Onward, Early, Late, ClosedModes
  <2>8. QED
    BY <1>3, <2>3, <2>4, <2>5, <2>6, <2>7 DEF Stage
<1>11. Fed'
  BY <1>2, FedFrame DEF IInv
<1>12. Traced'
  <2>1. result' = "none" /\ mode' \notin ClosedModes /\ ~orphanDone'
            => scanned /\ mode \notin ClosedModes /\ ~orphanDone
    BY <1>7 DEF IInv, Stage, Onward, ClosedModes
  <2>2. QED
    BY <1>2, <1>7, <2>1, TracedPump DEF IInv
<1>13. Ended'
  BY <1>2, <1>3, EndedPump DEF IInv
<1>14. QED
  BY <1>5, <1>6, <1>10, <1>11, <1>12, <1>13 DEF IInv

LEMMA SendPumpKeeps ==
    ASSUME IInv, SendPump
    PROVE  IInv'
<1>1. PICK ok \in BOOLEAN :
        /\ Pump(~written, FALSE, TRUE, ok)
        /\ IF ok THEN Goes("write") ELSE Terminate(exitCode)
  BY DEF SendPump
<1>2. PumpEffect(TRUE, ok)
  BY <1>1, PumpDoes DEF IInv, TypeOK
<1>3. pc = "send" /\ PumpFrame /\ UNCHANGED <<orphanDone, exitCode>>
  BY DEF SendPump, PumpFrame, ownVars
<1>4. Onward(ok)
  BY <1>1, <1>3, TerminateDoes DEF IInv, Onward, Goes
<1>5. QED
  BY <1>2, <1>3, <1>4, PumpStepKeeps

LEMMA SettleKeeps ==
    ASSUME IInv, Settle
    PROVE  IInv'
<1>1. PICK ok \in BOOLEAN :
        /\ Pump(FALSE, TRUE, TRUE, ok)
        /\ IF ok THEN Goes("settled") ELSE Terminate(exitCode)
  BY DEF Settle
<1>2. PumpEffect(TRUE, ok)
  BY <1>1, PumpDoes DEF IInv
<1>3. pc = "settle" /\ PumpFrame /\ UNCHANGED <<orphanDone, exitCode>>
  BY DEF Settle, PumpFrame, ownVars
<1>4. Onward(ok)
  BY <1>1, <1>3, TerminateDoes DEF IInv, Onward, Goes
<1>5. QED
  BY <1>2, <1>3, <1>4, PumpStepKeeps

LEMMA FinishPumpKeeps ==
    ASSUME IInv, FinishPump
    PROVE  IInv'
<1>1. PICK ok \in BOOLEAN :
        /\ Pump(FALSE, TRUE, TRUE, ok)
        /\ IF ok THEN Goes("finish") ELSE Terminate("none")
  BY DEF FinishPump
<1>2. PumpEffect(TRUE, ok)
  BY <1>1, PumpDoes DEF IInv
<1>3. pc = "poll" /\ PumpFrame /\ UNCHANGED <<orphanDone, exitCode>>
  BY DEF FinishPump, PumpFrame, ownVars
<1>4. Onward(ok)
  BY <1>1, <1>3, TerminateDoes DEF IInv, Onward, Goes
<1>5. QED
  BY <1>2, <1>3, <1>4, PumpStepKeeps

LEMMA DrainsKeeps ==
    ASSUME IInv, Drains
    PROVE  IInv'
<1>1. PumpEffect(mode = "orphan", TRUE)
  <2>1. Pump(FALSE, TRUE, mode = "orphan", TRUE)
    BY DEF Drains
  <2>2. QED
    BY <2>1, PumpDoes DEF IInv
<1>2. /\ pc = "drain" /\ PumpFrame /\ UNCHANGED orphanDone /\ exitCode' = CheckChild
      /\ UNCHANGED <<pc, mode, clockVars, group, result, feeding>>
  BY DEF Drains, PumpFrame, ownVars
<1>3. Onward(TRUE)
  BY <1>2 DEF Onward
<1>4. QED
  BY <1>1, <1>2, <1>3, PumpStepKeeps

LEMMA DrainFailsKeeps ==
    ASSUME IInv, DrainFails
    PROVE  IInv'
<1>1. /\ pc = "drain" /\ PumpFrame /\ UNCHANGED orphanDone /\ exitCode' = CheckChild
  BY DEF DrainFails, PumpFrame, ownVars
<1>2. CASE mode = "orphan"
  <2>1. Pump(FALSE, TRUE, TRUE, FALSE) /\ Terminate("none")
    BY <1>2 DEF DrainFails
  <2>2. PumpEffect(TRUE, FALSE)
    BY <2>1, PumpDoes DEF IInv
  <2>3. Onward(FALSE)
    BY <1>1, <1>2, <2>1, TerminateDoes DEF IInv, Onward
  <2>4. QED
    BY <1>1, <1>2, <2>2, <2>3, PumpStepKeeps
<1>3. CASE mode # "orphan"
  <2>1. PumpFails /\ Finished(mode) /\ UNCHANGED <<feeding, result>>
    BY <1>3 DEF DrainFails
  <2>2. UNCHANGED <<outPipe, errPipe, open, seen, revents>> /\ signal' \in BOOLEAN
    BY <2>1 DEF PumpFails, IInv, TypeOK
  <2>3. /\ queue' \in [Streams -> 0 .. QueueSize + 1]
         /\ \A s \in Streams : queue[s] <= QueueSize => queue'[s] <= QueueSize
    BY <2>1, PumpFailsQueue DEF IInv
  <2>4. FinishedFor(mode) /\ mode \in Modes \ {"none", "orphan"}
    BY <1>1, <1>3, <2>1, FinishedDoes DEF IInv, Stage, TypeOK
  <2>5. UNCHANGED <<child, status, descendant, detached, hung, hasStdin, hasOutput, stdinPipe,
                    current, todo, outputs, reported, wrong, faults, event, written,
                    consumer>>
    BY <1>1 DEF PumpFrame, workVars
  <2>6. TypeOK'
    <3>1. pc' \in Places /\ mode' \in Modes
      BY <2>4 DEF FinishedFor, Places, Modes
    <3>2. exitCode' \in Codes \cup {"none"}
      BY <1>1, CheckChildSays
    <3>3. deadline' \in {"none", "orphan", "closed", "drain"} /\ expired' \in BOOLEAN
      BY <2>4 DEF IInv, TypeOK, FinishedFor, clockVars
    <3>4. QED
      BY <1>1, <2>1, <2>2, <2>3, <2>5, <3>1, <3>2, <3>3 DEF IInv, TypeOK
  <2>7. SubmissionTypeOK'
    BY <2>1, <2>2, <2>4, <2>5, SubmissionTypeFrame
       DEF IInv, SubmissionTypeOK, FinishedFor, Modes
  <2>8. Stage'
    BY <1>1, <2>1, <2>2, <2>3, <2>4, <2>5, CheckChildSays
       DEF IInv, Stage, FinishedFor, Modes, Early, Late, ClosedModes, Running,
           EventDone, Complete
  <2>9. Fed'
    BY <2>5, FedFrame DEF IInv
  <2>10. Traced'
    BY <1>1, <2>1, <2>2, <2>4, <2>5, TracedFrame
       DEF IInv, Stage, FinishedFor, Modes, ClosedModes
  <2>11. Ended'
    BY <1>1, <2>1, <2>2, <2>5, EndedFrame DEF IInv, Stage
  <2>12. QED
    BY <2>6, <2>7, <2>8, <2>9, <2>10, <2>11 DEF IInv
<1>4. QED
  BY <1>2, <1>3
(***************************************************************************)
(* The submission. It touches neither the relay nor, once its outputs are  *)
(* at their end, the pipes.                                                *)
(***************************************************************************)
LEMMA SubmissionFrame ==
    ASSUME IInv, UNCHANGED relayVars, SubmissionTypeOK', outPipe' \in 0 .. PipeSize,
           Running' => Running, Fed', Traced',
           OutputHeld' => OutputHeld,
           ~OutputHeld => UNCHANGED <<outPipe, errPipe, wrong>>,
           (\A k \in Events : reported[k] = ExpectedPlayers(k)) => UNCHANGED reported
    PROVE  IInv'
<1>1. UNCHANGED <<pc, mode, event, written, seen, revents, exitCode, open, queue, consumer,
                  deadline, expired, orphanDone, signal, result>>
  BY DEF relayVars, scanVars, forwardVars, clockVars
<1>2. TypeOK'
  BY <1>1 DEF IInv, TypeOK
<1>3. EventDone' <=> EventDone
  BY <1>1 DEF EventDone, Complete, ExpectedPlayers
<1>4. Stage'
  BY <1>1, <1>3 DEF IInv, Stage, Early, Late
<1>5. Ended'
  <2>1. ASSUME NEW s \in Streams
        PROVE  \/ open'[s] \/ orphanDone' \/ (pc' = "returned" /\ result' # "zero")
               \/ ~OutputHeld' /\ InPipe(s)' = 0
    BY <1>1 DEF IInv, Ended, InPipe
  <2>2. result' = "zero" => \A s \in Streams : ~open'[s] /\ queue'[s] = 0
    BY <1>1 DEF IInv, Ended
  <2>3. ASSUME result' = "zero", ~orphanDone'
        PROVE  ~wrong'
    <3>1. "out" \in Streams
      BY DEF Streams
    <3>2. ~OutputHeld /\ ~wrong
      BY <1>1, <2>3, <3>1 DEF IInv, Ended
    <3>3. QED
      BY <3>2
  <2>4. result' = "zero" => \A k \in Events : reported'[k] = ExpectedPlayers(k)
    BY <1>1 DEF IInv, Ended
  <2>5. \A k : ExpectedPlayers(k)' = ExpectedPlayers(k)
    BY DEF ExpectedPlayers
  <2>6. QED
    BY <2>1, <2>2, <2>3, <2>4, <2>5 DEF Ended, Events
<1>6. QED
  BY <1>2, <1>4, <1>5 DEF IInv

\* What the submission is made of changes, and none of its work.
LEMMA IdleFrame ==
    ASSUME IInv, UNCHANGED relayVars,
           UNCHANGED <<stdinPipe, outPipe, errPipe, feeding, current, todo, outputs,
                       reported, wrong>>,
           child' \in {"running", "exited"}, status' \in Codes, descendant' \in BOOLEAN,
           detached' \subseteq {"stdin", "output", "group"},
           hung' \in BOOLEAN, hasStdin' \in BOOLEAN, hasOutput' \in BOOLEAN,
           group' \in {"none", "term", "kill"}, faults' \in Nat,
           Running' => Running, OutputHeld' => OutputHeld
    PROVE  IInv'
<1>1. SubmissionTypeOK'
  BY DEF IInv, SubmissionTypeOK
<1>2. UNCHANGED <<event, written, seen, mode, orphanDone, result>>
  BY DEF relayVars, scanVars
<1>3. Fed'
  BY <1>2, FedFrame DEF IInv
<1>4. Traced'
  BY <1>2, TracedFrame DEF IInv
<1>5. outPipe' \in 0 .. PipeSize
  BY DEF IInv, TypeOK
<1>6. QED
  BY <1>1, <1>3, <1>4, <1>5, SubmissionFrame

LEMMA ChildReadsKeeps ==
    ASSUME IInv, ChildReads, UNCHANGED relayVars
    PROVE  IInv'
<1>1. /\ todo = {} /\ stdinPipe # <<>>
      /\ current' = Head(stdinPipe) /\ stdinPipe' = Tail(stdinPipe)
      /\ todo' = ExpectedPlayers(current')
  BY DEF ChildReads
<1>2. UNCHANGED <<child, status, descendant, detached, hung, hasStdin, hasOutput, group, outPipe,
                  errPipe, feeding, outputs, reported, wrong, faults>>
  BY DEF ChildReads, processVars
<1>3. UNCHANGED <<event, written, seen, mode, orphanDone, result>>
  BY DEF relayVars, scanVars
<1>4. /\ Len(stdinPipe) \in Nat /\ Len(stdinPipe) > 0
      /\ Head(stdinPipe) = stdinPipe[1] /\ Head(stdinPipe) \in Events
      /\ stdinPipe' \in Seq(Events)
      /\ Len(stdinPipe') = Len(stdinPipe) - 1
      /\ DOMAIN stdinPipe' = 1 .. Len(stdinPipe) - 1
      /\ \A i \in 1 .. Len(stdinPipe) - 1 : stdinPipe'[i] = stdinPipe[i + 1]
  <2>1. stdinPipe \in Seq(Events)
    BY DEF IInv, SubmissionTypeOK
  <2>2. QED
    BY <1>1, <2>1
<1>5. current' = current + 1 /\ current' \in Events
  BY <1>1, <1>4, ShownInOrder DEF IInv, Fed
<1>6. Fed'
  <2>1. Shown' = Shown
    BY <1>3 DEF Shown
  <2>2. current' + Len(stdinPipe') = Shown'
    BY <1>4, <1>5, <2>1, ShownInOrder DEF IInv, Fed
  <2>3. ASSUME NEW i \in DOMAIN stdinPipe'
        PROVE  stdinPipe'[i] = current' + i
    <3>1. i \in 1 .. Len(stdinPipe) - 1 /\ i + 1 \in DOMAIN stdinPipe
      BY <1>4, ShownInOrder
    <3>2. stdinPipe'[i] = stdinPipe[i + 1] /\ stdinPipe[i + 1] = current + (i + 1)
      BY <1>4, <3>1 DEF IInv, Fed
    <3>3. current + (i + 1) = current' + i
      BY <1>5, <3>1, ShownInOrder
    <3>4. QED
      BY <3>2, <3>3
  <2>4. ASSUME NEW k \in Events
        PROVE  /\ k < current' \/ k < event' => reported'[k] = ExpectedPlayers(k)
               /\ k > current' => reported'[k] = {}
               /\ k = current' => /\ reported'[k] \subseteq ExpectedPlayers(k)
                                  /\ todo' = ExpectedPlayers(k) \ reported'[k]
    <3>1. /\ k < current \/ k < event => reported[k] = ExpectedPlayers(k)
          /\ k > current => reported[k] = {}
          /\ k = current => reported[k] = ExpectedPlayers(k)
      BY <1>1 DEF IInv, Fed
    <3>2. k \in Nat
      BY ConstantsAreNumbers
    <3>3. CASE k < current'
      BY <1>2, <1>5, <3>1, <3>2, <3>3, ShownInOrder
    <3>4. CASE k = current'
      BY <1>1, <1>2, <1>3, <1>5, <3>1, <3>2, <3>4, ShownInOrder
    <3>5. CASE k > current'
      BY <1>2, <1>3, <1>5, <3>1, <3>2, <3>5, ShownInOrder
    <3>6. QED
      BY <3>2, <3>3, <3>4, <3>5, <1>5, ShownInOrder
  <2>5. \A k : ExpectedPlayers(k)' = ExpectedPlayers(k)
    BY DEF ExpectedPlayers
  <2>6. current' # 0
    BY <1>5, ShownInOrder
  <2>7. QED
    BY <2>2, <2>3, <2>4, <2>5, <2>6 DEF Fed, Events
<1>7. Traced'
  <2>1. \A i \in DOMAIN errPipe : errPipe[i].event <= current'
    BY <1>5, EventOfRecord, ShownInOrder
  <2>2. current' = event' /\ event' > 0 => reported'[event'] = {}
    BY <1>2, <1>3, <1>5, ShownInOrder DEF IInv, Fed
  <2>3. \A k : ExpectedPlayers(k)' = ExpectedPlayers(k)
    BY DEF ExpectedPlayers
  <2>4. \A i : Refused(i)' = Refused(i)
    BY <1>2, <1>3 DEF Refused, ExpectedPlayers
  <2>5. QED
    BY <1>2, <1>3, <2>1, <2>2, <2>3, <2>4 DEF IInv, Traced
<1>8. SubmissionTypeOK'
  <2>1. todo' \subseteq Players
    BY <1>1, <1>5, ExpectedType
  <2>2. current' \in 0 .. Last
    BY <1>5, ConstantsAreNumbers
  <2>3. QED
    BY <1>2, <1>4, <2>1, <2>2 DEF IInv, SubmissionTypeOK
<1>9. Running' = Running /\ OutputHeld' = OutputHeld /\ outPipe' \in 0 .. PipeSize
  BY <1>2 DEF Running, OutputHeld, Keeps, IInv, TypeOK
<1>10. QED
  BY <1>2, <1>6, <1>7, <1>8, <1>9, SubmissionFrame

\* A record is appended to the stderr pipe.
LEMMA Appended ==
    ASSUME IInv, NEW r \in [event : 0 .. Last, player : Players],
           errPipe' = Append(errPipe, r)
    PROVE  /\ errPipe' \in Seq([event : 0 .. Last, player : Players])
           /\ Len(errPipe) \in Nat
           /\ DOMAIN errPipe = 1 .. Len(errPipe)
           /\ DOMAIN errPipe' = 1 .. Len(errPipe) + 1
           /\ \A i \in DOMAIN errPipe : i \in DOMAIN errPipe' /\ errPipe'[i] = errPipe[i]
           /\ Len(errPipe) + 1 \in DOMAIN errPipe'
           /\ errPipe'[Len(errPipe) + 1] = r
           /\ \A i \in DOMAIN errPipe' : i \in DOMAIN errPipe \/ i = Len(errPipe) + 1
<1> DEFINE R == [event : 0 .. Last, player : Players]
<1>1. errPipe \in Seq(R) /\ r \in R
  BY DEF IInv, SubmissionTypeOK
<1> HIDE DEF R
<1>2. /\ errPipe' \in Seq(R) /\ Len(errPipe) \in Nat
      /\ DOMAIN errPipe = 1 .. Len(errPipe)
      /\ DOMAIN errPipe' = 1 .. Len(errPipe) + 1
      /\ \A i \in 1 .. Len(errPipe) : errPipe'[i] = errPipe[i]
      /\ errPipe'[Len(errPipe) + 1] = r
  BY <1>1
<1>3. \A i \in 1 .. Len(errPipe) + 1 : i \in 1 .. Len(errPipe) \/ i = Len(errPipe) + 1
  BY <1>2
<1>4. \A i \in 1 .. Len(errPipe) : i \in 1 .. Len(errPipe) + 1
  BY <1>2
<1>5. Len(errPipe) + 1 \in 1 .. Len(errPipe) + 1
  BY <1>2
<1>6. QED
  BY <1>2, <1>3, <1>4, <1>5 DEF R

\* A record that will be refused still will be when another is behind it.
LEMMA StillRefused ==
    ASSUME IInv, NEW r \in [event : 0 .. Last, player : Players],
           errPipe' = Append(errPipe, r), UNCHANGED <<event, seen>>,
           NEW i \in DOMAIN errPipe, Refused(i)
    PROVE  i \in DOMAIN errPipe' /\ Refused(i)'
<1>1. /\ DOMAIN errPipe = 1 .. Len(errPipe) /\ Len(errPipe) \in Nat
      /\ \A j \in DOMAIN errPipe : j \in DOMAIN errPipe' /\ errPipe'[j] = errPipe[j]
  BY Appended
<1>2. \A j \in 1 .. i - 1 : j \in DOMAIN errPipe
  BY <1>1
<1>3. ExpectedPlayers(event)' = ExpectedPlayers(event)
  BY DEF ExpectedPlayers
<1>4. QED
  BY <1>1, <1>2, <1>3 DEF Refused

LEMMA ChildReportsKeeps ==
    ASSUME IInv, ChildReports, UNCHANGED relayVars
    PROVE  IInv'
<1>1. PICK p \in todo :
        /\ errPipe' = Append(errPipe, [event |-> current, player |-> p])
        /\ todo' = todo \ {p}
        /\ reported' = [reported EXCEPT ![current] = @ \cup {p}]
  BY DEF ChildReports
<1> DEFINE r == [event |-> current, player |-> p]
<1>2. UNCHANGED <<child, status, descendant, detached, hung, hasStdin, hasOutput, group, stdinPipe,
                  outPipe, feeding, current, outputs, wrong, faults>>
      /\ Active /\ hasOutput
  BY DEF ChildReports, processVars
<1>3. UNCHANGED <<event, written, seen, mode, orphanDone, result>>
  BY DEF relayVars, scanVars
<1>4. current \in Events /\ current > 0 /\ p \in Players /\ current \in 0 .. Last
  BY <1>1, ShownInOrder, ConstantsAreNumbers DEF IInv, Fed, SubmissionTypeOK
<1>5. r \in [event : 0 .. Last, player : Players]
  BY <1>4
<1>6. /\ todo = ExpectedPlayers(current) \ reported[current]
      /\ reported[current] \subseteq ExpectedPlayers(current)
  BY <1>4 DEF IInv, Fed
<1>7. p \in ExpectedPlayers(current) /\ p \notin reported[current]
  BY <1>1, <1>6
<1>8. current = event /\ event > 0
  <2>1. ~(current < event)
    BY <1>4, <1>7 DEF IInv, Fed
  <2>2. QED
    BY <1>4, <2>1, ShownInOrder
<1>9. /\ DOMAIN reported' = Events
      /\ reported'[current] = reported[current] \cup {p}
      /\ \A k \in Events : k # current => reported'[k] = reported[k]
      /\ reported' \in [Events -> SUBSET Players]
  BY <1>1, <1>4 DEF IInv, SubmissionTypeOK
<1>10. Fed'
  <2>1. \A k : ExpectedPlayers(k)' = ExpectedPlayers(k)
    BY DEF ExpectedPlayers
  <2>2. ASSUME NEW k \in Events
        PROVE  /\ k < current \/ k < event => reported'[k] = ExpectedPlayers(k)
               /\ k > current => reported'[k] = {}
               /\ k = current => /\ reported'[k] \subseteq ExpectedPlayers(k)
                                 /\ todo' = ExpectedPlayers(k) \ reported'[k]
    <3>1. k \in Nat /\ current \in Nat
      BY <1>4, ConstantsAreNumbers
    <3>2. CASE k = current
      BY <1>1, <1>6, <1>7, <1>8, <1>9, <3>1, <3>2
    <3>3. CASE k # current
      BY <1>9, <3>3 DEF IInv, Fed
    <3>4. QED
      BY <3>2, <3>3
  <2>3. Shown' = Shown
    BY <1>3 DEF Shown
  <2>4. QED
    BY <1>2, <1>3, <1>4, <2>1, <2>2, <2>3 DEF IInv, Fed, Events
<1>11. Traced'
  <2>1. /\ \A i \in DOMAIN errPipe : i \in DOMAIN errPipe' /\ errPipe'[i] = errPipe[i]
        /\ Len(errPipe) + 1 \in DOMAIN errPipe'
        /\ errPipe'[Len(errPipe) + 1] = r
        /\ \A i \in DOMAIN errPipe' : i \in DOMAIN errPipe \/ i = Len(errPipe) + 1
    BY <1>1, <1>5, Appended
  <2>2. \A k : ExpectedPlayers(k)' = ExpectedPlayers(k)
    BY DEF ExpectedPlayers
  <2>3. ASSUME NEW i \in DOMAIN errPipe'
        PROVE  LET e == errPipe'[i] IN
               /\ e.event <= current'
               /\ e.event > 0 /\ e.player \in ExpectedPlayers(e.event)
                    => e.player \in reported'[e.event]
    <3>1. CASE i \in DOMAIN errPipe
      <4>1. errPipe'[i] = errPipe[i] /\ errPipe[i].event \in Nat /\ errPipe[i].event <= current
        BY <2>1, <3>1, EventOfRecord
      <4>2. errPipe[i].event > 0 /\ errPipe[i].player \in ExpectedPlayers(errPipe[i].event)
                => errPipe[i].player \in reported[errPipe[i].event]
        BY <3>1 DEF IInv, Traced
      <4>3. errPipe[i].event > 0 => errPipe[i].event \in Events
        BY <4>1, <1>4, ConstantsAreNumbers
      <4>4. QED
        BY <1>2, <1>9, <4>1, <4>2, <4>3
    <3>2. CASE i = Len(errPipe) + 1
      <4>1. errPipe'[i] = r /\ r.event = current /\ r.player = p
        BY <2>1, <3>2
      <4>2. QED
        BY <1>2, <1>4, <1>9, <4>1
    <3>3. QED
      BY <2>1, <3>1, <3>2
  <2>4. result' = "none" /\ event' > 0 => seen' \subseteq reported'[event']
    BY <1>3, <1>4, <1>8, <1>9 DEF IInv, Traced
  <2>5. ASSUME result' = "none", mode' \notin ClosedModes, ~orphanDone'
        PROVE  /\ \A q \in reported'[event'] :
                    q \in seen' \/ \E j \in DOMAIN errPipe' : errPipe'[j].player = q
               /\ wrong' => \E i \in DOMAIN errPipe' : Refused(i)'
    <3>1. \A q \in reported[event] : q \in seen \/ \E j \in DOMAIN errPipe :
              errPipe[j].player = q
      BY <1>3, <1>8, <2>5 DEF IInv, Traced
    <3>2. errPipe'[Len(errPipe) + 1].player = p
      BY <2>1
    <3>3. \A q \in reported'[event'] :
                q \in seen' \/ \E j \in DOMAIN errPipe' : errPipe'[j].player = q
      BY <1>3, <1>8, <1>9, <2>1, <3>1, <3>2
    <3>4. wrong => \E i \in DOMAIN errPipe : Refused(i)
      BY <1>3, <2>5 DEF IInv, Traced
    <3>5. wrong' => \E i \in DOMAIN errPipe' : Refused(i)'
      BY <1>1, <1>2, <1>3, <1>5, <3>4, StillRefused
    <3>6. QED
      BY <3>3, <3>5
  <2>6. QED
    BY <2>2, <2>3, <2>4, <2>5 DEF Traced
<1>12. SubmissionTypeOK'
  <2>1. errPipe' \in Seq([event : 0 .. Last, player : Players])
    BY <1>1, <1>5, Appended
  <2>2. todo' \subseteq Players
    BY <1>1 DEF IInv, SubmissionTypeOK
  <2>3. QED
    BY <1>2, <1>9, <2>1, <2>2 DEF IInv, SubmissionTypeOK
<1>13. Running' = Running /\ OutputHeld' = OutputHeld /\ OutputHeld /\ outPipe' \in 0 .. PipeSize
  BY <1>2 DEF Running, Active, OutputHeld, Keeps, IInv, TypeOK
<1>14. reported[current] # ExpectedPlayers(current)
  BY <1>7
<1>15. QED
  BY <1>4, <1>10, <1>11, <1>12, <1>13, <1>14, SubmissionFrame

\* What it should not have written is refused when it is read.
LEMMA ReportsWronglyKeeps ==
    ASSUME IInv, ReportsWrongly, UNCHANGED relayVars
    PROVE  IInv'
<1>1. PICK k \in 0 .. current, p \in Players :
        /\ k = current => p \notin todo
        /\ 0 < k /\ k < current => p \in ExpectedPlayers(k)
        /\ errPipe' = Append(errPipe, [event |-> k, player |-> p])
  BY DEF ReportsWrongly
<1> DEFINE r == [event |-> k, player |-> p]
<1>2. UNCHANGED <<child, status, descendant, detached, hung, hasStdin, hasOutput, group, stdinPipe,
                  outPipe, feeding, current, todo, outputs, reported>>
      /\ Active /\ hasOutput /\ wrong' = TRUE /\ faults' \in Nat
  BY FaultIsCounted DEF ReportsWrongly, processVars, IInv
<1>3. UNCHANGED <<event, written, seen, mode, orphanDone, result>>
  BY DEF relayVars, scanVars
<1>4. k \in 0 .. Last /\ k \in Nat /\ k <= current /\ current \in Nat
      /\ (k > 0 => k \in Events) /\ (current > 0 => current \in Events)
  BY <1>1, ConstantsAreNumbers DEF IInv, SubmissionTypeOK
<1>5. r \in [event : 0 .. Last, player : Players]
  BY <1>1, <1>4
<1>6. Fed'
  BY <1>2, <1>3, FedFrame DEF IInv
<1>7. k > 0 /\ p \in ExpectedPlayers(k) => p \in reported[k]
  <2>1. CASE k < current
    BY <1>4, <2>1 DEF IInv, Fed
  <2>2. CASE k = current
    BY <1>1, <1>4, <2>2 DEF IInv, Fed
  <2>3. QED
    BY <1>4, <2>1, <2>2
<1>8. /\ \A i \in DOMAIN errPipe : i \in DOMAIN errPipe' /\ errPipe'[i] = errPipe[i]
      /\ Len(errPipe) + 1 \in DOMAIN errPipe'
      /\ errPipe'[Len(errPipe) + 1] = r
      /\ \A i \in DOMAIN errPipe' : i \in DOMAIN errPipe \/ i = Len(errPipe) + 1
      /\ Len(errPipe) \in Nat /\ DOMAIN errPipe = 1 .. Len(errPipe)
  BY <1>1, <1>5, Appended
<1>9. \A m : ExpectedPlayers(m)' = ExpectedPlayers(m)
  BY DEF ExpectedPlayers
<1>10. Traced'
  <2>1. ASSUME NEW i \in DOMAIN errPipe'
        PROVE  LET e == errPipe'[i] IN
               /\ e.event <= current'
               /\ e.event > 0 /\ e.player \in ExpectedPlayers(e.event)
                    => e.player \in reported'[e.event]
    <3>1. CASE i \in DOMAIN errPipe
      BY <1>2, <1>8, <3>1 DEF IInv, Traced
    <3>2. CASE i = Len(errPipe) + 1
      <4>1. errPipe'[i] = r /\ r.event = k /\ r.player = p
        BY <1>8, <3>2
      <4>2. QED
        BY <1>2, <1>4, <1>7, <4>1
    <3>3. QED
      BY <1>8, <3>1, <3>2
  <2>2. result' = "none" /\ event' > 0 => seen' \subseteq reported'[event']
    BY <1>2, <1>3 DEF IInv, Traced
  <2>3. ASSUME result' = "none", mode' \notin ClosedModes, ~orphanDone'
        PROVE  /\ current' = event' /\ event' > 0 =>
                    \A q \in reported'[event'] :
                        q \in seen' \/ \E j \in DOMAIN errPipe' : errPipe'[j].player = q
               /\ \E i \in DOMAIN errPipe' : Refused(i)'
    <3>1. current = event /\ event > 0 => \A q \in reported[event] :
                q \in seen \/ \E j \in DOMAIN errPipe : errPipe[j].player = q
      BY <1>3, <2>3 DEF IInv, Traced
    <3>2. current' = event' /\ event' > 0 =>
                    \A q \in reported'[event'] :
                        q \in seen' \/ \E j \in DOMAIN errPipe' : errPipe'[j].player = q
      BY <1>2, <1>3, <1>8, <3>1
    <3>3. ASSUME NEW i, i = Len(errPipe) + 1
          PROVE  Refused(i)'
      <4>1. errPipe'[i].event = k /\ errPipe'[i].player = p
        BY <1>8, <3>3
      <4>2. CASE event = 0 \/ k # event
        BY <1>3, <4>1, <4>2 DEF Refused
      <4>3. CASE event > 0 /\ k = event
        <5>1. current = event
          BY <1>4, <4>3, ShownInOrder
        <5>2. p \notin ExpectedPlayers(event) \/ p \in reported[event]
          BY <1>7, <4>3
        <5>3. CASE p \notin ExpectedPlayers(event)
          BY <1>3, <1>9, <4>1, <5>3 DEF Refused
        <5>4. CASE p \in seen
          BY <1>3, <4>1, <5>4 DEF Refused
        <5>5. CASE \E j \in DOMAIN errPipe : errPipe[j].player = p
          <6>1. PICK j \in DOMAIN errPipe : errPipe[j].player = p
            BY <5>5
          <6>2. j \in 1 .. i - 1 /\ errPipe'[j].player = p
            BY <1>8, <3>3, <6>1
          <6>3. QED
            BY <4>1, <6>2 DEF Refused
        <5>6. QED
          BY <3>1, <4>3, <5>1, <5>2, <5>3, <5>4, <5>5
      <4>4. QED
        BY <4>2, <4>3, ShownInOrder
    <3>4. QED
      BY <1>8, <3>2, <3>3
  <2>4. QED
    BY <1>9, <2>1, <2>2, <2>3 DEF Traced
<1>11. SubmissionTypeOK'
  <2>1. errPipe' \in Seq([event : 0 .. Last, player : Players])
    BY <1>1, <1>5, Appended
  <2>2. QED
    BY <1>2, <2>1 DEF IInv, SubmissionTypeOK
<1>12. Running' = Running /\ OutputHeld' = OutputHeld /\ OutputHeld /\ outPipe' \in 0 .. PipeSize
  BY <1>2 DEF Running, Active, OutputHeld, Keeps, IInv, TypeOK
<1>13. QED
  BY <1>2, <1>6, <1>10, <1>11, <1>12, SubmissionFrame

LEMMA ChildWritesKeeps ==
    ASSUME IInv, ChildWrites, UNCHANGED relayVars
    PROVE  IInv'
<1>1. /\ Active /\ hasOutput /\ outPipe < PipeSize
      /\ outPipe' = outPipe + 1 /\ outputs' = outputs + 1
      /\ UNCHANGED <<child, status, descendant, detached, hung, hasStdin, hasOutput, group, stdinPipe,
                     errPipe, feeding, current, todo, reported, wrong, faults>>
  BY DEF ChildWrites, processVars
<1>2. UNCHANGED <<event, written, seen, mode, orphanDone, result>>
  BY DEF relayVars, scanVars
<1>3. SubmissionTypeOK'
  BY <1>1 DEF IInv, SubmissionTypeOK
<1>4. outPipe' \in 0 .. PipeSize
  BY <1>1, ConstantsAreNumbers DEF IInv, TypeOK
<1>5. Fed'
  BY <1>1, <1>2, FedFrame DEF IInv
<1>6. Traced'
  BY <1>1, <1>2, TracedFrame DEF IInv
<1>7. Running' = Running /\ OutputHeld' = OutputHeld /\ OutputHeld
  BY <1>1 DEF Running, Active, OutputHeld, Keeps
<1>8. QED
  BY <1>1, <1>3, <1>4, <1>5, <1>6, <1>7, SubmissionFrame

\* The other steps of the submission and of the signals it gets.
LEMMA SubmissionKeeps ==
    ASSUME IInv, SubmissionStep, UNCHANGED relayVars
    PROVE  IInv'
<1> DEFINE idle == UNCHANGED <<stdinPipe, outPipe, errPipe, feeding, current, todo, outputs,
                               reported, wrong>>
           keeps == /\ Running' => Running
                    /\ OutputHeld' => OutputHeld
<1>1. CASE ChildReads
  BY <1>1, ChildReadsKeeps
<1>2. CASE ChildReports
  BY <1>2, ChildReportsKeeps
<1>3. CASE ChildWrites
  BY <1>3, ChildWritesKeeps
<1>4. CASE ReportsWrongly
  BY <1>4, ReportsWronglyKeeps
<1>5. CASE ChildEnds
  <2>1. /\ idle /\ child' = "exited" /\ status' = "zero"
        /\ UNCHANGED <<descendant, detached, hung, hasStdin, hasOutput, group, faults>>
    BY <1>5 DEF ChildEnds, Exits, pipeVars, workVars
  <2>2. keeps
    BY <2>1 DEF Running, OutputHeld, Keeps
  <2>3. QED
    BY <2>1, <2>2, IdleFrame DEF IInv, SubmissionTypeOK, Codes
<1>6. CASE ExitsEarly
  <2>1. /\ idle /\ child' = "exited" /\ status' \in {"zero", "nonzero"} /\ faults' \in Nat
        /\ UNCHANGED <<descendant, detached, hung, hasStdin, hasOutput, group>>
    BY <1>6, FaultIsCounted DEF IInv, ExitsEarly, Exits, pipeVars, workVars
  <2>2. keeps
    BY <2>1 DEF Running, OutputHeld, Keeps
  <2>3. QED
    BY <2>1, <2>2, IdleFrame DEF IInv, SubmissionTypeOK, Codes
<1>7. CASE ClosesPipes
  <2>1. idle /\ UNCHANGED <<child, status, descendant, detached, hung, group>>
    BY <1>7 DEF ClosesPipes, pipeVars, workVars
  <2>2. faults' \in Nat
    BY <1>7, FaultIsCounted DEF IInv, ClosesPipes
  <2>3. \/ hasStdin' = FALSE /\ hasOutput' = hasOutput
        \/ hasOutput' = FALSE /\ hasStdin' = hasStdin
    BY <1>7 DEF ClosesPipes
  <2>4. hasStdin' \in BOOLEAN /\ hasOutput' \in BOOLEAN
    BY <2>3 DEF IInv, SubmissionTypeOK
  <2>5. keeps
    BY <2>1, <2>3 DEF Running, OutputHeld, Keeps
  <2>6. QED
    BY <2>1, <2>2, <2>4, <2>5, IdleFrame DEF IInv, SubmissionTypeOK
<1>8. CASE Hangs
  <2>1. /\ idle /\ faults' \in Nat /\ hung' = TRUE
        /\ UNCHANGED <<child, status, descendant, detached, hasStdin, hasOutput, group>>
    BY <1>8, FaultIsCounted DEF IInv, Hangs, pipeVars, workVars
  <2>2. keeps
    BY <2>1 DEF Running, OutputHeld, Keeps
  <2>3. QED
    BY <2>1, <2>2, IdleFrame DEF IInv, SubmissionTypeOK
<1>9. CASE Forks
  <2>1. /\ idle /\ faults' \in Nat /\ descendant' = TRUE /\ Active
        /\ detached' \in SUBSET {"stdin", "output", "group"}
        /\ ~hasOutput => "output" \in detached'
        /\ UNCHANGED <<child, status, hung, hasStdin, hasOutput, group>>
    BY <1>9, FaultIsCounted DEF IInv, Forks, pipeVars, workVars
  <2>2. keeps
    BY <2>1 DEF Running, OutputHeld, Keeps, Active
  <2>3. QED
    BY <2>1, <2>2, IdleFrame DEF IInv, SubmissionTypeOK
<1>10. CASE DescendantEnds
  <2>1. /\ idle /\ descendant' = FALSE /\ detached' = {}
        /\ UNCHANGED <<child, status, hung, hasStdin, hasOutput, group, faults>>
    BY <1>10 DEF DescendantEnds, pipeVars, workVars
  <2>2. keeps
    BY <2>1 DEF Running, OutputHeld, Keeps
  <2>3. QED
    BY <2>1, <2>2, IdleFrame DEF IInv, SubmissionTypeOK
<1>11. CASE GroupDies
  <2>1. /\ idle /\ group' = "none" /\ descendant' \in BOOLEAN
        /\ \/ descendant' = FALSE /\ detached' = {}
           \/ descendant' \in {descendant, FALSE} /\ detached' = detached
        /\ child' \in {child, "exited"} /\ status' \in {status, "signalled"}
        /\ UNCHANGED <<hung, hasStdin, hasOutput, faults>>
    BY <1>11 DEF GroupDies, KillsDescendant, Keeps, Exits, pipeVars, workVars, IInv,
                 SubmissionTypeOK
  <2>2. keeps
    BY <2>1 DEF Running, OutputHeld, Keeps
  <2>3. QED
    BY <2>1, <2>2, IdleFrame DEF IInv, SubmissionTypeOK, Codes
<1>12. QED
  BY <1>1, <1>2, <1>3, <1>4, <1>5, <1>6, <1>7, <1>8, <1>9, <1>10, <1>11
     DEF SubmissionStep, Works, Misbehaves

(***************************************************************************)
(* The invariant.                                                          *)
(***************************************************************************)
LEMMA InitInvariant ==
    ASSUME Init
    PROVE  IInv
<1> USE DEF Init, SubmissionInit
<1>1. TypeOK
  <2>1. /\ pc \in Places /\ mode \in Modes
        /\ exitCode \in Codes \cup {"none"} /\ result \in Codes \cup {"none", "two"}
    BY DEF Places, Modes, Codes
  <2>2. event \in 0 .. Last /\ outPipe \in 0 .. PipeSize
    BY ConstantsAreNumbers
  <2>3. queue \in [Streams -> 0 .. QueueSize + 1]
    BY ConstantsAreNumbers
  <2>4. QED
    BY <2>1, <2>2, <2>3 DEF TypeOK
<1>2. SubmissionTypeOK
  <2>1. reported \in [Events -> SUBSET Players] /\ todo \subseteq Players
    OBVIOUS
  <2>2. stdinPipe \in Seq(Events) /\ errPipe \in Seq([event : 0 .. Last, player : Players])
    OBVIOUS
  <2>3. current \in 0 .. Last /\ outputs \in Nat /\ faults \in Nat
    BY ConstantsAreNumbers
  <2>4. QED
    BY <2>1, <2>2, <2>3 DEF SubmissionTypeOK, Codes
<1>3. Stage
  BY ConstantsAreNumbers DEF Stage, Early, Late, ClosedModes
<1>4. Fed
  BY ConstantsAreNumbers DEF Fed, Shown
<1>5. Traced
  BY DEF Traced
<1>6. Ended
  BY DEF Ended
<1>7. QED
  BY <1>1, <1>2, <1>3, <1>4, <1>5, <1>6 DEF IInv

LEMMA RelayKeeps ==
    ASSUME IInv, RelayStep
    PROVE  IInv'
BY CreateKeeps, NextEventKeeps, RecordEndsKeeps, SendPumpKeeps, SendWriteKeeps,
   SendCheckKeeps, SettleKeeps, SettledKeeps, FinishReturnsKeeps, FinishLooksKeeps,
   FinishSignalledKeeps, FinishPumpKeeps, DrainEndsKeeps, DrainsKeeps, DrainFailsKeeps,
   ReapKeeps, CloseStreamsKeeps
   DEF RelayStep

LEMMA StutterKeeps ==
    ASSUME IInv, UNCHANGED vars
    PROVE  IInv'
<1>1. UNCHANGED relayVars /\ UNCHANGED submissionVars /\ UNCHANGED faults
  BY DEF vars
<1>2. UNCHANGED <<child, status, descendant, detached, hung, hasStdin, hasOutput, group, stdinPipe,
                  outPipe, errPipe, feeding, current, todo, outputs, reported, wrong,
                  faults>>
  BY <1>1 DEF submissionVars, processVars, pipeVars, workVars
<1>3. Running' = Running /\ OutputHeld' = OutputHeld
  BY <1>2 DEF Running, OutputHeld, Keeps
<1>4. QED
  BY <1>1, <1>2, <1>3, IdleFrame DEF IInv, SubmissionTypeOK

LEMMA NextKeeps ==
    ASSUME IInv, [Next]_vars
    PROVE  IInv'
BY RelayKeeps, CannotCreateKeeps, RecordFaultKeeps, SubmissionKeeps, DeadlinePassesKeeps,
   DeliveryLateKeeps, ConsumerGoesKeeps, InterruptKeeps, StutterKeeps
   DEF Next

THEOREM InvariantHolds == Spec => []IInv
<1>1. Init => IInv
  BY InitInvariant
<1>2. IInv /\ [Next]_vars => IInv'
  BY NextKeeps
<1>3. QED
  BY <1>1, <1>2, PTL DEF Spec

\* The variables of the interactor have their types: the players it has seen
\* are players, and its queues hold at most the report more than their bound.
THEOREM TypeCorrect == Spec => []TypeOK
<1>1. IInv => TypeOK
  BY DEF IInv
<1>2. QED
  BY <1>1, InvariantHolds, PTL

\* Status zero means that the submission saw the whole record and reported all
\* that was due, and, unless an orphan held its pipes, nothing else, and that
\* all it wrote was delivered.
THEOREM SuccessIsClean == Spec => []SuccessMeansClean
<1>1. ASSUME IInv PROVE SuccessMeansClean
  <2>1. SUFFICES ASSUME result = "zero"
                 PROVE  /\ event = Last
                        /\ \A k \in Events : reported[k] = ExpectedPlayers(k)
                        /\ orphanDone \/ (~wrong /\ ~Pending /\ \A s \in Streams :
                               InPipe(s) = 0)
    BY DEF SuccessMeansClean
  <2>2. event = Last /\ EventDone /\ pc = "returned"
    BY <1>1, <2>1 DEF IInv, Stage
  <2>3. ASSUME NEW k \in Events
        PROVE  reported[k] = ExpectedPlayers(k)
    BY <1>1, <2>1 DEF IInv, Ended
  <2>4. \A s \in Streams : ~open[s] /\ queue[s] = 0
    BY <1>1, <2>1 DEF IInv, Ended
  <2>5. orphanDone \/ (~wrong /\ \A s \in Streams : InPipe(s) = 0)
    BY <1>1, <2>1, <2>2, <2>4 DEF IInv, Ended
  <2>6. ~Pending
    BY <2>4 DEF Pending
  <2>7. QED
    BY <2>2, <2>3, <2>5, <2>6
<1>2. QED
  BY <1>1, InvariantHolds, PTL
-----------------------------------------------------------------------------
(***************************************************************************)
(* Who is left. A SIGKILL that was sent is not taken back: the group is    *)
(* killed or already gone from then on, and no drain that follows it       *)
(* passes its deadline before it took effect. A run that ends in finish    *)
(* sent none unless it met an orphan.                                      *)
(***************************************************************************)
Dead   == ~Running /\ ~Keeps("group")
Doomed == group = "kill" \/ Dead

Killed ==
    /\ mode \in {"orphan", "closed_kill", "kill", "report"} \/ orphanDone => Doomed
    /\ mode \in {"closed_kill", "kill"} /\ expired => Dead
    /\ mode = "report" => ~Running
    /\ pc = "close" => mode = "report"
    /\ pc \in Early => mode = "none"
    /\ pc \in Late => mode = "none" \/ orphanDone
    /\ NobodyLeft

\* What no step takes back.
LEMMA StaysDoomed ==
    ASSUME UNCHANGED <<child, descendant, detached>>,
           group' = group \/ \E s \in {"term", "kill"} : SignalGroup(s)
    PROVE  /\ Dead' <=> Dead
           /\ Running' <=> Running
           /\ Doomed => Doomed'
           /\ SignalGroup("kill") => Doomed'
  BY DEF SignalGroup, Dead, Doomed, Running, Keeps

\* A step that goes on with what the relay is doing, or gives the run up.
GoesOn ==
    /\ UNCHANGED <<child, descendant, detached, orphanDone>>
    /\ \/ /\ UNCHANGED <<mode, group, expired>>
          /\ \/ pc \in Early /\ pc' \in Early \cup Late
             \/ pc \in Late /\ pc' \in Late
             \/ pc' = "drain"
       \/ SignalGroup("term") /\ mode' = "term" /\ expired' = FALSE /\ pc' = "drain"

LEMMA GoingOnKeepsKilled ==
    ASSUME Killed, GoesOn
    PROVE  Killed'
<1>1. /\ Dead' <=> Dead
      /\ Running' <=> Running
      /\ Doomed => Doomed'
  BY StaysDoomed DEF GoesOn
<1>2. \/ /\ UNCHANGED <<mode, expired>>
         /\ \/ pc \in Early /\ pc' \in Early \cup Late
            \/ pc \in Late /\ pc' \in Late
            \/ pc' = "drain"
      \/ mode' = "term" /\ expired' = FALSE /\ pc' = "drain"
  BY DEF GoesOn
<1>3. UNCHANGED orphanDone /\ pc' \notin {"close", "returned"} /\ (pc' \in Early => pc \in Early)
  BY <1>2 DEF GoesOn, Early, Late
<1>4. QED
  BY <1>1, <1>2, <1>3 DEF Killed, NobodyLeft, Early, Late

LEMMA GivingUpKeepsKilled ==
    ASSUME Killed, NEW code, Terminate(code), UNCHANGED <<child, descendant, detached, orphanDone>>
    PROVE  Killed'
<1>1. SignalGroup("term") /\ mode' = "term" /\ expired' = FALSE /\ pc' = "drain"
  BY DEF Terminate, Drain
<1>2. GoesOn
  BY <1>1 DEF GoesOn
<1>3. QED
  BY <1>2, GoingOnKeepsKilled

LEMMA MostStepsGoOn ==
    ASSUME \/ Create \/ NextEvent \/ RecordEnds \/ RecordFault
           \/ SendPump \/ SendWrite \/ SendCheck \/ Settle \/ Settled
           \/ FinishSignalled \/ FinishPump \/ Drains
    PROVE  GoesOn
<1>1. \A place : Goes(place) => UNCHANGED <<mode, group, expired>> /\ pc' = place
  BY DEF Goes, clockVars
<1>2. \A code : Terminate(code) =>
          SignalGroup("term") /\ mode' = "term" /\ expired' = FALSE /\ pc' = "drain"
  BY DEF Terminate, Drain
<1>3. CASE Create
  BY <1>3 DEF Create, GoesOn, Early, Late, submissionVars, processVars, clockVars
<1>4. CASE NextEvent
  BY <1>1, <1>4 DEF NextEvent, GoesOn, Early, Late, ownVars
<1>5. CASE RecordEnds
  BY <1>5 DEF RecordEnds, GoesOn, Early, Late, processVars, clockVars
<1>6. CASE RecordFault
  BY <1>2, <1>6 DEF RecordFault, GoesOn, Early, Late, ownVars
<1>7. CASE SendPump
  BY <1>1, <1>2, <1>7 DEF SendPump, GoesOn, Early, Late, ownVars
<1>8. CASE SendWrite
  BY <1>1, <1>2, <1>8 DEF SendWrite, GoesOn, Early, Late, ownVars
<1>9. CASE SendCheck
  BY <1>1, <1>2, <1>9 DEF SendCheck, GoesOn, Early, Late, ownVars, clockVars
<1>10. CASE Settle
  BY <1>1, <1>2, <1>10 DEF Settle, GoesOn, Early, Late, ownVars
<1>11. CASE Settled
  BY <1>2, <1>11 DEF Settled, GoesOn, Early, Late, ownVars
<1>12. CASE FinishSignalled
  BY <1>2, <1>12 DEF FinishSignalled, GoesOn, Early, Late, ownVars
<1>13. CASE FinishPump
  BY <1>1, <1>2, <1>13 DEF FinishPump, GoesOn, Early, Late, ownVars
<1>14. CASE Drains
  BY <1>14 DEF Drains, GoesOn, Early, Late, ownVars, clockVars
<1>15. QED
  BY <1>3, <1>4, <1>5, <1>6, <1>7, <1>8, <1>9, <1>10, <1>11, <1>12, <1>13, <1>14

\* The end of a drain starts the next one with a SIGKILL, or is behind one.
LEMMA EndedDrainKeepsKilled ==
    ASSUME IInv, Killed, mode # "none", Finished(mode),
           UNCHANGED <<child, descendant, detached>>,
           orphanDone' <=> orphanDone \/ mode = "orphan"
    PROVE  Killed'
<1>1. CASE mode = "orphan"
  BY <1>1, StaysDoomed DEF Finished, Killed, NobodyLeft, Early, Late
<1>2. ASSUME NEW m \in {"closed_kill", "kill"}, Drain(m, "kill"), mode # "orphan"
      PROVE  Killed'
  <2>1. mode' = m /\ expired' = FALSE /\ pc' = "drain" /\ SignalGroup("kill")
    BY <1>2 DEF Drain
  <2>2. Doomed'
    BY <2>1, StaysDoomed
  <2>3. QED
    BY <2>1, <2>2 DEF Killed, NobodyLeft, Early, Late
<1>3. CASE mode \in {"closed_term", "term"}
  <2>1. CASE mode = "closed_term"
    <3>1. Drain("closed_kill", "kill")
      BY <2>1 DEF Finished
    <3>2. QED
      BY <1>2, <2>1, <3>1
  <2>2. CASE mode = "term"
    <3>1. Drain("kill", "kill")
      BY <2>2 DEF Finished
    <3>2. QED
      BY <1>2, <2>2, <3>1
  <2>3. QED
    BY <1>3, <2>1, <2>2
<1>4. CASE mode \in {"closed_kill", "kill"}
  <2>1. UNCHANGED <<mode, group>> /\ pc' = "reap" /\ (expired' => expired)
    BY <1>4 DEF Finished, IInv, TypeOK
  <2>2. QED
    BY <1>4, <2>1, StaysDoomed DEF Killed, NobodyLeft, Early, Late
<1>5. CASE mode = "report"
  <2>1. UNCHANGED <<mode, group, expired>> /\ pc' = "close"
    BY <1>5 DEF Finished, Goes, clockVars
  <2>2. QED
    BY <1>5, <2>1, StaysDoomed DEF Killed, NobodyLeft, Early, Late
<1>6. QED
  BY <1>1, <1>3, <1>4, <1>5 DEF IInv, TypeOK, Modes

LEMMA DrainEndsKeepsKilled ==
    ASSUME IInv, Killed, DrainEnds \/ DrainFails
    PROVE  Killed'
<1>1. mode # "none"
  BY DEF IInv, Stage, DrainEnds, DrainFails
<1>2. CASE DrainEnds
  BY <1>1, <1>2, EndedDrainKeepsKilled DEF DrainEnds, ownVars
<1>3. CASE DrainFails /\ mode = "orphan"
  <2>1. Terminate("none") /\ UNCHANGED <<child, descendant, detached, orphanDone>>
    BY <1>3 DEF DrainFails, ownVars
  <2>2. QED
    BY <2>1, GivingUpKeepsKilled
<1>4. CASE DrainFails /\ mode # "orphan"
  BY <1>1, <1>4, EndedDrainKeepsKilled DEF DrainFails, ownVars
<1>5. QED
  BY <1>2, <1>3, <1>4

\* A child that was found gone is, and an output at its end is held by nobody.
LEMMA FinishKeepsKilled ==
    ASSUME IInv, Killed, FinishReturns \/ FinishLooks
    PROVE  Killed'
<1>1. CASE FinishReturns
  <2>1. /\ pc = "finish" /\ Done /\ pc' = "returned"
        /\ UNCHANGED <<child, descendant, detached, group, mode, expired, orphanDone>>
    BY <1>1 DEF FinishReturns, submissionVars, processVars, clockVars
  <2>2. ~Running /\ ~SomeOpen
    BY <2>1 DEF Done, IInv, Stage
  <2>3. orphanDone \/ ~Keeps("output")
    BY <2>1, <2>2 DEF IInv, Ended, SomeOpen, Streams, OutputHeld
  <2>4. mode = "none" \/ orphanDone
    BY <2>1 DEF Killed, Late
  <2>5. Keeps("group") => group = "kill" \/ (mode = "none" /\ ~Keeps("output"))
    BY <2>3, <2>4 DEF Killed, Doomed, Dead
  <2>6. UNCHANGED <<Running, Keeps("group"), Keeps("output")>>
    BY <2>1 DEF Running, Keeps
  <2>7. QED
    BY <2>1, <2>2, <2>5, <2>6 DEF Killed, NobodyLeft, Doomed, Dead, Early, Late
<1>2. CASE FinishLooks
  <2>1. UNCHANGED <<child, descendant, detached, orphanDone>>
    BY <1>2 DEF FinishLooks, ownVars
  <2>2. \/ Drain("orphan", "kill")
        \/ Drain("closed_term", "term")
        \/ pc' = "poll" /\ UNCHANGED <<mode, expired, group>>
    BY <1>2 DEF FinishLooks
  <2>3. CASE Drain("orphan", "kill")
    BY <2>1, <2>3, StaysDoomed DEF Drain, Killed, NobodyLeft, Early, Late
  <2>4. CASE Drain("closed_term", "term")
    BY <2>1, <2>4, StaysDoomed DEF Drain, Killed, NobodyLeft, Early, Late
  <2>5. CASE pc' = "poll" /\ UNCHANGED <<mode, expired, group>>
    <3>1. pc \in Late /\ pc' \in Late
      BY <1>2, <2>5 DEF FinishLooks, Late
    <3>2. QED
      BY <2>1, <2>5, <3>1, GoingOnKeepsKilled DEF GoesOn
  <2>6. QED
    BY <2>2, <2>3, <2>4, <2>5
<1>3. QED
  BY <1>1, <1>2

\* The child is reaped, or it did not outlive a SIGKILL longer than its drain.
LEMMA ReapKeepsKilled ==
    ASSUME IInv, Killed, Reap \/ CloseStreams
    PROVE  Killed'
<1>1. CASE Reap
  <2>1. /\ pc = "reap" /\ mode \in {"closed_kill", "kill"}
        /\ UNCHANGED <<child, descendant, detached, orphanDone>>
        /\ CheckChild # "none" \/ expired
    BY <1>1 DEF Reap, ownVars, IInv, Stage, CheckChild
  <2>2. ~Running
    BY <2>1, CheckChildSays DEF Killed, Dead, Running
  <2>3. CASE mode = "closed_kill"
    <3>1. Terminate("none")
      BY <1>1, <2>3 DEF Reap
    <3>2. QED
      BY <2>1, <3>1, GivingUpKeepsKilled
  <2>4. CASE mode = "kill"
    <3>1. /\ pc' = "drain" /\ mode' = "report" /\ expired' = FALSE
          /\ UNCHANGED group
      BY <1>1, <2>4 DEF Reap
    <3>2. QED
      BY <2>1, <2>2, <3>1, StaysDoomed, <2>4 DEF Killed, NobodyLeft, Early, Late
  <2>5. QED
    BY <2>1, <2>3, <2>4
<1>2. CASE CloseStreams
  <2>1. /\ pc = "close" /\ pc' = "returned"
        /\ UNCHANGED <<child, descendant, detached, group, mode, expired, orphanDone>>
    BY <1>2 DEF CloseStreams, submissionVars, processVars, clockVars
  <2>2. QED
    BY <2>1, StaysDoomed DEF Killed, NobodyLeft, Doomed, Dead, Keeps, Early, Late
<1>3. QED
  BY <1>1, <1>2

\* The submission cannot take it back either: what is dead forks no more.
LEMMA WorldKeepsKilled ==
    ASSUME IInv, Killed,
           \/ CannotCreate
           \/ SubmissionStep /\ UNCHANGED relayVars
           \/ DeadlinePasses \/ DeliveryLate \/ ConsumerGoes \/ Interrupt
    PROVE  Killed'
<1>1. CASE CannotCreate
  <2>1. Dead' /\ pc' = "returned" /\ UNCHANGED <<mode, expired>>
    BY <1>1 DEF CannotCreate, KillsDescendant, Keeps, Exits, Dead, Running, clockVars, IInv,
                SubmissionTypeOK
  <2>2. mode = "none"
    BY <1>1 DEF CannotCreate, Killed, Early
  <2>3. QED
    BY <2>1, <2>2 DEF Killed, NobodyLeft, Doomed, Dead, Early, Late
<1>2. CASE SubmissionStep /\ UNCHANGED relayVars
  <2>1. UNCHANGED <<pc, mode, expired, orphanDone>>
    BY <1>2 DEF relayVars, clockVars
  <2>2. /\ Dead => Dead'
        /\ ~Running => ~Running'
        /\ Doomed => Doomed'
        /\ ~Running /\ ~(Keeps("group") /\ group # "kill") =>
               ~(Keeps("group") /\ group # "kill")'
        /\ ~Running /\ ~Keeps("output") => ~Keeps("output")'
    <3>1. CASE Works
      BY <3>1 DEF Works, ChildReads, ChildReports, ChildWrites, ChildEnds, Exits,
                  processVars, Dead, Doomed, Running, Keeps
    <3>2. CASE Misbehaves
      BY <3>2 DEF Misbehaves, ExitsEarly, ReportsWrongly, ClosesPipes, Hangs, Forks, Exits,
                  Active, processVars, Dead, Doomed, Running, Keeps
    <3>3. CASE DescendantEnds \/ GroupDies
      BY <3>3 DEF DescendantEnds, GroupDies, KillsDescendant, Keeps, Exits, Dead, Doomed,
                  Running, IInv, SubmissionTypeOK
    <3>4. QED
      BY <1>2, <3>1, <3>2, <3>3 DEF SubmissionStep
  <2>3. QED
    BY <2>1, <2>2 DEF Killed, NobodyLeft, Early, Late
<1>3. CASE DeadlinePasses
  <2>1. /\ group # "kill" /\ pc # "returned"
        /\ UNCHANGED <<child, descendant, detached, group, pc, mode, orphanDone>>
    BY <1>3 DEF DeadlinePasses, submissionVars, processVars
  <2>2. QED
    BY <2>1 DEF Killed, NobodyLeft, Doomed, Dead, Running, Keeps, Early, Late
<1>4. CASE DeliveryLate \/ ConsumerGoes \/ Interrupt
  <2>1. UNCHANGED <<child, descendant, detached, group, pc, mode, expired, orphanDone>>
    BY <1>4 DEF DeliveryLate, ConsumerGoes, Interrupt, submissionVars, processVars,
                clockVars
  <2>2. QED
    BY <2>1 DEF Killed, NobodyLeft, Doomed, Dead, Running, Keeps, Early, Late
<1>5. QED
  BY <1>1, <1>2, <1>3, <1>4

\* When the run has returned the child has ended, and what it forked has ended,
\* has a SIGKILL on its way, or is out of reach of one: it has left the process
\* group, or it holds no output and the run ended in finish, which then looks
\* at the outputs only.
THEOREM NobodyIsLeft == Spec => []NobodyLeft
<1>1. Init => Killed
  BY DEF Init, SubmissionInit, Killed, NobodyLeft, Early, Late
<1>2. ASSUME IInv, Killed, [Next]_vars
      PROVE  Killed'
  <2>1. CASE UNCHANGED vars
    <3>1. UNCHANGED <<child, descendant, detached, group, pc, mode, expired, orphanDone>>
      BY <2>1 DEF vars, submissionVars, processVars, relayVars, clockVars
    <3>2. QED
      BY <1>2, <3>1 DEF Killed, NobodyLeft, Doomed, Dead, Running, Keeps, Early, Late
  <2>2. CASE Next
    <3>1. \/ GoesOn
          \/ FinishReturns \/ FinishLooks
          \/ DrainEnds \/ DrainFails
          \/ Reap \/ CloseStreams
          \/ CannotCreate
          \/ SubmissionStep /\ UNCHANGED relayVars
          \/ DeadlinePasses \/ DeliveryLate \/ ConsumerGoes \/ Interrupt
      BY <2>2, MostStepsGoOn DEF Next, RelayStep
    <3>2. QED
      BY <1>2, <3>1, GoingOnKeepsKilled, FinishKeepsKilled, DrainEndsKeepsKilled,
         ReapKeepsKilled, WorldKeepsKilled
  <2>3. QED
    BY <1>2, <2>1, <2>2
<1>3. Killed => NobodyLeft
  BY DEF Killed
<1>4. QED
  BY <1>1, <1>2, <1>3, InvariantHolds, PTL DEF Spec
-----------------------------------------------------------------------------
(***************************************************************************)
(* The refinement: only the write of an event, the report of an analysis   *)
(* and the verdict are steps of EventFeed.                                 *)
(***************************************************************************)
LEMMA InitRefines ==
    ASSUME Init
    PROVE  Feed!FeedInit
BY DEF Init, SubmissionInit, Feed!FeedInit, Feed!Events

LEMMA QuietRefines ==
    ASSUME UNCHANGED <<event, written, reported, result>>
    PROVE  UNCHANGED Feed!feedVars
BY DEF Feed!feedVars

\* A verdict, which is not a success unless all was shown and reported.
LEMMA VerdictRefines ==
    ASSUME IInv, UNCHANGED <<event, written, reported>>, result = "none",
           result' \in Codes \cup {"two"},
           result' = "zero" => /\ event = Last /\ EventDone
                               /\ \A k \in Events : reported[k] = ExpectedPlayers(k)
    PROVE  Feed!Finish
<1>1. Feed!Events = Events
  BY DEF Feed!Events
<1>2. result' = "zero" => \A k \in Events : k <= Shown /\ Feed!Settled(k)
  <2>1. SUFFICES ASSUME result' = "zero", NEW k \in Events
                 PROVE  k <= Shown /\ Feed!Settled(k)
    OBVIOUS
  <2>2. Feed!Settled(k)
    BY <2>1 DEF Feed!Settled
  <2>3. k \in 1 .. Last /\ Last \in Nat
    BY ConstantsAreNumbers
  <2>4. Shown = event
    BY <2>1 DEF EventDone, Shown
  <2>5. QED
    BY <2>1, <2>2, <2>3, <2>4
<1>3. QED
  BY <1>1, <1>2 DEF Feed!Finish, Shown

LEMMA GivenUpRefines ==
    ASSUME IInv, UNCHANGED <<event, written, reported>>, result = "none",
           result' \in {"nonzero", "signalled", "two"}
    PROVE  Feed!Finish
BY VerdictRefines DEF Codes

LEMMA NextEventRefines ==
    ASSUME IInv, NextEvent
    PROVE  UNCHANGED Feed!feedVars
<1>1. /\ pc = "next" /\ event' = event + 1 /\ written' = FALSE
      /\ UNCHANGED <<reported, result>>
  BY DEF NextEvent, Goes, ownVars, workVars
<1>2. EventDone
  BY <1>1 DEF IInv, Stage
<1>3. Shown' = event /\ Shown = event
  BY <1>1, <1>2, ShownInOrder DEF EventDone, Shown
<1>4. QED
  BY <1>1, <1>3 DEF Feed!feedVars, Shown

LEMMA SendWriteRefines ==
    ASSUME IInv, SendWrite
    PROVE  [Feed!FeedNext]_(Feed!feedVars)
<1>1. /\ pc = "write" /\ UNCHANGED <<event, reported>>
  BY DEF SendWrite, ownVars, workVars
<1>2. \/ UNCHANGED <<written, result>>
      \/ ~written /\ written' = TRUE /\ UNCHANGED result
      \/ UNCHANGED written /\ result' \in {"nonzero", "signalled", "two"}
  BY TerminateDoes DEF IInv, SendWrite, Goes
<1>3. result = "none" /\ event > 0
  BY <1>1 DEF IInv, Stage, Early
<1>4. CASE UNCHANGED <<written, result>>
  BY <1>1, <1>4, QuietRefines
<1>5. CASE UNCHANGED written /\ result' \in {"nonzero", "signalled", "two"}
  BY <1>1, <1>3, <1>5, GivenUpRefines DEF Feed!FeedNext
<1>6. CASE ~written /\ written' = TRUE /\ UNCHANGED result
  <2>1. Shown = event - 1 /\ Shown' = event /\ event \in Events /\ event \in Nat
    BY <1>1, <1>3, <1>6, ShownInOrder DEF Shown
  <2>2. Shown + 1 = event
    BY <2>1
  <2>3. \A k \in 1 .. Shown : k \in Events /\ k < event
    BY <2>1, ConstantsAreNumbers
  <2>4. \A k \in 1 .. Shown : Feed!Settled(k)
    BY <2>3 DEF IInv, Fed, Feed!Settled
  <2>5. Feed!Show
    BY <1>1, <1>3, <1>6, <2>1, <2>2, <2>4 DEF Feed!Show, Feed!Events, Shown
  <2>6. QED
    BY <2>5 DEF Feed!FeedNext
<1>7. QED
  BY <1>2, <1>4, <1>5, <1>6

LEMMA ChildReportsRefines ==
    ASSUME IInv, ChildReports, UNCHANGED relayVars
    PROVE  Feed!Answer
<1>1. PICK p \in todo : reported' = [reported EXCEPT ![current] = @ \cup {p}]
  BY DEF ChildReports
<1>2. current \in Events /\ current \in 1 .. Shown
  BY <1>1, ShownInOrder, ConstantsAreNumbers DEF IInv, Fed
<1>3. p \in ExpectedPlayers(current) \ reported[current]
  BY <1>1, <1>2 DEF IInv, Fed
<1>4. UNCHANGED <<event, written, result>>
  BY DEF relayVars, scanVars
<1>5. QED
  BY <1>1, <1>2, <1>3, <1>4 DEF Feed!Answer, Shown

LEMMA SubmissionRefines ==
    ASSUME IInv, SubmissionStep, UNCHANGED relayVars
    PROVE  [Feed!FeedNext]_(Feed!feedVars)
<1>1. UNCHANGED <<event, written, result>>
  BY DEF relayVars, scanVars
<1>2. CASE ChildReports
  BY <1>2, ChildReportsRefines DEF Feed!FeedNext
<1>3. CASE ~ChildReports
  <2>1. UNCHANGED reported
    BY <1>3 DEF SubmissionStep, Works, Misbehaves, ChildReads, ChildWrites, ChildEnds,
                ExitsEarly, ReportsWrongly, ClosesPipes, Hangs, Forks, DescendantEnds,
                GroupDies, workVars
  <2>2. QED
    BY <1>1, <2>1, QuietRefines
<1>4. QED
  BY <1>2, <1>3

\* The other steps of the relay go on or give the run up.
LEMMA RelayRefines ==
    ASSUME IInv, RelayStep
    PROVE  [Feed!FeedNext]_(Feed!feedVars)
<1> DEFINE quiet == UNCHANGED <<event, written, reported, result>>
           givenUp == /\ UNCHANGED <<event, written, reported>> /\ result = "none"
                      /\ result' \in {"nonzero", "signalled", "two"}
<1>1. quiet \/ givenUp => [Feed!FeedNext]_(Feed!feedVars)
  BY QuietRefines, GivenUpRefines DEF Feed!FeedNext
<1>2. IInv /\ pc \in Early \cup Late => result = "none"
  BY DEF IInv, Stage
<1>3. CASE NextEvent
  BY <1>3, NextEventRefines
<1>4. CASE SendWrite
  BY <1>4, SendWriteRefines
<1>5. CASE FinishReturns
  <2>1. /\ pc = "finish" /\ result' = exitCode /\ exitCode # "none"
        /\ UNCHANGED <<event, written, reported>>
    BY <1>5 DEF FinishReturns, Done, submissionVars, workVars, scanVars
  <2>2. event = Last /\ EventDone /\ result = "none"
    BY <1>2, <2>1 DEF IInv, Stage, Early, Late
  <2>3. IInv'
    BY <1>5, FinishReturnsKeeps
  <2>4. result' = "zero" => \A k \in Events : reported[k] = ExpectedPlayers(k)
    BY <2>1, <2>3 DEF IInv, Ended, Events, ExpectedPlayers
  <2>5. result' \in Codes \cup {"two"}
    BY <2>1 DEF IInv, TypeOK
  <2>6. QED
    BY <2>1, <2>2, <2>4, <2>5, VerdictRefines DEF Feed!FeedNext
<1>6. CASE Create \/ RecordEnds \/ CloseStreams
  BY <1>1, <1>6 DEF Create, RecordEnds, CloseStreams, submissionVars, workVars, scanVars
<1>7. CASE SendPump \/ Settle \/ FinishPump
  <2>1. UNCHANGED <<event, written, reported>> /\ pc \in Early \cup Late
    BY <1>7 DEF SendPump, Settle, FinishPump, ownVars, workVars, Early, Late
  <2>2. UNCHANGED result \/ result' \in {"nonzero", "signalled", "two"}
    BY <1>7, TerminateDoes DEF IInv, SendPump, Settle, FinishPump, Goes
  <2>3. QED
    BY <1>1, <1>2, <2>1, <2>2
<1>8. CASE SendCheck \/ Settled \/ FinishSignalled
  <2>1. UNCHANGED <<event, written, reported>> /\ pc \in Early \cup Late
    BY <1>8
       DEF SendCheck, Settled, FinishSignalled, ownVars, workVars, scanVars, Early, Late
  <2>2. UNCHANGED result \/ result' \in {"nonzero", "signalled", "two"}
    BY <1>8, TerminateDoes DEF IInv, SendCheck, Settled, FinishSignalled, Goes
  <2>3. QED
    BY <1>1, <1>2, <2>1, <2>2
<1>9. CASE FinishLooks \/ DrainEnds \/ Drains
  BY <1>1, <1>9 DEF FinishLooks, DrainEnds, Drains, ownVars, workVars, scanVars
<1>10. CASE DrainFails
  <2>1. UNCHANGED <<event, written, reported>>
    BY <1>10 DEF DrainFails, ownVars, workVars
  <2>2. \/ UNCHANGED result
        \/ mode = "orphan" /\ pc = "drain" /\ result' \in {"nonzero", "signalled", "two"}
    BY <1>10, TerminateDoes DEF IInv, DrainFails
  <2>3. QED
    BY <1>1, <2>1, <2>2 DEF IInv, Stage
<1>11. CASE Reap
  <2>1. UNCHANGED <<event, written, reported>>
    BY <1>11 DEF Reap, ownVars, workVars, scanVars
  <2>2. \/ UNCHANGED result
        \/ mode = "closed_kill" /\ pc = "reap" /\ result' \in {"nonzero", "signalled", "two"}
    BY <1>11, TerminateDoes DEF IInv, Reap
  <2>3. QED
    BY <1>1, <2>1, <2>2 DEF IInv, Stage, ClosedModes
<1>12. QED
  BY <1>3, <1>4, <1>5, <1>6, <1>7, <1>8, <1>9, <1>10, <1>11 DEF RelayStep

LEMMA NextRefines ==
    ASSUME IInv, [Next]_vars
    PROVE  [Feed!FeedNext]_(Feed!feedVars)
<1>1. CASE RelayStep
  BY <1>1, RelayRefines
<1>2. CASE SubmissionStep /\ UNCHANGED relayVars
  BY <1>2, SubmissionRefines
<1>3. CASE CannotCreate
  <2>1. /\ pc = "create" /\ result' = "two" /\ UNCHANGED <<event, written, reported>>
    BY <1>3 DEF CannotCreate, workVars, scanVars
  <2>2. QED
    BY <2>1, GivenUpRefines DEF IInv, Stage, Early, Feed!FeedNext
<1>4. CASE RecordFault
  <2>1. /\ pc = "next" /\ result' \in {"nonzero", "signalled", "two"}
        /\ UNCHANGED <<event, written, reported>>
    BY <1>4, TerminateDoes DEF IInv, RecordFault, ownVars, workVars, scanVars
  <2>2. QED
    BY <2>1, GivenUpRefines DEF IInv, Stage, Early, Feed!FeedNext
<1>5. CASE DeadlinePasses \/ DeliveryLate \/ ConsumerGoes \/ Interrupt \/ UNCHANGED vars
  BY <1>5, QuietRefines
     DEF DeadlinePasses, DeliveryLate, ConsumerGoes, Interrupt, vars, relayVars,
         submissionVars, workVars, scanVars
<1>6. QED
  BY <1>1, <1>2, <1>3, <1>4, <1>5 DEF Next

\* The interactor implements EventFeed: no event is shown before all analyses
\* of those before it were reported by the submission itself, and no run is a
\* success that was not shown and answered to the end.
THEOREM FeedIsImplemented == Spec => ImplementsFeed
<1>1. Init => Feed!FeedInit
  BY InitRefines
<1>2. IInv /\ [Next]_vars => [Feed!FeedNext]_(Feed!feedVars)
  BY NextRefines
<1>3. QED
  BY <1>1, <1>2, InvariantHolds, PTL DEF Spec, ImplementsFeed, Feed!FeedSpec
=============================================================================
