----------------------------- MODULE Submission -----------------------------
(***************************************************************************)
(* What is at the other end of the pipes of the interactor of 09-mahjx:    *)
(* the submission it runs, a descendant the submission may have forked,    *)
(* and the signals both get. External code; a well-behaved submission      *)
(* reads an event, reports the analyses it calls for on stderr, writes     *)
(* what it has found to stdout, and ends when its stdin ends. The ways in  *)
(* which it may misbehave are those of tests/fixture_child.cpp, and that a *)
(* descendant keeps only part of what it inherits.                         *)
(*                                                                         *)
(* An element of the stderr pipe is one FULL_ANALYZE_STEP line, one of the *)
(* stdout pipe is a chunk; an event is one element of the stdin pipe.      *)
(***************************************************************************)
EXTENDS Naturals, Sequences

CONSTANTS
    Record,         \* the events of the game record, each [type, actor]
    Mask,           \* the players to be analysed
    PipeSize,       \* what a pipe holds
    MaxOutput,      \* how much the submission writes to stdout
    MaxFaults       \* how many things go wrong

ASSUME SubmissionAssumption ==
    /\ Record \in Seq([type : {"DRAW", "DISCARD", "UPGRADED_KAN", "OTHER"},
                       actor : 0 .. 3])
    /\ Mask \subseteq 0 .. 3
    /\ PipeSize \in Nat \ {0}
    /\ MaxOutput \in Nat
    /\ MaxFaults \in Nat

VARIABLES
    child,          \* "running" or "exited"
    status,         \* with what: "zero", "nonzero" or "signalled"
    descendant,     \* one is running
    detached,       \* what of "stdin", "output" and "group" it gave up
    hung,           \* the child does nothing any more, and ignores SIGTERM
    hasStdin, hasOutput,    \* the child has not closed its ends
    stdinPipe, outPipe, errPipe,
    feeding,        \* the other end of stdin is open
    current, todo,  \* the event it read last, and the analyses still due
    outputs,        \* how much it wrote to stdout
    reported,       \* what it reported, by event
    wrong,          \* it wrote a record that it should not have
    group,          \* the signal on its way to the process group
    faults          \* how many things went wrong

processVars == <<child, status, descendant, detached, hung, hasStdin, hasOutput, group>>
pipeVars    == <<stdinPipe, outPipe, errPipe, feeding>>
workVars    == <<current, todo, outputs, reported, wrong>>
submissionVars == <<processVars, pipeVars, workVars>>

Players == 0 .. 3
Events  == DOMAIN Record

\* Relay::expected_players.
ExpectedPlayers(k) ==
    LET e == Record[k] IN
    CASE e.type = "DRAW"  -> Mask \cap {e.actor}
      [] e.type = "OTHER" -> {}
      [] OTHER            -> Mask \ {e.actor}

SubmissionInit ==
    /\ child = "running"
    /\ status = "zero"
    /\ descendant = FALSE
    /\ detached = {}
    /\ hung = FALSE
    /\ hasStdin = TRUE
    /\ hasOutput = TRUE
    /\ stdinPipe = <<>>
    /\ outPipe = 0
    /\ errPipe = <<>>
    /\ feeding = TRUE
    /\ current = 0
    /\ todo = {}
    /\ outputs = 0
    /\ reported = [k \in Events |-> {}]
    /\ wrong = FALSE
    /\ group = "none"
    /\ faults = 0

\* A descendant keeps the pipes and the process group of the child, or not.
Keeps(what)  == descendant /\ what \notin detached
Running      == child = "running"
Active       == Running /\ ~hung
StdinHeld    == (Running /\ hasStdin) \/ Keeps("stdin")
OutputHeld   == (Running /\ hasOutput) \/ Keeps("output")
Fault        == faults < MaxFaults /\ faults' = faults + 1

(***************************************************************************)
(* The submission at work.                                                 *)
(***************************************************************************)
ChildReads ==
    /\ Active
    /\ hasStdin
    /\ todo = {}
    /\ stdinPipe # <<>>
    /\ current' = Head(stdinPipe)
    /\ todo' = ExpectedPlayers(current')
    /\ stdinPipe' = Tail(stdinPipe)
    /\ UNCHANGED <<processVars, outPipe, errPipe, feeding, outputs, reported,
                   wrong, faults>>

ChildReports ==
    /\ Active
    /\ hasOutput
    /\ Len(errPipe) < PipeSize
    /\ \E p \in todo :
        /\ errPipe' = Append(errPipe, [event |-> current, player |-> p])
        /\ todo' = todo \ {p}
        /\ reported' = [reported EXCEPT ![current] = @ \cup {p}]
    /\ UNCHANGED <<processVars, stdinPipe, outPipe, feeding, current, outputs,
                   wrong, faults>>

ChildWrites ==
    /\ Active
    /\ hasOutput
    /\ current # 0
    /\ outputs < MaxOutput
    /\ outPipe < PipeSize
    /\ outPipe' = outPipe + 1
    /\ outputs' = outputs + 1
    /\ UNCHANGED <<processVars, stdinPipe, errPipe, feeding, current, todo,
                   reported, wrong, faults>>

Exits(s) == child' = "exited" /\ status' = s

ChildEnds ==
    /\ Active
    /\ hasStdin
    /\ todo = {}
    /\ stdinPipe = <<>>
    /\ ~feeding
    /\ Exits("zero")
    /\ UNCHANGED <<descendant, detached, hung, hasStdin, hasOutput, group, pipeVars,
                   workVars, faults>>

(***************************************************************************)
(* The submission misbehaves.                                              *)
(***************************************************************************)
\* It exits although there is more to come, or to do.
ExitsEarly ==
    /\ Active
    /\ Fault
    /\ \E s \in {"zero", "nonzero"} : Exits(s)
    /\ UNCHANGED <<descendant, detached, hung, hasStdin, hasOutput, group, pipeVars, workVars>>

\* A record of an earlier event, of a player who is not due, a second one of
\* the same player, or one that cannot be parsed (event 0).
ReportsWrongly ==
    /\ Active
    /\ hasOutput
    /\ Len(errPipe) < PipeSize
    /\ Fault
    /\ \E k \in 0 .. current, p \in Players :
        /\ k = current => p \notin todo
        /\ 0 < k /\ k < current => p \in ExpectedPlayers(k)
        /\ k = 0 => p = 0
        /\ errPipe' = Append(errPipe, [event |-> k, player |-> p])
    /\ wrong' = TRUE
    /\ UNCHANGED <<processVars, stdinPipe, outPipe, feeding, current, todo,
                   outputs, reported>>

ClosesPipes ==
    /\ Active
    /\ Fault
    /\ \/ hasStdin /\ hasStdin' = FALSE /\ UNCHANGED hasOutput
       \/ hasOutput /\ hasOutput' = FALSE /\ UNCHANGED hasStdin
    /\ UNCHANGED <<child, status, descendant, detached, hung, group, pipeVars,
                   workVars>>

Hangs ==
    /\ Active
    /\ Fault
    /\ hung' = TRUE
    /\ UNCHANGED <<child, status, descendant, detached, hasStdin, hasOutput,
                   group, pipeVars, workVars>>

\* It leaves a process in the background, which has what it has not redirected
\* or closed, and may be in a group of its own.
Forks ==
    /\ Active
    /\ ~descendant
    /\ Fault
    /\ descendant' = TRUE
    /\ detached' \in SUBSET {"stdin", "output", "group"}
    /\ ~hasStdin => "stdin" \in detached'
    /\ ~hasOutput => "output" \in detached'
    /\ UNCHANGED <<child, status, hung, hasStdin, hasOutput, group, pipeVars,
                   workVars>>

DescendantEnds ==
    /\ descendant
    /\ descendant' = FALSE
    /\ detached' = {}
    /\ UNCHANGED <<child, status, hung, hasStdin, hasOutput, group, pipeVars,
                   workVars, faults>>

\* What is in the group dies: the child, and a descendant that is still there.
KillsDescendant ==
    /\ descendant' = (descendant /\ ~Keeps("group"))
    /\ detached' = IF Keeps("group") THEN {} ELSE detached

GroupDies ==
    /\ group = "kill" \/ (group = "term" /\ ~hung)
    /\ IF Running THEN Exits("signalled") ELSE UNCHANGED <<child, status>>
    /\ KillsDescendant
    /\ group' = "none"
    /\ UNCHANGED <<hung, hasStdin, hasOutput, pipeVars, workVars, faults>>

Works     == ChildReads \/ ChildReports \/ ChildWrites \/ ChildEnds
Misbehaves == ExitsEarly \/ ReportsWrongly \/ ClosesPipes \/ Hangs \/ Forks
=============================================================================
