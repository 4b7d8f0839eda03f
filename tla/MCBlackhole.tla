---------------------------- MODULE MCBlackhole ----------------------------
EXTENDS Blackhole

\* Two points are fewer than the processes, four are not a multiple of three.
\* One layout gives everything to one process, and two have a gap.
LayoutsMC ==
    LET two == [0 .. 1 -> Ranks \cup {Nobody}]
        four == [0 .. 3 -> Ranks \cup {Nobody}]
    IN  two \cup {w \in four : w[0] # Nobody /\ w[1] # w[0] /\ w[2] = 0}
=============================================================================
