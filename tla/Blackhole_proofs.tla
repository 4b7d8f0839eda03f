-------------------------- MODULE Blackhole_proofs --------------------------
(***************************************************************************)
(* Proofs about 08-blackhole: first the surface benchmark of its           *)
(* processes, then the evolution of the levels.                            *)
(*                                                                         *)
(* Segment(r) says which stretch of the program between two collectives    *)
(* process r is in. Lockstep is what MPI gives and the program must not    *)
(* waste: processes that have left a collective are in the stretch after   *)
(* it, the others before it, and nobody is further apart. So a collective  *)
(* joins what all processes bring to the same place of the program         *)
(* (Meeting), from fields of the same epoch (Carried): each point of the   *)
(* sphere comes from the one process that has its block (Gapless says that *)
(* there is one, unless the run was aborted), and is integrated by the one *)
(* process in whose share it is (SharesPartition). What process 0 summed   *)
(* so far is then known from where it is (Summed). There is one lemma for  *)
(* each action.                                                            *)
(***************************************************************************)
EXTENDS Blackhole, FiniteSetTheorems, SequenceTheorems, WellFoundedInduction, TLAPS

\* A product grows by the factor at least.
LEMMA Monotone ==
    ASSUME NEW a \in Nat, NEW b \in Nat, NEW c \in Nat, a < b
    PROVE  a * c + c <= b * c
<1> DEFINE k == b - a - 1
<1>1. k \in Nat /\ b = a + 1 + k  OBVIOUS
<1>2. b * c = a * c + c + k * c  BY <1>1
<1>3. k * c \in Nat  BY <1>1
<1> QED  BY <1>2, <1>3

\* Quotient and remainder of a division.
LEMMA Division ==
    ASSUME NEW n \in Nat, NEW c \in Nat \ {0}
    PROVE  /\ n \div c \in Nat
           /\ n - c * (n \div c) \in 0 .. c - 1
  BY Z3

\* One pair of quotient and remainder only.
LEMMA Positional ==
    ASSUME NEW c \in Nat, NEW a \in Nat, NEW b \in Nat,
           NEW d \in 0 .. c - 1, NEW e \in 0 .. c - 1,
           a * c + d = b * c + e
    PROVE  a = b /\ d = e
<1>1. a * c \in Nat /\ b * c \in Nat  OBVIOUS
<1>2. ~(a < b)  BY <1>1, Monotone
<1>3. ~(b < a)  BY <1>1, Monotone
<1>4. a = b  BY <1>2, <1>3
<1> QED  BY <1>1, <1>4
-----------------------------------------------------------------------------
(***************************************************************************)
(* The shares of the processes.                                            *)
(***************************************************************************)
LEMMA PointsAreCounted ==
    ASSUME owner \in Layouts
    PROVE  NTot \in Nat /\ Points = 0 .. NTot - 1
           /\ \A p \in Points : owner[p] \in Ranks \cup {Nobody}
<1>1. IsFiniteSet(Points)
  BY SurfaceAssumption DEF Points
<1>2. Cardinality(Points) \in Nat
  BY <1>1, FS_CardinalityType
<1> QED  BY <1>2, SurfaceAssumption DEF Points, NTot

\* Every point of the sphere is in the share of one process, and of one only,
\* for every number of points and of processes.
THEOREM SharesPartition ==
    ASSUME owner \in Layouts
    PROVE  \A p \in Points : \E q \in Ranks :
               {r \in Ranks : p \in Share(r)} = {q}
<1> DEFINE c == RankCount
           mp == NTot \div c
           Lp == NTot - c * mp
<1>1. c \in Nat \ {0} /\ NTot \in Nat /\ Points = 0 .. NTot - 1
  BY SurfaceAssumption, PointsAreCounted
<1>2. mp \in Nat /\ Lp \in 0 .. c - 1 /\ NTot = c * mp + Lp
  <2>1. mp \in Nat /\ Lp \in 0 .. c - 1
    BY <1>1, Division
  <2> QED  BY <1>1, <2>1
<1>3. \A r \in Ranks : Share(r) = IF Lp > r THEN r * mp + r .. r * mp + r + mp
                                  ELSE r * mp + Lp .. r * mp + Lp + mp - 1
  BY DEF Share
<1> HIDE DEF c, mp, Lp
<1> SUFFICES ASSUME NEW p \in Points
             PROVE  \E q \in Ranks : {r \in Ranks : p \in Share(r)} = {q}
  OBVIOUS
<1>4. p \in Nat /\ p < c * mp + Lp
  BY <1>1, <1>2
<1>5. \E q \in Ranks : p \in Share(q)
  <2>1. CASE p < Lp * (mp + 1)
    <3> DEFINE q == p \div (mp + 1)
               d == p - (mp + 1) * q
    <3>1. q \in Nat /\ d \in 0 .. mp /\ p = q * (mp + 1) + d
      <4>1. p \in Nat /\ mp + 1 \in Nat \ {0}
        BY <1>2, <1>4
      <4>2. q \in Nat /\ d \in 0 .. (mp + 1) - 1
        BY <4>1, Division
      <4> QED  BY <4>2, <1>2, <1>4
    <3> HIDE DEF q, d
    <3>2. q < Lp
      <4>1. CASE Lp = q
        BY <4>1, <3>1, <2>1, <1>2
      <4>2. CASE Lp < q
        <5>1. Lp * (mp + 1) + (mp + 1) <= q * (mp + 1)
          BY <4>2, <3>1, <1>2, Monotone
        <5>2. Lp * (mp + 1) \in Nat /\ q * (mp + 1) \in Nat
          BY <3>1, <1>2
        <5> QED  BY <5>1, <5>2, <3>1, <2>1, <1>2, <1>4
      <4> QED  BY <4>1, <4>2, <3>1, <1>2
    <3>3. q \in Ranks /\ p \in q * mp + q .. q * mp + q + mp
      BY <3>1, <3>2, <1>1, <1>2, <1>4 DEF Ranks, c
    <3> QED  BY <3>2, <3>3, <1>3
  <2>2. CASE p >= Lp * (mp + 1)
    <3> DEFINE q == (p - Lp) \div mp
               d == (p - Lp) - mp * q
    <3>1. Lp * (mp + 1) = Lp * mp + Lp /\ Lp * mp \in Nat
      BY <1>2
    <3>2. p - Lp \in Nat /\ p - Lp < c * mp /\ p - Lp >= Lp * mp
      BY <3>1, <2>2, <1>1, <1>2, <1>4
    <3>3. mp \in Nat \ {0}
      BY <3>2, <1>1, <1>2
    <3>4. q \in Nat /\ d \in 0 .. mp - 1 /\ p - Lp = q * mp + d
      <4>1. q \in Nat /\ d \in 0 .. mp - 1
        BY <3>2, <3>3, Division
      <4> QED  BY <4>1, <3>2, <3>3
    <3> HIDE DEF q, d
    <3>5. q < c
      <4>1. CASE c = q
        BY <4>1, <3>4, <3>2, <1>1, <1>2
      <4>2. CASE c < q
        <5>1. c * mp + mp <= q * mp
          BY <4>2, <3>4, <1>1, <1>2, Monotone
        <5>2. c * mp \in Nat /\ q * mp \in Nat
          BY <3>4, <1>1, <1>2
        <5> QED  BY <5>1, <5>2, <3>4, <3>2, <1>2
      <4> QED  BY <4>1, <4>2, <3>4, <1>1
    <3>6. ~(q < Lp)
      <4>1. SUFFICES ASSUME q < Lp PROVE FALSE
        OBVIOUS
      <4>2. q * mp + mp <= Lp * mp
        BY <4>1, <3>4, <1>2, Monotone
      <4>3. q * mp \in Nat
        BY <3>4, <1>2
      <4> QED  BY <4>2, <4>3, <3>1, <3>2, <3>4, <1>2
    <3>7. q \in Ranks /\ p \in q * mp + Lp .. q * mp + Lp + mp - 1
      BY <3>4, <3>5, <1>1, <1>2, <1>4 DEF Ranks, c
    <3> QED  BY <3>4, <3>6, <3>7, <1>2, <1>3
  <2>3. Lp * (mp + 1) \in Nat
    BY <1>2
  <2> QED  BY <2>1, <2>2, <2>3, <1>4
<1>6. ASSUME NEW q \in Ranks, NEW r \in Ranks, q < r,
             p \in Share(q), p \in Share(r)
      PROVE  FALSE
  <2>1. q \in Nat /\ r \in Nat /\ q * mp \in Nat /\ r * mp \in Nat
    BY <1>1, <1>2 DEF Ranks, c
  <2>2. q * mp + mp <= r * mp
    BY <1>6, <2>1, <1>2, Monotone
  <2>3. p <= q * mp + mp + (IF q < Lp THEN q ELSE Lp - 1)
    <3>1. CASE q < Lp
      BY <3>1, <1>6, <1>3, <2>1, <1>2, <1>4
    <3>2. CASE ~(q < Lp)
      BY <3>2, <1>6, <1>3, <2>1, <1>2, <1>4
    <3> QED  BY <3>1, <3>2
  <2>4. p >= r * mp + (IF r < Lp THEN r ELSE Lp)
    <3>1. CASE r < Lp
      BY <3>1, <1>6, <1>3, <2>1, <1>2, <1>4
    <3>2. CASE ~(r < Lp)
      BY <3>2, <1>6, <1>3, <2>1, <1>2, <1>4
    <3> QED  BY <3>1, <3>2
  <2> QED  BY <1>6, <2>1, <2>2, <2>3, <2>4, <1>2, <1>4
<1>7. PICK q \in Ranks : p \in Share(q)
  BY <1>5
<1>8. ASSUME NEW r \in Ranks, p \in Share(r)  PROVE r = q
  <2>1. q \in Nat /\ r \in Nat
    BY <1>1 DEF Ranks, c
  <2> QED  BY <2>1, <1>6, <1>7, <1>8
<1> QED  BY <1>7, <1>8

-----------------------------------------------------------------------------
(***************************************************************************)
(* The invariant.                                                          *)
(***************************************************************************)
Collectives == {"barrier", "interp", "wave"}
Places == Collectives \cup {"generate", "reduce", "done"}

\* What every process has after it interpolated in iteration i, and what
\* each of its detectors is then summed to.
Sample(i) ==
    [p \in Points |-> IF owner[p] = Nobody THEN {} ELSE {<<owner[p], Epoch(i)>>}]

Integral(i) ==
    [p \in Points |-> {<<q, Sample(i)[p]>> : q \in {r \in Ranks : p \in Share(r)}}]

Samples == {Sample(i) : i \in Int} \cup {Nothing}
Entry(i, d) == [round |-> i, detector |-> d, sum |-> Integral(i)]
Entries == {Entry(i, d) : i \in Int, d \in Int}

Typed ==
    /\ owner \in Layouts
    /\ place \in [Ranks -> Places]
    /\ round \in [Ranks -> Int]
    /\ detector \in [Ranks -> Int]
    /\ field \in [Ranks -> Int]
    /\ shellf \in [Ranks -> Samples]
    /\ tally \in [Ranks -> Seq(Entries)]
    /\ DOMAIN given = Ranks
    /\ inside \in SUBSET Ranks
    /\ leaving \in SUBSET Ranks
    /\ aborted \in BOOLEAN

Bounded ==
    \A r \in Ranks :
        /\ place[r] \notin {"reduce", "done"} => round[r] \in -warmup .. repeats - 1
        /\ place[r] \in {"interp", "wave"} => detector[r] \in 0 .. Detectors - 1

\* The collective a process is before or in, and the one that follows.
Segment(r) ==
    CASE place[r] \in {"generate", "barrier"} -> <<"fields", round[r], 0>>
      [] place[r] \in {"interp", "wave"}      -> <<place[r], round[r], detector[r]>>
      [] OTHER                                -> <<"end", 0, 0>>

Following(s) ==
    CASE s[1] = "fields" -> <<"interp", s[2], 0>>
      [] s[1] = "interp" -> <<"wave", s[2], s[3]>>
      [] s[1] = "wave" /\ s[3] + 1 < Detectors ->
            <<"interp", s[2], s[3] + 1>>
      [] s[1] = "wave" /\ s[3] + 1 >= Detectors /\ s[2] + 1 < repeats ->
            <<"fields", s[2] + 1, 0>>
      [] OTHER -> <<"end", 0, 0>>

\* The processes that have not left a collective are one behind the others.
Lockstep ==
    /\ \A q, r \in Ranks \ leaving : Segment(q) = Segment(r)
    /\ \A q, r \in leaving : Segment(q) = Segment(r)
    /\ \A q \in leaving, r \in Ranks \ leaving : Segment(r) = Following(Segment(q))

Meeting ==
    /\ inside \cap leaving = {}
    /\ \A r \in inside \cup leaving : place[r] \in Collectives

Carried ==
    \A r \in Ranks :
        /\ place[r] \in Collectives => field[r] = Epoch(round[r])
        /\ place[r] = "wave" => shellf[r] = Sample(round[r])
        /\ r \in inside => given[r] = Contribution(r)
        /\ r \in leaving /\ place[r] = "interp" => outcome = Sample(round[r])
        /\ r \in leaving /\ place[r] = "wave" => outcome = Integral(round[r])

\* Process 0 does not get past a point that is in no block.
Gapless ==
    (place[Root] = "wave" /\ ~aborted) \/ tally[Root] # << >> =>
        \A p \in Points : owner[p] # Nobody

Counted(r) ==
    CASE place[r] \in {"reduce", "done"} -> repeats * Detectors
      [] place[r] \in {"generate", "barrier"} -> IF round[r] < 0 THEN 0
                                                 ELSE round[r] * Detectors
      [] OTHER -> IF round[r] < 0 THEN 0 ELSE round[r] * Detectors + detector[r]

Summed ==
    \A r \in Ranks :
        /\ Len(tally[r]) = Counted(r)
        /\ \A n \in Nat, d \in 0 .. Detectors - 1 :
              n * Detectors + d + 1 <= Len(tally[r]) =>
                 tally[r][n * Detectors + d + 1] = Entry(n, d)

Inv == Typed /\ Bounded /\ Lockstep /\ Meeting /\ Carried /\ Gapless /\ Summed

-----------------------------------------------------------------------------
LEMMA Parameters ==
    /\ Ranks \subseteq Nat /\ Root \in Ranks /\ Nobody \notin Ranks
    /\ repeats \in Nat \ {0} /\ warmup \in Nat /\ Detectors \in Nat \ {0}
    /\ \A i \in Int : Epoch(i) \in Int
  BY SurfaceAssumption DEF Ranks, repeats, warmup, Epoch

LEMMA InvInit == SurfaceInit => Inv
<1> SUFFICES ASSUME SurfaceInit PROVE Inv
  OBVIOUS
<1> USE Parameters DEF SurfaceInit
<1>1. Typed
  <2>1. shellf \in [Ranks -> Samples]
    BY DEF Samples
  <2>2. tally \in [Ranks -> Seq(Entries)]
    OBVIOUS
  <2>3. place \in [Ranks -> Places]
    BY DEF Places
  <2>4. DOMAIN given = Ranks
    OBVIOUS
  <2>5. owner \in Layouts /\ round \in [Ranks -> Int]
        /\ detector \in [Ranks -> Int] /\ field \in [Ranks -> Int]
    OBVIOUS
  <2>6. inside \in SUBSET Ranks /\ leaving \in SUBSET Ranks
    OBVIOUS
  <2>7. aborted \in BOOLEAN
    OBVIOUS
  <2> HIDE DEF SurfaceInit
  <2> QED  BY <2>1, <2>2, <2>3, <2>4, <2>5, <2>6, <2>7 DEF Typed
<1>2. Bounded
  BY DEF Bounded
<1>3. Lockstep
  BY DEF Lockstep, Segment
<1>4. Meeting
  BY DEF Meeting
<1>5. Carried
  BY DEF Carried, Collectives
<1>6. Gapless
  BY DEF Gapless
<1>7. Summed
  <2>1. \A r \in Ranks : Counted(r) = 0
    BY DEF Counted
  <2>2. ASSUME NEW n \in Nat, NEW d \in 0 .. Detectors - 1
        PROVE  ~(n * Detectors + d + 1 <= 0)
    <3>1. n * Detectors \in Nat
      OBVIOUS
    <3> QED  BY <3>1
  <2> QED  BY <2>1, <2>2 DEF Summed
<1> QED  BY <1>1, <1>2, <1>3, <1>4, <1>5, <1>6, <1>7 DEF Inv

\* What depends on the layout only does not change.
LEMMA LayoutStays ==
    ASSUME UNCHANGED owner
    PROVE  /\ Points' = Points
           /\ Nothing' = Nothing
           /\ \A r : Share(r)' = Share(r)
           /\ \A i : Sample(i)' = Sample(i)
           /\ \A i : Integral(i)' = Integral(i)
           /\ \A i, d : Entry(i, d)' = Entry(i, d)
           /\ Samples' = Samples
           /\ Entries' = Entries
<1>1. Points' = Points /\ NTot' = NTot
  BY DEF Points, NTot
<1>2. Nothing' = Nothing
  BY <1>1 DEF Nothing
<1>3. ASSUME NEW r PROVE Share(r)' = Share(r)
  BY <1>1 DEF Share
<1>4. ASSUME NEW i PROVE Sample(i)' = Sample(i)
  BY <1>1 DEF Sample
<1>5. ASSUME NEW i PROVE Integral(i)' = Integral(i)
  BY <1>1, <1>3, <1>4 DEF Integral
<1>6. ASSUME NEW i, NEW d PROVE Entry(i, d)' = Entry(i, d)
  BY <1>5 DEF Entry
<1>7. Samples' = Samples
  BY <1>2, <1>4 DEF Samples
<1>8. Entries' = Entries
  BY <1>6 DEF Entries
<1> QED  BY <1>1, <1>2, <1>3, <1>4, <1>5, <1>6, <1>7, <1>8

\* Neither a step of another variable nor a stutter changes anything.
LEMMA InvStutter == Inv /\ UNCHANGED surfaceVars => Inv'
<1> SUFFICES ASSUME Inv, UNCHANGED surfaceVars PROVE Inv'
  OBVIOUS
<1> USE LayoutStays DEF surfaceVars, rankVars, collectiveVars
<1>1. Typed'
  BY DEF Inv, Typed
<1>2. Bounded'
  BY DEF Inv, Bounded
<1>3. Lockstep'
  BY DEF Inv, Lockstep, Segment
<1>4. Meeting'
  BY DEF Inv, Meeting
<1>5. Carried'
  <2>1. \A r \in Ranks : Contribution(r)' = Contribution(r)
    BY DEF Contribution
  <2> QED  BY <2>1 DEF Inv, Carried
<1>6. Gapless'
  BY DEF Inv, Gapless
<1>7. Summed'
  BY DEF Inv, Summed, Counted
<1> QED  BY <1>1, <1>2, <1>3, <1>4, <1>5, <1>6, <1>7 DEF Inv

-----------------------------------------------------------------------------
(***************************************************************************)
(* Each step keeps the invariant.                                          *)
(***************************************************************************)
\* Process r leaves the collective it is in for the next segment.
LEMMA LockstepByLeaving ==
    ASSUME Inv, NEW r \in leaving, leaving' = leaving \ {r},
           Segment(r)' = Following(Segment(r)),
           \A q \in Ranks \ {r} : Segment(q)' = Segment(q)
    PROVE  Lockstep'
<1>1. leaving \in SUBSET Ranks /\ leaving' \in SUBSET Ranks
  BY DEF Inv, Typed
<1>2. \A q \in Ranks \ leaving' : Segment(q)' = Following(Segment(r))
  BY <1>1 DEF Inv, Lockstep
<1>3. \A q \in leaving' : Segment(q)' = Segment(r)
  BY <1>1 DEF Inv, Lockstep
<1> QED  BY <1>1, <1>2, <1>3 DEF Lockstep

LEMMA LockstepByStaying ==
    ASSUME Inv, leaving' = leaving, \A q \in Ranks : Segment(q)' = Segment(q)
    PROVE  Lockstep'
<1>1. leaving \in SUBSET Ranks
  BY DEF Inv, Typed
<1> QED  BY <1>1 DEF Inv, Lockstep

LEMMA SummedBefore ==
    ASSUME Inv, UNCHANGED <<owner, tally>>, \A q \in Ranks : Counted(q)' = Counted(q)
    PROVE  Summed'
  BY LayoutStays DEF Inv, Summed

LEMMA GenerateStep ==
    ASSUME Inv, NEW r \in Ranks, Generate(r)
    PROVE  Inv'
<1> USE Parameters, LayoutStays DEF Generate, rankVars, collectiveVars
<1>1. r \notin inside /\ r \notin leaving
  BY DEF Inv, Meeting, Collectives
<1>2. Typed'
  <2>1. place' \in [Ranks -> Places]
    BY DEF Inv, Typed, Places, Collectives
  <2>2. field' \in [Ranks -> Int]
    BY DEF Inv, Typed
  <2> QED  BY <2>1, <2>2 DEF Inv, Typed
<1>3. Bounded'
  BY DEF Inv, Typed, Bounded
<1>4. \A q \in Ranks : Segment(q)' = Segment(q) /\ Counted(q)' = Counted(q)
  <2>1. \A q \in Ranks \ {r} : Segment(q)' = Segment(q) /\ Counted(q)' = Counted(q)
    BY DEF Inv, Typed, Segment, Counted
  <2>2. place[r] = "generate" /\ place'[r] = "barrier"
    BY DEF Inv, Typed
  <2>3. Segment(r)' = Segment(r)
    BY <2>2 DEF Segment
  <2>4. Counted(r)' = Counted(r)
    BY <2>2 DEF Counted
  <2> QED  BY <2>1, <2>3, <2>4
<1>5. Lockstep'
  BY <1>4, LockstepByStaying
<1>6. Meeting'
  BY <1>1 DEF Inv, Typed, Meeting
<1>7. Carried'
  <2>1. \A q \in Ranks \ {r} : Contribution(q)' = Contribution(q)
    BY DEF Inv, Typed, Contribution
  <2> QED  BY <1>1, <2>1 DEF Inv, Typed, Carried, Collectives
<1>8. Gapless'
  BY DEF Inv, Typed, Gapless
<1>9. Summed'
  BY <1>4, SummedBefore
<1> QED  BY <1>2, <1>3, <1>5, <1>6, <1>7, <1>8, <1>9 DEF Inv

LEMMA ReportStep ==
    ASSUME Inv, NEW r \in Ranks, Report(r)
    PROVE  Inv'
<1> USE Parameters, LayoutStays DEF Report, rankVars, collectiveVars
<1>1. r \notin inside /\ r \notin leaving
  BY DEF Inv, Meeting, Collectives
<1>2. Typed'
  <2>1. place' \in [Ranks -> Places]
    BY DEF Inv, Typed, Places, Collectives
  <2> QED  BY <2>1 DEF Inv, Typed
<1>3. Bounded'
  BY DEF Inv, Typed, Bounded
<1>4. \A q \in Ranks : Segment(q)' = Segment(q) /\ Counted(q)' = Counted(q)
  <2>1. \A q \in Ranks \ {r} : Segment(q)' = Segment(q) /\ Counted(q)' = Counted(q)
    BY DEF Inv, Typed, Segment, Counted
  <2>2. place[r] = "reduce" /\ place'[r] = "done"
    BY DEF Inv, Typed
  <2>3. Segment(r)' = Segment(r)
    BY <2>2 DEF Segment
  <2>4. Counted(r)' = Counted(r)
    BY <2>2 DEF Counted
  <2> QED  BY <2>1, <2>3, <2>4
<1>5. Lockstep'
  BY <1>4, LockstepByStaying
<1>6. Meeting'
  BY <1>1 DEF Inv, Typed, Meeting
<1>7. Carried'
  <2>1. \A q \in Ranks \ {r} : Contribution(q)' = Contribution(q)
    BY DEF Inv, Typed, Contribution
  <2> QED  BY <1>1, <2>1 DEF Inv, Typed, Carried, Collectives
<1>8. Gapless'
  BY DEF Inv, Typed, Gapless
<1>9. Summed'
  BY <1>4, SummedBefore
<1> QED  BY <1>2, <1>3, <1>5, <1>6, <1>7, <1>8, <1>9 DEF Inv

LEMMA PassBarrierStep ==
    ASSUME Inv, NEW r \in Ranks, PassBarrier(r)
    PROVE  Inv'
<1> USE Parameters, LayoutStays DEF PassBarrier, Leave
<1>1. r \in leaving /\ r \notin inside
  BY DEF Inv, Meeting
<1>2. Typed'
  <2>1. place' \in [Ranks -> Places]
    BY DEF Inv, Typed, Places, Collectives
  <2>2. detector' \in [Ranks -> Int]
    BY DEF Inv, Typed
  <2>3. leaving' \in SUBSET Ranks
    BY DEF Inv, Typed
  <2> QED  BY <2>1, <2>2, <2>3 DEF Inv, Typed
<1>3. Bounded'
  <2>1. \A q \in Ranks \ {r} : place'[q] = place[q] /\ detector'[q] = detector[q]
    BY DEF Inv, Typed
  <2>2. detector'[r] = 0 /\ place[r] = "barrier"
    BY DEF Inv, Typed
  <2> QED  BY <2>1, <2>2 DEF Inv, Bounded
<1>4. \A q \in Ranks \ {r} : Segment(q)' = Segment(q)
  BY DEF Inv, Typed, Segment
<1>5. Segment(r)' = Following(Segment(r))
  BY DEF Inv, Typed, Segment, Following
<1>6. Lockstep'
  BY <1>1, <1>4, <1>5, LockstepByLeaving
<1>7. Meeting'
  BY <1>1 DEF Inv, Typed, Meeting
<1>8. Carried'
  <2>1. \A q \in Ranks \ {r} : Contribution(q)' = Contribution(q)
    BY DEF Inv, Typed, Contribution
  <2> QED  BY <1>1, <2>1 DEF Inv, Typed, Carried, Collectives
<1>9. Gapless'
  BY DEF Inv, Typed, Gapless
<1>10. \A q \in Ranks : Counted(q)' = Counted(q)
  <2>1. \A q \in Ranks \ {r} : Counted(q)' = Counted(q)
    BY DEF Inv, Typed, Counted
  <2>2. Counted(r)' = Counted(r)
    <3>1. round[r] * Detectors \in Int /\ round'[r] = round[r]
          /\ detector'[r] = 0 /\ place[r] = "barrier" /\ place'[r] = "interp"
      BY DEF Inv, Typed
    <3> QED  BY <3>1 DEF Counted
  <2> QED  BY <2>1, <2>2
<1>11. Summed'
  BY <1>10, SummedBefore
<1> QED  BY <1>2, <1>3, <1>6, <1>7, <1>8, <1>9, <1>11 DEF Inv

LEMMA InterpolatedStep ==
    ASSUME Inv, NEW r \in Ranks, Interpolated(r)
    PROVE  Inv'
<1> USE Parameters, LayoutStays DEF Interpolated, Leave
<1>1. r \in leaving /\ r \notin inside
  BY DEF Inv, Meeting
<1>2. outcome = Sample(round[r]) /\ round[r] \in Int
  BY <1>1 DEF Inv, Typed, Carried
<1>3. Typed'
  <2>1. place' \in [Ranks -> Places]
    BY DEF Inv, Typed, Places, Collectives
  <2>2. shellf' \in [Ranks -> Samples']
    BY <1>2 DEF Inv, Typed, Samples
  <2>3. leaving' \in SUBSET Ranks
    BY DEF Inv, Typed
  <2>4. aborted' \in BOOLEAN
    OBVIOUS
  <2> QED  BY <2>1, <2>2, <2>3, <2>4 DEF Inv, Typed
<1>4. Bounded'
  BY DEF Inv, Typed, Bounded
<1>5. \A q \in Ranks \ {r} : Segment(q)' = Segment(q) /\ Counted(q)' = Counted(q)
  BY DEF Inv, Typed, Segment, Counted
<1>6. Segment(r)' = Following(Segment(r)) /\ Counted(r)' = Counted(r)
  BY DEF Inv, Typed, Segment, Following, Counted
<1>7. Lockstep'
  BY <1>1, <1>5, <1>6, LockstepByLeaving
<1>8. Meeting'
  BY <1>1 DEF Inv, Typed, Meeting
<1>9. Carried'
  <2>1. \A q \in Ranks \ {r} : Contribution(q)' = Contribution(q)
    BY DEF Inv, Typed, Contribution
  <2> QED  BY <1>1, <1>2, <2>1 DEF Inv, Typed, Carried, Collectives
<1>10. Gapless'
  <2>1. ASSUME r = Root, ~aborted', NEW p \in Points PROVE owner[p] # Nobody
    BY <2>1, <1>2 DEF Sample
  <2>2. CASE r = Root
    BY <2>1, <2>2 DEF Inv, Typed, Gapless
  <2>3. CASE r # Root
    BY <2>3 DEF Inv, Typed, Gapless
  <2> QED  BY <2>2, <2>3
<1>11. Summed'
  BY <1>5, <1>6, SummedBefore
<1> QED  BY <1>3, <1>4, <1>7, <1>8, <1>9, <1>10, <1>11 DEF Inv

\* The next entry of the tally is for the detector and the iteration the
\* process is at.
LEMMA TallyGrows ==
    ASSUME Inv, UNCHANGED owner, NEW r \in Ranks,
           place[r] = "wave", outcome = Integral(round[r]),
           tally' = IF round[r] < 0 THEN tally
                    ELSE [tally EXCEPT ![r] = Append(@, [round |-> round[r],
                                       detector |-> detector[r], sum |-> outcome])],
           \A q \in Ranks \ {r} : Counted(q)' = Counted(q),
           Counted(r)' = IF round[r] < 0 THEN 0
                         ELSE round[r] * Detectors + detector[r] + 1
    PROVE  Summed' /\ tally' \in [Ranks -> Seq(Entries)]
<1> USE Parameters
<1>1. round[r] \in Int /\ detector[r] \in 0 .. Detectors - 1
      /\ tally \in [Ranks -> Seq(Entries)]
  BY DEF Inv, Typed, Bounded
<1>2. Counted(r) = IF round[r] < 0 THEN 0 ELSE round[r] * Detectors + detector[r]
  BY DEF Counted
<1>3. CASE round[r] < 0
  BY <1>1, <1>2, <1>3, SummedBefore, LayoutStays
<1>4. CASE ~(round[r] < 0)
  <2> DEFINE new == Entry(round[r], detector[r])
             a == round[r] * Detectors
             b == detector[r]
  <2>1. new \in Entries /\ a \in Nat
    BY <1>1, <1>4 DEF Entries
  <2>2. tally' = [tally EXCEPT ![r] = Append(tally[r], new)]
    BY <1>1, <1>4 DEF Entry
  <2>3. tally[r] \in Seq(Entries) /\ Len(tally[r]) = a + b
    BY <1>1, <1>2, <1>4 DEF Inv, Summed
  <2>4. b \in Nat /\ b <= Detectors - 1
    BY <1>1
  <2> HIDE DEF a, b, new
  <2>5. /\ Append(tally[r], new) \in Seq(Entries)
        /\ Len(Append(tally[r], new)) = a + b + 1
        /\ Append(tally[r], new)[a + b + 1] = new
        /\ \A i \in 1 .. a + b : Append(tally[r], new)[i] = tally[r][i]
    BY ONLY <2>1, <2>3, <2>4, AppendProperties
  <2>6. tally' \in [Ranks -> Seq(Entries)]
        /\ tally'[r] = Append(tally[r], new)
        /\ \A q \in Ranks \ {r} : tally'[q] = tally[q]
    BY <2>2, <2>5, <1>1
  <2>7. ASSUME NEW n \in Nat, NEW d \in 0 .. Detectors - 1,
               n * Detectors + d + 1 <= Len(tally'[r])
        PROVE  tally'[r][n * Detectors + d + 1] = Entry(n, d)
    <3> DEFINE m == n * Detectors
    <3>1. m \in Nat /\ d \in Nat
      OBVIOUS
    <3>2. CASE m + d = a + b
      <4>1. n = round[r] /\ d = detector[r]
        <5>1. n * Detectors + d = round[r] * Detectors + detector[r]
          BY <3>2 DEF a, b
        <5>2. n \in Nat /\ d \in 0 .. Detectors - 1
          OBVIOUS
        <5>3. detector[r] \in 0 .. Detectors - 1 /\ round[r] \in Nat
              /\ Detectors \in Nat
          <6>1. detector[r] \in 0 .. Detectors - 1
            BY <1>1
          <6>2. round[r] \in Nat
            BY ONLY <1>1, <1>4
          <6>3. Detectors \in Nat
            BY ONLY Parameters
          <6> QED  BY <6>1, <6>2, <6>3
        <5>4. \A k \in Nat, e \in 0 .. Detectors - 1 :
                 n * Detectors + d = k * Detectors + e => n = k /\ d = e
          BY ONLY <5>2, <5>3, Positional
        <5> QED  BY <5>1, <5>3, <5>4
      <4>2. tally'[r][m + d + 1] = new
        BY <3>2, <2>5, <2>6
      <4> QED  BY <4>1, <4>2 DEF new
    <3>3. CASE m + d # a + b
      <4> HIDE DEF m
      <4>1. m + d + 1 <= a + b
        <5>1. m + d + 1 <= a + b + 1
          BY <2>5, <2>6, <2>7 DEF m
        <5> QED  BY <5>1, <3>1, <3>3, <2>1, <2>4
      <4>2. tally[r][m + d + 1] = Entry(n, d)
        BY <4>1, <2>3 DEF Inv, Summed, m
      <4>3. m + d + 1 \in 1 .. a + b
        BY <4>1, <3>1, <2>1, <2>4
      <4>4. tally'[r][m + d + 1] = tally[r][m + d + 1]
        BY <4>3, <2>5, <2>6
      <4> QED  BY <4>2, <4>4 DEF m
    <3> QED  BY <3>2, <3>3
  <2>8. Counted(r)' = a + b + 1 /\ Len(tally'[r]) = a + b + 1
    BY <1>4, <2>5, <2>6 DEF a, b
  <2>9. ASSUME NEW q \in Ranks \ {r}
        PROVE  /\ Len(tally'[q]) = Counted(q)'
               /\ \A n \in Nat, d \in 0 .. Detectors - 1 :
                     n * Detectors + d + 1 <= Len(tally'[q]) =>
                        tally'[q][n * Detectors + d + 1] = Entry(n, d)
    <3>1. tally'[q] = tally[q] /\ Counted(q)' = Counted(q) /\ q \in Ranks
      BY <2>6
    <3>2. Summed
      BY DEF Inv
    <3>3. /\ Len(tally[q]) = Counted(q)
          /\ \A n \in Nat, d \in 0 .. Detectors - 1 :
                n * Detectors + d + 1 <= Len(tally[q]) =>
                   tally[q][n * Detectors + d + 1] = Entry(n, d)
      BY <3>1, <3>2, Zenon DEF Summed
    <3> QED  BY <3>1, <3>3, Zenon
  <2>10. \A n, d : Entry(n, d)' = Entry(n, d)
    BY LayoutStays
  <2>11. Summed'
    <3>1. ASSUME NEW q \in Ranks
          PROVE  /\ Len(tally'[q]) = Counted(q)'
                 /\ \A n \in Nat, d \in 0 .. Detectors - 1 :
                       n * Detectors + d + 1 <= Len(tally'[q]) =>
                          tally'[q][n * Detectors + d + 1] = Entry(n, d)
      <4>1. CASE q = r  BY <4>1, <2>7, <2>8
      <4>2. CASE q # r  BY <4>2, <2>9
      <4> QED  BY <4>1, <4>2
    <3> QED  BY <3>1, <2>10 DEF Summed
  <2> QED  BY <2>6, <2>11
<1> QED  BY <1>3, <1>4

LEMMA IntegratedStep ==
    ASSUME Inv, NEW r \in Ranks, Integrated(r)
    PROVE  Inv'
<1> USE Parameters, LayoutStays
<1>1. r \in leaving /\ r \notin inside /\ place[r] = "wave"
  BY DEF Inv, Meeting, Integrated, Leave
<1>2. outcome = Integral(round[r]) /\ round[r] \in -warmup .. repeats - 1
      /\ detector[r] \in 0 .. Detectors - 1 /\ place[r] = "wave"
  BY <1>1 DEF Inv, Typed, Bounded, Carried
<1>3. \E to \in Places :
         /\ Leave(r, "wave", to)
         /\ \/ /\ detector[r] + 1 < Detectors /\ to = "interp"
               /\ detector' = [detector EXCEPT ![r] = @ + 1] /\ round' = round
            \/ /\ detector[r] + 1 = Detectors
               /\ to = IF round[r] + 1 < repeats THEN "generate" ELSE "reduce"
               /\ round' = [round EXCEPT ![r] = @ + 1] /\ detector' = detector
  BY DEF Integrated, Places, Collectives
<1>4. PICK to \in Places :
         /\ Leave(r, "wave", to)
         /\ \/ /\ detector[r] + 1 < Detectors /\ to = "interp"
               /\ detector' = [detector EXCEPT ![r] = @ + 1] /\ round' = round
            \/ /\ detector[r] + 1 = Detectors
               /\ to = IF round[r] + 1 < repeats THEN "generate" ELSE "reduce"
               /\ round' = [round EXCEPT ![r] = @ + 1] /\ detector' = detector
  BY <1>3
<1>5. /\ UNCHANGED <<owner, inside, given, outcome, field, shellf, aborted>>
      /\ leaving' = leaving \ {r}
      /\ place' = [place EXCEPT ![r] = to]
      /\ tally' = IF round[r] < 0 THEN tally
                  ELSE [tally EXCEPT ![r] = Append(@, [round |-> round[r],
                                     detector |-> detector[r], sum |-> outcome])]
  BY <1>4 DEF Integrated, Leave
<1>6. place' \in [Ranks -> Places] /\ place'[r] = to
      /\ \A q \in Ranks \ {r} : place'[q] = place[q]
  BY <1>5 DEF Inv, Typed
<1>7. round' \in [Ranks -> Int] /\ detector' \in [Ranks -> Int]
      /\ \A q \in Ranks \ {r} : round'[q] = round[q] /\ detector'[q] = detector[q]
  <2>1. round \in [Ranks -> Int] /\ detector \in [Ranks -> Int]
    BY DEF Inv, Typed
  <2>2. CASE detector' = [detector EXCEPT ![r] = @ + 1] /\ round' = round
    BY <2>1, <2>2
  <2>3. CASE round' = [round EXCEPT ![r] = @ + 1] /\ detector' = detector
    BY <2>1, <2>3
  <2> QED  BY <2>2, <2>3, <1>4
<1>8. \/ /\ detector[r] + 1 < Detectors /\ place'[r] = "interp"
         /\ detector'[r] = detector[r] + 1 /\ round'[r] = round[r]
      \/ /\ detector[r] + 1 = Detectors /\ round'[r] = round[r] + 1
         /\ place'[r] = "generate" /\ round[r] + 1 < repeats
      \/ /\ detector[r] + 1 = Detectors /\ round'[r] = round[r] + 1
         /\ place'[r] = "reduce" /\ round[r] + 1 = repeats
  <2>1. round \in [Ranks -> Int] /\ detector \in [Ranks -> Int]
    BY DEF Inv, Typed
  <2>2. CASE /\ detector[r] + 1 < Detectors /\ to = "interp"
             /\ detector' = [detector EXCEPT ![r] = @ + 1] /\ round' = round
    BY <2>1, <2>2, <1>6
  <2>3. CASE /\ detector[r] + 1 = Detectors
             /\ to = IF round[r] + 1 < repeats THEN "generate" ELSE "reduce"
             /\ round' = [round EXCEPT ![r] = @ + 1] /\ detector' = detector
    <3>1. round'[r] = round[r] + 1 /\ place'[r] = to
      BY <2>1, <2>3, <1>6
    <3> QED  BY <3>1, <2>3, <1>2
  <2> QED  BY <2>2, <2>3, <1>4
<1>9. \A q \in Ranks \ {r} : Segment(q)' = Segment(q) /\ Counted(q)' = Counted(q)
  BY <1>6, <1>7 DEF Segment, Counted
<1>10. Segment(r)' = Following(Segment(r))
  BY <1>2, <1>8 DEF Segment, Following
<1>11. Counted(r)' = IF round[r] < 0 THEN 0
                     ELSE round[r] * Detectors + detector[r] + 1
  <2>1. CASE detector[r] + 1 < Detectors
    BY <2>1, <1>2, <1>8 DEF Counted
  <2>2. CASE detector[r] + 1 = Detectors
    <3>1. (round[r] + 1) * Detectors = round[r] * Detectors + detector[r] + 1
      BY <2>2, <1>2
    <3>2. 0 * Detectors = 0
      OBVIOUS
    <3>3. CASE place'[r] = "generate"
      <4>1. Counted(r)' = IF round[r] + 1 < 0 THEN 0 ELSE (round[r] + 1) * Detectors
        BY <2>2, <3>3, <1>2, <1>8 DEF Counted
      <4>2. CASE round[r] = -1
        BY <4>1, <4>2, <3>2
      <4> QED  BY <4>1, <4>2, <3>1, <1>2
    <3>4. CASE place'[r] = "reduce"
      <4>1. Counted(r)' = repeats * Detectors /\ repeats = round[r] + 1
        BY <2>2, <3>4, <1>2, <1>8 DEF Counted
      <4> QED  BY <4>1, <3>1, <1>2
    <3> QED  BY <2>2, <3>3, <3>4, <1>8, <1>2
  <2> QED  BY <2>1, <2>2, <1>2
<1>12. Summed' /\ tally' \in [Ranks -> Seq(Entries)]
  BY <1>2, <1>5, <1>9, <1>11, TallyGrows
<1>13. Typed'
  <2>1. leaving' \in SUBSET Ranks
    BY <1>5 DEF Inv, Typed
  <2> QED  BY <2>1, <1>5, <1>6, <1>7, <1>12 DEF Inv, Typed
<1>14. Bounded'
  BY <1>2, <1>6, <1>7, <1>8 DEF Inv, Bounded
<1>15. Lockstep'
  BY <1>1, <1>5, <1>9, <1>10, LockstepByLeaving
<1>16. Meeting'
  BY <1>1, <1>5, <1>6 DEF Inv, Typed, Meeting
<1>17. Carried'
  <2>1. \A q \in Ranks \ {r} : Contribution(q)' = Contribution(q)
    BY <1>5, <1>6 DEF Contribution
  <2>2. ASSUME NEW q \in Ranks \ {r}
        PROVE  /\ place'[q] \in Collectives => field'[q] = Epoch(round'[q])
               /\ place'[q] = "wave" => shellf'[q] = Sample(round'[q])
               /\ q \in inside' => given'[q] = Contribution(q)'
               /\ q \in leaving' /\ place'[q] = "interp" => outcome' = Sample(round'[q])
               /\ q \in leaving' /\ place'[q] = "wave" => outcome' = Integral(round'[q])
    BY <2>1, <1>5, <1>6, <1>7 DEF Inv, Carried
  <2>3. /\ place'[r] \in Collectives => field'[r] = Epoch(round'[r])
        /\ place'[r] # "wave" /\ r \notin inside' /\ r \notin leaving'
    <3>1. field[r] = Epoch(round[r]) /\ field' = field
      BY <1>2, <1>5 DEF Inv, Carried, Collectives
    <3>2. place'[r] \in Collectives => round'[r] = round[r]
      BY <1>8 DEF Collectives
    <3>3. place'[r] # "wave"
      BY <1>8
    <3> QED  BY <3>1, <3>2, <3>3, <1>1, <1>5
  <2>4. \A i : Epoch(i)' = Epoch(i)
    BY DEF Epoch, warmup
  <2>5. \A q \in Ranks :
           /\ place'[q] \in Collectives => field'[q] = Epoch(round'[q])
           /\ place'[q] = "wave" => shellf'[q] = Sample(round'[q])
           /\ q \in inside' => given'[q] = Contribution(q)'
           /\ q \in leaving' /\ place'[q] = "interp" => outcome' = Sample(round'[q])
           /\ q \in leaving' /\ place'[q] = "wave" => outcome' = Integral(round'[q])
    BY <2>2, <2>3
  <2>6. \A i : Sample(i)' = Sample(i) /\ Integral(i)' = Integral(i)
    BY <1>5
  <2> QED  BY <2>4, <2>5, <2>6 DEF Carried
<1>18. Gapless'
  <2>1. r # Root => tally'[Root] = tally[Root] /\ place'[Root] = place[Root]
    BY <1>5, <1>6 DEF Inv, Typed
  <2>2. ~aborted /\ ~aborted' /\ \A p \in Points : owner'[p] = owner[p]
    BY <1>4, <1>5 DEF Leave
  <2>3. CASE r = Root
    <3>1. \A p \in Points : owner[p] # Nobody
      BY <2>2, <2>3, <1>1 DEF Inv, Gapless
    <3> QED  BY <3>1, <2>2, <1>5 DEF Gapless
  <2>4. CASE r # Root
    BY <2>1, <2>2, <2>4, <1>5 DEF Inv, Gapless
  <2> QED  BY <2>3, <2>4
<1> QED  BY <1>12, <1>13, <1>14, <1>15, <1>16, <1>17, <1>18 DEF Inv

\* When the last process enters, all are at the same collective, and what each
\* of them brought makes what Carried says of the outcome.
LEMMA Completion ==
    ASSUME Inv, NEW r \in Ranks, Enter(r), inside \cup {r} = Ranks
    PROVE  \A q \in Ranks :
               /\ place[q] = place[r] /\ round[q] = round[r]
               /\ place[r] = "interp" => outcome' = Sample(round[r])
               /\ place[r] = "wave" => outcome' = Integral(round[r])
<1> USE Parameters
<1>1. leaving = {} /\ place[r] \in Collectives /\ \A q \in inside : place[q] \in Collectives
  <2>1. r \notin leaving /\ place[r] \in Collectives
    BY DEF Enter, Collectives
  <2>2. leaving \in SUBSET Ranks /\ inside \cap leaving = {}
        /\ \A q \in inside : place[q] \in Collectives
    BY DEF Inv, Typed, Meeting
  <2>3. leaving = {}
    BY <2>1, <2>2
  <2> QED  BY <2>1, <2>2, <2>3
<1>2. ASSUME NEW q \in Ranks
      PROVE  place[q] = place[r] /\ round[q] = round[r]
  <2>1. Segment(q) = Segment(r)
    BY <1>1 DEF Inv, Lockstep
  <2>2. place[q] \in Collectives
    BY <1>1
  <2>3. \A s \in Ranks : place[s] \in Collectives =>
           Segment(s) = <<IF place[s] = "barrier" THEN "fields" ELSE place[s], round[s],
                          IF place[s] = "barrier" THEN 0 ELSE detector[s]>>
    BY DEF Segment, Collectives
  <2> QED  BY <1>1, <2>1, <2>2, <2>3 DEF Collectives
<1>3. \A q \in Ranks : given'[q] = Contribution(q)
  <2>1. given' = [given EXCEPT ![r] = Contribution(r)] /\ DOMAIN given = Ranks
    BY DEF Enter, Inv, Typed
  <2>2. \A q \in inside : given[q] = Contribution(q)
    BY DEF Inv, Typed, Carried
  <2> QED  BY <2>1, <2>2
<1>4. outcome' = [p \in Points |-> UNION {Contribution(q)[p] : q \in Ranks}]
  BY <1>3 DEF Enter
<1>5. CASE place[r] = "interp"
  <2>1. \A q \in Ranks : field[q] = Epoch(round[r])
    BY <1>2, <1>5 DEF Inv, Carried, Collectives
  <2>2. ASSUME NEW p \in Points, NEW q \in Ranks
        PROVE  Contribution(q)[p] = IF owner[p] = q THEN {<<q, Epoch(round[r])>>} ELSE {}
    BY <1>2, <1>5, <2>1 DEF Contribution
  <2>3. ASSUME NEW p \in Points
        PROVE  UNION {Contribution(q)[p] : q \in Ranks} = Sample(round[r])[p]
    <3>1. owner[p] \in Ranks \cup {Nobody}
      BY PointsAreCounted DEF Inv, Typed
    <3>2. CASE owner[p] = Nobody
      <4>1. \A q \in Ranks : Contribution(q)[p] = {}
        BY <2>2, <3>2
      <4>2. UNION {Contribution(q)[p] : q \in Ranks} = {}
        BY <4>1
      <4> QED  BY <4>2, <3>2 DEF Sample
    <3>3. CASE owner[p] \in Ranks
      <4>1. UNION {Contribution(q)[p] : q \in Ranks} = {<<owner[p], Epoch(round[r])>>}
        <5> DEFINE C(q) == Contribution(q)[p]
                   term == <<owner[p], Epoch(round[r])>>
        <5>1. \A q \in Ranks : C(q) = IF owner[p] = q THEN {term} ELSE {}
          BY <2>2
        <5> HIDE DEF C, term
        <5>2. C(owner[p]) = {term}
          BY <5>1, <3>3
        <5>3. \A q \in Ranks : C(q) \subseteq {term}
          BY <5>1
        <5>4. UNION {C(q) : q \in Ranks} = {term}
          BY <5>2, <5>3, <3>3
        <5> QED  BY <5>4 DEF C, term
      <4> QED  BY <4>1, <3>3 DEF Sample
    <3> QED  BY <3>1, <3>2, <3>3
  <2>4. outcome' = Sample(round[r])
    BY <1>4, <2>3 DEF Sample
  <2> QED  BY <2>4, <1>2, <1>5
<1>6. CASE place[r] = "wave"
  <2>1. \A q \in Ranks : shellf[q] = Sample(round[r])
    BY <1>2, <1>6 DEF Inv, Carried
  <2>2. ASSUME NEW p \in Points, NEW q \in Ranks
        PROVE  Contribution(q)[p] = IF p \in Share(q) THEN {<<q, Sample(round[r])[p]>>}
                                                      ELSE {}
    BY <1>2, <1>6, <2>1 DEF Contribution
  <2>3. ASSUME NEW p \in Points
        PROVE  UNION {Contribution(q)[p] : q \in Ranks} = Integral(round[r])[p]
    <3>1. Integral(round[r])[p] =
             {<<q, Sample(round[r])[p]>> : q \in {s \in Ranks : p \in Share(s)}}
      BY DEF Integral
    <3> DEFINE C(q) == Contribution(q)[p]
               x == Sample(round[r])[p]
    <3>2. \A q \in Ranks : C(q) = IF p \in Share(q) THEN {<<q, x>>} ELSE {}
      BY <2>2
    <3> HIDE DEF C, x
    <3>3. UNION {C(q) : q \in Ranks} = {<<q, x>> : q \in {s \in Ranks : p \in Share(s)}}
      <4>1. ASSUME NEW e \in UNION {C(q) : q \in Ranks}
            PROVE  e \in {<<q, x>> : q \in {s \in Ranks : p \in Share(s)}}
        BY <3>2
      <4>2. ASSUME NEW e \in {<<q, x>> : q \in {s \in Ranks : p \in Share(s)}}
            PROVE  e \in UNION {C(q) : q \in Ranks}
        BY <3>2
      <4> QED  BY <4>1, <4>2
    <3> QED  BY <3>1, <3>3 DEF C, x
  <2>4. outcome' = Integral(round[r])
    BY <1>4, <2>3 DEF Integral
  <2> QED  BY <2>4, <1>2, <1>6
<1>7. CASE place[r] = "barrier"
  BY <1>2, <1>7
<1> QED  BY <1>1, <1>5, <1>6, <1>7 DEF Collectives

LEMMA EnterStep ==
    ASSUME Inv, NEW r \in Ranks, Enter(r)
    PROVE  Inv'
<1> USE Parameters, LayoutStays
<1>1. /\ UNCHANGED <<owner, place, round, detector, field, shellf, tally, aborted>>
      /\ given' = [given EXCEPT ![r] = Contribution(r)]
      /\ place[r] \in Collectives /\ r \notin inside /\ r \notin leaving
      /\ inside \in SUBSET Ranks /\ leaving \in SUBSET Ranks
      /\ inside \cap leaving = {}
  BY DEF Enter, rankVars, Collectives, Inv, Typed, Meeting
<1>2. \/ /\ inside \cup {r} = Ranks /\ inside' = {} /\ leaving' = Ranks
      \/ /\ inside \cup {r} # Ranks /\ inside' = inside \cup {r}
         /\ leaving' = leaving /\ outcome' = outcome
  BY DEF Enter
<1>3. Typed'
  <2>1. DOMAIN given' = DOMAIN given
    BY <1>1
  <2> QED  BY <1>1, <1>2, <2>1 DEF Inv, Typed
<1>4. Bounded'
  BY <1>1 DEF Inv, Bounded
<1>5. \A q \in Ranks : /\ Segment(q)' = Segment(q) /\ Counted(q)' = Counted(q)
                       /\ Contribution(q)' = Contribution(q)
  BY <1>1 DEF Segment, Counted, Contribution
<1>6. Lockstep'
  <2>1. CASE leaving' = leaving
    BY <2>1, <1>5, LockstepByStaying
  <2>2. CASE inside \cup {r} = Ranks /\ leaving' = Ranks
    <3>1. leaving = {}
      BY <2>2, <1>1
    <3>2. \A q, s \in Ranks : Segment(q) = Segment(s)
      BY <3>1 DEF Inv, Lockstep
    <3> QED  BY <2>2, <3>2, <1>5 DEF Lockstep
  <2> QED  BY <2>1, <2>2, <1>2
<1>7. Meeting'
  <2>1. \A q \in inside \cup leaving \cup {r} : place[q] \in Collectives
    BY <1>1 DEF Inv, Meeting
  <2> QED  BY <2>1, <1>1, <1>2 DEF Meeting
<1>8. Carried'
  <2>1. \A q \in Ranks : given'[q] = IF q = r THEN Contribution(r) ELSE given[q]
    BY <1>1 DEF Inv, Typed
  <2>2. \A i : Epoch(i)' = Epoch(i)
    BY DEF Epoch, warmup
  <2>3. ASSUME NEW q \in Ranks
        PROVE  /\ place[q] \in Collectives => field[q] = Epoch(round[q])
               /\ place[q] = "wave" => shellf[q] = Sample(round[q])
               /\ q \in inside' => given'[q] = Contribution(q)
               /\ q \in leaving' /\ place[q] = "interp" => outcome' = Sample(round[q])
               /\ q \in leaving' /\ place[q] = "wave" => outcome' = Integral(round[q])
    <3>1. CASE inside \cup {r} = Ranks
      <4>1. /\ place[q] = "interp" => outcome' = Sample(round[q])
            /\ place[q] = "wave" => outcome' = Integral(round[q])
        BY <3>1, Completion
      <4> QED  BY <3>1, <4>1, <1>2 DEF Inv, Carried
    <3>2. CASE inside \cup {r} # Ranks
      BY <3>2, <1>2, <2>1 DEF Inv, Carried
    <3> QED  BY <3>1, <3>2
  <2>4. \A i : Sample(i)' = Sample(i) /\ Integral(i)' = Integral(i)
    BY <1>1
  <2> QED  BY <2>2, <2>3, <2>4, <1>1, <1>5 DEF Carried
<1>9. Gapless'
  BY <1>1 DEF Inv, Gapless
<1>10. Summed'
  BY <1>1, <1>5, SummedBefore
<1> QED  BY <1>3, <1>4, <1>6, <1>7, <1>8, <1>9, <1>10 DEF Inv

LEMMA InvNext == Inv /\ [BlackholeNext]_blackholeVars => Inv'
<1> SUFFICES ASSUME Inv, [BlackholeNext]_blackholeVars PROVE Inv'
  OBVIOUS
<1>1. CASE Evolve
  BY <1>1, InvStutter DEF Evolve
<1>2. CASE Surface_Only_Benchmark
  <2>1. SurfaceNext
    BY <1>2 DEF Surface_Only_Benchmark
  <2> QED
    BY <2>1, GenerateStep, EnterStep, PassBarrierStep, InterpolatedStep, IntegratedStep,
       ReportStep DEF SurfaceNext
<1>3. CASE Exit
  BY <1>3, InvStutter DEF Exit, blackholeVars
<1>4. CASE UNCHANGED blackholeVars
  BY <1>4, InvStutter DEF blackholeVars
<1> QED  BY <1>1, <1>2, <1>3, <1>4 DEF BlackholeNext

\* The invariant gives the property.
LEMMA InvImpliesComplete == Inv => ChecksumComplete
<1> SUFFICES ASSUME Inv, place[Root] = "done"
             PROVE  /\ Len(tally[Root]) = repeats * Detectors
                    /\ \A n \in 0 .. repeats - 1, d \in 0 .. Detectors - 1 :
                          LET entry == tally[Root][n * Detectors + d + 1]
                          IN  /\ entry.round = n /\ entry.detector = d
                              /\ \A p \in Points : \E q \in Ranks :
                                    entry.sum[p] = {<<q, {<<owner[p], Epoch(n)>>}>>}
  BY DEF ChecksumComplete
<1> USE Parameters
<1>1. Len(tally[Root]) = repeats * Detectors
  BY DEF Inv, Summed, Counted
<1>2. \A p \in Points : owner[p] # Nobody
  <2>1. repeats * Detectors \in Nat \ {0}
    BY SMT
  <2>2. tally[Root] # << >>
    BY <1>1, <2>1
  <2> QED  BY <2>2 DEF Inv, Gapless
<1>3. ASSUME NEW n \in 0 .. repeats - 1, NEW d \in 0 .. Detectors - 1
      PROVE  tally[Root][n * Detectors + d + 1] = Entry(n, d)
  <2>1. n \in Nat /\ n * Detectors \in Nat /\ repeats * Detectors \in Nat
    BY SMT
  <2>2. n * Detectors + Detectors <= repeats * Detectors
    <3>1. n \in Nat /\ repeats \in Nat /\ n < repeats
      OBVIOUS
    <3> QED  BY <3>1, Monotone
  <2>3. n * Detectors + d + 1 <= Len(tally[Root])
    <3>1. d \in Nat /\ d + 1 <= Detectors /\ Detectors \in Nat
      OBVIOUS
    <3> QED  BY ONLY <3>1, <2>1, <2>2, <1>1
  <2> QED  BY <2>1, <2>3 DEF Inv, Summed
<1>4. ASSUME NEW i \in Int, NEW p \in Points
      PROVE  \E q \in Ranks : Integral(i)[p] = {<<q, {<<owner[p], Epoch(i)>>}>>}
  <2>1. PICK q \in Ranks : {r \in Ranks : p \in Share(r)} = {q}
    BY SharesPartition DEF Inv, Typed
  <2>2. Integral(i)[p] = {<<q, Sample(i)[p]>>}
    BY <2>1 DEF Integral
  <2>3. Sample(i)[p] = {<<owner[p], Epoch(i)>>}
    BY <1>2 DEF Sample
  <2> QED  BY <2>2, <2>3
<1>5. ASSUME NEW n \in 0 .. repeats - 1, NEW d \in 0 .. Detectors - 1
      PROVE  LET entry == tally[Root][n * Detectors + d + 1]
             IN  /\ entry.round = n /\ entry.detector = d
                 /\ \A p \in Points : \E q \in Ranks :
                       entry.sum[p] = {<<q, {<<owner[p], Epoch(n)>>}>>}
  <2> DEFINE entry == tally[Root][n * Detectors + d + 1]
  <2>1. entry = [round |-> n, detector |-> d, sum |-> Integral(n)]
    BY <1>3 DEF Entry
  <2> HIDE DEF entry
  <2>2. entry.round = n /\ entry.detector = d /\ entry.sum = Integral(n)
    BY <2>1
  <2>3. n \in Int
    OBVIOUS
  <2> QED  BY <2>2, <2>3, <1>4 DEF entry
<1> QED  BY <1>1, <1>5

\* The benchmark's result is complete and counts every point once, for every
\* number of processes, points, detectors and iterations and every layout.
THEOREM ChecksumIsComplete == BlackholeSpec => []ChecksumComplete
<1>1. BlackholeInit => Inv
  BY InvInit DEF BlackholeInit
<1> QED  BY <1>1, InvNext, InvImpliesComplete, PTL DEF BlackholeSpec

\* No two processes are ever more than one collective apart, and the call each
\* is in or before matches: MPI pairs the calls the code means to be pairs.
THEOREM CollectivesMatch == BlackholeSpec => []Lockstep
<1>1. BlackholeInit => Inv
  BY InvInit DEF BlackholeInit
<1>2. Inv => Lockstep
  BY DEF Inv
<1> QED  BY <1>1, <1>2, InvNext, PTL DEF BlackholeSpec
-----------------------------------------------------------------------------
(***************************************************************************)
(* The evolution. MeshInv has a part for every depth of the recursion: the *)
(* levels down to the one that runs are under way, each since a time that  *)
(* follows from its parent's and from how often it was stepped (Nested),   *)
(* with its zones as its step or its exchange left them, and all others    *)
(* are settled (Stacked). The lists hold what a blend takes them to hold   *)
(* because of when a level is under way, so that is proved first. All of   *)
(* this is about fields that were read whole (sound); what is on the disk  *)
(* says which they are (Stored).                                           *)
(***************************************************************************)
(***************************************************************************)
(* The steps of the levels. Induction is used as the principle that a set  *)
(* of numbers has a least one.                                             *)
(***************************************************************************)
LEMMA Least ==
    ASSUME NEW S \in SUBSET Nat, S # {}
    PROVE  \E m \in S : \A k \in S : m <= k
<1> DEFINE R == {ss \in Nat \X Nat : ss[1] < ss[2]}
<1>1. IsWellFoundedOn(R, Nat)
  BY NatLessThanWellFounded DEF OpToRel
<1> HIDE DEF R
<1>2. PICK x \in S : \A y \in S : ~ (<<y, x>> \in R)
  BY <1>1, WFMin
<1>3. \A y \in S : ~ (y < x)
  BY <1>2 DEF R
<1> QED  BY <1>3

\* The first powers of two, up to n.
Doublings(n) ==
    {g \in [0 .. n -> Nat] : g[0] = 1 /\ \A i \in 1 .. n : g[i] = 2 * g[i - 1]}

LEMMA DoublingsExist == \A n \in Nat : Doublings(n) # {}
<1> DEFINE S == {n \in Nat : Doublings(n) = {}}
<1> SUFFICES ASSUME S # {} PROVE FALSE
  OBVIOUS
<1>1. PICK m \in S : \A k \in S : m <= k
  BY Least
<1>2. CASE m = 0
  <2>1. [i \in 0 .. 0 |-> 1] \in Doublings(0)
    BY DEF Doublings
  <2> QED  BY <1>2, <2>1
<1>3. CASE m # 0
  <2>1. m - 1 \in Nat /\ m - 1 \notin S
    BY <1>1, <1>3
  <2>2. PICK g : g \in Doublings(m - 1)
    BY <2>1
  <2> DEFINE h == [i \in 0 .. m |-> IF i = m THEN 2 * g[m - 1] ELSE g[i]]
  <2>3. g \in [0 .. m - 1 -> Nat] /\ g[0] = 1 /\ \A i \in 1 .. m - 1 : g[i] = 2 * g[i - 1]
    BY <2>2 DEF Doublings
  <2>4. h \in [0 .. m -> Nat]
    BY <2>1, <2>3
  <2>5. h[0] = 1
    BY <2>1, <2>3, <1>3
  <2>6. ASSUME NEW i \in 1 .. m PROVE h[i] = 2 * h[i - 1]
    BY <2>1, <2>3
  <2>7. h \in Doublings(m)
    BY <2>4, <2>5, <2>6 DEF Doublings
  <2> QED  BY <2>7
<1> QED  BY <1>2, <1>3

LEMMA DoublingsAgree ==
    ASSUME NEW n \in Nat, NEW m \in Nat, n <= m,
           NEW g \in Doublings(n), NEW h \in Doublings(m)
    PROVE  \A i \in 0 .. n : g[i] = h[i]
<1> DEFINE S == {i \in 0 .. n : g[i] # h[i]}
<1> SUFFICES ASSUME S # {} PROVE FALSE
  OBVIOUS
<1>1. PICK k \in S : \A i \in S : k <= i
  <2>1. S \in SUBSET Nat
    OBVIOUS
  <2> QED  BY <2>1, Least
<1>2. k # 0
  BY <1>1 DEF Doublings
<1>3. k - 1 \in 0 .. n /\ k - 1 \notin S
  BY <1>1, <1>2
<1>4. g[k - 1] = h[k - 1]
  BY <1>3
<1>5. g[k] = 2 * g[k - 1] /\ h[k] = 2 * h[k - 1]
  BY <1>1, <1>2 DEF Doublings
<1> QED  BY <1>1, <1>4, <1>5

LEMMA DoubledIs ==
    Doubled = [n \in Nat |-> IF n = 0 THEN 1 ELSE 2 * Doubled[n - 1]]
<1> DEFINE g(n) == CHOOSE h : h \in Doublings(n)
           f == [n \in Nat |-> g(n)[n]]
<1>1. \A n \in Nat : g(n) \in Doublings(n)
  BY DoublingsExist
<1> HIDE DEF g
<1>2. ASSUME NEW n \in Nat PROVE f[n] = IF n = 0 THEN 1 ELSE 2 * f[n - 1]
  <2>1. CASE n = 0
    BY <2>1, <1>1 DEF Doublings
  <2>2. CASE n # 0
    <3>1. n - 1 \in Nat /\ n \in 1 .. n /\ n - 1 \in 0 .. n - 1
      BY <2>2
    <3>2. g(n)[n] = 2 * g(n)[n - 1]
      BY <3>1, <1>1 DEF Doublings
    <3>3. g(n - 1)[n - 1] = g(n)[n - 1]
      BY <3>1, <1>1, DoublingsAgree
    <3> QED  BY <2>2, <3>1, <3>2, <3>3
  <2> QED  BY <2>1, <2>2
<1>3. f = [n \in Nat |-> IF n = 0 THEN 1 ELSE 2 * f[n - 1]]
  BY <1>2
<1> HIDE DEF f
<1> QED  BY <1>3 DEF Doubled

LEMMA DoubledType == \A n \in Nat : Doubled[n] \in Nat \ {0}
<1> DEFINE S == {n \in Nat : Doubled[n] \notin Nat \ {0}}
<1> SUFFICES ASSUME S # {} PROVE FALSE
  OBVIOUS
<1>1. PICK m \in S : \A k \in S : m <= k
  BY Least
<1>2. \A n \in Nat : Doubled[n] = IF n = 0 THEN 1 ELSE 2 * Doubled[n - 1]
  BY DoubledIs
<1>3. m # 0
  BY <1>1, <1>2
<1>4. m - 1 \in Nat /\ m - 1 \notin S
  BY <1>1, <1>3
<1> QED  BY <1>1, <1>2, <1>3, <1>4

\* Above Trfls a level makes two steps in one of its parent, below one.
LEMMA StepFacts ==
    /\ Levels \in Nat \ {0} /\ Finest \in Depths /\ 0 \in Depths /\ Finest \in Nat
    /\ Depths \subseteq Nat /\ Trfls \in Nat
    /\ \A l \in Depths : Dt(l) \in Nat \ {0}
    /\ \A l \in Depths : l # 0 =>
          /\ l - 1 \in Depths
          /\ Dt(l - 1) = IF l > Trfls THEN 2 * Dt(l) ELSE Dt(l)
    /\ \A l \in Depths : l # Finest => l + 1 \in Depths
    /\ Trfls < Levels => Tick = Dt(Finest)
    /\ Tick \in Nat
<1>1. /\ Levels \in Nat \ {0} /\ Trfls \in Nat /\ Finest \in Nat
      /\ Deepest \in Nat /\ Trfls <= Deepest /\ Finest <= Deepest
      /\ Trfls < Levels => Deepest = Finest /\ Trfls <= Finest
  BY MeshAssumption DEF Finest, Deepest
<1>2. \A n \in Nat : Doubled[n] = IF n = 0 THEN 1 ELSE 2 * Doubled[n - 1]
  BY DoubledIs
<1>3. \A l \in Depths : Dt(l) \in Nat \ {0}
  BY <1>1, DoubledType DEF Dt, Depths, Finest
<1>4. ASSUME NEW l \in Depths, l # 0
      PROVE  Dt(l - 1) = IF l > Trfls THEN 2 * Dt(l) ELSE Dt(l)
  <2>1. CASE l > Trfls
    <3> DEFINE k == Deepest - l
    <3>1. k \in Nat /\ k + 1 \in Nat /\ k + 1 # 0 /\ (k + 1) - 1 = k
      BY <1>1, <2>1 DEF Depths, Finest
    <3>2. Dt(l) = Doubled[k]
      BY <2>1, <1>1 DEF Dt, Depths
    <3>3. Dt(l - 1) = Doubled[k + 1]
      <4>1. Deepest - (l - 1) = k + 1 /\ ~(l - 1 < Trfls)
        BY <2>1, <1>1 DEF Depths, Finest
      <4> QED  BY <4>1 DEF Dt
    <3> QED  BY <2>1, <3>1, <3>2, <3>3, <1>2
  <2>2. CASE ~(l > Trfls)
    <3>1. Deepest - (IF l < Trfls THEN Trfls ELSE l) = Deepest - Trfls
      BY <2>2, <1>1 DEF Depths, Finest
    <3>2. Deepest - (IF l - 1 < Trfls THEN Trfls ELSE l - 1) = Deepest - Trfls
      BY <2>2, <1>1, <1>4 DEF Depths, Finest
    <3> QED  BY <2>2, <3>1, <3>2 DEF Dt
  <2> QED  BY <2>1, <2>2
<1>5. Finest \in Depths /\ 0 \in Depths /\ Finest \in Nat /\ Depths \subseteq Nat
  BY <1>1 DEF Depths, Finest
<1>6. \A l \in Depths : /\ l # 0 => l - 1 \in Depths
                        /\ l # Finest => l + 1 \in Depths
  BY <1>1 DEF Depths, Finest
<1>7. Tick \in Nat /\ (Trfls < Levels => Tick = Dt(Finest))
  <2>1. Deepest - Finest \in Nat
    BY <1>1
  <2>2. ASSUME Trfls < Levels PROVE Tick = Dt(Finest)
    <3>1. ~(Finest < Trfls) /\ Deepest = Finest
      BY <1>1, <2>2
    <3> QED  BY <3>1 DEF Tick, Dt
  <2> QED  BY <2>1, <2>2, DoubledType DEF Tick
<1> QED  BY <1>1, <1>3, <1>4, <1>5, <1>6, <1>7

LEMMA DepthFacts ==
    /\ \A l \in Depths : l \in Nat /\ Dt(l) \in Nat \ {0}
    /\ \A l \in Depths : l # Finest => l + 1 \in Depths /\ Dt(l + 1) <= Dt(l)
    /\ Finest \in Nat /\ \A l \in Depths : l <= Finest /\ (l # 0 => l - 1 \in Depths)
    /\ Trfls < Levels => Tick = Dt(Finest)
    /\ Finest \in Depths
<1>1. ASSUME NEW l \in Depths, l # Finest
      PROVE  l + 1 \in Depths /\ Dt(l + 1) <= Dt(l)
  <2>1. l + 1 \in Depths /\ l + 1 # 0 /\ (l + 1) - 1 = l
    BY <1>1, StepFacts
  <2>2. Dt(l) = IF l + 1 > Trfls THEN 2 * Dt(l + 1) ELSE Dt(l + 1)
    BY <2>1, StepFacts
  <2>3. Dt(l + 1) \in Nat
    BY <2>1, StepFacts
  <2> QED  BY <2>1, <2>2, <2>3
<1>2. \A l \in Depths : l <= Finest
  BY StepFacts DEF Depths, Finest
<1> QED  BY <1>1, <1>2, StepFacts

-----------------------------------------------------------------------------
(***************************************************************************)
(* Fields by their zones.                                                  *)
(***************************************************************************)
Zoned(i, r, s) ==
    [z \in Zones |-> CASE z = "inner" -> i [] z = "rim" -> r [] z = "shadow" -> s]

LEMMA ZonesOf ==
    ASSUME NEW i, NEW r, NEW s
    PROVE  /\ Zoned(i, r, s)["inner"] = i
           /\ Zoned(i, r, s)["rim"] = r
           /\ Zoned(i, r, s)["shadow"] = s
  BY DEF Zoned, Zones

LEMMA UniformZones ==
    ASSUME NEW t
    PROVE  /\ Uniform(t) = Zoned(t, t, t)
           /\ \A z \in Zones : Uniform(t)[z] = t
  BY DEF Uniform, Zoned, Zones

LEMMA AgreedOne == ASSUME NEW t PROVE Agreed({t}) = t
<1> DEFINE S == {t}
<1>1. \E u \in S : S = {u}
  OBVIOUS
<1>2. (CHOOSE u \in S : TRUE) = t
  <2>1. (CHOOSE u \in S : TRUE) \in S
    OBVIOUS
  <2> QED  BY <2>1
<1> HIDE DEF S
<1>3. Agreed(S) = t
  BY <1>1, <1>2 DEF Agreed
<1> QED  BY <1>3 DEF S

LEMMA WholeUniform == ASSUME NEW t PROVE Whole(Uniform(t)) = t
<1>1. {Uniform(t)[z] : z \in Zones} = {t}
  BY DEF Uniform, Zones
<1> QED  BY <1>1, AgreedOne DEF Whole

LEMMA RestrictedZones ==
    ASSUME NEW i, NEW r, NEW s, NEW fine, NEW t,
           fine["inner"] = t, fine["shadow"] = t
    PROVE  Restricted(Zoned(i, r, s), fine) = Zoned(i, r, t)
<1>1. {fine["inner"], fine["shadow"]} = {t}
  OBVIOUS
<1>2. Agreed({fine["inner"], fine["shadow"]}) = t
  BY <1>1, AgreedOne
<1>3. [Zoned(i, r, s) EXCEPT !["shadow"] = t] = Zoned(i, r, t)
  BY DEF Zoned, Zones
<1> QED  BY <1>2, <1>3 DEF Restricted

LEMMA WithRimZones ==
    ASSUME NEW i, NEW r, NEW s, NEW coarse, NEW t,
           coarse["inner"] = t, coarse["shadow"] = t
    PROVE  WithRim(Zoned(i, r, s), coarse) = Zoned(i, t, s)
<1>1. {coarse["inner"], coarse["shadow"]} = {t}
  OBVIOUS
<1>2. Agreed({coarse["inner"], coarse["shadow"]}) = t
  BY <1>1, AgreedOne
<1>3. [Zoned(i, r, s) EXCEPT !["rim"] = t] = Zoned(i, t, s)
  BY DEF Zoned, Zones
<1> QED  BY <1>2, <1>3 DEF WithRim

LEMMA RefilledUniform ==
    ASSUME NEW coarse, NEW t, coarse["inner"] = t, coarse["shadow"] = t
    PROVE  Refilled(Uniform(t), coarse) = Uniform(t)
<1>1. {Uniform(t)[z] : z \in Zones} \cup {coarse["inner"], coarse["shadow"]} = {t}
  BY DEF Uniform, Zones
<1> QED  BY <1>1, AgreedOne DEF Refilled

\* The fields of a level after its step.
Ahead(l, t, s) == Zoned(t + Dt(l), IF l = 0 THEN t + Dt(l) ELSE t, s)

LEMMA SteppedZones ==
    ASSUME NEW l \in Depths, NEW t \in Nat
    PROVE  Stepped(l, t) = Ahead(l, t, IF l = Finest THEN t + Dt(l) ELSE NoTime)
<1>1. t # NoTime /\ (l > 0 <=> l # 0) /\ (l < Finest <=> l # Finest)
  BY MeshAssumption DEF NoTime, Depths, Finest
<1>2. ASSUME NEW z \in Zones
      PROVE  Stepped(l, t)[z] =
                Zoned(t + Dt(l), IF l = 0 THEN t + Dt(l) ELSE t,
                      IF l = Finest THEN t + Dt(l) ELSE NoTime)[z]
  <2>1. CASE z = "inner"
    BY <2>1, <1>1 DEF Stepped, Zoned, Zones
  <2>2. CASE z = "rim"
    BY <2>2, <1>1 DEF Stepped, Zoned, Zones
  <2>3. CASE z = "shadow"
    BY <2>3, <1>1 DEF Stepped, Zoned, Zones
  <2> QED  BY <2>1, <2>2, <2>3 DEF Zones
<1> QED  BY <1>2 DEF Ahead, Zoned, Stepped

-----------------------------------------------------------------------------
(***************************************************************************)
(* The invariant of the evolution. The time of a level is that of its      *)
(* inner zone, and the clocks follow it (Linked). Order is what holds for  *)
(* fields that were read whole; those that were not have no time anywhere  *)
(* and get none (Timeless).                                                *)
(***************************************************************************)
Saving == {"evolve", "holes", "grids", "fields"}
MeshPlaces == {"step", "restrict", "regrid", "ended", "down"} \cup Saving
Climbing == at \in {"step", "restrict", "regrid"}

\* The time every level has reached, and that of the finest.
Clock == [l \in Depths |-> state[l]["inner"]]
Now == Clock[Finest]

MeshTyped ==
    /\ at \in MeshPlaces
    /\ level \in Depths
    /\ physTime \in Nat
    /\ holes \in Int
    /\ sound \subseteq {"fields", "holes"}
    /\ iter \in [Depths -> Int]
    /\ lt \in [Depths -> Int]
    /\ DOMAIN state = Depths
    /\ DOMAIN old = Depths
    /\ DOMAIN cor = Depths

\* The second time level of a field that is known at t.
Before(l, t) == IF t = 0 THEN Blank ELSE Uniform(t - Dt(l))

\* A time at which level l may begin a step. Without the black holes of its
\* checkpoint a run is not at its start.
Possible(l, t) ==
    /\ t \in Nat
    /\ t = 0 \/ t >= Dt(l)
    /\ "holes" \notin sound => t # 0

\* A level that has everything of one time.
Settled(l) ==
    /\ state[l] = Uniform(Now)
    /\ old[l] = Before(l, Now)

\* When the step of a level that is under way, or due, begins.
Begin(l) == IF at = "step" /\ l = level THEN Now ELSE Clock[l] - Dt(l)

\* The finer level has been restricted to this one.
Filled(l) == \/ at = "restrict" /\ l = level
             \/ at = "regrid" /\ l = level - 1

\* A level that was stepped and waits for the finer ones.
UnderWay(l) ==
    /\ state[l] = Ahead(l, Begin(l), IF Filled(l) THEN Clock[l] ELSE NoTime)
    /\ old[l] = Uniform(Begin(l))
    /\ cor[l] = Before(l, Begin(l))

\* The levels down to the one that runs are under way, the others settled.
Stacked ==
    Climbing =>
        \A l \in Depths :
            IF l < level \/ (l = level /\ at = "restrict") THEN UnderWay(l)
                                                           ELSE Settled(l)

\* When a level begins follows from the step of its parent.
Nested ==
    Climbing =>
        /\ \A l \in Depths : l <= level =>
              /\ Possible(l, Begin(l))
              /\ iter[l] \in 0 .. Iterations(l) - 1
              /\ l # 0 =>
                    Begin(l) = Begin(l - 1) + (IF iter[l] = 0 THEN 0 ELSE Dt(l))
        /\ at = "regrid" => iter[level] = Iterations(level) - 1
        /\ at = "restrict" => Clock[level] = Now

\* Between the steps of Evolve all levels are settled.
Resting ==
    at \in Saving =>
        /\ level = 0
        /\ Now >= Dt(0)
        /\ \A l \in Depths : Settled(l)

\* What the clocks and the black holes have to do with the time of the fields.
Linked ==
    /\ Now \in Nat
    /\ \A l \in Depths : Clock[l] \in Int
    /\ "holes" \in sound => holes = Now
    /\ Trfls < Levels => physTime = Now /\ lt = Clock

Order == Stacked /\ Nested /\ Resting /\ Linked

Timeless == state = Unread /\ old = Unread /\ cor = Unread

\* The fields on the disk are those of such a state, or were not written.
DiskFields ==
    IF "fields" \in disk.sound
    THEN \E t \in Nat :
            /\ t = 0 \/ t >= Dt(0)
            /\ disk.written => t # 0
            /\ DOMAIN disk.state = Depths /\ DOMAIN disk.old = Depths
            /\ \A l \in Depths : disk.state[l] = Uniform(t) /\ disk.old[l] = Before(l, t)
            /\ "holes" \in disk.sound => disk.holes = t
            /\ Trfls < Levels => disk.time = t
    ELSE /\ disk.written
         /\ disk.state = Unread /\ disk.old = Unread

\* How far a checkpoint has got.
Writing ==
    /\ ~disk.written => disk.state = InitialData.state
    /\ at \in {"holes", "grids"} => "holes" \notin disk.sound
    /\ at \in {"grids", "fields"} => disk.holes = holes
    /\ at = "fields" => disk.written /\ disk.time = physTime /\ disk.sound = {}

Stored ==
    /\ disk = [written |-> disk.written, time |-> disk.time, holes |-> disk.holes,
               sound |-> disk.sound, state |-> disk.state, old |-> disk.old]
    /\ disk.written \in BOOLEAN /\ disk.time \in Nat /\ disk.holes \in Int
    /\ disk.sound \subseteq {"fields", "holes"}
    /\ DiskFields
    /\ Writing

MeshInv ==
    /\ MeshTyped
    /\ IF "fields" \in sound THEN Order ELSE Timeless
    /\ Stored

-----------------------------------------------------------------------------
(***************************************************************************)
(* A level and its parent.                                                 *)
(***************************************************************************)
LEMMA AheadZones ==
    ASSUME NEW l, NEW t, NEW s
    PROVE  /\ Ahead(l, t, s)["inner"] = t + Dt(l)
           /\ Ahead(l, t, s)["shadow"] = s
  BY ZonesOf DEF Ahead

LEMMA SettledClock ==
    ASSUME NEW l \in Depths, Settled(l)
    PROVE  Clock[l] = Now
  BY UniformZones DEF Settled, Clock, Zones

\* What is known on the way back from the finer levels.
LEMMA ParentFacts ==
    ASSUME MeshTyped, Order, at \in {"restrict", "regrid"}, level # 0
    PROVE  /\ level - 1 \in Depths
           /\ UnderWay(level - 1)
           /\ Begin(level - 1) \in Nat /\ Possible(level - 1, Begin(level - 1))
           /\ Clock[level - 1] = Begin(level - 1) + Dt(level - 1)
           /\ Now = Begin(level) + Dt(level)
           /\ Begin(level) = Begin(level - 1)
                             + (IF iter[level] = 0 THEN 0 ELSE Dt(level))
           /\ iter[level] \in 0 .. Iterations(level) - 1
           /\ iter[level] = Iterations(level) - 1 => Clock[level - 1] = Now
<1> USE StepFacts
<1> DEFINE p == level - 1
<1>1. Climbing /\ level \in Depths /\ p \in Depths /\ p < level /\ level > 0
  BY DEF Climbing, MeshTyped
<1>2. UnderWay(p)
  BY <1>1 DEF Order, Stacked
<1>3. Possible(p, Begin(p)) /\ Begin(p) \in Nat
  BY <1>1 DEF Order, Nested, Possible
<1>4. Clock[p] = Begin(p) + Dt(p)
  BY <1>1 DEF Begin, Order, Linked
<1>5. Now = Begin(level) + Dt(level)
  <2>1. Clock[level] = Now
    BY <1>1, SettledClock DEF Order, Nested, Stacked
  <2> QED  BY <1>1, <2>1 DEF Begin, Order, Linked
<1>6. /\ Begin(level) = Begin(p) + (IF iter[level] = 0 THEN 0 ELSE Dt(level))
      /\ iter[level] \in 0 .. Iterations(level) - 1
  BY <1>1 DEF Order, Nested
<1>7. iter[level] = Iterations(level) - 1 => Clock[p] = Now
  BY <1>1, <1>3, <1>4, <1>5, <1>6 DEF Iterations
<1> QED  BY <1>1, <1>2, <1>3, <1>4, <1>5, <1>6, <1>7

\* Where a blend is made: in the middle of a step of the parent.
Blending ==
    /\ level > Trfls
    /\ \/ at = "restrict" /\ iter[level] = 0
       \/ at = "regrid" /\ MayMove(level)

\* Three time levels are used just when there are three.
LEMMA LaterIsRight ==
    ASSUME MeshTyped, Order, Blending
    PROVE  /\ level # 0
           /\ Dt(level - 1) = 2 * Dt(level)
           /\ Later(level) <=> Begin(level - 1) # 0
           /\ Now = Begin(level - 1) + (IF at = "restrict" THEN 1 ELSE 2) * Dt(level)
<1> USE StepFacts
<1> DEFINE p == level - 1
           d == Dt(level)
           q == Begin(p)
<1>1. level \in Depths /\ level # 0 /\ level > Trfls
  BY DEF MeshTyped, Blending
<1>2. d \in Nat \ {0} /\ Dt(p) = 2 * d /\ p \in Depths
  BY <1>1
<1>3. q \in Nat /\ (q = 0 \/ q >= 2 * d)
  BY <1>1, <1>2, ParentFacts DEF Possible, Blending
<1>4. Iterations(level) = 2 /\ physTime = Now /\ Now \in Nat
  <2>1. Trfls < Levels
    BY <1>1, MeshAssumption DEF Depths
  <2> QED  BY <1>1, <2>1 DEF Iterations, Order, Linked
<1>5. CASE at = "restrict" /\ iter[level] = 0
  <2>1. Now = q + d
    BY <1>1, <1>2, <1>3, <1>5, ParentFacts
  <2>2. Later(level) <=> 2 * (Now - d) > d
    BY <1>4 DEF Later
  <2> HIDE DEF q, d
  <2> QED  BY <1>1, <1>2, <1>3, <1>5, <2>1, <2>2 DEF q, d
<1>6. CASE at = "regrid" /\ MayMove(level)
  <2>1. iter[level] = 1
    BY <1>1, <1>4, <1>6 DEF Order, Nested, Climbing
  <2>2. Now = q + 2 * d
    BY <1>1, <1>2, <1>3, <1>6, <2>1, ParentFacts
  <2>3. q # 0
    <3>1. CASE "holes" \notin sound
      BY <1>1, <1>6, <3>1, ParentFacts DEF Possible
    <3>2. CASE "holes" \in sound
      <4>1. holes = Now /\ holes # NoTime
        BY <1>4, <3>2 DEF Order, Linked, NoTime
      <4>2. StepsToDrift \in Nat /\ 2 < StepsToDrift
        BY MeshAssumption, DriftAssumption
      <4>3. 2 * d + d <= StepsToDrift * d
        BY <4>2, <1>2, Monotone
      <4>4. Now >= StepsToDrift * d /\ StepsToDrift * d \in Nat
        BY <1>2, <1>6, <4>1, <4>2 DEF MayMove
      <4> HIDE DEF d, q
      <4> QED  BY <1>2, <1>3, <1>4, <2>2, <4>3, <4>4
    <3> QED  BY <3>1, <3>2
  <2>4. Later(level) <=> 2 * (Now - d) > d
    BY <1>4 DEF Later
  <2> HIDE DEF q, d
  <2>6. 2 * (Now - d) > d
    BY <1>2, <1>3, <2>2
  <2> QED  BY <1>1, <1>2, <1>6, <2>2, <2>3, <2>4, <2>6 DEF q, d
<1> QED  BY <1>5, <1>6 DEF Blending

LEMMA Averages ==
    ASSUME NEW q \in Nat, NEW d \in Nat \ {0}
    PROVE  /\ Average(q + 2 * d, q) = q + d
           /\ q >= 2 * d => Average2(q + 2 * d, q, q - 2 * d) = q + d
<1>1. ((q + 2 * d) + q) % 2 = 0 /\ ((q + 2 * d) + q) \div 2 = q + d
  OBVIOUS
<1>2. q # NoTime /\ q + 2 * d # NoTime
  BY DEF NoTime
<1>3. Average(q + 2 * d, q) = q + d
  BY <1>1, <1>2 DEF Average
<1>4. ASSUME q >= 2 * d
      PROVE  q - 2 * d # NoTime /\ (q + 2 * d) - q = q - (q - 2 * d)
  BY <1>4 DEF NoTime
<1> QED  BY <1>3, <1>4 DEF Average2

\* A blend is known at the middle of the step, where the level itself is.
LEMMA BlendIsRight ==
    ASSUME MeshTyped, Order, Blending
    PROVE  /\ DOMAIN Blend(level - 1, Later(level)) = Zones
           /\ Blend(level - 1, Later(level))["inner"] = Begin(level - 1) + Dt(level)
<1> USE StepFacts
<1> DEFINE p == level - 1
           d == Dt(level)
           q == Begin(p)
<1>1. /\ level # 0 /\ p \in Depths /\ level \in Depths
      /\ Dt(p) = 2 * d /\ d \in Nat \ {0}
      /\ Later(level) <=> q # 0
  BY LaterIsRight DEF MeshTyped
<1>2. UnderWay(p) /\ q \in Nat /\ (q = 0 \/ q >= 2 * d)
  BY <1>1, ParentFacts DEF Possible, Blending
<1>3. /\ state[p]["inner"] = q + 2 * d
      /\ old[p]["inner"] = q
      /\ q # 0 => cor[p]["inner"] = q - 2 * d
  <2>1. "inner" \in Zones
    BY DEF Zones
  <2> QED  BY <1>1, <1>2, <2>1, AheadZones, UniformZones DEF UnderWay, Before
<1>4. Blend(p, Later(level))["inner"] =
         IF Later(level) THEN Average2(state[p]["inner"], old[p]["inner"], cor[p]["inner"])
                         ELSE Average(state[p]["inner"], old[p]["inner"])
  BY DEF Blend, Zones
<1>5. CASE q = 0
  <2>1. Average(q + 2 * d, q) = q + d
    BY <1>1, <1>2, Averages
  <2> QED  BY <1>1, <1>3, <1>4, <1>5, <2>1 DEF Blend
<1>6. CASE q # 0
  <2>1. Average2(q + 2 * d, q, q - 2 * d) = q + d
    BY <1>1, <1>2, <1>6, Averages
  <2> QED  BY <1>1, <1>3, <1>4, <1>6, <2>1 DEF Blend
<1> QED  BY <1>5, <1>6

\* The rim of a level, and what a moved box is filled with, comes from here.
LEMMA RestrictedAny ==
    ASSUME NEW coarse, DOMAIN coarse = Zones, NEW fine, NEW t,
           fine["inner"] = t, fine["shadow"] = t
    PROVE  /\ Restricted(coarse, fine)["inner"] = coarse["inner"]
           /\ Restricted(coarse, fine)["shadow"] = t
<1>1. {fine["inner"], fine["shadow"]} = {t}
  OBVIOUS
<1>2. Agreed({fine["inner"], fine["shadow"]}) = t
  BY <1>1, AgreedOne
<1> QED  BY <1>2 DEF Restricted, Zones

-----------------------------------------------------------------------------
(***************************************************************************)
(* The actions.                                                            *)
(***************************************************************************)
LEMMA ClockKept ==
    ASSUME \A l \in Depths : state'[l]["inner"] = state[l]["inner"]
    PROVE  Clock' = Clock
  BY DEF Clock

LEMMA StepLevelKeeps ==
    ASSUME MeshTyped, Order, StepLevel
    PROVE  Order'
<1> SUFFICES ASSUME NEW L, L = level, NEW t, t = Now
             PROVE  Order'
  OBVIOUS
<1> DEFINE s == IF L = Finest THEN t + Dt(L) ELSE NoTime
<1>0. /\ \A l \in Depths : l \in Nat /\ Dt(l) \in Nat \ {0}
      /\ \A l \in Depths : l # Finest => l + 1 \in Depths /\ Dt(l + 1) <= Dt(l)
      /\ Finest \in Nat /\ \A l \in Depths : l <= Finest /\ (l # 0 => l - 1 \in Depths)
      /\ Trfls < Levels => Tick = Dt(Finest)
      /\ Finest \in Depths /\ "inner" \in Zones
  BY DepthFacts DEF Zones
<1>1. /\ Climbing /\ at = "step" /\ L \in Depths /\ t \in Nat
      /\ Settled(L) /\ Begin(L) = t /\ Possible(L, t)
  <2>1. Climbing /\ at = "step" /\ L \in Depths /\ t \in Nat
    BY DEF StepLevel, Climbing, MeshTyped, Order, Linked
  <2>2. Settled(L)
    BY <1>0, <2>1 DEF Order, Stacked
  <2>3. Begin(L) = t
    BY <2>1 DEF Begin
  <2>4. Possible(L, Begin(L))
    BY <1>0, <2>1 DEF Order, Nested
  <2> QED  BY <2>1, <2>2, <2>3, <2>4
<1>2. /\ state' = [state EXCEPT ![L] = Ahead(L, t, s)]
      /\ old' = [old EXCEPT ![L] = Uniform(t)]
      /\ cor' = [cor EXCEPT ![L] = Before(L, t)]
  <2>1. Stepped(L, Whole(state[L])) = Ahead(L, t, s)
    BY <1>1, WholeUniform, SteppedZones DEF Settled
  <2> QED  BY <1>1, <2>1 DEF StepLevel, Rotate, Settled
<1>3. \A l \in Depths : l # L =>
         /\ state'[l] = state[l] /\ old'[l] = old[l] /\ cor'[l] = cor[l]
         /\ Clock'[l] = Clock[l]
  BY <1>2 DEF Clock
<1>4. /\ state'[L] = Ahead(L, t, s) /\ old'[L] = Uniform(t)
      /\ cor'[L] = Before(L, t) /\ Clock'[L] = t + Dt(L)
  <2>1. /\ state'[L] = Ahead(L, t, s) /\ old'[L] = Uniform(t)
        /\ cor'[L] = Before(L, t)
    BY <1>1, <1>2 DEF MeshTyped
  <2> QED  BY <1>1, <2>1, AheadZones DEF Clock
<1>5. /\ Clock' = [Clock EXCEPT ![L] = @ + Dt(L)]
      /\ lt' = [lt EXCEPT ![L] = @ + Dt(L)]
      /\ \A l \in Depths : Clock'[l] \in Int
  <2>1. Clock[L] = t
    BY <1>1, SettledClock
  <2>2. DOMAIN Clock' = Depths /\ DOMAIN Clock = Depths
    BY DEF Clock
  <2>3. ASSUME NEW l \in Depths
        PROVE  /\ Clock'[l] = [Clock EXCEPT ![L] = @ + Dt(L)][l]
               /\ Clock'[l] \in Int
    BY <1>0, <1>1, <1>3, <1>4, <2>1, <2>2 DEF Order, Linked
  <2>4. Clock' = [Clock EXCEPT ![L] = @ + Dt(L)]
    <3> DEFINE c == [Clock EXCEPT ![L] = @ + Dt(L)]
    <3>1. DOMAIN c = Depths /\ \A l \in Depths : Clock'[l] = c[l]
      BY <2>2, <2>3
    <3>2. c = [l \in Depths |-> c[l]]
      BY <3>1
    <3>3. Clock' = [l \in Depths |-> Clock'[l]]
      BY DEF Clock
    <3> HIDE DEF c
    <3>4. Clock' = c
      BY <3>1, <3>2, <3>3
    <3> QED  BY <3>4 DEF c
  <2> QED  BY <2>3, <2>4 DEF StepLevel
<1>6. /\ \A l \in Depths : l < L => UnderWay(l) /\ ~Filled(l) /\ Begin(l) = Clock[l] - Dt(l)
      /\ \A l \in Depths : l > L => Settled(l)
  BY <1>0, <1>1 DEF Order, Stacked, Filled, Begin
<1>7. sound' = sound
  BY DEF StepLevel
<1>8. CASE L # Finest
  <2>0. L < Finest /\ L + 1 \in Depths
    BY <1>0, <1>1, <1>8
  <2>1. /\ at' = "step" /\ level' = L + 1 /\ physTime' = physTime /\ holes' = holes
        /\ Now' = t
        /\ iter' = [iter EXCEPT ![L + 1] = 0] /\ L + 1 \in Depths /\ L < Finest
    <3>1. Now' = t
      BY <1>0, <1>3, <1>8 DEF Now
    <3> QED  BY <2>0, <3>1, <1>1 DEF StepLevel
  <2>2. Linked'
    <3>1. "holes" \in sound' => holes' = Now'
      BY <1>7, <2>1 DEF Order, Linked
    <3>2. Trfls < Levels => physTime' = Now' /\ lt' = Clock'
      BY <1>5, <2>1 DEF Order, Linked
    <3> QED  BY <1>1, <1>5, <2>1, <3>1, <3>2 DEF Linked
  <2>3. Stacked'
    <3> SUFFICES ASSUME NEW l \in Depths
                 PROVE  IF l < L + 1 THEN UnderWay(l)' ELSE Settled(l)'
      BY <2>1 DEF Stacked
    <3>1. CASE l < L
      <4>1. l # L /\ l # L + 1 /\ l < L + 1
        BY <1>0, <1>1, <3>1
      <4>2. Begin(l)' = Begin(l) /\ ~Filled(l)'
        BY <1>3, <1>6, <2>1, <3>1, <4>1 DEF Begin, Filled
      <4>3. UnderWay(l) /\ ~Filled(l)
        BY <1>6, <3>1
      <4>4. UnderWay(l)'
        BY <1>3, <4>1, <4>2, <4>3 DEF UnderWay
      <4> QED  BY <4>1, <4>4
    <3>2. CASE l = L
      <4>1. Begin(l)' = t /\ ~Filled(l)' /\ l < L + 1
        BY <1>0, <1>1, <1>4, <2>1, <3>2 DEF Begin, Filled
      <4>2. UnderWay(l)'
        BY <1>4, <1>8, <3>2, <4>1 DEF UnderWay
      <4> QED  BY <4>1, <4>2
    <3>3. CASE l > L
      <4>1. l # L /\ (l < L + 1 => FALSE)
        BY <1>0, <1>1, <3>3
      <4>2. Settled(l)'
        BY <1>3, <1>6, <2>1, <3>3, <4>1 DEF Settled, Before
      <4> QED  BY <4>1, <4>2
    <3> QED  BY <1>0, <1>1, <3>1, <3>2, <3>3
  <2>4. Nested'
    <3>1. ASSUME NEW l \in Depths, l <= L PROVE Begin(l)' = Begin(l)
      <4>1. l # L + 1
        BY <1>0, <1>1, <3>1
      <4>2. CASE l = L
        BY <1>0, <1>1, <1>4, <2>1, <4>1, <4>2 DEF Begin
      <4>3. CASE l # L
        <5>1. l < L
          BY <1>0, <1>1, <3>1, <4>3
        <5> QED  BY <1>3, <1>6, <2>1, <4>1, <4>3, <5>1 DEF Begin
      <4> QED  BY <4>2, <4>3
    <3>2. Begin(L + 1)' = t
      BY <2>1 DEF Begin
    <3>3. \A l \in Depths : l <= L => iter'[l] = iter[l]
      BY <1>0, <1>1, <2>1 DEF MeshTyped
    <3>4. iter'[L + 1] = 0
      BY <2>1 DEF MeshTyped
    <3> SUFFICES ASSUME NEW l \in Depths, l <= L + 1
                 PROVE  /\ Possible(l, Begin(l)')
                        /\ iter'[l] \in 0 .. Iterations(l) - 1
                        /\ l # 0 => Begin(l)' = Begin(l - 1)'
                                       + (IF iter'[l] = 0 THEN 0 ELSE Dt(l))
      BY <1>7, <2>1 DEF Nested, Possible
    <3>5. CASE l <= L
      <4>1. l # 0 => l - 1 \in Depths /\ l - 1 <= L
        BY <1>0, <1>1, <3>5
      <4> QED  BY <1>1, <3>1, <3>3, <3>5, <4>1 DEF Order, Nested
    <3>6. CASE l = L + 1
      <4>1. Begin(l)' = t /\ Begin(l - 1)' = t /\ iter'[l] = 0 /\ l # 0
        BY <1>0, <1>1, <3>1, <3>2, <3>4, <3>6
      <4>2. Dt(l) <= Dt(l - 1) /\ l - 1 = L
        BY <1>0, <1>1, <1>8, <3>6
      <4>3. Possible(l, t)
        BY <1>0, <1>1, <4>2 DEF Possible
      <4>4. 0 \in 0 .. Iterations(l) - 1
        BY DEF Iterations
      <4> QED  BY <1>1, <4>1, <4>3, <4>4
    <3> QED  BY <1>0, <1>1, <3>5, <3>6
  <2>5. Resting'
    BY <2>1 DEF Resting, Saving
  <2> QED  BY <2>2, <2>3, <2>4, <2>5 DEF Order
<1>9. CASE L = Finest
  <2>1. /\ at' = "restrict" /\ level' = L /\ iter' = iter
        /\ physTime' = physTime + Tick /\ ~(L < Finest)
        /\ holes # NoTime => holes' = holes + Dt(L)
        /\ Now' = t + Dt(L)
    <3>1. Now' = t + Dt(L)
      BY <1>4, <1>9 DEF Now
    <3> QED  BY <1>0, <1>1, <1>9, <3>1 DEF StepLevel
  <2>2. Linked'
    <3>1. "holes" \in sound' => holes' = Now'
      BY <1>1, <1>7, <2>1 DEF Order, Linked, NoTime
    <3>2. Trfls < Levels => physTime' = Now' /\ lt' = Clock'
      BY <1>0, <1>5, <1>9, <2>1 DEF Order, Linked
    <3>3. Now' \in Nat
      BY <1>0, <1>1, <2>1
    <3> QED  BY <1>5, <3>1, <3>2, <3>3 DEF Linked
  <2>3. \A l \in Depths : l <= L
    BY <1>0, <1>9
  <2>4. \A l \in Depths : Begin(l)' = Begin(l)
    <3> SUFFICES ASSUME NEW l \in Depths PROVE Begin(l)' = Begin(l)
      OBVIOUS
    <3>1. CASE l = L
      BY <1>0, <1>1, <1>4, <2>1, <3>1 DEF Begin
    <3>2. CASE l # L
      <4>1. l < L
        BY <1>0, <1>1, <2>3, <3>2
      <4> QED  BY <1>3, <1>6, <2>1, <3>2, <4>1 DEF Begin
    <3> QED  BY <3>1, <3>2
  <2>5. Stacked'
    <3> SUFFICES ASSUME NEW l \in Depths PROVE UnderWay(l)'
      <4>1. \A l \in Depths : l < L \/ l = L
        BY <1>0, <1>1, <2>3
      <4> QED  BY <2>1, <4>1 DEF Stacked
    <3>1. CASE l < L
      <4>1. l # L
        BY <1>0, <1>1, <3>1
      <4>2. ~Filled(l)'
        BY <2>1, <4>1 DEF Filled
      <4> QED  BY <1>3, <1>6, <2>4, <3>1, <4>1, <4>2 DEF UnderWay
    <3>2. CASE l = L
      <4>1. Filled(l)' /\ Clock'[l] = t + Dt(L)
        BY <1>4, <2>1, <3>2 DEF Filled
      <4> QED  BY <1>1, <1>4, <1>9, <2>4, <3>2, <4>1 DEF UnderWay
    <3> QED  BY <1>0, <1>1, <2>3, <3>1, <3>2
  <2>6. Nested'
    <3>1. \A l \in Depths : l # 0 => l - 1 \in Depths
      BY <1>0
    <3>2. Clock'[level'] = Now'
      BY <1>4, <2>1
    <3> QED  BY <1>1, <1>7, <2>1, <2>4, <3>1, <3>2 DEF Order, Nested, Possible
  <2>7. Resting'
    BY <2>1 DEF Resting, Saving
  <2> QED  BY <2>2, <2>5, <2>6, <2>7 DEF Order
<1> QED  BY <1>8, <1>9

\* The exchange makes a level whole, and fills what it covers of its parent.
LEMMA ExchangeDoes ==
    ASSUME MeshTyped, Order, at = "restrict", level # 0, Exchange(level),
           NEW L, L = level, NEW t, t = Now
    PROVE  /\ state'[L] = Uniform(t)
           /\ \A l \in Depths : l # L /\ l # L - 1 => state'[l] = state[l]
           /\ state'[L - 1] = Ahead(L - 1, Begin(L - 1), IF Midway(L) THEN NoTime ELSE t)
           /\ ~Midway(L) => Clock[L - 1] = t /\ iter[L] = Iterations(L) - 1
           /\ Midway(L) => iter[L] = 0 /\ Iterations(L) = 2
           /\ DOMAIN state' = Depths
<1> DEFINE p == L - 1
           b == Begin(L)
           q == Begin(p)
           mid == Blend(L - 1, Later(L))
           src == Restricted(IF Midway(L) THEN mid ELSE state[p], state[L])
<1>0. /\ L \in Depths /\ p \in Depths /\ L # p /\ Climbing
      /\ Dt(L) \in Nat \ {0} /\ Dt(p) \in Nat \ {0}
  BY DepthFacts DEF MeshTyped, Climbing
<1>1. UnderWay(L) /\ t = b + Dt(L) /\ Clock[L] = t /\ Filled(L)
  BY <1>0, DepthFacts, ParentFacts DEF Order, Stacked, Filled, Nested
<1>2. UnderWay(p) /\ q \in Nat /\ Clock[p] = q + Dt(p) /\ ~Filled(p)
  BY <1>0, ParentFacts DEF Filled
<1>3. state[L] = Ahead(L, b, t) /\ state[p] = Ahead(p, q, NoTime)
  BY <1>1, <1>2 DEF UnderWay
<1>4. state[L]["inner"] = t /\ state[L]["shadow"] = t
  BY <1>1, <1>3, AheadZones
<1>5. /\ state' = [state EXCEPT ![L] = WithRim(@, src),
                                ![p] = IF Midway(L) THEN @ ELSE src]
  BY DEF Exchange
<1>6. /\ state'[L] = WithRim(state[L], src)
      /\ state'[p] = IF Midway(L) THEN state[p] ELSE src
      /\ \A l \in Depths : l # L /\ l # p => state'[l] = state[l]
      /\ DOMAIN state' = Depths
  BY <1>0, <1>5 DEF MeshTyped
<1>7. iter[L] \in 0 .. Iterations(L) - 1
  BY ParentFacts
<1>8. ASSUME src["inner"] = t, src["shadow"] = t
      PROVE  WithRim(state[L], src) = Uniform(t)
  <2>1. WithRim(state[L], src) = Zoned(t, t, t)
    BY <1>1, <1>3, <1>8, WithRimZones DEF Ahead
  <2> QED  BY <2>1, UniformZones
<1>9. CASE Midway(L)
  <2>1. L > Trfls /\ iter[L] = 0 /\ Iterations(L) = 2
    BY <1>7, <1>9 DEF Midway, Iterations
  <2>2. DOMAIN mid = Zones /\ mid["inner"] = t
    <3>1. Blending
      BY <2>1 DEF Blending
    <3>2. t = q + Dt(L)
      BY <1>1, <2>1, ParentFacts
    <3> QED  BY <3>1, <3>2, BlendIsRight
  <2>3. src["inner"] = t /\ src["shadow"] = t
    BY <1>4, <1>9, <2>2, RestrictedAny
  <2> QED  BY <1>3, <1>6, <1>8, <1>9, <2>1, <2>3
<1>10. CASE ~Midway(L)
  <2>1. iter[L] = Iterations(L) - 1
    BY <1>0, <1>7, <1>10, StepFacts DEF Midway, Iterations
  <2>2. Clock[p] = t
    BY <2>1, ParentFacts
  <2>3. src = Ahead(p, q, t)
    BY <1>3, <1>4, <1>10, RestrictedZones DEF Ahead
  <2>4. src["inner"] = t /\ src["shadow"] = t
    BY <1>2, <2>2, <2>3, AheadZones
  <2> QED  BY <1>6, <1>8, <1>10, <2>1, <2>2, <2>3, <2>4
<1> QED  BY <1>9, <1>10

LEMMA ExchangeKeepsClock ==
    ASSUME MeshTyped, Order, at = "restrict", level # 0, Exchange(level)
    PROVE  Clock' = Clock
<1> SUFFICES ASSUME NEW L, L = level, NEW t, t = Now
             PROVE  Clock' = Clock
  OBVIOUS
<1> DEFINE p == L - 1
<1>1. /\ L \in Depths /\ p \in Depths /\ Climbing /\ "inner" \in Zones
      /\ UnderWay(p) /\ UnderWay(L) /\ Clock[L] = t
  BY DepthFacts, ParentFacts DEF Order, Stacked, Nested, MeshTyped, Climbing, Zones
<1>2. /\ state'[L] = Uniform(t)
      /\ \A l \in Depths : l # L /\ l # p => state'[l] = state[l]
      /\ state'[p] = Ahead(p, Begin(p), IF Midway(L) THEN NoTime ELSE t)
  BY ExchangeDoes
<1>3. state'[L]["inner"] = state[L]["inner"]
  BY <1>1, <1>2, UniformZones DEF Clock
<1>4. state'[p]["inner"] = state[p]["inner"]
  BY <1>1, <1>2, AheadZones DEF UnderWay
<1> QED  BY <1>2, <1>3, <1>4, ClockKept

LEMMA RestrictProlongKeeps ==
    ASSUME MeshTyped, Order, RestrictProlong
    PROVE  Order'
<1> SUFFICES ASSUME NEW L, L = level, NEW t, t = Now
             PROVE  Order'
  OBVIOUS
<1>0. /\ \A l \in Depths : l \in Nat /\ Dt(l) \in Nat \ {0}
      /\ \A l \in Depths : l # 0 => l - 1 \in Depths
  BY DepthFacts
<1>1. /\ Climbing /\ at = "restrict" /\ L \in Depths /\ t \in Nat
      /\ level' = L /\ lt' = lt /\ physTime' = physTime /\ holes' = holes
      /\ old' = old /\ cor' = cor /\ sound' = sound
      /\ iter[L] \in 0 .. Iterations(L) - 1 /\ Clock[L] = t /\ Possible(L, Begin(L))
      /\ Begin(L) = t - Dt(L) /\ UnderWay(L) /\ Filled(L)
  <2>1. /\ Climbing /\ at = "restrict" /\ L \in Depths /\ t \in Nat
        /\ level' = L /\ lt' = lt /\ physTime' = physTime /\ holes' = holes
        /\ old' = old /\ cor' = cor /\ sound' = sound
    BY DEF RestrictProlong, Climbing, Order, Linked, MeshTyped, clocks
  <2>2. iter[L] \in 0 .. Iterations(L) - 1 /\ Clock[L] = t /\ Possible(L, Begin(L))
    BY <1>0, <2>1 DEF Order, Nested
  <2>3. Begin(L) = t - Dt(L)
    BY <2>1, <2>2 DEF Begin
  <2>4. UnderWay(L) /\ Filled(L)
    BY <2>1 DEF Order, Stacked, Filled
  <2> QED  BY <2>1, <2>2, <2>3, <2>4
<1>2. /\ at' \in {"step", "regrid"}
      /\ at' = "step" <=> iter[L] + 1 < Iterations(L)
      /\ at' = "step" => iter' = [iter EXCEPT ![L] = @ + 1]
      /\ at' = "regrid" => iter' = iter /\ iter[L] = Iterations(L) - 1
  <2>1. iter[L] + 1 < Iterations(L) \/ iter[L] = Iterations(L) - 1
    BY <1>1 DEF Iterations
  <2> QED  BY <1>1, <2>1 DEF RestrictProlong, Iterations
<1>3. /\ state'[L] = Uniform(t)
      /\ \A l \in Depths : l # L /\ l # L - 1 => state'[l] = state[l]
      /\ L # 0 => state'[L - 1] = Ahead(L - 1, Begin(L - 1),
                                        IF at' = "step" THEN NoTime ELSE Clock[L - 1])
      /\ L # 0 /\ at' = "regrid" => Clock[L - 1] = t
      /\ DOMAIN state' = Depths
      /\ Clock' = Clock
      /\ at' = "step" => L # 0 /\ iter[L] = 0 /\ Iterations(L) = 2
  <2>1. CASE L = 0
    <3>1. state' = state /\ at' = "regrid"
      <4>1. Iterations(0) = 1
        BY MeshAssumption DEF Iterations
      <4>2. ~(level > 0)
        BY <2>1
      <4> QED  BY <1>1, <1>2, <2>1, <4>1, <4>2 DEF RestrictProlong
    <3>2. state[L] = Ahead(L, t - Dt(L), t)
      BY <1>1 DEF UnderWay
    <3>3. (t - Dt(L)) + Dt(L) = t
      BY <1>0, <1>1
    <3>4. state[L] = Zoned(t, t, t)
      BY <2>1, <3>2, <3>3 DEF Ahead
    <3>5. Clock' = Clock
      BY <3>1, ClockKept
    <3> QED  BY <2>1, <3>1, <3>4, <3>5, UniformZones DEF MeshTyped
  <2>2. CASE L # 0
    <3>1. Exchange(level)
      BY <1>0, <1>1, <2>2 DEF RestrictProlong
    <3>2. /\ state'[L] = Uniform(t)
          /\ \A l \in Depths : l # L /\ l # L - 1 => state'[l] = state[l]
          /\ state'[L - 1] = Ahead(L - 1, Begin(L - 1), IF Midway(L) THEN NoTime ELSE t)
          /\ ~Midway(L) => Clock[L - 1] = t /\ iter[L] = Iterations(L) - 1
          /\ Midway(L) => iter[L] = 0 /\ Iterations(L) = 2
          /\ DOMAIN state' = Depths
      BY <1>1, <2>2, <3>1, ExchangeDoes
    <3>3. Midway(L) <=> at' = "step"
      BY <1>1, <1>2, <3>2 DEF Iterations
    <3>4. Clock' = Clock
      BY <1>1, <2>2, <3>1, ExchangeKeepsClock
    <3> QED  BY <1>2, <2>2, <3>2, <3>3, <3>4
  <2> QED  BY <2>1, <2>2
<1>4. /\ \A l \in Depths : l < L => UnderWay(l) /\ ~Filled(l) /\ Begin(l) = Clock[l] - Dt(l)
      /\ \A l \in Depths : l > L => Settled(l)
  BY <1>0, <1>1 DEF Order, Stacked, Filled, Begin
<1>5. Linked' /\ Now' = t
  BY <1>1, <1>3 DEF Order, Linked, Now
<1>6. \A l \in Depths : l # L => Begin(l)' = Begin(l)
  BY <1>1, <1>3 DEF Begin
<1>7. Begin(L)' = IF at' = "step" THEN t ELSE t - Dt(L)
  <2>1. Begin(L)' = IF at' = "step" THEN t ELSE Clock[L] - Dt(L)
    BY <1>1, <1>3, <1>5 DEF Begin
  <2> QED  BY <1>1, <2>1
<1>8. Stacked'
  <2> SUFFICES ASSUME NEW l \in Depths
               PROVE  IF l < L THEN UnderWay(l)' ELSE Settled(l)'
    BY <1>1, <1>2 DEF Stacked
  <2>1. CASE l < L
    <3>1. l # L
      BY <1>0, <1>1, <2>1
    <3>2. CASE l = L - 1
      <4>1. L # 0 /\ l # L
        BY <1>0, <1>1, <2>1
      <4>2. Filled(l)' <=> at' # "step"
        BY <1>1, <1>2, <4>1, <3>2 DEF Filled
      <4>3. state'[l] = Ahead(l, Begin(l), IF at' = "step" THEN NoTime ELSE Clock[l])
        BY <1>3, <4>1, <3>2
      <4>4. Begin(l)' = Begin(l) /\ Clock'[l] = Clock[l]
        BY <1>3, <1>6, <4>1
      <4>5. old[l] = Uniform(Begin(l)) /\ cor[l] = Before(l, Begin(l))
        BY <1>4, <2>1 DEF UnderWay
      <4>6. state'[l] = Ahead(l, Begin(l)', IF Filled(l)' THEN Clock'[l] ELSE NoTime)
        BY <4>2, <4>3, <4>4
      <4> QED  BY <1>1, <2>1, <4>4, <4>5, <4>6 DEF UnderWay
    <3>3. CASE l # L - 1
      <4>1. ~Filled(l)'
        BY <1>1, <1>2, <3>1, <3>3 DEF Filled
      <4>2. state'[l] = state[l]
        BY <1>3, <3>1, <3>3
      <4> QED  BY <1>1, <1>4, <1>6, <2>1, <3>1, <4>1, <4>2 DEF UnderWay
    <3> QED  BY <3>2, <3>3
  <2>2. CASE l = L
    <3>1. old'[l] = Uniform(t - Dt(l)) /\ t # 0
      BY <1>0, <1>1, <2>2 DEF UnderWay, Possible
    <3>2. Settled(l)'
      BY <1>1, <1>3, <1>5, <2>2, <3>1 DEF Settled, Before
    <3>3. ~(l < L)
      BY <1>0, <1>1, <2>2
    <3> QED  BY <3>2, <3>3
  <2>3. CASE l > L
    <3>1. l # L /\ l # L - 1 /\ ~(l < L)
      BY <1>0, <1>1, <2>3
    <3>2. Settled(l)'
      BY <1>1, <1>3, <1>4, <1>5, <2>3, <3>1 DEF Settled, Before
    <3> QED  BY <3>1, <3>2
  <2> QED  BY <1>0, <1>1, <2>1, <2>2, <2>3
<1>9. Nested'
  <2>1. \A l \in Depths : l <= L /\ l # L => l < L /\ l <= level /\ iter'[l] = iter[l]
    BY <1>0, <1>1, <1>2 DEF MeshTyped
  <2>2. /\ iter'[L] = IF at' = "step" THEN iter[L] + 1 ELSE iter[L]
        /\ iter'[L] \in 0 .. Iterations(L) - 1
        /\ at' = "regrid" => iter'[L] = Iterations(L) - 1
    BY <1>1, <1>2 DEF Order, MeshTyped, Iterations
  <2> SUFFICES ASSUME NEW l \in Depths, l <= L
               PROVE  /\ Possible(l, Begin(l)')
                      /\ iter'[l] \in 0 .. Iterations(l) - 1
                      /\ l # 0 => Begin(l)' = Begin(l - 1)'
                                     + (IF iter'[l] = 0 THEN 0 ELSE Dt(l))
    BY <1>1, <1>2, <2>2 DEF Nested, Possible
  <2>3. CASE l # L
    <3>1. l # 0 => l - 1 \in Depths /\ l - 1 # L
      BY <1>0, <1>1, <2>1, <2>3
    <3>2. iter'[l] = iter[l] /\ Begin(l)' = Begin(l)
      BY <1>6, <2>1, <2>3
    <3>3. l # 0 => Begin(l - 1)' = Begin(l - 1)
      BY <1>6, <3>1
    <3> QED  BY <1>1, <2>1, <2>3, <3>2, <3>3 DEF Order, Nested
  <2>4. CASE l = L
    <3>1. Possible(L, Begin(L)')
      BY <1>0, <1>1, <1>2, <1>7 DEF Possible
    <3>2. ASSUME L # 0
          PROVE  Begin(L)' = Begin(L - 1)' + (IF iter'[L] = 0 THEN 0 ELSE Dt(L))
      <4>1. Begin(L - 1)' = Begin(L - 1) /\ Begin(L - 1) \in Nat
        BY <1>0, <1>1, <1>6, <3>2, ParentFacts
      <4>2. /\ Begin(L) = Begin(L - 1) + (IF iter[L] = 0 THEN 0 ELSE Dt(L))
            /\ t = Begin(L) + Dt(L)
        BY <1>1, <3>2, ParentFacts
      <4>3. CASE at' = "step"
        BY <1>0, <1>1, <1>3, <1>7, <2>2, <4>1, <4>2, <4>3
      <4>4. CASE at' = "regrid"
        BY <1>0, <1>1, <1>7, <2>2, <4>1, <4>2, <4>4
      <4> QED  BY <1>2, <4>3, <4>4
    <3> QED  BY <2>2, <2>4, <3>1, <3>2
  <2> QED  BY <2>3, <2>4
<1>10. Resting'
  BY <1>2 DEF Resting, Saving
<1> QED  BY <1>5, <1>8, <1>9, <1>10 DEF Order

\* A box that is moved is filled with what was there.
LEMMA RecomposeDoes ==
    ASSUME MeshTyped, Order, at = "regrid", MayMove(level), Recompose(level),
           NEW L, L = level
    PROVE  /\ \A l \in Depths : state'[l] = state[l] /\ old'[l] = old[l]
           /\ \A l \in Depths : l # L => cor'[l] = cor[l]
           /\ DOMAIN state' = Depths /\ DOMAIN old' = Depths /\ DOMAIN cor' = Depths
<1> DEFINE p == L - 1
           t == Now
           q == Begin(p)
           coarse == Restricted(state[p], state[L])
           before == Restricted(IF L > Trfls THEN Blend(L - 1, Later(L)) ELSE old[p],
                                old[L])
<1>0. /\ L \in Depths /\ L # 0 /\ p \in Depths /\ L # p /\ Climbing
      /\ t \in Nat /\ Dt(L) \in Nat \ {0}
  BY DepthFacts DEF Order, Linked, MeshTyped, Climbing, MayMove
<1>1. Settled(L) /\ t - Dt(L) \in Nat /\ iter[L] = Iterations(L) - 1
      /\ Begin(L) = t - Dt(L)
  <2>1. Settled(L) /\ iter[L] = Iterations(L) - 1
    BY <1>0, DepthFacts DEF Order, Stacked, Nested
  <2>2. Begin(L) = t - Dt(L)
    BY <1>0, <2>1, SettledClock DEF Begin
  <2>3. Begin(L) \in Nat
    BY <1>0, ParentFacts, DepthFacts
  <2> QED  BY <2>1, <2>2, <2>3
<1>2. UnderWay(p) /\ q \in Nat /\ q + Dt(p) = t /\ Clock[p] = t
  BY <1>0, <1>1, ParentFacts
<1>3. /\ state[L] = Uniform(t) /\ old[L] = Uniform(t - Dt(L))
      /\ state[p] = Ahead(p, q, t) /\ old[p] = Uniform(q)
  <2>1. Filled(p)
    BY DEF Filled
  <2>2. state[L] = Uniform(t) /\ state[p] = Ahead(p, q, t) /\ old[p] = Uniform(q)
    BY <1>1, <1>2, <2>1 DEF UnderWay, Settled
  <2>3. t # 0
    BY <1>0, <1>1
  <2> QED  BY <1>1, <2>2, <2>3 DEF Settled, Before
<1>4. "inner" \in Zones /\ "shadow" \in Zones
  BY DEF Zones
<1>5. coarse = state[p] /\ coarse["inner"] = t /\ coarse["shadow"] = t
  <2>1. state[L]["inner"] = t /\ state[L]["shadow"] = t
    BY <1>3, <1>4, UniformZones
  <2>2. coarse = Ahead(p, q, t)
    BY <1>3, <2>1, RestrictedZones DEF Ahead
  <2> QED  BY <1>2, <1>3, <2>2, AheadZones
<1>6. Refilled(state[L], coarse) = state[L]
  BY <1>3, <1>5, RefilledUniform
<1>7. old[L]["inner"] = t - Dt(L) /\ old[L]["shadow"] = t - Dt(L)
  BY <1>3, <1>4, UniformZones
<1>8. Refilled(old[L], before) = old[L] /\ (~(L > Trfls) => before = old[p])
  <2>1. CASE L > Trfls
    <3>1. Blending /\ at # "restrict"
      BY <2>1 DEF Blending
    <3>2. t = q + 2 * Dt(L)
      BY <3>1, LaterIsRight
    <3>3. /\ DOMAIN Blend(L - 1, Later(L)) = Zones
          /\ Blend(L - 1, Later(L))["inner"] = q + Dt(L)
      BY <3>1, BlendIsRight
    <3>4. q + Dt(L) = t - Dt(L)
      BY <1>0, <1>2, <3>2
    <3>5. before["inner"] = t - Dt(L) /\ before["shadow"] = t - Dt(L)
      BY <1>7, <2>1, <3>3, <3>4, RestrictedAny
    <3> QED  BY <1>3, <2>1, <3>5, RefilledUniform
  <2>2. CASE ~(L > Trfls)
    <3>1. q = t - Dt(L)
      BY <1>0, <1>2, <2>2, StepFacts
    <3>2. before = Zoned(q, q, q)
      BY <1>3, <1>7, <2>2, <3>1, RestrictedZones, UniformZones
    <3>3. before = old[p] /\ before["inner"] = q /\ before["shadow"] = q
      BY <1>3, <3>2, UniformZones, ZonesOf
    <3> QED  BY <1>3, <3>1, <3>3, RefilledUniform
  <2> QED  BY <2>1, <2>2
<1>9. /\ state' = [state EXCEPT ![L] = Refilled(@, coarse), ![p] = coarse]
      /\ old' = [old EXCEPT ![L] = Refilled(@, before),
                            ![p] = IF L > Trfls THEN @ ELSE before]
      /\ cor' = [cor EXCEPT ![L] = Blank]
  BY DEF Recompose
<1> HIDE DEF coarse, before
<1>10. /\ state' = [state EXCEPT ![L] = state[L], ![p] = state[p]]
       /\ old' = [old EXCEPT ![L] = old[L], ![p] = old[p]]
  BY <1>5, <1>6, <1>8, <1>9
<1> QED  BY <1>0, <1>9, <1>10 DEF MeshTyped

LEMMA RegridKeeps ==
    ASSUME MeshTyped, Order, Regrid
    PROVE  Order'
<1> SUFFICES ASSUME NEW L, L = level, NEW t, t = Now
             PROVE  Order'
  OBVIOUS
<1>0. /\ \A l \in Depths : l \in Nat /\ Dt(l) \in Nat \ {0}
      /\ \A l \in Depths : l # 0 => l - 1 \in Depths
      /\ 0 \in Depths
  BY DepthFacts, StepFacts
<1>1. /\ Climbing /\ at = "regrid" /\ L \in Depths /\ t \in Nat
      /\ lt' = lt /\ physTime' = physTime /\ holes' = holes /\ iter' = iter
      /\ sound' = sound
      /\ Clock[L] = t /\ Possible(L, t - Dt(L)) /\ Begin(L) = t - Dt(L)
      /\ \A l \in Depths : l < L => UnderWay(l) /\ Begin(l) = Clock[l] - Dt(l)
      /\ \A l \in Depths : l >= L => Settled(l)
  <2>1. /\ Climbing /\ at = "regrid" /\ L \in Depths /\ t \in Nat
        /\ lt' = lt /\ physTime' = physTime /\ holes' = holes /\ iter' = iter
        /\ sound' = sound
    BY DEF Regrid, Climbing, Order, Linked, MeshTyped, clocks
  <2>2. /\ \A l \in Depths : l < L => UnderWay(l) /\ Begin(l) = Clock[l] - Dt(l)
        /\ \A l \in Depths : l >= L => Settled(l)
    BY <1>0, <2>1 DEF Order, Stacked, Begin
  <2>3. Clock[L] = t
    BY <1>0, <2>1, <2>2, SettledClock
  <2>4. Begin(L) = t - Dt(L) /\ Possible(L, Begin(L))
    BY <1>0, <2>1, <2>3 DEF Begin, Order, Nested
  <2> QED  BY <2>1, <2>2, <2>3, <2>4
<1>2. /\ \A l \in Depths : state'[l] = state[l] /\ old'[l] = old[l]
      /\ \A l \in Depths : l # L => cor'[l] = cor[l]
      /\ Clock' = Clock /\ Now' = t
  <2>1. CASE MayMove(level) /\ Recompose(level)
    BY <1>1, <2>1, RecomposeDoes, ClockKept DEF Now
  <2>2. CASE UNCHANGED fields
    BY <2>2, ClockKept DEF fields, Now
  <2> QED  BY <2>1, <2>2 DEF Regrid
<1>3. \A l \in Depths : l >= L => Settled(l)'
  BY <1>1, <1>2 DEF Settled, Before
<1>4. Linked'
  BY <1>1, <1>2 DEF Order, Linked
<1>5. CASE L = 0
  <2>1. at' = "evolve" /\ level' = 0
    BY <1>1, <1>5 DEF Regrid
  <2>2. Resting'
    <3>1. t >= Dt(0)
      BY <1>0, <1>1, <1>5 DEF Possible
    <3>2. \A l \in Depths : Settled(l)'
      BY <1>0, <1>3, <1>5
    <3> QED  BY <1>1, <1>2, <2>1, <3>1, <3>2 DEF Resting
  <2>4. Stacked' /\ Nested'
    BY <2>1 DEF Stacked, Nested, Climbing
  <2> QED  BY <1>4, <2>2, <2>4 DEF Order
<1>6. CASE L # 0
  <2>1. at' = "restrict" /\ level' = L - 1 /\ L - 1 \in Depths
    BY <1>0, <1>1, <1>6 DEF Regrid
  <2>2. Clock[L - 1] = t
    <3>1. iter[L] = Iterations(L) - 1
      BY <1>1 DEF Order, Nested
    <3> QED  BY <1>1, <1>6, <3>1, ParentFacts
  <2>3. \A l \in Depths : l < L => Begin(l)' = Begin(l)
    BY <1>1, <1>2, <2>1 DEF Begin
  <2>4. \A l \in Depths : l < L => UnderWay(l)'
    <3> SUFFICES ASSUME NEW l \in Depths, l < L PROVE UnderWay(l)'
      OBVIOUS
    <3>1. Filled(l)' <=> Filled(l)
      BY <1>0, <1>1, <2>1 DEF Filled
    <3>2. l # L
      BY <1>0, <1>1
    <3> QED  BY <1>1, <1>2, <2>3, <3>1, <3>2 DEF UnderWay
  <2>5. \A l \in Depths : (l < L - 1 \/ l = L - 1 <=> l < L) /\ (l <= L - 1 <=> l < L)
    BY <1>0, <1>1
  <2>6. Stacked'
    BY <1>0, <1>1, <1>3, <2>1, <2>4, <2>5 DEF Stacked
  <2>7. Nested'
    <3> SUFFICES ASSUME NEW l \in Depths, l < L
                 PROVE  /\ Possible(l, Begin(l)')
                        /\ iter[l] \in 0 .. Iterations(l) - 1
                        /\ l # 0 => Begin(l)' = Begin(l - 1)'
                                       + (IF iter[l] = 0 THEN 0 ELSE Dt(l))
      BY <1>1, <1>2, <2>1, <2>2, <2>5 DEF Nested, Possible
    <3>1. l # 0 => l - 1 \in Depths /\ l - 1 < L
      BY <1>0, <1>1
    <3>2. l <= level
      BY <1>0, <1>1
    <3> QED  BY <1>1, <2>3, <3>1, <3>2 DEF Order, Nested
  <2>8. Resting'
    BY <2>1 DEF Resting, Saving
  <2> QED  BY <1>4, <2>6, <2>7, <2>8 DEF Order
<1> QED  BY <1>5, <1>6

\* The loop of Evolve leaves the fields as they are, and goes on with a step.
LEMMA EvolveKeeps ==
    ASSUME MeshTyped, Order, at \in Saving, level' = 0,
           UNCHANGED <<clocks, fields, sound>>,
           \/ at' \in Saving \cup {"ended"}
           \/ at' = "step" /\ iter' = [iter EXCEPT ![0] = 0]
    PROVE  Order'
<1>0. 0 \in Depths /\ \A l \in Depths : l \in Nat /\ Dt(l) \in Nat \ {0}
  BY DepthFacts, StepFacts
<1>1. /\ Now \in Nat /\ Now >= Dt(0) /\ \A l \in Depths : Settled(l)
      /\ state' = state /\ old' = old /\ cor' = cor /\ holes' = holes
      /\ physTime' = physTime /\ lt' = lt /\ sound' = sound
  BY DEF Order, Resting, Linked, clocks, fields
<1>2. Clock' = Clock /\ Now' = Now
  BY <1>1, ClockKept DEF Now
<1>3. Linked'
  BY <1>1, <1>2 DEF Order, Linked
<1>4. \A l \in Depths : Settled(l)' /\ ~(l < level')
  BY <1>0, <1>1, <1>2 DEF Settled, Before
<1>5. Stacked'
  BY <1>4 DEF Stacked, Climbing, Saving
<1>6. Nested'
  <2> SUFFICES ASSUME at' = "step"
               PROVE  Possible(0, Begin(0))' /\ iter'[0] \in 0 .. Iterations(0) - 1
    BY <1>0 DEF Nested, Climbing, Saving
  <2>1. Begin(0)' = Now
    BY <1>2 DEF Begin
  <2>2. iter'[0] = 0
    BY <1>0 DEF MeshTyped, Saving
  <2>3. Possible(0, Begin(0))'
    BY <1>0, <1>1, <2>1 DEF Possible
  <2> QED  BY <2>2, <2>3 DEF Iterations
<1>7. Resting'
  BY <1>1, <1>2, <1>4 DEF Resting
<1> QED  BY <1>3, <1>5, <1>6, <1>7 DEF Order

\* Where the evolution begins, at first and after a crash.
LEMMA BeginsRight ==
    ASSUME NEW t \in Nat, t = 0 \/ t >= Dt(0),
           at' = IF Steps > 0 THEN "step" ELSE "ended",
           level' = 0, iter' = [l \in Depths |-> 0],
           \A l \in Depths : state'[l] = Uniform(t) /\ old'[l] = Before(l, t),
           "holes" \in sound' => holes' = t,
           "holes" \notin sound' => t # 0,
           Trfls < Levels => physTime' = t /\ lt' = [l \in Depths |-> t]
    PROVE  Order'
<1>0. 0 \in Depths /\ Finest \in Depths /\ \A l \in Depths : l \in Nat
  BY StepFacts
<1>1. \A l \in Depths : Clock'[l] = t
  BY UniformZones DEF Clock, Zones
<1>2. Clock' = [l \in Depths |-> t] /\ Now' = t
  <2>1. Clock' = [l \in Depths |-> Clock'[l]]
    BY DEF Clock
  <2> QED  BY <1>0, <1>1, <2>1 DEF Now
<1>3. Linked'
  BY <1>1, <1>2 DEF Linked
<1>4. \A l \in Depths : Settled(l)' /\ ~(l < level')
  BY <1>0, <1>2 DEF Settled, Before
<1>5. Stacked'
  BY <1>4 DEF Stacked, Climbing
<1>6. Nested'
  <2> SUFFICES ASSUME at' = "step"
               PROVE  Possible(0, Begin(0))' /\ iter'[0] \in 0 .. Iterations(0) - 1
    BY <1>0 DEF Nested, Climbing
  <2>1. Possible(0, Begin(0))'
    BY <1>0, <1>2 DEF Begin, Possible
  <2> QED  BY <1>0, <2>1 DEF Iterations
<1>7. Resting'
  BY DEF Resting, Saving
<1> QED  BY <1>3, <1>5, <1>6, <1>7 DEF Order

-----------------------------------------------------------------------------
(***************************************************************************)
(* Types, fields without a time, and the files.                            *)
(***************************************************************************)
LEMMA MeshTypedNext ==
    ASSUME MeshTyped, Stored, MeshNext
    PROVE  MeshTyped'
<1> USE DEF MeshTyped, MeshPlaces, Saving, clocks, fields, evolveVars
<1>0. /\ 0 \in Depths /\ Tick \in Nat /\ NoTime \in Int
      /\ \A l \in Depths : Dt(l) \in Nat \ {0} /\ l \in Nat
      /\ \A l \in Depths : /\ l # Finest => l + 1 \in Depths
                           /\ l # 0 => l - 1 \in Depths
      /\ \A l \in Depths : ~(l < Finest) => l = Finest
  BY StepFacts, DepthFacts DEF NoTime
<1>1. CASE StepLevel
  <2>1. /\ DOMAIN state' = Depths /\ DOMAIN old' = Depths /\ DOMAIN cor' = Depths
        /\ lt' \in [Depths -> Int] /\ sound' = sound
    BY <1>0, <1>1 DEF StepLevel, Rotate
  <2>2. level' \in Depths /\ iter' \in [Depths -> Int] /\ at' \in {"step", "restrict"}
    BY <1>0, <1>1 DEF StepLevel
  <2>3. physTime' \in Nat /\ holes' \in Int
    BY <1>0, <1>1 DEF StepLevel
  <2> QED  BY <2>1, <2>2, <2>3
<1>2. CASE RestrictProlong
  <2>1. DOMAIN state' = Depths
    BY <1>2 DEF RestrictProlong, Exchange
  <2>2. at' \in {"step", "regrid"} /\ iter' \in [Depths -> Int]
    BY <1>2 DEF RestrictProlong
  <2> QED  BY <1>2, <2>1, <2>2 DEF RestrictProlong
<1>3. CASE Regrid
  <2>1. DOMAIN state' = Depths /\ DOMAIN old' = Depths /\ DOMAIN cor' = Depths
    BY <1>3 DEF Regrid, Recompose
  <2> QED  BY <1>0, <1>3, <2>1 DEF Regrid
<1>4. CASE EndOfStep
  <2>1. at' \in {"ended", "step", "holes"} /\ iter' \in [Depths -> Int]
    BY <1>0, <1>4 DEF EndOfStep, NextStep
  <2> QED  BY <1>4, <2>1 DEF EndOfStep
<1>5. CASE WriteHoles
  BY <1>5 DEF WriteHoles
<1>6. CASE OpenGrids
  BY <1>6 DEF OpenGrids
<1>7. CASE WriteGrids
  BY <1>0, <1>7 DEF WriteGrids, NextStep
<1>8. CASE Crash
  BY <1>8 DEF Crash
<1>9. CASE Restart
  <2> DEFINE d == IF disk.written THEN disk ELSE InitialData
  <2>1. /\ d.time \in Nat /\ d.holes \in Int /\ d.sound \subseteq {"fields", "holes"}
        /\ DOMAIN d.state = Depths /\ DOMAIN d.old = Depths
    BY DEF InitialData, Stored, DiskFields, Unread
  <2> HIDE DEF d
  <2>2. StartFrom(d)
    BY <1>9 DEF Restart, d
  <2> QED  BY <1>0, <2>1, <2>2 DEF StartFrom, Unread
<1> QED
  BY <1>1, <1>2, <1>3, <1>4, <1>5, <1>6, <1>7, <1>8, <1>9 DEF MeshNext, WriteCheckpoint

\* From nothing comes nothing.
LEMMA BlankFields ==
    /\ Whole(Blank) = NoTime
    /\ \A l : Stepped(l, NoTime) = Blank
    /\ Restricted(Blank, Blank) = Blank /\ WithRim(Blank, Blank) = Blank
    /\ Refilled(Blank, Blank) = Blank
    /\ Timeless => \A l \in Depths : \A three : Blend(l, three) = Blank
<1>1. /\ Blank = Uniform(NoTime) /\ Blank = Zoned(NoTime, NoTime, NoTime)
      /\ Blank["inner"] = NoTime /\ Blank["shadow"] = NoTime
  BY UniformZones DEF Blank, Zones
<1>2. Whole(Blank) = NoTime
  BY <1>1, WholeUniform
<1>3. \A l : Stepped(l, NoTime) = Blank
  BY DEF Stepped, Blank, Uniform
<1>4. Restricted(Blank, Blank) = Blank /\ WithRim(Blank, Blank) = Blank
  BY <1>1, RestrictedZones, WithRimZones
<1>5. Refilled(Blank, Blank) = Blank
  BY <1>1, RefilledUniform
<1>6. ASSUME Timeless, NEW l \in Depths, NEW three PROVE Blend(l, three) = Blank
  <2>1. state[l] = Blank /\ old[l] = Blank /\ cor[l] = Blank
    BY <1>6 DEF Timeless, Unread
  <2>2. \A z \in Zones : Blank[z] = NoTime
    BY DEF Blank, Uniform
  <2> QED  BY <2>1, <2>2 DEF Blend, Average, Average2, Blank, Uniform
<1> QED  BY <1>2, <1>3, <1>4, <1>5, <1>6

LEMMA StaysTimeless ==
    ASSUME MeshTyped, Timeless, MeshNext, ~Restart
    PROVE  Timeless'
<1>0. \A l \in Depths : /\ state[l] = Blank /\ old[l] = Blank /\ cor[l] = Blank
                        /\ l \in Nat /\ (l # 0 => l - 1 \in Depths)
  BY DepthFacts DEF Timeless, Unread
<1>1. level \in Depths
  BY DEF MeshTyped
<1>2. \A l \in Depths : [Unread EXCEPT ![l] = Blank] = Unread
  BY DEF Unread
<1>3. CASE StepLevel
  <2>1. Stepped(level, Whole(state[level])) = Blank
    BY <1>0, <1>1, BlankFields
  <2> QED  BY <1>0, <1>1, <1>2, <1>3, <2>1 DEF StepLevel, Rotate, Timeless
<1>4. CASE RestrictProlong
  <2>1. CASE level > 0
    <3> DEFINE L == level
               p == level - 1
               src == Restricted(IF Midway(L) THEN Blend(L - 1, Later(L)) ELSE state[L - 1],
                                 state[L])
    <3>1. L \in Depths /\ p \in Depths
      BY <1>0, <1>1, <2>1
    <3>2. src = Blank
      BY <1>0, <3>1, BlankFields
    <3>3. state' = [state EXCEPT ![L] = WithRim(@, src),
                                 ![p] = IF Midway(L) THEN @ ELSE src]
      BY <1>4, <2>1 DEF RestrictProlong, Exchange
    <3> HIDE DEF src
    <3>4. state' = [[state EXCEPT ![L] = Blank] EXCEPT ![p] = Blank]
      BY <1>0, <3>1, <3>2, <3>3, BlankFields
    <3> QED  BY <1>2, <1>4, <3>1, <3>4 DEF RestrictProlong, Timeless
  <2>2. CASE ~(level > 0)
    BY <1>4, <2>2 DEF RestrictProlong, Timeless
  <2> QED  BY <2>1, <2>2
<1>5. CASE Regrid
  <2>1. CASE UNCHANGED fields
    BY <2>1 DEF fields, Timeless
  <2>2. CASE MayMove(level) /\ Recompose(level)
    <3> DEFINE L == level
               p == level - 1
               coarse == Restricted(state[L - 1], state[L])
               before == Restricted(IF L > Trfls THEN Blend(L - 1, Later(L)) ELSE old[L - 1],
                                    old[L])
    <3>1. L \in Depths /\ p \in Depths
      BY <1>0, <1>1, <2>2 DEF MayMove
    <3>2. coarse = Blank /\ before = Blank
      BY <1>0, <3>1, BlankFields
    <3>3. /\ state' = [state EXCEPT ![L] = Refilled(@, coarse), ![p] = coarse]
          /\ old' = [old EXCEPT ![L] = Refilled(@, before),
                                ![p] = IF L > Trfls THEN @ ELSE before]
          /\ cor' = [cor EXCEPT ![L] = Blank]
      BY <2>2 DEF Recompose
    <3> HIDE DEF coarse, before
    <3>4. /\ state' = [[state EXCEPT ![L] = Blank] EXCEPT ![p] = Blank]
          /\ old' = [[old EXCEPT ![L] = Blank] EXCEPT ![p] = Blank]
      BY <1>0, <3>1, <3>2, <3>3, BlankFields
    <3> QED  BY <1>2, <3>1, <3>3, <3>4 DEF Timeless
  <2> QED  BY <1>5, <2>1, <2>2 DEF Regrid
<1>6. CASE EndOfStep \/ WriteCheckpoint \/ Crash
  BY <1>6 DEF EndOfStep, WriteCheckpoint, WriteHoles, OpenGrids, WriteGrids, Crash,
              Timeless, fields
<1> QED  BY <1>3, <1>4, <1>5, <1>6 DEF MeshNext

\* A checkpoint that is written to its end is of one time; one that is cut is known
\* by what is missing.
LEMMA StoredNext ==
    ASSUME MeshInv, MeshNext
    PROVE  Stored'
<1> DEFINE Files(w, t, h, s, f, o) ==
              [written |-> w, time |-> t, holes |-> h, sound |-> s, state |-> f, old |-> o]
<1>1. /\ MeshTyped /\ DiskFields /\ Writing /\ NoTime \in Int
      /\ disk = Files(disk.written, disk.time, disk.holes, disk.sound, disk.state, disk.old)
      /\ disk.written \in BOOLEAN /\ disk.time \in Nat /\ disk.holes \in Int
      /\ disk.sound \subseteq {"fields", "holes"}
  BY DEF MeshInv, Stored, NoTime
<1>2. CASE disk' = disk /\ at' \notin {"holes", "grids", "fields"}
  <2>1. DiskFields'
    BY <1>1, <1>2 DEF DiskFields, Before
  <2>2. Writing'
    BY <1>1, <1>2 DEF Writing
  <2> QED  BY <1>1, <1>2, <2>1, <2>2 DEF Stored
<1>3. CASE EndOfStep /\ at' = "holes"
  <2>1. disk' = Files(disk.written, disk.time, NoTime, disk.sound \ {"holes"},
                      disk.state, disk.old)
    <3>1. disk' = [disk EXCEPT !.holes = NoTime, !.sound = @ \ {"holes"}]
      BY <1>3 DEF EndOfStep, NextStep
    <3> QED  BY <1>1, <3>1
  <2> HIDE DEF Files
  <2>2. /\ disk'.written = disk.written /\ disk'.time = disk.time
        /\ disk'.sound = disk.sound \ {"holes"} /\ disk'.holes = NoTime
        /\ disk'.state = disk.state /\ disk'.old = disk.old
    BY <2>1 DEF Files
  <2>3. DiskFields'
    BY <1>1, <2>2 DEF DiskFields, Before
  <2>4. Writing'
    BY <1>1, <1>3, <2>2 DEF Writing
  <2> QED  BY <1>1, <2>1, <2>2, <2>3, <2>4 DEF Stored, Files
<1>4. CASE WriteHoles
  <2>1. /\ disk' = Files(disk.written, disk.time, holes, disk.sound, disk.state, disk.old)
        /\ "holes" \notin disk.sound /\ at' = "grids" /\ holes' = holes
    <3>1. disk' = [disk EXCEPT !.holes = holes]
      BY <1>4 DEF WriteHoles
    <3> QED  BY <1>1, <1>4, <3>1 DEF WriteHoles, Writing, clocks
  <2> HIDE DEF Files
  <2>2. /\ disk'.written = disk.written /\ disk'.time = disk.time
        /\ disk'.sound = disk.sound /\ disk'.holes = holes
        /\ disk'.state = disk.state /\ disk'.old = disk.old
    BY <2>1 DEF Files
  <2>3. DiskFields'
    BY <1>1, <2>1, <2>2 DEF DiskFields, Before
  <2>4. Writing'
    BY <1>1, <2>1, <2>2 DEF Writing
  <2> QED  BY <1>1, <2>1, <2>2, <2>3, <2>4 DEF Stored, Files, MeshTyped
<1>5. CASE OpenGrids
  <2>1. /\ disk' = Files(TRUE, physTime, disk.holes, {}, Unread, Unread)
        /\ at' = "fields" /\ holes' = holes /\ physTime' = physTime /\ disk.holes = holes
    <3>1. disk' = [disk EXCEPT !.written = TRUE, !.time = physTime, !.sound = {},
                               !.state = Unread, !.old = Unread]
      BY <1>5 DEF OpenGrids
    <3> QED  BY <1>1, <1>5, <3>1 DEF OpenGrids, Writing, clocks
  <2> HIDE DEF Files
  <2>2. /\ disk'.written = TRUE /\ disk'.time = physTime
        /\ disk'.sound = {} /\ disk'.holes = holes
        /\ disk'.state = Unread /\ disk'.old = Unread
    BY <2>1 DEF Files
  <2>3. DiskFields'
    BY <2>2 DEF DiskFields
  <2>4. Writing'
    BY <2>1, <2>2 DEF Writing
  <2> QED  BY <1>1, <2>1, <2>2, <2>3, <2>4 DEF Stored, Files, MeshTyped
<1>6. CASE WriteGrids
  <2>1. /\ disk' = Files(TRUE, physTime, holes, sound, state, old)
        /\ at = "fields" /\ at' \in {"step", "ended"}
    <3>1. disk' = [disk EXCEPT !.state = state, !.old = old, !.sound = sound]
      BY <1>6 DEF WriteGrids
    <3> QED  BY <1>1, <1>6, <3>1 DEF WriteGrids, NextStep, Writing
  <2> HIDE DEF Files
  <2>2. /\ disk'.written = TRUE /\ disk'.time = physTime
        /\ disk'.sound = sound /\ disk'.holes = holes
        /\ disk'.state = state /\ disk'.old = old
    BY <2>1 DEF Files
  <2>3. DiskFields'
    <3>1. CASE "fields" \notin sound
      BY <2>2, <3>1 DEF DiskFields, MeshInv, Timeless
    <3>2. CASE "fields" \in sound
      <4> DEFINE t == Now
      <4>1. /\ t \in Nat /\ t >= Dt(0) /\ Dt(0) # 0 /\ Dt(0) \in Nat
            /\ \A l \in Depths : state[l] = Uniform(t) /\ old[l] = Before(l, t)
            /\ "holes" \in sound => holes = t
            /\ Trfls < Levels => physTime = t
        BY <2>1, <3>2, StepFacts
           DEF MeshInv, Order, Resting, Saving, Linked, Settled
      <4>2. DOMAIN state = Depths /\ DOMAIN old = Depths
        BY <1>1 DEF MeshTyped
      <4> HIDE DEF t
      <4>3. \A l \in Depths : Before(l, t)' = Before(l, t')
        BY DEF Before
      <4> QED  BY <2>2, <3>2, <4>1, <4>2 DEF DiskFields, Before
    <3> QED  BY <3>1, <3>2
  <2>4. Writing'
    BY <2>1, <2>2 DEF Writing
  <2> QED  BY <1>1, <2>1, <2>2, <2>3, <2>4 DEF Stored, Files, MeshTyped
<1>7. EndOfStep => at' = "holes" \/ (disk' = disk /\ at' \notin {"holes", "grids", "fields"})
  BY DEF EndOfStep, NextStep
<1>8. StepLevel \/ RestrictProlong \/ Regrid \/ Crash \/ Restart
      => disk' = disk /\ at' \notin {"holes", "grids", "fields"}
  BY DEF StepLevel, RestrictProlong, Regrid, Crash, Restart, StartFrom
<1> QED
  BY <1>2, <1>3, <1>4, <1>5, <1>6, <1>7, <1>8 DEF MeshNext, WriteCheckpoint

LEMMA RestartKeeps ==
    ASSUME MeshInv, Restart
    PROVE  IF "fields" \in sound' THEN Order' ELSE Timeless'
<1> DEFINE d == IF disk.written THEN disk ELSE InitialData
<1>1. /\ at' = IF Steps > 0 THEN "step" ELSE "ended"
      /\ level' = 0 /\ iter' = [l \in Depths |-> 0] /\ physTime' = d.time
      /\ holes' = d.holes /\ lt' = [l \in Depths |-> d.time]
      /\ state' = d.state /\ old' = d.old /\ cor' = Unread /\ sound' = d.sound
  BY DEF Restart, StartFrom
<1>2. CASE ~disk.written
  <2>1. /\ d.time = 0 /\ d.holes = 0 /\ d.sound = {"fields", "holes"}
        /\ \A l \in Depths : d.state[l] = Uniform(0) /\ d.old[l] = Before(l, 0)
    BY <1>2 DEF InitialData, Unread, Before
  <2> HIDE DEF d
  <2> QED  BY <1>1, <2>1, BeginsRight
<1>3. CASE disk.written /\ "fields" \notin disk.sound
  BY <1>1, <1>3 DEF MeshInv, Stored, DiskFields, Timeless
<1>4. CASE disk.written /\ "fields" \in disk.sound
  <2>1. PICK t \in Nat :
           /\ t = 0 \/ t >= Dt(0)
           /\ t # 0
           /\ \A l \in Depths : disk.state[l] = Uniform(t) /\ disk.old[l] = Before(l, t)
           /\ "holes" \in disk.sound => disk.holes = t
           /\ Trfls < Levels => disk.time = t
    BY <1>4 DEF MeshInv, Stored, DiskFields
  <2> QED  BY <1>1, <1>4, <2>1, BeginsRight
<1> QED  BY <1>2, <1>3, <1>4

LEMMA MeshInitInv == MeshInit => MeshInv
<1> SUFFICES ASSUME MeshInit PROVE MeshInv
  OBVIOUS
<1>0. 0 \in Depths /\ Finest \in Depths /\ \A l \in Depths : l \in Nat
  BY StepFacts
<1>1. /\ \A l \in Depths : state[l] = Uniform(0) /\ old[l] = Before(l, 0)
      /\ DOMAIN state = Depths /\ DOMAIN old = Depths /\ DOMAIN cor = Depths
      /\ sound = {"fields", "holes"} /\ holes = 0 /\ physTime = 0
      /\ lt = [l \in Depths |-> 0]
  BY DEF MeshInit, InitialData, Unread, Before
<1>2. MeshTyped
  BY <1>0, <1>1 DEF MeshInit, MeshTyped, MeshPlaces
<1>3. \A l \in Depths : Clock[l] = 0
  BY <1>1, UniformZones DEF Clock, Zones
<1>4. Clock = [l \in Depths |-> 0] /\ Now = 0
  BY <1>0, <1>3 DEF Clock, Now
<1>5. Linked
  BY <1>1, <1>3, <1>4 DEF Linked
<1>6. \A l \in Depths : Settled(l) /\ ~(l < level)
  BY <1>0, <1>1, <1>4 DEF MeshInit, Settled
<1>7. at \in {"step", "ended"}
  BY DEF MeshInit
<1>8. Stacked /\ Resting
  BY <1>6, <1>7 DEF Stacked, Resting, Climbing, Saving
<1>9. Nested
  <2>1. at = "step" => Possible(0, Begin(0)) /\ iter[0] \in 0 .. Iterations(0) - 1
    BY <1>0, <1>1, <1>4 DEF MeshInit, Possible, Begin, Iterations
  <2> QED  BY <1>0, <1>7, <2>1 DEF Nested, Climbing, MeshInit
<1>10. Stored
  <2>1. disk = InitialData /\ at \notin {"holes", "grids", "fields"}
    BY <1>7 DEF MeshInit
  <2>2. DiskFields
    BY <2>1 DEF DiskFields, InitialData, Unread, Before
  <2>3. Writing
    BY <2>1 DEF Writing
  <2> QED  BY <2>1, <2>2, <2>3 DEF Stored, InitialData
<1> QED  BY <1>1, <1>2, <1>5, <1>8, <1>9, <1>10 DEF MeshInv, Order

LEMMA MeshStutter == MeshInv /\ UNCHANGED meshVars => MeshInv'
<1> SUFFICES ASSUME MeshInv, UNCHANGED meshVars PROVE MeshInv'
  OBVIOUS
<1> USE DEF meshVars, clocks, fields, evolveVars
<1>1. MeshTyped'
  BY DEF MeshInv, MeshTyped
<1>2. Clock' = Clock /\ Now' = Now
  BY ClockKept DEF Now
<1>3. \A l : /\ Begin(l)' = Begin(l) /\ Filled(l)' = Filled(l)
             /\ UnderWay(l)' = UnderWay(l) /\ Settled(l)' = Settled(l)
  BY <1>2 DEF Begin, Filled, UnderWay, Settled, Before
<1>4. Stacked' = Stacked /\ Resting' = Resting /\ Linked' = Linked
  BY <1>2, <1>3 DEF Stacked, Resting, Linked, Climbing
<1>5. Nested' = Nested
  BY <1>2, <1>3 DEF Nested, Climbing, Possible
<1>6. Stored'
  <2>1. DiskFields' /\ Writing'
    BY DEF MeshInv, Stored, DiskFields, Writing, Before
  <2> QED  BY <2>1 DEF MeshInv, Stored
<1> QED  BY <1>1, <1>4, <1>5, <1>6 DEF MeshInv, Order, Timeless

LEMMA OrderNext ==
    ASSUME MeshInv, "fields" \in sound, MeshNext, ~Restart
    PROVE  Order'
<1>1. MeshTyped /\ Order
  BY DEF MeshInv
<1>2. CASE StepLevel
  BY <1>1, <1>2, StepLevelKeeps
<1>3. CASE RestrictProlong
  BY <1>1, <1>3, RestrictProlongKeeps
<1>4. CASE Regrid
  BY <1>1, <1>4, RegridKeeps
<1>5. CASE EndOfStep \/ WriteCheckpoint
  <2>1. at \in Saving /\ level' = 0 /\ UNCHANGED <<clocks, fields, sound>>
    BY <1>1, <1>5 DEF EndOfStep, WriteCheckpoint, WriteHoles, OpenGrids, WriteGrids,
                      Saving, Order, Resting
  <2>2. \/ at' \in Saving \cup {"ended"}
        \/ at' = "step" /\ iter' = [iter EXCEPT ![0] = 0]
    BY <1>5 DEF EndOfStep, WriteCheckpoint, WriteHoles, OpenGrids, WriteGrids,
                NextStep, Saving
  <2> QED  BY <1>1, <2>1, <2>2, EvolveKeeps
<1>6. CASE Crash
  <2>1. at' = "down" /\ UNCHANGED <<level, clocks, fields, sound>>
    BY <1>6 DEF Crash
  <2>2. Stacked' /\ Nested' /\ Resting'
    BY <2>1 DEF Stacked, Nested, Resting, Climbing, Saving
  <2>3. Clock' = Clock /\ Now' = Now
    BY <2>1, ClockKept DEF fields, Now
  <2>4. Linked'
    BY <1>1, <2>1, <2>3 DEF Order, Linked, clocks
  <2> QED  BY <2>2, <2>4 DEF Order
<1> QED  BY <1>2, <1>3, <1>4, <1>5, <1>6 DEF MeshNext

LEMMA MeshInvNext == MeshInv /\ [BlackholeNext]_blackholeVars => MeshInv'
<1> SUFFICES ASSUME MeshInv, [BlackholeNext]_blackholeVars PROVE MeshInv'
  OBVIOUS
<1>1. CASE MeshNext
  <2>1. MeshTyped' /\ Stored'
    BY <1>1, MeshTypedNext, StoredNext DEF MeshInv
  <2>2. IF "fields" \in sound' THEN Order' ELSE Timeless'
    <3>1. CASE Restart
      BY <3>1, RestartKeeps
    <3>2. CASE ~Restart
      <4>1. sound' = sound
        BY <1>1, <3>2 DEF MeshNext, StepLevel, RestrictProlong, Regrid, EndOfStep,
                          WriteCheckpoint, WriteHoles, OpenGrids, WriteGrids, Crash
      <4> QED  BY <1>1, <3>2, <4>1, OrderNext, StaysTimeless DEF MeshInv
    <3> QED  BY <3>1, <3>2
  <2> QED  BY <2>1, <2>2 DEF MeshInv
<1>2. CASE UNCHANGED meshVars
  BY <1>2, MeshStutter
<1> QED
  BY <1>1, <1>2 DEF BlackholeNext, Evolve, Surface_Only_Benchmark, Exit, blackholeVars

\* The inductive invariant of the evolution: which levels are under way, since
\* when, and what each of their zones and time levels holds.
THEOREM MeshInvariant == BlackholeSpec => []MeshInv
<1>1. BlackholeInit => MeshInv
  BY MeshInitInv DEF BlackholeInit
<1> QED  BY <1>1, MeshInvNext, PTL DEF BlackholeSpec
-----------------------------------------------------------------------------
(***************************************************************************)
(* What follows from the invariant.                                        *)
(***************************************************************************)
LEMMA MeshInvAligns == MeshInv => LevelsAligned
<1> SUFFICES ASSUME MeshInv, "fields" \in sound
             PROVE  /\ at = "step" => AllAt({level}, state[level]["inner"])
                    /\ at \in Saving =>
                          /\ AllAt(Depths, state[0]["inner"])
                          /\ \A l \in Depths, z \in Zones :
                                old[l][z] = state[0]["inner"] - Dt(l)
  BY DEF LevelsAligned, Saving
<1>0. /\ Order /\ level \in Depths /\ 0 \in Depths /\ Now \in Nat /\ "inner" \in Zones
      /\ Dt(0) \in Nat \ {0}
  BY StepFacts DEF MeshInv, MeshTyped, Order, Linked, Zones
<1>1. ASSUME NEW S \in SUBSET Depths, \A l \in S : Settled(l)
      PROVE  /\ AllAt(S, Now)
             /\ \A l \in S : state[l]["inner"] = Now
  <2>1. \A l \in S, z \in Zones : state[l][z] = Now
    BY <1>1, UniformZones DEF Settled
  <2>2. Now # NoTime
    BY <1>0 DEF NoTime
  <2>3. Trfls < Levels => \A l \in S : lt[l] = Now
    BY <1>0, <1>1, SettledClock DEF Order, Linked
  <2> QED  BY <1>0, <2>1, <2>2, <2>3 DEF AllAt, Order, Linked
<1>2. ASSUME at = "step" PROVE AllAt({level}, state[level]["inner"])
  <2>1. Settled(level)
    BY <1>0, <1>2, DepthFacts DEF Order, Stacked, Climbing
  <2>2. /\ AllAt({level}, Now)
        /\ \A l \in {level} : state[l]["inner"] = Now
    BY <1>0, <1>1, <2>1
  <2> QED  BY <2>2
<1>3. ASSUME at \in Saving
      PROVE  /\ AllAt(Depths, state[0]["inner"])
             /\ \A l \in Depths, z \in Zones : old[l][z] = state[0]["inner"] - Dt(l)
  <2>1. (\A l \in Depths : Settled(l)) /\ Now # 0
    BY <1>0, <1>3 DEF Order, Resting
  <2>2. AllAt(Depths, Now) /\ state[0]["inner"] = Now
    BY <1>0, <1>1, <2>1
  <2>3. \A l \in Depths, z \in Zones : old[l][z] = Now - Dt(l)
    BY <2>1, UniformZones DEF Settled, Before
  <2> QED  BY <2>2, <2>3
<1> QED  BY <1>2, <1>3

\* Each level is stepped from fields of one time, and a step of Evolve ends with
\* all levels there: for any number of levels, any start of the refinement in time
\* (also one that no level reaches, where PhysTime is another time), whichever
\* boxes moved, and after any crashes and restarts. After a crash in the middle of
\* a checkpoint it is said of the fields only, or of nothing any more.
THEOREM EveryLevelAligned == BlackholeSpec => []LevelsAligned
  BY MeshInvariant, MeshInvAligns, PTL

LEMMA MeshInvBlends == MeshInv => BlendsBracket
<1> DEFINE p == level - 1
           d == Dt(level)
           q == Begin(p)
           upper == state[p]["inner"]
<1> SUFFICES ASSUME MeshInv, "fields" \in sound,
                    \/ at = "restrict" /\ Midway(level)
                    \/ at = "regrid" /\ level > Trfls /\ MayMove(level)
             PROVE  /\ old[p]["inner"] = upper - Dt(p)
                    /\ Later(level) <=> cor[p]["inner"] # NoTime
                    /\ Later(level) => cor[p]["inner"] = upper - 2 * Dt(p)
                    /\ upper - d =
                          IF at = "restrict" THEN state[level]["inner"]
                                             ELSE old[level]["inner"]
  BY DEF BlendsBracket
<1>0. /\ level \in Depths /\ "inner" \in Zones /\ Now \in Nat
      /\ MeshTyped /\ Order /\ NoTime = -1
      /\ \A l \in Depths : l \in Nat /\ Dt(l) \in Nat \ {0}
  BY DepthFacts DEF MeshInv, MeshTyped, Order, Linked, Zones, NoTime
<1>1. level > Trfls
  BY DEF Midway
<1>2. ASSUME at = "restrict" PROVE iter[level] = 0
  <2>1. iter[level] \in 0 .. Iterations(level) - 1 /\ Midway(level)
    BY <1>0, <1>2 DEF Order, Nested, Climbing
  <2> QED  BY <2>1 DEF Midway, Iterations
<1>3. Blending
  BY <1>1, <1>2 DEF Blending
<1>4. /\ level # 0 /\ p \in Depths /\ Dt(p) = 2 * d /\ (Later(level) <=> q # 0)
      /\ Now = q + (IF at = "restrict" THEN 1 ELSE 2) * d
      /\ UnderWay(p) /\ q \in Nat /\ (q = 0 \/ q >= Dt(p))
  BY <1>0, <1>3, LaterIsRight, ParentFacts DEF Possible, Blending
<1>5. /\ upper = q + Dt(p) /\ old[p]["inner"] = q
      /\ cor[p]["inner"] = IF q = 0 THEN NoTime ELSE q - Dt(p)
  BY <1>0, <1>4, AheadZones, UniformZones DEF UnderWay, Before, Blank
<1>6. upper - d = IF at = "restrict" THEN state[level]["inner"] ELSE old[level]["inner"]
  <2>1. CASE at = "restrict"
    <3>1. UnderWay(level) /\ Begin(level) + d = Now
      BY <1>0, <1>4, <2>1, ParentFacts DEF Order, Stacked, Climbing
    <3>2. state[level]["inner"] = Now
      BY <3>1, AheadZones DEF UnderWay
    <3>3. Now = q + d
      BY <1>0, <1>4, <2>1
    <3> HIDE DEF d, q, upper
    <3> QED  BY <1>0, <1>4, <1>5, <2>1, <3>2, <3>3 DEF d
  <2>2. CASE at = "regrid"
    <3>1. Settled(level)
      BY <1>0, <2>2 DEF Order, Stacked, Climbing
    <3>2. Now = q + 2 * d /\ Now # 0
      BY <1>0, <1>4, <2>2
    <3>3. old[level]["inner"] = Now - d
      BY <1>0, <3>1, <3>2, UniformZones DEF Settled, Before
    <3> HIDE DEF q, upper
    <3> QED  BY <1>0, <1>4, <1>5, <2>2, <3>2, <3>3
  <2> QED  BY <2>1, <2>2
<1>7. q # 0 => q - Dt(p) # NoTime /\ q - Dt(p) = upper - 2 * Dt(p)
  BY <1>0, <1>4, <1>5 DEF NoTime
<1>8. old[p]["inner"] = upper - Dt(p)
  BY <1>0, <1>4, <1>5
<1> QED  BY <1>4, <1>5, <1>6, <1>7, <1>8

\* A boundary in the middle of the parent's step is interpolated from two time
\* levels in the first step after the start and from three in all others, which
\* is when the parent has three; a restart changes nothing about that.
THEOREM BlendsAreBracketed == BlackholeSpec => []BlendsBracket
  BY MeshInvariant, MeshInvBlends, PTL

-----------------------------------------------------------------------------
(***************************************************************************)
(* The order of the levels.                                                *)
(***************************************************************************)
\* A step is taken by a level that is behind its parent, when the finer ones
\* are not behind it.
LEMMA StepAdvances ==
    ASSUME MeshTyped, Order, StepLevel
    PROVE  \E l \in Depths : Abstract!Advance(l)
<1> SUFFICES ASSUME NEW L, L = level, NEW t, t = Now
             PROVE  Abstract!Advance(L) /\ L \in Depths
  OBVIOUS
<1>0. /\ L \in Depths /\ t \in Nat /\ t # NoTime /\ at = "step" /\ Climbing /\ "inner" \in Zones
      /\ \A l \in Depths : l \in Nat /\ Dt(l) \in Nat \ {0}
  BY DepthFacts DEF StepLevel, Climbing, MeshTyped, Order, Linked, Zones, NoTime
<1>1. \A l \in Depths : l >= L => Settled(l)
  BY <1>0 DEF Order, Stacked
<1>2. \A l \in Depths : l >= L => Clock[l] = t
  BY <1>0, <1>1, SettledClock
<1>3. ASSUME L > 0 PROVE Clock[L] + Dt(L) <= Clock[L - 1]
  <2> DEFINE p == L - 1
             q == Begin(p)
  <2>1. /\ p \in Depths /\ p < L /\ L # 0
        /\ Dt(p) = IF L > Trfls THEN 2 * Dt(L) ELSE Dt(L)
    BY <1>0, <1>3, StepFacts
  <2>2. UnderWay(p) /\ q \in Nat /\ p <= L
    BY <1>0, <2>1 DEF Order, Stacked, Nested, Possible
  <2>3. Clock[p] = q + Dt(p)
    BY <2>1, <2>2, AheadZones DEF Clock, UnderWay
  <2>4. t = q + (IF iter[L] = 0 THEN 0 ELSE Dt(L)) /\ iter[L] \in 0 .. Iterations(L) - 1
    <3>1. Begin(L) = t
      BY <1>0 DEF Begin
    <3> QED  BY <1>0, <2>1, <3>1 DEF Order, Nested
  <2>5. t + Dt(L) <= q + Dt(p)
    <3>1. L > Trfls \/ (~(L > Trfls) /\ L <= Trfls)
      BY <1>0, MeshAssumption
    <3>2. iter[L] = 0 \/ (iter[L] = 1 /\ L > Trfls)
      BY <2>4, <3>1 DEF Iterations
    <3>3. Dt(L) \in Nat
      BY <1>0
    <3> HIDE DEF q, p
    <3> QED  BY <2>1, <2>2, <2>4, <3>1, <3>2, <3>3
  <2> QED  BY <1>0, <1>2, <2>3, <2>5
<1>4. Clock' = [Clock EXCEPT ![L] = @ + Dt(L)]
  <2>1. state' = [state EXCEPT ![L] = Stepped(L, t)]
    <3>1. Settled(L)
      BY <1>0, <1>1
    <3>2. Whole(state[L]) = t
      BY <3>1, WholeUniform DEF Settled
    <3> QED  BY <1>0, <3>2 DEF StepLevel, Rotate
  <2>2. Stepped(L, t)["inner"] = t + Dt(L)
    BY <1>0, SteppedZones, AheadZones
  <2>3. \A l \in Depths : Clock'[l] = IF l = L THEN Clock[l] + Dt(L) ELSE Clock[l]
    BY <1>0, <1>2, <2>1, <2>2 DEF Clock, MeshTyped
  <2> QED  BY <1>0, <2>3 DEF Clock
<1>5. disk' = disk
  BY DEF StepLevel
<1> QED  BY <1>0, <1>2, <1>3, <1>4, <1>5 DEF Abstract!Advance, Clock

\* What the loop of Evolve does: all levels are at one time.
LEMMA TogetherThere ==
    ASSUME MeshInv, at \in Saving
    PROVE  \A l \in Depths : Clock[l] = Clock[0]
<1>1. CASE "fields" \in sound
  BY <1>1, SettledClock, StepFacts DEF MeshInv, Order, Resting
<1>2. CASE "fields" \notin sound
  <2>1. \A l \in Depths : Clock[l] = NoTime
    BY <1>2, UniformZones DEF MeshInv, Timeless, Unread, Blank, Clock, Zones
  <2> QED  BY <2>1, StepFacts
<1> QED  BY <1>1, <1>2

LEMMA CheckpointSaves ==
    ASSUME MeshInv, EndOfStep \/ WriteCheckpoint
    PROVE  \/ Abstract!GiveUp \/ Abstract!Save
           \/ UNCHANGED <<Clock, disk.state[0]["inner"]>>
<1> DEFINE saved == disk.state[0]["inner"]
<1>0. /\ Clock' = Clock /\ 0 \in Depths /\ "inner" \in Zones
      /\ disk = [written |-> disk.written, time |-> disk.time, holes |-> disk.holes,
                 sound |-> disk.sound, state |-> disk.state, old |-> disk.old]
  BY ClockKept, StepFacts
     DEF EndOfStep, WriteCheckpoint, WriteHoles, OpenGrids, WriteGrids, fields, Zones,
         MeshInv, Stored
<1>1. CASE EndOfStep \/ WriteHoles
  <2>1. disk'.state = disk.state
    BY <1>0, <1>1 DEF EndOfStep, WriteHoles
  <2> QED  BY <1>0, <2>1
<1>2. CASE OpenGrids
  <2>1. saved' = NoTime
    <3>1. disk'.state = Unread
      BY <1>0, <1>2 DEF OpenGrids
    <3> QED  BY <1>0, <3>1, UniformZones DEF Unread, Blank
  <2>2. \A l \in Depths : Clock[l] = Clock[0]
    BY <1>2, TogetherThere DEF OpenGrids, Saving
  <2> QED  BY <1>0, <2>1, <2>2 DEF Abstract!GiveUp, Abstract!Together, Clock
<1>3. CASE WriteGrids
  <2>1. saved' = Clock[0]
    <3>1. disk'.state = state
      BY <1>0, <1>3 DEF WriteGrids
    <3> QED  BY <1>0, <3>1 DEF Clock
  <2>2. \A l \in Depths : Clock[l] = Clock[0]
    BY <1>3, TogetherThere DEF WriteGrids, Saving
  <2> QED  BY <1>0, <2>1, <2>2 DEF Abstract!Save, Abstract!Together, Clock
<1> QED  BY <1>1, <1>2, <1>3 DEF WriteCheckpoint

LEMMA RestartStartsAgain ==
    ASSUME MeshInv, Restart
    PROVE  Abstract!StartAgain
<1> DEFINE saved == disk.state[0]["inner"]
<1>1. disk' = disk /\ state' = disk.state
  BY DEF Restart, StartFrom, MeshInv, Stored, Writing
<1>2. \A l \in Depths : disk.state[l]["inner"] = saved
  BY UniformZones, StepFacts DEF MeshInv, Stored, DiskFields, Unread, Zones
<1>3. Clock' = [l \in Depths |-> saved]
  BY <1>1, <1>2 DEF Clock
<1> QED  BY <1>1, <1>3 DEF Abstract!StartAgain, Clock

LEMMA MeshStepRefines ==
    ASSUME MeshInv, [BlackholeNext]_blackholeVars
    PROVE  [Abstract!SubcyclingNext]_<<Clock, disk.state[0]["inner"]>>
<1>1. CASE EndOfStep \/ WriteCheckpoint
  BY <1>1, CheckpointSaves DEF Abstract!SubcyclingNext, Clock
<1>2. CASE Restart
  BY <1>2, RestartStartsAgain DEF Abstract!SubcyclingNext
<1>3. CASE Crash
  BY <1>3, ClockKept DEF Crash, fields
<1>4. CASE UNCHANGED meshVars
  BY <1>4, ClockKept DEF meshVars, fields
<1>5. CASE StepLevel \/ RestrictProlong \/ Regrid
  <2>1. disk' = disk /\ MeshTyped
    BY <1>5 DEF StepLevel, RestrictProlong, Regrid, MeshInv
  <2>2. CASE "fields" \notin sound
    <3>1. MeshNext /\ ~Restart /\ Timeless
      BY <1>5, <2>2 DEF MeshNext, Restart, StepLevel, RestrictProlong, Regrid, MeshInv
    <3>2. state' = state
      BY <2>1, <3>1, StaysTimeless DEF Timeless, Unread
    <3> QED  BY <2>1, <3>2, ClockKept
  <2>3. CASE "fields" \in sound
    <3>1. Order
      BY <2>3 DEF MeshInv
    <3>2. CASE StepLevel
      BY <2>1, <3>1, <3>2, StepAdvances DEF Abstract!SubcyclingNext
    <3>3. CASE RestrictProlong
      <4>1. CASE level # 0
        <5>1. Exchange(level)
          BY <2>1, <3>3, <4>1, DepthFacts DEF RestrictProlong, MeshTyped
        <5>2. Clock' = Clock
          BY <2>1, <3>1, <3>3, <4>1, <5>1, ExchangeKeepsClock DEF RestrictProlong
        <5> QED  BY <2>1, <5>2
      <4>2. CASE level = 0
        <5>1. state' = state
          BY <3>3, <4>2 DEF RestrictProlong
        <5> QED  BY <2>1, <5>1, ClockKept
      <4> QED  BY <4>1, <4>2
    <3>4. CASE Regrid
      <4>1. \A l \in Depths : state'[l] = state[l]
        BY <2>1, <3>1, <3>4, RecomposeDoes DEF Regrid, fields
      <4> QED  BY <2>1, <4>1, ClockKept
    <3> QED  BY <1>5, <3>2, <3>3, <3>4
  <2> QED  BY <2>2, <2>3
<1> QED
  BY <1>1, <1>2, <1>3, <1>4, <1>5
     DEF BlackholeNext, Evolve, MeshNext, Surface_Only_Benchmark, Exit, blackholeVars

\* The recursion over the levels, with everything it exchanges and moves, is
\* the order of Subcycling: for any number of levels and wherever refinement in
\* time begins.
THEOREM SubcyclingImplemented == BlackholeSpec => ImplementsSubcycling
<1>1. BlackholeInit => Abstract!SubcyclingInit
  <2> SUFFICES ASSUME BlackholeInit PROVE Abstract!SubcyclingInit
    OBVIOUS
  <2>1. disk.state[0]["inner"] = 0 /\ \A l \in Depths : state[l]["inner"] = 0
    BY UniformZones, StepFacts DEF BlackholeInit, MeshInit, InitialData, Zones
  <2> QED  BY <2>1 DEF Abstract!SubcyclingInit
<1>2. MeshInv /\ [BlackholeNext]_blackholeVars
      => [Abstract!SubcyclingNext]_<<[l \in Depths |-> state[l]["inner"]],
                                     disk.state[0]["inner"]>>
  BY MeshStepRefines DEF Clock
<1> QED
  BY <1>1, <1>2, MeshInvariant, PTL
     DEF BlackholeSpec, ImplementsSubcycling, Abstract!Subcycles
=============================================================================
