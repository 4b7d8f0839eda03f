------------------------ MODULE AnalyzedGame_proofs ------------------------
(***************************************************************************)
(* Proofs about AnalyzedGame, for every game: what GameManager writes can  *)
(* be read line by line and analysed event by event, the header that       *)
(* RecordParser works out for a round is the one the game is played with,  *)
(* and what StreamingAnalyzer reports of a player is what was decided. The *)
(* invariant of the game is IInv of GameManager_proofs; ReaderInv says how *)
(* far the reader is, and AnalyzerInv what the open decision waits for.    *)
(***************************************************************************)
EXTENDS AnalyzedGame, GameManager_proofs, SequenceTheorems

(***************************************************************************)
(* The inductive invariant, by parts. Leading events are written together  *)
(* with one that follows them, and the game never rests on one.            *)
(***************************************************************************)
Leading == {"GAME", "RIICHI", "RIICHI_ACCEPTED", "DORA", "CHII", "PON"}

\* What the game is at between two calls.
Rests ==
    /\ rec.last.type \notin Leading
    /\ rec.last.type = "ROUND" => rec = FreshRecord
    /\ rec.last.type \in Results => (rec.won <=> rec.last.type = "WIN")

ParserTypeOK ==
    /\ pendingEvent \in Events
    /\ handMask \subseteq Players
    /\ flags \in [game : BOOLEAN, firstRound : BOOLEAN, ended : BOOLEAN, result : BOOLEAN]
    /\ fields \in Headers
    /\ unread \in Seq(Events)
    /\ linesRead \in 0 .. 4

Upcoming(types) == unread # <<>> /\ unread[1].type \in types

\* The events that are left are the end of what one call wrote.
Unread ==
    /\ unread # <<>> => unread[Len(unread)] = rec.last
    /\ \A i \in 1 .. Len(unread) - 1 : unread[i].type \in Leading
    /\ \A i \in 2 .. Len(unread) : unread[i].type \notin {"GAME", "RIICHI_ACCEPTED"}
    /\ rec.last.type \in Over => Len(unread) <= 1
    /\ rec.last.type = "ROUND" => Len(unread) <= 1 \/ Upcoming({"GAME"})
    /\ Upcoming({"GAME"}) => rec.last.type = "ROUND" /\ Len(unread) = 2
    /\ linesRead > 0 => Upcoming(Owners \cup {"WIN"})

\* feed_line has been told of a result, and of nothing behind it.
AtResult ==
    \/ unread = <<>> /\ rec.last.type \in Results
    \/ linesRead = 0 /\ ~flags.firstRound /\ Upcoming({"ROUND", "END_GAME"})

FlagsAgree ==
    /\ flags.game <=> ~Upcoming({"GAME"})
    /\ ~flags.game => flags.firstRound
    /\ flags.firstRound =>
        unread # <<>> /\ rec.last.type = "ROUND" /\ linesRead = 0 /\ header = origin
    /\ flags.ended <=> unread = <<>> /\ rec.last.type = "END_GAME"
    /\ flags.result => AtResult \/ flags.ended
    /\ AtResult => AfterResult
    /\ unread = <<>> => lastEvent = <<rec.last>>

\* The event that is being read, and which of its lines came.
PendingAgrees ==
    /\ linesRead = 0 => pending = "NONE"
    /\ linesRead > 0 => pendingEvent = unread[1]
    /\ linesRead > 0 /\ Upcoming({"WIN"}) => pending = "WIN_RESULT" /\ linesRead = 1
    /\ linesRead > 0 /\ Upcoming(Owners) =>
        pending = "HANDS" /\ handMask = {p \in Players : p < linesRead - 1}

\* The header is the one of the game, as soon as the line that changes it came.
Played == [header EXCEPT !.deposit = KeptDeposit(header, rec)]

FieldsAgree ==
    flags.game =>
        IF Upcoming({"RIICHI_ACCEPTED"}) THEN [fields EXCEPT !.deposit = @ + 1] = Played
        ELSE IF Upcoming({"ROUND"}) /\ linesRead = 0 /\ ~flags.firstRound
        THEN NextFields(fields, lastEvent[1]) = Played
        ELSE fields = Played

ReaderInv ==
    /\ ~parserFailed
    /\ Rests
    /\ ParserTypeOK
    /\ Unread
    /\ FlagsAgree
    /\ PendingAgrees
    /\ FieldsAgree

(***************************************************************************)
(* A call of proceed_game. What it writes ends with the event the game     *)
(* rests on, and a riichi is accepted by the first event or by none.       *)
(***************************************************************************)
Batch(b, last) ==
    /\ b \in Seq(Events)
    /\ b # <<>>
    /\ b[Len(b)] = last
    /\ last.type \notin Leading
    /\ \A i \in 1 .. Len(b) - 1 : b[i].type \in Leading \ {"GAME"}
    /\ \A i \in 2 .. Len(b) : b[i].type # "RIICHI_ACCEPTED"
    /\ last.type \in Over \cup {"ROUND"} => Len(b) = 1

Paid(b) == IF b[1].type = "RIICHI_ACCEPTED" THEN 1 ELSE 0

\* What the reader has to know of a call.
Called ==
    /\ Batch(wrote', rec'.last)
    /\ Rests'
    /\ UNCHANGED origin
    /\ rec.last.type # "END_GAME"
    /\ rec.last.type \in Results <=> rec'.last.type \in {"ROUND", "END_GAME"}
    /\ IF rec'.last.type = "ROUND"
       THEN header' = NextHeader(header, rec.last)
       ELSE header' = header /\ Count(rec'.accepted) = Count(rec.accepted) + Paid(wrote')

\* What Write puts together.
LEMMA Together ==
    ASSUME NEW e \in Events, NEW f \in Events
    PROVE  /\ <<>> \o <<e>> = <<e>>
           /\ <<>> \o <<e, f>> = <<e, f>>
           /\ <<e>> \o <<f>> = <<e, f>>
           /\ \A g \in Events : <<e>> \o <<f, g>> = <<e, f, g>>
<1>1. <<e>> \in Seq(Events) /\ <<f>> \in Seq(Events) /\ <<e, f>> \in Seq(Events)
  OBVIOUS
<1>2. <<>> \o <<e>> = <<e>> /\ <<>> \o <<e, f>> = <<e, f>>
  BY <1>1, ConcatEmptySeq
<1>3. <<e>> \o <<f>> = <<e, f>>
  <2> DEFINE s == <<e>> \o <<f>>
             t == <<e, f>>
  <2>1. s \in Seq(Events) /\ Len(s) = 2 /\ s[1] = e /\ s[2] = f
    BY <1>1, ConcatProperties
  <2>2. t \in Seq(Events) /\ Len(t) = 2 /\ t[1] = e /\ t[2] = f
    OBVIOUS
  <2> HIDE DEF s, t
  <2>3. s = t
    BY <2>1, <2>2, SeqEqual
  <2> QED
    BY <2>3 DEF s, t
<1>4. ASSUME NEW g \in Events PROVE <<e>> \o <<f, g>> = <<e, f, g>>
  <2> DEFINE s == <<e>> \o <<f, g>>
             t == <<e, f, g>>
  <2>1. <<f, g>> \in Seq(Events) /\ Len(<<f, g>>) = 2
    OBVIOUS
  <2>2. s \in Seq(Events) /\ Len(s) = 3 /\ s[1] = e /\ s[2] = f /\ s[3] = g
    BY <1>1, <2>1, ConcatProperties
  <2>3. t \in Seq(Events) /\ Len(t) = 3 /\ t[1] = e /\ t[2] = f /\ t[3] = g
    OBVIOUS
  <2> HIDE DEF s, t
  <2>4. s = t
    BY <2>2, <2>3, SeqEqual
  <2> QED
    BY <2>4 DEF s, t
<1> QED
  BY <1>2, <1>3, <1>4

LEMMA BatchOfOne ==
    ASSUME NEW e \in Events, e.type \notin Leading
    PROVE  Batch(<<e>>, e) /\ (Paid(<<e>>) = 0)
  BY DEF Batch, Paid, Leading

LEMMA BatchOfTwo ==
    ASSUME NEW e \in Events, NEW f \in Events,
           e.type \in Leading \ {"GAME"},
           f.type \notin Leading \cup Over \cup {"ROUND"}
    PROVE  Batch(<<e, f>>, f)
<1> DEFINE b == <<e, f>>
<1>1. b \in Seq(Events) /\ Len(b) = 2 /\ b[1] = e /\ b[2] = f /\ b # <<>>
  OBVIOUS
<1> HIDE DEF b
<1>2. \A i \in 1 .. Len(b) - 1 : i = 1
  BY <1>1
<1>3. \A i \in 2 .. Len(b) : i = 2
  BY <1>1
<1>4. f.type # "RIICHI_ACCEPTED"
  BY DEF Leading
<1>5. Batch(b, f)
  BY <1>1, <1>2, <1>3, <1>4 DEF Batch
<1> QED
  BY <1>5 DEF b

LEMMA BatchOfThree ==
    ASSUME NEW e \in Events, NEW f \in Events, NEW g \in Events,
           e.type \in Leading \ {"GAME"},
           f.type \in Leading \ {"GAME", "RIICHI_ACCEPTED"},
           g.type \notin Leading \cup Over \cup {"ROUND"}
    PROVE  Batch(<<e, f, g>>, g)
<1> DEFINE b == <<e, f, g>>
<1>1. b \in Seq(Events) /\ Len(b) = 3 /\ b[1] = e /\ b[2] = f /\ b[3] = g /\ b # <<>>
  OBVIOUS
<1> HIDE DEF b
<1>2. \A i \in 1 .. Len(b) - 1 : i = 1 \/ i = 2
  BY <1>1
<1>3. \A i \in 2 .. Len(b) : i = 2 \/ i = 3
  BY <1>1
<1>4. g.type # "RIICHI_ACCEPTED"
  BY DEF Leading
<1>5. Batch(b, g)
  BY <1>1, <1>2, <1>3, <1>4 DEF Batch
<1> QED
  BY <1>5 DEF b

\* A riichi that is accepted puts one stick on the table, another event none.
LEMMA SticksOfStep ==
    ASSUME NEW r \in Records, NEW e \in Events
    PROVE  /\ e.type # "RIICHI_ACCEPTED" =>
                Count(AfterEvent(r, e).accepted) = Count(r.accepted)
           /\ e.type = "RIICHI_ACCEPTED" /\ e.player \in Players /\ ~r.accepted[e.player] =>
                Count(AfterEvent(r, e).accepted) = Count(r.accepted) + 1
           /\ Count(r.accepted) \in Nat
<1> DEFINE n == AfterEvent(r, e)
           b(x, p) == IF x[p] THEN 1 ELSE 0
<1>1. \A p \in Players : n.accepted[p] =
         (r.accepted[p] \/ (e.type = "RIICHI_ACCEPTED" /\ e.player = p))
  BY LastOfStep
<1>2. \A p \in Players : r.accepted[p] \in BOOLEAN
  BY DEF Records
<1>3. \A x : Count(x) = b(x, 0) + b(x, 1) + b(x, 2) + b(x, 3)
  BY DEF Count, Sum, Players
<1>4. 0 \in Players /\ 1 \in Players /\ 2 \in Players /\ 3 \in Players
      /\ \A p \in Players : p = 0 \/ p = 1 \/ p = 2 \/ p = 3
  BY DEF Players
<1> HIDE DEF n
<1>5. ASSUME e.type # "RIICHI_ACCEPTED"
      PROVE  Count(n.accepted) = Count(r.accepted)
  <2>1. \A p \in Players : b(n.accepted, p) = b(r.accepted, p)
    BY <1>1, <1>2, <1>5
  <2> HIDE DEF b
  <2> QED
    BY <1>3, <1>4, <2>1
<1>6. ASSUME e.type = "RIICHI_ACCEPTED", e.player \in Players, ~r.accepted[e.player]
      PROVE  Count(n.accepted) = Count(r.accepted) + 1
  <2>1. \A p \in Players \ {e.player} : b(n.accepted, p) = b(r.accepted, p)
    BY <1>1, <1>2, <1>6
  <2>2. b(n.accepted, e.player) = 1 /\ b(r.accepted, e.player) = 0
    BY <1>1, <1>2, <1>6
  <2>3. \A p \in Players : b(r.accepted, p) \in Int /\ b(n.accepted, p) \in Int
    OBVIOUS
  <2> HIDE DEF b
  <2> QED
    BY <1>3, <1>4, <1>6, <2>1, <2>2, <2>3
<1>7. Count(r.accepted) \in Nat
  BY <1>3
<1> QED
  BY <1>5, <1>6, <1>7 DEF n

\* A call that writes one event.
LEMMA CallOfOne ==
    ASSUME IInv, rec.last.type \notin Over, NEW e \in Events,
           e.type \notin Leading \cup {"ROUND", "END_GAME"},
           Write(<<>>, <<e>>)
    PROVE  Called /\ wrote' = <<e>>
<1>1. rec \in Records /\ rec.won \in BOOLEAN /\ ~rec.won
  BY DEF IInv, TypeOK, Records, Good, SeatGood
<1>2. /\ wrote' = <<e>> /\ rec' = AfterEvent(rec, e)
      /\ UNCHANGED <<origin, header>>
  <2>1. <<>> \o <<e>> = <<e>>
    BY Together
  <2>2. AfterEvents(AfterEvents(rec, <<>>), <<e>>) = AfterEvent(rec, e)
    BY DEF AfterEvents
  <2> QED
    BY <2>1, <2>2 DEF Write
<1>3. rec'.last = e /\ rec'.won = (rec.won \/ e.type = "WIN")
  BY <1>1, <1>2, LastOfStep
<1>4. Batch(wrote', rec'.last) /\ Paid(wrote') = 0
  BY <1>2, <1>3, BatchOfOne
<1>5. Rests'
  BY <1>1, <1>3 DEF Rests, Leading, Results
<1>6. Count(rec'.accepted) = Count(rec.accepted) + 0
  BY <1>1, <1>2, SticksOfStep DEF Leading
<1>7. rec.last.type # "END_GAME" /\ rec.last.type \notin Results
  BY DEF Over
<1> QED
  BY <1>2, <1>3, <1>4, <1>5, <1>6, <1>7 DEF Called

\* A result is one event.
LEMMA CallOfResult ==
    ASSUME IInv, IInv', rec.last.type \notin Over,
           NEW type \in Results, NEW p, NEW moved, NEW ready,
           WriteResult(type, p, moved, ready)
    PROVE  /\ Called
           /\ \E e \in Events : wrote' = <<e>> /\ e.type = type /\ e.player = p
<1> DEFINE e == Result(type, p, Plus(Scores(header, rec), moved), ready)
<1>1. Write(<<>>, <<e>>) /\ e.type = type /\ e.player = p
  BY DEF WriteResult, Result
<1> HIDE DEF e
<1>2. rec' = AfterEvent(rec, e)
  BY <1>1 DEF Write, AfterEvents
<1>3. e \in Events
  <2>1. rec'.last = e
    BY <1>2 DEF AfterEvent
  <2> QED
    BY <2>1 DEF IInv, TypeOK, Records
<1> QED
  BY <1>1, <1>3, CallOfOne DEF Leading, Results

\* A call that writes two events, the first of which may settle the last discard.
LEMMA CallOfTwo ==
    ASSUME IInv, rec.last.type \notin Over, NEW e \in Events, NEW f \in Events,
           e.type \in Leading \ {"GAME"},
           f.type \notin Leading \cup Over \cup {"ROUND"},
           e.type = "RIICHI_ACCEPTED" => e.player \in Players /\ ~rec.accepted[e.player],
           AfterEvent(rec, e) \in Records,
           Write(<<>>, <<e, f>>) \/ Write(<<e>>, <<f>>)
    PROVE  Called /\ wrote' = <<e, f>>
<1> DEFINE n == AfterEvent(rec, e)
<1>1. rec \in Records /\ rec.won \in BOOLEAN /\ ~rec.won
  BY DEF IInv, TypeOK, Records, Good, SeatGood
<1>2. /\ wrote' = <<e, f>> /\ rec' = AfterEvent(n, f)
      /\ UNCHANGED <<origin, header>>
  <2>1. <<>> \o <<e, f>> = <<e, f>> /\ <<e>> \o <<f>> = <<e, f>>
    BY Together
  <2>2. /\ AfterEvents(AfterEvents(rec, <<>>), <<e, f>>) = AfterEvent(n, f)
        /\ AfterEvents(AfterEvents(rec, <<e>>), <<f>>) = AfterEvent(n, f)
    BY DEF AfterEvents
  <2> QED
    BY <2>1, <2>2 DEF Write
<1>3. Count(n.accepted) = Count(rec.accepted) + Paid(wrote')
  <2>1. Paid(wrote') = IF e.type = "RIICHI_ACCEPTED" THEN 1 ELSE 0
    BY <1>2 DEF Paid
  <2>2. Count(rec.accepted) \in Nat
    BY <1>1, SticksOfStep
  <2> QED
    BY <1>1, <2>1, <2>2, SticksOfStep
<1> HIDE DEF n
<1>4. n \in Records
  BY DEF n
<1>5. rec'.last = f /\ Count(rec'.accepted) = Count(n.accepted)
  BY <1>2, <1>4, LastOfStep, SticksOfStep DEF Leading
<1>6. Batch(wrote', rec'.last)
  BY <1>2, <1>5, BatchOfTwo
<1>7. Rests'
  BY <1>5 DEF Rests, Over
<1>8. rec.last.type # "END_GAME" /\ rec.last.type \notin Results
  BY DEF Over
<1> QED
  BY <1>2, <1>3, <1>5, <1>6, <1>7, <1>8 DEF Called, Over

\* A discard that is settled by an event, and called and followed by another.
LEMMA CallOfThree ==
    ASSUME IInv, rec.last.type \notin Over,
           NEW e \in Events, NEW f \in Events, NEW g \in Events,
           e.type \in Leading \ {"GAME"},
           f.type \in Leading \ {"GAME", "RIICHI_ACCEPTED"},
           g.type \notin Leading \cup Over \cup {"ROUND"},
           e.type = "RIICHI_ACCEPTED" => e.player \in Players /\ ~rec.accepted[e.player],
           AfterEvent(rec, e) \in Records,
           AfterEvent(AfterEvent(rec, e), f) \in Records,
           Write(<<e>>, <<f, g>>)
    PROVE  Called /\ wrote' = <<e, f, g>>
<1> DEFINE n == AfterEvent(rec, e)
           k == AfterEvent(n, f)
<1>1. rec \in Records
  BY DEF IInv, TypeOK, Records
<1>2. /\ wrote' = <<e, f, g>> /\ rec' = AfterEvent(k, g)
      /\ UNCHANGED <<origin, header>>
  <2>1. <<e>> \o <<f, g>> = <<e, f, g>>
    BY Together
  <2>2. AfterEvents(AfterEvents(rec, <<e>>), <<f, g>>) = AfterEvent(k, g)
    BY DEF AfterEvents
  <2> QED
    BY <2>1, <2>2 DEF Write
<1>3. Count(n.accepted) = Count(rec.accepted) + Paid(wrote')
  <2>1. Paid(wrote') = IF e.type = "RIICHI_ACCEPTED" THEN 1 ELSE 0
    BY <1>2 DEF Paid
  <2>2. Count(rec.accepted) \in Nat
    BY <1>1, SticksOfStep
  <2> QED
    BY <1>1, <2>1, <2>2, SticksOfStep
<1>4. Count(k.accepted) = Count(n.accepted)
  BY SticksOfStep
<1> HIDE DEF n, k
<1>5. k \in Records
  BY DEF n, k
<1>6. rec'.last = g /\ Count(rec'.accepted) = Count(k.accepted)
  BY <1>2, <1>5, LastOfStep, SticksOfStep DEF Leading
<1>7. Batch(wrote', rec'.last)
  BY <1>2, <1>6, BatchOfThree
<1>8. Rests'
  BY <1>6 DEF Rests, Over
<1>9. rec.last.type # "END_GAME" /\ rec.last.type \notin Results
  BY DEF Over
<1> QED
  BY <1>2, <1>3, <1>4, <1>6, <1>7, <1>8, <1>9 DEF Called, Over

(***************************************************************************)
(* What a call writes tells what the players decided: of a draw the next   *)
(* event does, and the discard that completes a riichi; of a discard the   *)
(* first event that does not settle it, and the discard of a CHII or PON.  *)
(***************************************************************************)
TellsMove(u, p, m) ==
    \/ \E e \in Events :
          /\ u = <<e>> /\ e.player = p
          /\ \/ e.type = m /\ m \in {"DISCARD", "CONCEALED_KAN", "UPGRADED_KAN", "WIN"}
             \/ e.type = "DRAWN_NINE_TERMINALS" /\ m = "NINE_TERMINALS"
    \/ \E e \in Events, d \in Events :
          /\ u = <<e, d>> /\ e.player = p /\ d.player = p
          /\ e.type = "RIICHI" /\ m = "RIICHI" /\ d.type = "DISCARD"

TellsAnswer(e, target, c) ==
    \/ e.type \in {"WIN", "OPEN_KAN"} /\ c[e.player] = e.type
    \/ /\ e.type \in {"DRAW", "DRAWN_EXHAUSTIVE"}
       /\ \A q \in Players \ {target} : c[q] = "PASS"
TellsCall(e, d, c) ==
    /\ e.type \in {"CHII", "PON"} /\ c[e.player] = e.type
    /\ d.type = "DISCARD" /\ d.player = e.player
TellsAnswers(u, target, c) ==
    \/ \E e \in Events : u = <<e>> /\ TellsAnswer(e, target, c)
    \/ \E e \in Events, d \in Events : u = <<e, d>> /\ TellsCall(e, d, c)
    \/ \E s \in Events, e \in Events :
          u = <<s, e>> /\ IsSideEffect(s) /\ TellsAnswer(e, target, c)
    \/ \E s \in Events, e \in Events, d \in Events :
          u = <<s, e, d>> /\ IsSideEffect(s) /\ TellsCall(e, d, c)

LEMMA FirstDrawCalled == ASSUME IInv, FirstDraw PROVE Called
<1> DEFINE e == Event("DRAW", header.dealer)
<1>1. rec.last.type = "ROUND" /\ header.dealer \in Players
  BY DEF IInv, FirstDraw, TypeOK, Headers
<1>2. e \in Events /\ e.type = "DRAW" /\ Write(<<>>, <<e>>)
  BY <1>1, EventFields DEF EventTypes, FirstDraw
<1> HIDE DEF e
<1> QED
  BY <1>1, <1>2, CallOfOne DEF Over, Results, Leading

LEMMA AfterOpenKanCalled == ASSUME IInv, AfterOpenKan PROVE Called
<1> DEFINE e == Event("DRAW", rec.last.player)
<1>1. rec.last.type = "OPEN_KAN" /\ rec.last.player \in Players
  BY DEF IInv, AfterOpenKan, Good, SeatGood, OfPlayer, EventTypes, Kans
<1>2. e \in Events /\ e.type = "DRAW" /\ Write(<<>>, <<e>>)
  BY <1>1, EventFields DEF EventTypes, AfterOpenKan
<1> HIDE DEF e
<1> QED
  BY <1>1, <1>2, CallOfOne DEF Over, Results, Leading

\* An event of no player and no result leaves a record.
LEMMA StepOfDora ==
    ASSUME IInv, NEW e \in Events, e.type \in {"DORA", "RIICHI_ACCEPTED", "RIICHI", "DRAW"}
    PROVE  AfterEvent(rec, e) \in Records
<1>1. rec \in Records /\ MeldsGood(rec)
  BY DEF IInv, Good
<1>2. e.type \notin Calls \cup {"CONCEALED_KAN"} /\ e.type # "UPGRADED_KAN"
  BY DEF Calls
<1> QED
  BY <1>1, <1>2, TypeStep

LEMMA AfterConcealedKanCalled == ASSUME IInv, AfterConcealedKan PROVE Called
<1> DEFINE d == Event("DORA", Nobody)
           e == Event("DRAW", rec.last.player)
<1>1. rec.last.type = "CONCEALED_KAN" /\ rec.last.player \in Players
  BY DEF IInv, AfterConcealedKan, Good, SeatGood, OfPlayer, EventTypes, Kans
<1>2. /\ d \in Events /\ d.type = "DORA" /\ e \in Events /\ e.type = "DRAW"
      /\ Write(<<>>, <<d, e>>)
  BY <1>1, EventFields DEF EventTypes, AfterConcealedKan
<1> HIDE DEF d, e
<1>3. AfterEvent(rec, d) \in Records
  BY <1>2, StepOfDora
<1> QED
  BY <1>1, <1>2, <1>3, CallOfTwo DEF Over, Results, Leading

LEMMA EndGameCalled == ASSUME IInv, IInv', EndGame PROVE Called
<1> DEFINE e == Result("END_GAME", Nobody, rec.last.scores, NotReady)
<1>1. rec \in Records /\ rec.last.type \in Results /\ Write(<<>>, <<e>>)
  BY DEF IInv, EndGame, TypeOK
<1>2. e.type = "END_GAME"
  BY DEF Result
<1> HIDE DEF e
<1>3. rec' = AfterEvent(rec, e) /\ UNCHANGED <<origin, header>>
  BY <1>1 DEF Write, AfterEvents
<1>4. rec'.last = e
  BY <1>3 DEF AfterEvent
<1>5. e \in Events
  BY <1>4 DEF IInv, TypeOK, Records
<1>6. wrote' = <<e>>
  BY <1>1, <1>5, Together DEF Write
<1>7. Batch(wrote', rec'.last) /\ Paid(wrote') = 0
  BY <1>2, <1>4, <1>5, <1>6, BatchOfOne DEF Leading
<1>8. Count(rec'.accepted) = Count(rec.accepted) /\ Count(rec.accepted) \in Nat
  BY <1>1, <1>2, <1>3, <1>5, SticksOfStep
<1>9. Rests'
  BY <1>2, <1>4 DEF Rests, Leading, Results
<1> QED
  BY <1>1, <1>2, <1>3, <1>4, <1>7, <1>8, <1>9 DEF Called, Results

LEMMA NextRoundCalled == ASSUME IInv, NextRound PROVE Called
<1> DEFINE e == Event("ROUND", Nobody)
<1>1. e \in Events /\ e.type = "ROUND" /\ FreshRecord.last = e
  BY EventFields DEF EventTypes, FreshRecord
<1>2. /\ header' = NextHeader(header, rec.last) /\ rec' = FreshRecord /\ wrote' = <<e>>
      /\ rec.last.type \in Results /\ origin' = origin
  BY DEF NextRound
<1> HIDE DEF e
<1>3. Batch(wrote', rec'.last)
  BY <1>1, <1>2, BatchOfOne DEF Leading
<1>4. Rests'
  BY <1>1, <1>2 DEF Rests, Leading, Results
<1> QED
  BY <1>1, <1>2, <1>3, <1>4 DEF Called, Results

\* The player who drew: a result, a riichi with its discard, or one event.
LEMMA MoveAfterDrawCalled ==
    ASSUME IInv, IInv', NEW m, MoveAfterDraw(m)
    PROVE  Called /\ TellsMove(wrote', rec.last.player, m)
<1> DEFINE p == rec.last.player
<1> SUFFICES Called /\ TellsMove(wrote', p, m)
  OBVIOUS
<1>1. /\ rec.last.type = "DRAW" /\ p \in Players /\ rec.last.type \notin Over
      /\ m \in AiMoves(rec, p)
  BY DEF IInv, MoveAfterDraw, Good, SeatGood, OfPlayer, EventTypes, Over, Results
<1> HIDE DEF p
<1>2. ASSUME NEW type \in {"WIN", "DRAWN_NINE_TERMINALS"}, NEW moved, NEW ready,
             WriteResult(type, p, moved, ready),
             m = IF type = "WIN" THEN "WIN" ELSE "NINE_TERMINALS"
      PROVE  Called /\ TellsMove(wrote', p, m)
  <2>1. /\ Called
        /\ \E e \in Events : wrote' = <<e>> /\ e.type = type /\ e.player = p
    BY <1>1, <1>2, CallOfResult DEF Results
  <2> QED
    BY <1>2, <2>1 DEF TellsMove
<1>3. CASE m = "RIICHI" /\ Write(<<>>, <<Event("RIICHI", p), Event("DISCARD", p)>>)
  <2> DEFINE e == Event("RIICHI", p)
             d == Event("DISCARD", p)
  <2>1. /\ e \in Events /\ e.type = "RIICHI" /\ e.player = p
        /\ d \in Events /\ d.type = "DISCARD" /\ d.player = p
        /\ Write(<<>>, <<e, d>>)
    BY <1>1, <1>3, EventFields DEF EventTypes
  <2> HIDE DEF e, d
  <2>2. AfterEvent(rec, e) \in Records
    BY <2>1, StepOfDora
  <2>3. Called /\ wrote' = <<e, d>>
    BY <1>1, <2>1, <2>2, CallOfTwo DEF Over, Results, Leading
  <2> QED
    BY <1>3, <2>1, <2>3 DEF TellsMove
<1>4. CASE /\ m \in {"DISCARD", "CONCEALED_KAN", "UPGRADED_KAN"}
           /\ Write(<<>>, <<Event(m, p)>>)
  <2> DEFINE e == Event(m, p)
  <2>1. e \in Events /\ e.type = m /\ e.player = p /\ Write(<<>>, <<e>>)
    BY <1>1, <1>4, EventFields DEF EventTypes, Kans
  <2> HIDE DEF e
  <2>2. Called /\ wrote' = <<e>>
    BY <1>1, <1>4, <2>1, CallOfOne DEF Leading
  <2> QED
    BY <1>4, <2>1, <2>2 DEF TellsMove
<1>5. \/ \E pay \in Payments : m = "WIN" /\ WriteResult("WIN", p, PointsMoveWin(p, p, pay), NotReady)
      \/ m = "NINE_TERMINALS" /\ WriteResult("DRAWN_NINE_TERMINALS", p, NoScores, NotReady)
      \/ m = "RIICHI" /\ Write(<<>>, <<Event("RIICHI", p), Event("DISCARD", p)>>)
      \/ /\ m \in {"DISCARD", "CONCEALED_KAN", "UPGRADED_KAN"}
         /\ Write(<<>>, <<Event(m, p)>>)
  BY DEF MoveAfterDraw, p
<1> QED
  BY <1>2, <1>3, <1>4, <1>5

\* When nobody answers so, the first who does is nobody.
LEMMA NobodyAnswers ==
    ASSUME NEW target \in Players, NEW c, NEW moves,
           FirstResponder(target, c, moves) = Nobody
    PROVE  \A q \in Players \ {target} : c[q] \notin moves
<1> DEFINE asking == {n \in 1 .. 3 : c[Seat(target, n)] \in moves}
           k == CHOOSE n \in asking : \A i \in asking : n <= i
<1>1. asking = {}
  <2> SUFFICES ASSUME asking # {} PROVE FALSE
    OBVIOUS
  <2>1. Seat(target, k) = Nobody
    BY DEF FirstResponder
  <2>2. \E n \in asking : \A i \in asking : n <= i
    <3>1. CASE 1 \in asking
      BY <3>1
    <3>2. CASE 1 \notin asking /\ 2 \in asking
      BY <3>2
    <3>3. CASE 1 \notin asking /\ 2 \notin asking
      BY <3>3
    <3> QED
      BY <3>1, <3>2, <3>3
  <2>3. k \in asking
    BY <2>2
  <2>4. k \in 1 .. 3
    BY <2>3
  <2> HIDE DEF k, asking
  <2> QED
    BY <2>1, <2>4 DEF Seat, Nobody, Players
<1>2. ASSUME NEW q \in Players \ {target} PROVE c[q] \notin moves
  <2>1. \E n \in 1 .. 3 : q = Seat(target, n)
    BY DEF Seat, Players
  <2> QED
    BY <1>1, <2>1
<1> QED
  BY <1>2

\* What settles a discard is a side effect to the analyzer.
LEMMA SettlesFirst ==
    ASSUME IInv, rec.last.type = "DISCARD",
           NEW s, AcceptRiichiOrDora(rec) = <<s>>
    PROVE  /\ s \in Events /\ s.type \in {"RIICHI_ACCEPTED", "DORA"}
           /\ s.type = "RIICHI_ACCEPTED" => s.player \in Players /\ ~rec.accepted[s.player]
           /\ AfterEvent(rec, s) \in Records /\ MeldsGood(AfterEvent(rec, s))
           /\ AfterEvent(rec, s).melds = rec.melds
<1> DEFINE a == Event("RIICHI_ACCEPTED", rec.last.player)
           d == Event("DORA", Nobody)
<1>1. /\ rec \in Records /\ MeldsGood(rec) /\ rec.last.player \in Players
      /\ rec.prev = "RIICHI" => ~rec.accepted[rec.last.player]
  BY DEF IInv, Good, SeatGood, OfPlayer, EventTypes, RiichiGood, Declaring
<1>2. /\ a \in Events /\ a.type = "RIICHI_ACCEPTED" /\ a.player = rec.last.player
      /\ d \in Events /\ d.type = "DORA"
  BY <1>1, EventFields DEF EventTypes
<1>3. (rec.prev = "RIICHI" /\ s = a) \/ s = d
  BY DEF AcceptRiichiOrDora
<1> HIDE DEF a, d
<1>4. /\ s \in Events /\ s.type \in {"RIICHI_ACCEPTED", "DORA"}
      /\ s.type = "RIICHI_ACCEPTED" => s.player \in Players /\ ~rec.accepted[s.player]
  BY <1>1, <1>2, <1>3
<1>5. s.type \notin Calls \cup {"CONCEALED_KAN"} /\ s.type # "UPGRADED_KAN"
  BY <1>4 DEF Calls
<1>6. AfterEvent(rec, s) \in Records /\ MeldsGood(AfterEvent(rec, s))
  BY <1>1, <1>4, <1>5, TypeStep
<1>7. AfterEvent(rec, s).melds = rec.melds
  <2>1. AfterEvent(rec, s).melds = [p \in Players |-> rec.melds[p] + 0]
    BY <1>5 DEF AfterEvent, Tally
  <2>2. \A p \in Players : rec.melds[p] \in Int
    BY <1>1, GameAssumption DEF Records
  <2>3. rec.melds = [p \in Players |-> rec.melds[p]]
    BY <1>1 DEF Records
  <2> QED
    BY <2>1, <2>2, <2>3
<1> QED
  BY <1>4, <1>6, <1>7

\* What settles a discard is one event or none.
LEMMA SettledByOne ==
    AcceptRiichiOrDora(rec) = <<>> \/ \E s : AcceptRiichiOrDora(rec) = <<s>>
  BY DEF AcceptRiichiOrDora

\* A discard that nobody wins: the next player draws, or it is called.
LEMMA GoesOnCalled ==
    ASSUME IInv, NEW target, NEW c, rec.last.type = "DISCARD",
           NEW move, Write(AcceptRiichiOrDora(rec), move),
           \/ \E e \in Events : e.type \in {"DRAW", "OPEN_KAN"} /\ move = <<e>>
                                /\ TellsAnswer(e, target, c)
           \/ \E e \in Events, d \in Events :
                 /\ TellsCall(e, d, c) /\ move = <<e, d>>
                 /\ e.player \in Players /\ rec.melds[e.player] < HandMelds
    PROVE  Called /\ TellsAnswers(wrote', target, c)
<1>1. /\ rec \in Records /\ MeldsGood(rec) /\ rec.last.type \notin Over
  BY DEF IInv, Good, Over, Results
<1>2. ASSUME NEW e \in Events, e.type \in {"DRAW", "OPEN_KAN"}, move = <<e>>,
             TellsAnswer(e, target, c)
      PROVE  Called /\ TellsAnswers(wrote', target, c)
  <2>1. CASE AcceptRiichiOrDora(rec) = <<>>
    <3>1. Write(<<>>, <<e>>)
      BY <1>2, <2>1
    <3>2. Called /\ wrote' = <<e>>
      BY <1>1, <1>2, <3>1, CallOfOne DEF Leading
    <3> QED
      BY <1>2, <3>2 DEF TellsAnswers
  <2>2. ASSUME NEW s, AcceptRiichiOrDora(rec) = <<s>>
        PROVE  Called /\ TellsAnswers(wrote', target, c)
    <3>1. Write(<<s>>, <<e>>)
      BY <1>2, <2>2
    <3>2. /\ s \in Events /\ s.type \in {"RIICHI_ACCEPTED", "DORA"}
          /\ s.type = "RIICHI_ACCEPTED" => s.player \in Players /\ ~rec.accepted[s.player]
          /\ AfterEvent(rec, s) \in Records
      BY <2>2, SettlesFirst
    <3>3. Called /\ wrote' = <<s, e>>
      BY <1>1, <1>2, <3>1, <3>2, CallOfTwo DEF Leading, Over, Results
    <3>4. IsSideEffect(s)
      BY <3>2 DEF IsSideEffect
    <3> QED
      BY <1>2, <3>2, <3>3, <3>4 DEF TellsAnswers
  <2> QED
    BY <2>1, <2>2, SettledByOne
<1>3. ASSUME NEW e \in Events, NEW d \in Events, TellsCall(e, d, c), move = <<e, d>>,
             e.player \in Players, rec.melds[e.player] < HandMelds
      PROVE  Called /\ TellsAnswers(wrote', target, c)
  <2>0. e.type \in {"CHII", "PON"} /\ d.type = "DISCARD"
    BY <1>3 DEF TellsCall
  <2>1. CASE AcceptRiichiOrDora(rec) = <<>>
    <3>1. Write(<<>>, <<e, d>>)
      BY <1>3, <2>1
    <3>2. AfterEvent(rec, e) \in Records
      BY <1>1, <1>3, <2>0, TypeStep
    <3>3. Called /\ wrote' = <<e, d>>
      BY <1>1, <2>0, <3>1, <3>2, CallOfTwo DEF Leading, Over, Results
    <3> QED
      BY <1>3, <3>3 DEF TellsAnswers
  <2>2. ASSUME NEW s, AcceptRiichiOrDora(rec) = <<s>>
        PROVE  Called /\ TellsAnswers(wrote', target, c)
    <3>1. Write(<<s>>, <<e, d>>)
      BY <1>3, <2>2
    <3>2. /\ s \in Events /\ s.type \in {"RIICHI_ACCEPTED", "DORA"}
          /\ s.type = "RIICHI_ACCEPTED" => s.player \in Players /\ ~rec.accepted[s.player]
          /\ AfterEvent(rec, s) \in Records /\ MeldsGood(AfterEvent(rec, s))
          /\ AfterEvent(rec, s).melds = rec.melds
      BY <2>2, SettlesFirst
    <3>3. AfterEvent(AfterEvent(rec, s), e) \in Records
      BY <1>3, <2>0, <3>2, TypeStep
    <3>4. Called /\ wrote' = <<s, e, d>>
      BY <1>1, <2>0, <3>1, <3>2, <3>3, CallOfThree DEF Leading, Over, Results
    <3>5. IsSideEffect(s)
      BY <3>2 DEF IsSideEffect
    <3> QED
      BY <1>3, <3>2, <3>4, <3>5 DEF TellsAnswers
  <2> QED
    BY <2>1, <2>2, SettledByOne
<1> QED
  BY <1>2, <1>3

\* The others' answers to a discard.
LEMMA MoveAfterDiscardCalled ==
    ASSUME IInv, IInv', NEW c, MoveAfterDiscard(c)
    PROVE  Called /\ TellsAnswers(wrote', rec.last.player, c)
<1> DEFINE target == rec.last.player
           winner == FirstResponder(target, c, {"WIN"})
           taker  == FirstResponder(target, c, {"PON", "OPEN_KAN"})
           next   == Seat(target, 1)
<1> SUFFICES Called /\ TellsAnswers(wrote', target, c)
  OBVIOUS
<1>1. /\ rec.last.type \in {"DISCARD", "UPGRADED_KAN"} /\ rec.last.type \notin Over
      /\ target \in Players /\ c \in Answers(rec)
  BY DEF IInv, MoveAfterDiscard, Good, SeatGood, OfPlayer, EventTypes, Kans, Over, Results
<1>2. \/ /\ winner # Nobody
         /\ \E pay \in Payments :
                WriteResult("WIN", winner, PointsMoveWin(winner, target, pay), NotReady)
      \/ /\ winner = Nobody /\ Draws(rec) = LastDraw
         /\ \E ready \in [Players -> BOOLEAN] :
                WriteResult("DRAWN_EXHAUSTIVE", Nobody, PointsMoveDrawn(ready), ready)
      \/ /\ winner = Nobody /\ rec.last.type = "UPGRADED_KAN"
         /\ Write(<<>>, <<Event("DRAW", target)>>)
      \/ /\ winner = Nobody /\ rec.last.type # "UPGRADED_KAN"
         /\ \/ taker # Nobody /\ Write(AcceptRiichiOrDora(rec), CallOf(taker, c[taker]))
            \/ /\ taker = Nobody /\ c[next] = "CHII"
               /\ Write(AcceptRiichiOrDora(rec), CallOf(next, "CHII"))
            \/ /\ taker = Nobody /\ c[next] # "CHII"
               /\ Write(AcceptRiichiOrDora(rec), <<Event("DRAW", next)>>)
  BY DEF MoveAfterDiscard
<1>3. next \in Players \ {target}
  BY <1>1 DEF Seat, Players
<1>4. /\ \A q \in Players \ {target} : c[q] \in AnswersOf(rec, q)
      /\ \A q \in Players \ {target} :
            /\ c[q] \in {"CHII", "PON", "OPEN_KAN", "WIN", "PASS"}
            /\ c[q] \in Calls => /\ rec.last.type = "DISCARD"
                                 /\ Draws(rec) # LastDraw /\ rec.melds[q] < HandMelds
            /\ c[q] = "CHII" => q = next
  <2>1. Asked(rec) = Players \ {target}
    BY <1>1 DEF Asked
  <2>2. \A q \in Players \ {target} : c[q] \in AnswersOf(rec, q)
    BY <1>1, <2>1 DEF Answers
  <2> QED
    BY <2>2 DEF AnswersOf, LegalResponses, Responses, Calls, IsLegalCall
<1>5. winner = Nobody => \A q \in Players \ {target} : c[q] # "WIN"
  BY <1>1, NobodyAnswers
<1>6. taker = Nobody => \A q \in Players \ {target} : c[q] \notin {"PON", "OPEN_KAN"}
  BY <1>1, NobodyAnswers
<1>7. winner # Nobody => winner \in Players \ {target} /\ c[winner] = "WIN"
  BY <1>1, FirstResponderAnswers
<1>8. taker # Nobody => taker \in Players \ {target} /\ c[taker] \in {"PON", "OPEN_KAN"}
  BY <1>1, FirstResponderAnswers
<1> HIDE DEF target, winner, taker, next
<1>9. CASE /\ winner # Nobody
           /\ \E pay \in Payments :
                 WriteResult("WIN", winner, PointsMoveWin(winner, target, pay), NotReady)
  <2>1. /\ Called
        /\ \E e \in Events : wrote' = <<e>> /\ e.type = "WIN" /\ e.player = winner
    BY <1>1, <1>9, CallOfResult DEF Results
  <2> QED
    BY <1>7, <1>9, <2>1 DEF TellsAnswers, TellsAnswer
<1>10. CASE /\ winner = Nobody /\ Draws(rec) = LastDraw
            /\ \E ready \in [Players -> BOOLEAN] :
                  WriteResult("DRAWN_EXHAUSTIVE", Nobody, PointsMoveDrawn(ready), ready)
  <2>1. /\ Called
        /\ \E e \in Events : wrote' = <<e>> /\ e.type = "DRAWN_EXHAUSTIVE"
    BY <1>1, <1>10, CallOfResult DEF Results
  <2>2. \A q \in Players \ {target} : c[q] = "PASS"
    BY <1>4, <1>5, <1>10 DEF Calls
  <2> QED
    BY <2>1, <2>2 DEF TellsAnswers, TellsAnswer
<1>11. CASE /\ winner = Nobody /\ rec.last.type = "UPGRADED_KAN"
            /\ Write(<<>>, <<Event("DRAW", target)>>)
  <2> DEFINE e == Event("DRAW", target)
  <2>1. e \in Events /\ e.type = "DRAW" /\ Write(<<>>, <<e>>)
    BY <1>1, <1>11, EventFields DEF EventTypes
  <2> HIDE DEF e
  <2>2. Called /\ wrote' = <<e>>
    BY <1>1, <2>1, CallOfOne DEF Leading
  <2>3. \A q \in Players \ {target} : c[q] = "PASS"
    BY <1>4, <1>5, <1>11 DEF Calls
  <2> QED
    BY <2>1, <2>2, <2>3 DEF TellsAnswers, TellsAnswer
<1>12. ASSUME NEW q \in Players \ {target}, c[q] \in Calls,
              Write(AcceptRiichiOrDora(rec), CallOf(q, c[q]))
       PROVE  Called /\ TellsAnswers(wrote', target, c)
  <2> DEFINE e == Event(c[q], q)
             d == Event("DISCARD", q)
  <2>1. /\ e \in Events /\ e.type = c[q] /\ e.player = q
        /\ d \in Events /\ d.type = "DISCARD" /\ d.player = q
    BY <1>12, EventFields DEF EventTypes, Calls
  <2>2. CallOf(q, c[q]) = IF c[q] = "OPEN_KAN" THEN <<e>> ELSE <<e, d>>
    BY DEF CallOf
  <2>3. rec.last.type = "DISCARD" /\ rec.melds[q] < HandMelds
    BY <1>4, <1>12
  <2> HIDE DEF e, d
  <2>4. CASE c[q] = "OPEN_KAN"
    <3>1. TellsAnswer(e, target, c) /\ Write(AcceptRiichiOrDora(rec), <<e>>)
      BY <1>12, <2>1, <2>2, <2>4 DEF TellsAnswer
    <3> QED
      BY <2>1, <2>3, <2>4, <3>1, GoesOnCalled
  <2>5. CASE c[q] # "OPEN_KAN"
    <3>1. TellsCall(e, d, c) /\ Write(AcceptRiichiOrDora(rec), <<e, d>>)
      BY <1>12, <2>1, <2>2, <2>5 DEF TellsCall, Calls
    <3> QED
      BY <2>1, <2>3, <2>5, <3>1, GoesOnCalled
  <2> QED
    BY <2>4, <2>5
<1>13. CASE /\ winner = Nobody /\ taker = Nobody /\ rec.last.type # "UPGRADED_KAN"
            /\ c[next] # "CHII" /\ Write(AcceptRiichiOrDora(rec), <<Event("DRAW", next)>>)
  <2> DEFINE e == Event("DRAW", next)
  <2>1. e \in Events /\ e.type = "DRAW" /\ Write(AcceptRiichiOrDora(rec), <<e>>)
    BY <1>3, <1>13, EventFields DEF EventTypes
  <2> HIDE DEF e
  <2>2. \A q \in Players \ {target} : c[q] = "PASS"
    BY <1>4, <1>5, <1>6, <1>13
  <2>3. TellsAnswer(e, target, c)
    BY <2>1, <2>2 DEF TellsAnswer
  <2> QED
    BY <1>1, <1>13, <2>1, <2>3, GoesOnCalled
<1> QED
  BY <1>2, <1>3, <1>8, <1>9, <1>10, <1>11, <1>12, <1>13 DEF Calls

(***************************************************************************)
(* A step of the game, in front of the reader.                             *)
(***************************************************************************)
LEMMA PlayIsCall ==
    ASSUME IInv, Play
    PROVE  IInv' /\ Called
<1>1. IInv'
  <2>1. Next
    BY DEF Play, Next
  <2> QED
    BY <2>1, NextIInv
<1>2. CASE FirstDraw
  BY <1>1, <1>2, FirstDrawCalled
<1>3. CASE AfterConcealedKan
  BY <1>1, <1>3, AfterConcealedKanCalled
<1>4. CASE AfterOpenKan
  BY <1>1, <1>4, AfterOpenKanCalled
<1>5. CASE EndGame
  BY <1>1, <1>5, EndGameCalled
<1>6. CASE NextRound
  BY <1>1, <1>6, NextRoundCalled
<1>7. CASE \E m \in OwnMoves : MoveAfterDraw(m)
  BY <1>1, <1>7, MoveAfterDrawCalled
<1>8. CASE \E c \in Answers(rec) : MoveAfterDiscard(c)
  BY <1>1, <1>8, MoveAfterDiscardCalled
<1> QED
  BY <1>1, <1>2, <1>3, <1>4, <1>5, <1>6, <1>7, <1>8 DEF Play

\* The header with the sticks on the table, field by field.
LEMMA PlayedFields ==
    ASSUME header \in Headers, rec \in Records
    PROVE  /\ Played = [dealer |-> header.dealer, wind |-> header.wind,
                        round |-> header.round, ranking |-> header.ranking,
                        repeat |-> header.repeat,
                        deposit |-> header.deposit + Count(rec.accepted),
                        scores |-> header.scores]
           /\ Played \in Headers
<1>1. header.deposit \in Nat /\ Count(rec.accepted) \in Nat
  BY SumOfScores
<1>2. Played = [dealer |-> header.dealer, wind |-> header.wind,
                round |-> header.round, ranking |-> header.ranking,
                repeat |-> header.repeat,
                deposit |-> header.deposit + Count(rec.accepted),
                scores |-> header.scores]
  BY <1>1 DEF Played, KeptDeposit, Headers
<1> QED
  BY <1>1, <1>2 DEF Headers

LEMMA NoSticks == Count(FreshRecord.accepted) = 0
<1>1. FreshRecord.accepted = NotReady
  BY DEF FreshRecord
<1> QED
  BY <1>1 DEF Count, Sum, Players, NotReady

\* A round that was just begun has the header as it was made.
LEMMA PlayedAtStart ==
    ASSUME header \in Headers, rec = FreshRecord
    PROVE  Played = header
<1>1. rec \in Records
  BY FreshRecordGood DEF Good
<1>2. header.deposit + Count(rec.accepted) = header.deposit
  BY NoSticks DEF Headers
<1>3. header = [dealer |-> header.dealer, wind |-> header.wind,
                round |-> header.round, ranking |-> header.ranking,
                repeat |-> header.repeat, deposit |-> header.deposit,
                scores |-> header.scores]
  BY DEF Headers
<1> QED
  BY <1>1, <1>2, <1>3, PlayedFields

(***************************************************************************)
(* The parser and the game agree on the next header: the parser knows the  *)
(* sticks that were kept, and forgets them for a win, which is when        *)
(* get_deposit finds none.                                                 *)
(***************************************************************************)
LEMMA NextFieldsAgree ==
    ASSUME header \in Headers, rec \in Records, rec.won <=> rec.last.type = "WIN"
    PROVE  NextFields(Played, rec.last) = NextHeader(header, rec.last)
<1> DEFINE e == rec.last
           h == Played
<1>1. /\ h.dealer = header.dealer /\ h.wind = header.wind /\ h.round = header.round
      /\ h.ranking = header.ranking /\ h.repeat = header.repeat
      /\ h.deposit = header.deposit + Count(rec.accepted)
  BY PlayedFields
<1>2. header.dealer \in Players
  BY DEF Headers
<1> HIDE DEF e, h
<1>3. DealerStays(h, e) = DealerStays(header, e)
  BY <1>1 DEF DealerStays
<1>4. NextDealer(h, e) = NextDealer(header, e)
  BY <1>1, <1>3 DEF NextDealer
<1>5. NextRepeatCounter(h, e) = NextRepeatCounter(header, e)
  BY <1>1, <1>3 DEF NextRepeatCounter
<1>6. NextDealer(h, e) = h.dealer <=> DealerStays(header, e)
  BY <1>1, <1>2, <1>3 DEF NextDealer, Seat, Players
<1>7. CarriedDeposit(h, e) = Deposit(header, rec)
  BY <1>1 DEF CarriedDeposit, Deposit, e
<1>8. NextFields(h, e) =
         [dealer |-> NextDealer(header, e),
          wind |-> IF ~DealerStays(header, e) /\ header.round = 4
                   THEN header.wind + 1 ELSE header.wind,
          round |-> IF DealerStays(header, e) THEN header.round
                    ELSE IF header.round = 4 THEN 1 ELSE header.round + 1,
          ranking |-> IF DealerStays(header, e) THEN header.ranking ELSE header.ranking + 1,
          repeat |-> NextRepeatCounter(header, e),
          deposit |-> Deposit(header, rec),
          scores |-> e.scores]
  <2> DEFINE moved == NextDealer(h, e) # h.dealer
  <2>1. moved <=> ~DealerStays(header, e)
    BY <1>6
  <2> HIDE DEF moved
  <2>2. NextFields(h, e) =
           [dealer |-> NextDealer(header, e),
            wind |-> IF moved /\ header.round = 4 THEN header.wind + 1 ELSE header.wind,
            round |-> IF ~moved THEN header.round
                      ELSE IF header.round = 4 THEN 1 ELSE header.round + 1,
            ranking |-> IF moved THEN header.ranking + 1 ELSE header.ranking,
            repeat |-> NextRepeatCounter(header, e),
            deposit |-> Deposit(header, rec),
            scores |-> e.scores]
    BY <1>1, <1>4, <1>5, <1>7 DEF NextFields, moved
  <2> QED
    BY <2>1, <2>2
<1>9. NextHeader(header, e) =
         [dealer |-> NextDealer(header, e),
          wind |-> IF ~DealerStays(header, e) /\ header.round = 4
                   THEN header.wind + 1 ELSE header.wind,
          round |-> IF DealerStays(header, e) THEN header.round
                    ELSE IF header.round = 4 THEN 1 ELSE header.round + 1,
          ranking |-> IF DealerStays(header, e) THEN header.ranking ELSE header.ranking + 1,
          repeat |-> NextRepeatCounter(header, e),
          deposit |-> Deposit(header, rec),
          scores |-> e.scores]
  BY <1>1, <1>4, <1>6 DEF NextHeader
<1> QED
  BY <1>8, <1>9 DEF e, h

\* What a call writes leaves the reader where it was, in front of the batch.
LEMMA PlayKeepsReader ==
    ASSUME IInv, ReaderInv, Play
    PROVE  ReaderInv'
<1>1. IInv' /\ Called
  BY PlayIsCall
<1>2. /\ unread = <<>> /\ unread' = wrote'
      /\ UNCHANGED <<lastEvent, pendingEvent, pending, handMask, flags, fields, parserFailed>>
      /\ linesRead' = linesRead
  BY DEF Play, parserVars
<1>3. linesRead = 0 /\ linesRead' = 0 /\ pending = "NONE" /\ lastEvent = <<rec.last>>
  BY <1>2 DEF ReaderInv, ParserTypeOK, Unread, Upcoming, PendingAgrees, FlagsAgree
<1>4. flags.game /\ ~flags.firstRound /\ ~flags.ended
  BY <1>1, <1>2 DEF ReaderInv, ParserTypeOK, FlagsAgree, Upcoming, Called
<1>5. /\ Batch(unread', rec'.last) /\ Rests' /\ unread' \in Seq(Events) /\ unread' # <<>>
      /\ Len(unread') \in Nat \ {0}
  BY <1>1, <1>2 DEF Called, Batch
<1>6. /\ unread'[1].type \in Leading => rec'.last.type \notin Over \cup {"ROUND"}
      /\ unread'[1].type \notin Leading => unread'[1] = rec'.last
      /\ unread'[1].type # "GAME"
  BY <1>5 DEF Batch, Leading
<1>7. ParserTypeOK'
  BY <1>2, <1>3, <1>5 DEF ReaderInv, ParserTypeOK
<1>8. ~Upcoming({"GAME"})'
  BY <1>6 DEF Upcoming
<1>9. Upcoming({"ROUND", "END_GAME"})' <=> rec.last.type \in Results
  BY <1>1, <1>5, <1>6 DEF Called, Upcoming, Leading, Batch, Over
<1>10. Unread'
  BY <1>3, <1>5, <1>8 DEF Unread, Batch, Over, Leading
<1>11. AtResult' <=> rec.last.type \in Results
  BY <1>2, <1>3, <1>4, <1>5, <1>9 DEF AtResult
<1>12. FlagsAgree'
  <2>1. flags.result => rec.last.type \in Results
    BY <1>2, <1>4 DEF ReaderInv, FlagsAgree, AtResult, Upcoming
  <2>2. AtResult' => AfterResult'
    BY <1>2, <1>3, <1>11 DEF AfterResult
  <2> QED
    BY <1>2, <1>4, <1>5, <1>8, <1>11, <2>1, <2>2 DEF FlagsAgree
<1>13. PendingAgrees'
  BY <1>2, <1>3 DEF PendingAgrees
<1>14. /\ header \in Headers /\ rec \in Records /\ header' \in Headers /\ rec' \in Records
  BY <1>1 DEF IInv, TypeOK
<1>15. fields = Played
  BY <1>2, <1>4 DEF ReaderInv, FieldsAgree, Upcoming
<1>16. FieldsAgree'
  <2>1. CASE Upcoming({"RIICHI_ACCEPTED"})'
    <3>1. rec'.last.type # "ROUND" /\ Paid(wrote') = 1
      BY <1>2, <1>6, <2>1 DEF Upcoming, Leading, Paid
    <3>2. header' = header /\ Count(rec'.accepted) = Count(rec.accepted) + 1
      BY <1>1, <3>1 DEF Called
    <3>3. header.deposit \in Nat /\ Count(rec.accepted) \in Nat
      BY <1>14, SumOfScores
    <3>4. Played' = [dealer |-> header.dealer, wind |-> header.wind,
                     round |-> header.round, ranking |-> header.ranking,
                     repeat |-> header.repeat,
                     deposit |-> header.deposit + Count(rec.accepted) + 1,
                     scores |-> header.scores]
      <4>1. Played' = [dealer |-> header'.dealer, wind |-> header'.wind,
                       round |-> header'.round, ranking |-> header'.ranking,
                       repeat |-> header'.repeat,
                       deposit |-> header'.deposit + Count(rec'.accepted),
                       scores |-> header'.scores]
        BY <1>14, <3>2, <3>3 DEF Played, KeptDeposit, Headers
      <4> QED
        BY <3>2, <3>3, <4>1
    <3>5. [fields EXCEPT !.deposit = @ + 1] = Played'
      BY <1>14, <1>15, <3>3, <3>4, PlayedFields
    <3> QED
      BY <1>2, <2>1, <3>5 DEF FieldsAgree
  <2>2. CASE ~Upcoming({"RIICHI_ACCEPTED"})' /\ rec'.last.type = "ROUND"
    <3>1. Upcoming({"ROUND"})' /\ rec.last.type \in Results
      BY <1>1, <1>5, <1>6, <2>2 DEF Upcoming, Called
    <3>2. header' = NextHeader(header, rec.last) /\ rec' = FreshRecord
      BY <1>1, <2>2 DEF Called, Rests
    <3>3. rec.won <=> rec.last.type = "WIN"
      BY <3>1 DEF ReaderInv, Rests
    <3>4. NextFields(fields, rec.last) = header'
      BY <1>14, <1>15, <3>2, <3>3, NextFieldsAgree
    <3>5. Played' = header'
      <4>1. header'.deposit + Count(rec'.accepted) = header'.deposit
        BY <1>14, <3>2, NoSticks DEF Headers
      <4>2. [header' EXCEPT !.deposit = header'.deposit] = header'
        BY <1>14 DEF Headers
      <4> QED
        BY <4>1, <4>2 DEF Played, KeptDeposit
    <3>6. NextFields(fields', lastEvent'[1]) = Played'
      BY <1>2, <1>3, <3>4, <3>5
    <3> QED
      BY <1>2, <1>3, <1>4, <2>2, <3>1, <3>6 DEF FieldsAgree
  <2>3. CASE ~Upcoming({"RIICHI_ACCEPTED"})' /\ rec'.last.type # "ROUND"
    <3>1. ~Upcoming({"ROUND"})' /\ Paid(wrote') = 0
      BY <1>2, <1>5, <1>6, <2>3 DEF Upcoming, Paid, Leading
    <3>2. header' = header /\ Count(rec'.accepted) = Count(rec.accepted) + 0
      BY <1>1, <2>3, <3>1 DEF Called
    <3>3. Count(rec.accepted) \in Nat
      BY <1>14, SumOfScores
    <3>4. Played' = Played
      BY <3>2, <3>3 DEF Played, KeptDeposit
    <3> QED
      BY <1>2, <1>15, <2>3, <3>1, <3>4 DEF FieldsAgree
  <2> QED
    BY <2>1, <2>2, <2>3
<1> QED
  BY <1>2, <1>5, <1>7, <1>10, <1>12, <1>13, <1>16 DEF ReaderInv

(***************************************************************************)
(* The lines of an event, and what feed_line does with one it accepts.     *)
(***************************************************************************)
LEMMA LinesOfEvent ==
    ASSUME NEW e \in Events
    PROVE  /\ e.type \in {"GAME", "END_GAME"} =>
                Len(LinesOf(e)) = 1 /\ LinesOf(e)[1] = Line(e.type, e, Nobody)
           /\ e.type \in Owners =>
                /\ Len(LinesOf(e)) = 5 /\ LinesOf(e)[1] = Line(e.type, e, Nobody)
                /\ \A n \in 1 .. 4 : LinesOf(e)[n + 1] = Line("HAND", e, n - 1)
           /\ e.type = "WIN" =>
                /\ Len(LinesOf(e)) = 2 /\ LinesOf(e)[1] = Line("ACTION", e, Nobody)
                /\ LinesOf(e)[2] = Line("WIN_RESULT", e, Nobody)
           /\ e.type \notin Owners \cup {"GAME", "END_GAME", "WIN"} =>
                Len(LinesOf(e)) = 1 /\ LinesOf(e)[1] = Line("ACTION", e, Nobody)
<1>1. CASE e.type \in {"GAME", "END_GAME"}
  <2>1. LinesOf(e) = <<Line(e.type, e, Nobody)>>
    BY <1>1 DEF LinesOf, Owners
  <2> QED
    BY <1>1, <2>1 DEF Owners
<1>2. CASE e.type \in Owners
  <2> DEFINE a == <<Line(e.type, e, Nobody)>>
             b == [n \in 1 .. 4 |-> Line("HAND", e, n - 1)]
             S == {Line(e.type, e, Nobody)} \cup {Line("HAND", e, n - 1) : n \in 1 .. 4}
  <2>1. LinesOf(e) = a \o b
    BY <1>2 DEF LinesOf, Owners
  <2>2. a \in Seq(S) /\ Len(a) = 1 /\ a[1] = Line(e.type, e, Nobody)
    OBVIOUS
  <2>3. b \in Seq(S) /\ Len(b) = 4 /\ \A n \in 1 .. 4 : b[n] = Line("HAND", e, n - 1)
    OBVIOUS
  <2> HIDE DEF a, b, S
  <2>4. /\ Len(a \o b) = 1 + 4
        /\ \A i \in 1 .. 1 + 4 : (a \o b)[i] = IF i <= 1 THEN a[i] ELSE b[i - 1]
    <3>1. /\ Len(a \o b) = Len(a) + Len(b)
          /\ \A i \in 1 .. Len(a) + Len(b) :
                (a \o b)[i] = IF i <= Len(a) THEN a[i] ELSE b[i - Len(a)]
      BY <2>2, <2>3, ConcatProperties
    <3> QED
      BY <2>2, <2>3, <3>1
  <2>5. /\ Len(a \o b) = 5 /\ (a \o b)[1] = a[1]
        /\ \A n \in 1 .. 4 : (a \o b)[n + 1] = b[n]
    BY <2>4
  <2> QED
    BY <1>2, <2>1, <2>2, <2>3, <2>5 DEF Owners
<1>3. CASE e.type = "WIN"
  <2>1. LinesOf(e) = <<Line("ACTION", e, Nobody), Line("WIN_RESULT", e, Nobody)>>
    BY <1>3 DEF LinesOf, Owners
  <2> QED
    BY <1>3, <2>1 DEF Owners
<1>4. CASE e.type \notin Owners \cup {"GAME", "END_GAME", "WIN"}
  <2>1. LinesOf(e) = <<Line("ACTION", e, Nobody)>>
    BY <1>4 DEF LinesOf
  <2> QED
    BY <1>4, <2>1
<1> QED
  BY <1>1, <1>2, <1>3, <1>4

LEMMA Fed ==
    ASSUME NEW line, ~OutOfPlace(line), FeedLine(line, origin)
    PROVE  /\ parserFailed' = parserFailed
           /\ line.name = "GAME" => FeedGame(line, origin)
           /\ line.name = "ROUND" => FeedRound(line)
           /\ line.name = "ACTION" => FeedAction(line)
           /\ line.name = "WIN_RESULT" => FeedWinResult(line)
           /\ line.name \in {"DRAWN_EXHAUSTIVE", "DRAWN_NINE_TERMINALS"} => FeedDrawn(line)
           /\ line.name = "HAND" => FeedHand(line)
           /\ line.name = "END_GAME" => FeedEndGame(line)
<1>1. /\ parserFailed' = parserFailed
      /\ \/ FeedGame(line, origin) \/ FeedRound(line) \/ FeedAction(line)
         \/ FeedWinResult(line) \/ FeedDrawn(line) \/ FeedHand(line) \/ FeedEndGame(line)
  BY DEF FeedLine
<1>2. /\ FeedGame(line, origin) => line.name = "GAME"
      /\ FeedRound(line) => line.name = "ROUND"
      /\ FeedAction(line) => line.name = "ACTION"
      /\ FeedWinResult(line) => line.name = "WIN_RESULT"
      /\ FeedDrawn(line) => line.name \in {"DRAWN_EXHAUSTIVE", "DRAWN_NINE_TERMINALS"}
      /\ FeedHand(line) => line.name = "HAND"
      /\ FeedEndGame(line) => line.name = "END_GAME"
  BY DEF FeedGame, FeedRound, FeedAction, FeedWinResult, FeedDrawn, FeedHand, FeedEndGame
<1> QED
  BY <1>1, <1>2

(***************************************************************************)
(* Reading an event: the first of those that are left.                     *)
(***************************************************************************)
LEMMA FirstUnread ==
    ASSUME IInv, ReaderInv, unread # <<>>
    PROVE  /\ Head(unread) = unread[1] /\ unread[1] \in Events
           /\ Len(unread) \in Nat \ {0}
           /\ Tail(unread) \in Seq(Events) /\ Len(Tail(unread)) = Len(unread) - 1
           /\ \A i \in 1 .. Len(unread) - 1 : Tail(unread)[i] = unread[i + 1]
           /\ unread[1].type \notin Leading =>
                Len(unread) = 1 /\ unread[1] = rec.last /\ Tail(unread) = <<>>
           /\ unread[1].type \in Leading => Len(unread) > 1 /\ Tail(unread) # <<>>
           /\ unread[1].type \in Leading \ {"GAME"} => rec.last.type \notin Over \cup {"ROUND"}
<1>1. /\ unread \in Seq(Events) /\ Unread /\ rec.last.type \notin Leading
  BY DEF ReaderInv, ParserTypeOK, Rests
<1>2. /\ Head(unread) = unread[1] /\ unread[1] \in Events
      /\ Len(unread) \in Nat \ {0}
  BY <1>1
<1>3. /\ Tail(unread) \in Seq(Events) /\ Len(Tail(unread)) = Len(unread) - 1
      /\ \A i \in 1 .. Len(unread) - 1 : Tail(unread)[i] = unread[i + 1]
  BY <1>1, <1>2, HeadTailProperties
<1>4. Tail(unread) = <<>> <=> Len(unread) = 1
  <2>1. \A q \in Seq(Events) : q = <<>> <=> Len(q) = 0
    OBVIOUS
  <2> QED
    BY <1>2, <1>3, <2>1
<1> DEFINE n == Len(unread)
           e == unread[1]
<1>5. n \in Nat \ {0} /\ (n > 1 => e.type \in Leading) /\ (n = 1 => e = rec.last)
  <2>1. n > 1 => 1 \in 1 .. n - 1
    BY <1>2
  <2> QED
    BY <1>1, <1>2, <2>1 DEF Unread
<1> HIDE DEF n, e
<1>6. (e.type \notin Leading => n = 1 /\ e = rec.last) /\ (e.type \in Leading => n > 1)
  <2>1. n = 1 \/ n > 1
    BY <1>5
  <2> QED
    BY <1>1, <1>5, <2>1
<1>7. unread[1].type \in Leading \ {"GAME"} => rec.last.type \notin Over \cup {"ROUND"}
  BY <1>1, <1>2, <1>5, <1>6 DEF Unread, Upcoming, n, e
<1> QED
  BY <1>2, <1>3, <1>4, <1>5, <1>6, <1>7 DEF n, e

\* One event less.
LEMMA EventIsRead ==
    ASSUME IInv, ReaderInv, unread # <<>>, rec' = rec,
           unread' = Tail(unread), linesRead' = 0
    PROVE  /\ Unread' /\ unread' \in Seq(Events)
           /\ ~Upcoming({"GAME", "RIICHI_ACCEPTED"})'
           /\ unread' = <<>> <=> unread[1].type \notin Leading
           /\ Upcoming({"ROUND", "END_GAME"})' => unread[1].type = "GAME"
           /\ unread[1].type = "GAME" => unread'[1].type = "ROUND"
<1> DEFINE n == Len(unread)
<1>1. /\ n \in Nat \ {0} /\ unread' \in Seq(Events) /\ Len(unread') = n - 1
      /\ \A i \in 1 .. n - 1 : unread'[i] = unread[i + 1]
      /\ unread' = <<>> <=> unread[1].type \notin Leading
      /\ unread[1].type \in Leading <=> n > 1
  BY FirstUnread
<1>2. /\ Unread /\ rec.last.type \notin Leading
  BY DEF ReaderInv, Rests
<1> HIDE DEF n
<1>3. unread' # <<>> => unread'[Len(unread')] = rec'.last
  <2>1. n > 1 => unread'[n - 1] = unread[n]
    BY <1>1
  <2> QED
    BY <1>1, <1>2, <2>1 DEF Unread, n
<1>4. \A i \in 1 .. Len(unread') - 1 : unread'[i].type \in Leading
  <2> TAKE i \in 1 .. Len(unread') - 1
  <2>1. i + 1 \in 1 .. n - 1 /\ unread'[i] = unread[i + 1]
    BY <1>1
  <2> QED
    BY <1>2, <2>1 DEF Unread, n
<1>5. \A i \in 1 .. Len(unread') : unread'[i].type \notin {"GAME", "RIICHI_ACCEPTED"}
  <2> TAKE i \in 1 .. Len(unread')
  <2>1. i + 1 \in 2 .. n /\ unread'[i] = unread[i + 1]
    BY <1>1
  <2> QED
    BY <1>2, <2>1 DEF Unread, n
<1>6. ~Upcoming({"GAME", "RIICHI_ACCEPTED"})' /\ ~Upcoming({"GAME"})'
  <2>1. unread' # <<>> => 1 \in 1 .. Len(unread')
    BY <1>1
  <2> QED
    BY <1>5, <2>1 DEF Upcoming
<1>7. /\ rec.last.type \in Over => n <= 1
      /\ rec.last.type = "ROUND" => n <= 1 \/ (unread[1].type = "GAME" /\ n = 2)
  BY <1>1, <1>2 DEF Unread, Upcoming, n
<1>8. Unread'
  <2>1. rec'.last.type \in Over => Len(unread') <= 1
    BY <1>1, <1>7
  <2>2. rec'.last.type = "ROUND" => Len(unread') <= 1
    BY <1>1, <1>7
  <2>3. \A i \in 2 .. Len(unread') : unread'[i].type \notin {"GAME", "RIICHI_ACCEPTED"}
    BY <1>1, <1>5
  <2>4. ~(linesRead' > 0)
    OBVIOUS
  <2> QED
    BY <1>3, <1>4, <1>6, <2>1, <2>2, <2>3, <2>4 DEF Unread
<1>9. Upcoming({"ROUND", "END_GAME"})' => unread[1].type = "GAME"
  <2> SUFFICES ASSUME Upcoming({"ROUND", "END_GAME"})' PROVE unread[1].type = "GAME"
    OBVIOUS
  <2>1. unread' # <<>> /\ unread'[1].type \in {"ROUND", "END_GAME"} /\ n > 1
    BY <1>1 DEF Upcoming
  <2>2. unread'[1].type \notin Leading
    BY <2>1 DEF Leading
  <2>3. Len(unread') = 1
    BY <1>1, <1>4, <2>1, <2>2
  <2>4. rec.last.type \in {"ROUND", "END_GAME"}
    BY <1>3, <2>1, <2>3
  <2> QED
    BY <1>7, <2>1, <2>4, <1>1 DEF Over
<1>10. unread[1].type = "GAME" => unread'[1].type = "ROUND"
  <2> SUFFICES ASSUME unread[1].type = "GAME" PROVE unread'[1].type = "ROUND"
    OBVIOUS
  <2>1. rec.last.type = "ROUND" /\ n = 2
    BY <1>2 DEF Unread, Upcoming, n
  <2>2. unread' # <<>> /\ Len(unread') = 1
    BY <1>1, <2>1
  <2> QED
    BY <1>3, <2>1, <2>2
<1> QED
  BY <1>1, <1>6, <1>8, <1>9, <1>10

\* The types, and what the game rests on, while only the reader moves.
LEMMA GameWaits ==
    ASSUME ReaderInv, UNCHANGED vars
    PROVE  /\ Rests' /\ Played' = Played
           /\ rec' = rec /\ header' = header /\ origin' = origin
  BY DEF ReaderInv, Rests, Played, vars

\* The line that begins an event: how far it is and what that says.
LEMMA AtBeginning ==
    ASSUME IInv, ReaderInv, unread # <<>>, linesRead = 0
    PROVE  /\ pending = "NONE" /\ ~flags.ended
           /\ flags.game <=> unread[1].type # "GAME"
           /\ flags.firstRound => unread[1].type \in {"GAME", "ROUND"}
           /\ ~flags.game => flags.firstRound
           /\ flags.result => unread[1].type \in {"ROUND", "END_GAME"}
           /\ unread[1].type = "END_GAME" => AfterResult
           /\ unread[1].type = "ROUND" /\ ~flags.firstRound => AfterResult
<1>1. /\ FlagsAgree /\ PendingAgrees
      /\ flags \in [game : BOOLEAN, firstRound : BOOLEAN, ended : BOOLEAN, result : BOOLEAN]
  BY DEF ReaderInv, ParserTypeOK
<1>2. /\ pending = "NONE" /\ ~flags.ended
      /\ flags.game <=> unread[1].type # "GAME"
      /\ ~flags.game => flags.firstRound
  BY <1>1 DEF FlagsAgree, PendingAgrees, Upcoming
<1>3. flags.firstRound => unread[1].type \in {"GAME", "ROUND"}
  <2>1. flags.firstRound => rec.last.type = "ROUND"
    BY <1>1 DEF FlagsAgree
  <2> QED
    BY <2>1, FirstUnread
<1>4. flags.result => unread[1].type \in {"ROUND", "END_GAME"}
  BY <1>1, <1>2 DEF FlagsAgree, AtResult, Upcoming
<1>5. unread[1].type \in {"ROUND", "END_GAME"} /\ ~flags.firstRound => AfterResult
  BY <1>1 DEF FlagsAgree, AtResult, Upcoming
<1>6. unread[1].type = "END_GAME" => AfterResult
  BY <1>3, <1>5
<1> QED
  BY <1>2, <1>3, <1>4, <1>5, <1>6

(***************************************************************************)
(* One line. The last line of an event returns it, the others nothing.     *)
(***************************************************************************)
Reads ==
    /\ unread # <<>>
    /\ FeedLine(LinesOf(Head(unread))[linesRead + 1], origin)
    /\ Advance
    /\ UNCHANGED vars

Returns ==
    \/ /\ emitted' = <<unread[1]>> /\ lastEvent' = <<unread[1]>>
       /\ unread' = Tail(unread) /\ linesRead' = 0
    \/ /\ emitted' = <<>> /\ lastEvent' = lastEvent
       /\ unread' = unread /\ linesRead' > 0

\* A GAME line: the header is what it says.
LEMMA ReadGame ==
    ASSUME IInv, ReaderInv, Reads, unread[1].type = "GAME"
    PROVE  ReaderInv' /\ Returns
<1> DEFINE e == unread[1]
           line == Line("GAME", e, Nobody)
<1>1. /\ unread # <<>> /\ e \in Events /\ Head(unread) = e
      /\ LinesOf(e)[1] = line /\ Len(LinesOf(e)) = 1
  BY FirstUnread, LinesOfEvent DEF Reads
<1>2. linesRead = 0
  BY DEF ReaderInv, Unread, Upcoming, ParserTypeOK, Owners
<1>3. FeedLine(line, origin) /\ unread' = Tail(unread) /\ linesRead' = 0 /\ UNCHANGED vars
  <2>1. linesRead + 1 = 1
    BY <1>2
  <2> QED
    BY <1>1, <2>1 DEF Reads, Advance
<1>4. /\ pending = "NONE" /\ ~flags.ended /\ ~flags.game /\ flags.firstRound /\ ~flags.result
  BY <1>1, <1>2, AtBeginning
<1>5. ~OutOfPlace(line)
  BY <1>4 DEF OutOfPlace, Line
<1>6. parserFailed' = parserFailed /\ FeedGame(line, origin)
  BY <1>3, <1>5, Fed DEF Line
<1>7. /\ emitted' = <<e>> /\ lastEvent' = <<e>> /\ fields' = origin
      /\ flags' = [flags EXCEPT !.game = TRUE]
      /\ UNCHANGED <<pendingEvent, pending, handMask>>
  BY <1>6 DEF FeedGame, Emit, Line
<1>8. /\ Unread' /\ unread' \in Seq(Events) /\ unread' # <<>>
      /\ ~Upcoming({"GAME", "RIICHI_ACCEPTED"})'
  BY <1>1, <1>3, EventIsRead DEF Leading, vars
<1>9. /\ Rests' /\ Played' = Played /\ rec' = rec /\ header' = header /\ origin' = origin
  BY <1>3, GameWaits
<1>10. rec.last.type = "ROUND" /\ rec = FreshRecord /\ header = origin
  BY <1>1, <1>4 DEF ReaderInv, Unread, Upcoming, Rests, FlagsAgree
<1>11. header \in Headers /\ fields' = Played
  BY <1>7, <1>10, PlayedAtStart DEF IInv, TypeOK
<1>12. /\ flags' \in [game : BOOLEAN, firstRound : BOOLEAN, ended : BOOLEAN, result : BOOLEAN]
       /\ flags'.game /\ flags'.firstRound /\ ~flags'.ended /\ ~flags'.result
  BY <1>4, <1>7 DEF ReaderInv, ParserTypeOK
<1>13. ParserTypeOK'
  BY <1>3, <1>7, <1>8, <1>10, <1>11, <1>12 DEF ReaderInv, ParserTypeOK
<1>14. FlagsAgree'
  BY <1>3, <1>8, <1>9, <1>10, <1>12 DEF FlagsAgree, AtResult, Upcoming
<1>15. PendingAgrees'
  BY <1>3, <1>4, <1>7 DEF PendingAgrees
<1>16. FieldsAgree'
  BY <1>8, <1>9, <1>11, <1>12 DEF FieldsAgree, Upcoming
<1> QED
  BY <1>3, <1>6, <1>7, <1>8, <1>9, <1>13, <1>14, <1>15, <1>16 DEF ReaderInv, Returns

\* The first line of a ROUND: the header is worked out.
LEMMA ReadRound ==
    ASSUME IInv, ReaderInv, Reads, unread[1].type = "ROUND", linesRead = 0
    PROVE  ReaderInv' /\ Returns
<1> DEFINE e == unread[1]
           line == Line("ROUND", e, Nobody)
<1>1. /\ unread # <<>> /\ e \in Events /\ Head(unread) = e /\ e = rec.last
      /\ LinesOf(e)[1] = line /\ Len(LinesOf(e)) = 5
  BY FirstUnread, LinesOfEvent DEF Reads, Owners, Leading
<1>2. FeedLine(line, origin) /\ unread' = unread /\ linesRead' = 1 /\ UNCHANGED vars
  <2>1. linesRead + 1 = 1 /\ linesRead + 1 # Len(LinesOf(e))
    BY <1>1
  <2>2. unread' = unread /\ linesRead' = linesRead + 1
    BY <1>1, <2>1 DEF Reads, Advance
  <2>3. FeedLine(line, origin) /\ UNCHANGED vars
    BY <1>1, <2>1 DEF Reads
  <2> QED
    BY <2>1, <2>2, <2>3
<1>3. /\ pending = "NONE" /\ ~flags.ended /\ flags.game
      /\ ~flags.firstRound => AfterResult
  BY <1>1, AtBeginning
<1>4. ~OutOfPlace(line)
  BY <1>3 DEF OutOfPlace, Line
<1>5. parserFailed' = parserFailed /\ FeedRound(line)
  BY <1>2, <1>4, Fed DEF Line
<1>6. /\ emitted' = <<>> /\ lastEvent' = lastEvent
      /\ pendingEvent' = Event("ROUND", Nobody) /\ pending' = "HANDS" /\ handMask' = {}
      /\ flags' = [flags EXCEPT !.firstRound = FALSE, !.result = FALSE]
      /\ fields' = IF flags.firstRound THEN fields ELSE NextFields(fields, lastEvent[1])
  BY <1>5 DEF FeedRound, Await
<1>7. /\ Rests' /\ Played' = Played /\ rec' = rec /\ header' = header /\ origin' = origin
  BY <1>2, GameWaits
<1>8. rec = FreshRecord /\ Event("ROUND", Nobody) = e
  BY <1>1 DEF ReaderInv, Rests, FreshRecord
<1>9. fields' = Played /\ Played \in Headers
  <2>1. fields' = Played
    BY <1>1, <1>3, <1>6 DEF ReaderInv, FieldsAgree, Upcoming
  <2> QED
    BY <2>1, PlayedFields DEF IInv, TypeOK
<1>10. /\ flags' \in [game : BOOLEAN, firstRound : BOOLEAN, ended : BOOLEAN, result : BOOLEAN]
       /\ flags'.game /\ ~flags'.firstRound /\ ~flags'.ended /\ ~flags'.result
  BY <1>3, <1>6 DEF ReaderInv, ParserTypeOK
<1>11. ParserTypeOK'
  BY <1>1, <1>2, <1>6, <1>8, <1>9, <1>10 DEF ReaderInv, ParserTypeOK
<1>12. Unread'
  BY <1>1, <1>2, <1>7 DEF ReaderInv, Unread, Upcoming, Owners
<1>13. FlagsAgree'
  BY <1>1, <1>2, <1>10 DEF FlagsAgree, AtResult, Upcoming
<1>14. PendingAgrees'
  <2>1. {} = {p \in Players : p < 1 - 1}
    BY DEF Players
  <2> QED
    BY <1>1, <1>2, <1>6, <1>8, <2>1 DEF PendingAgrees, Upcoming
<1>15. FieldsAgree'
  BY <1>1, <1>2, <1>7, <1>9 DEF FieldsAgree, Upcoming
<1> QED
  BY <1>2, <1>5, <1>6, <1>7, <1>11, <1>12, <1>13, <1>14, <1>15 DEF ReaderInv, Returns

\* What stays as it is while an event with more than one line is read.
LEMMA EventGoesOn ==
    ASSUME IInv, ReaderInv, unread # <<>>, unread[1].type \in Owners \cup {"WIN"},
           UNCHANGED <<vars, fields, parserFailed>>,
           linesRead = 0 => unread[1].type # "ROUND",
           flags' = flags, unread' = unread, linesRead' \in 1 .. 4,
           pendingEvent' \in Events, handMask' \in SUBSET Players, PendingAgrees'
    PROVE  ReaderInv'
<1> DEFINE e == unread[1]
<1>1. /\ e \in Events /\ e = rec.last
  BY FirstUnread DEF Owners, Leading
<1>2. /\ Rests' /\ Played' = Played /\ rec' = rec /\ header' = header /\ origin' = origin
  BY GameWaits DEF vars
<1>3. /\ flags \in [game : BOOLEAN, firstRound : BOOLEAN, ended : BOOLEAN, result : BOOLEAN]
      /\ flags.game /\ ~flags.firstRound /\ ~flags.ended /\ ~flags.result
  <2>1. flags.firstRound => linesRead = 0 /\ e.type = "ROUND"
    BY <1>1 DEF ReaderInv, FlagsAgree
  <2>2. flags.game /\ ~flags.ended
    BY DEF ReaderInv, FlagsAgree, Upcoming, Owners
  <2>3. ~AtResult
    <3>1. CASE linesRead = 0
      BY <3>1 DEF AtResult, Upcoming, Owners
    <3>2. CASE linesRead # 0
      BY <3>2 DEF AtResult
    <3> QED
      BY <3>1, <3>2
  <2> QED
    BY <2>1, <2>2, <2>3 DEF ReaderInv, ParserTypeOK, FlagsAgree
<1>4. ParserTypeOK' /\ linesRead' # 0 /\ linesRead' > 0
  BY DEF ReaderInv, ParserTypeOK
<1>5. Unread'
  BY <1>2 DEF ReaderInv, Unread, Upcoming
<1>6. FlagsAgree'
  BY <1>3, <1>4 DEF FlagsAgree, AtResult, Upcoming, Owners
<1>7. fields = Played
  BY <1>3 DEF ReaderInv, FieldsAgree, Upcoming, Owners
<1>8. FieldsAgree'
  BY <1>2, <1>4, <1>7 DEF FieldsAgree, Upcoming, Owners
<1> QED
  BY <1>2, <1>4, <1>5, <1>6, <1>8 DEF ReaderInv

\* The first line of a drawn round.
LEMMA ReadDrawn ==
    ASSUME IInv, ReaderInv, Reads, linesRead = 0,
           unread[1].type \in {"DRAWN_EXHAUSTIVE", "DRAWN_NINE_TERMINALS"}
    PROVE  ReaderInv' /\ Returns
<1> DEFINE e == unread[1]
           line == Line(e.type, e, Nobody)
<1>1. /\ unread # <<>> /\ e \in Events /\ Head(unread) = e
      /\ LinesOf(e)[1] = line /\ Len(LinesOf(e)) = 5
  BY FirstUnread, LinesOfEvent DEF Reads, Owners
<1>2. FeedLine(line, origin) /\ unread' = unread /\ linesRead' = 1 /\ UNCHANGED vars
  <2>1. linesRead + 1 = 1 /\ linesRead + 1 # Len(LinesOf(e))
    BY <1>1
  <2>2. unread' = unread /\ linesRead' = linesRead + 1
    BY <1>1, <2>1 DEF Reads, Advance
  <2>3. FeedLine(line, origin) /\ UNCHANGED vars
    BY <1>1, <2>1 DEF Reads
  <2> QED
    BY <2>1, <2>2, <2>3
<1>3. /\ pending = "NONE" /\ ~flags.ended /\ flags.game /\ ~flags.firstRound /\ ~flags.result
  BY <1>1, AtBeginning
<1>4. ~OutOfPlace(line)
  BY <1>3 DEF OutOfPlace, Line
<1>5. parserFailed' = parserFailed /\ FeedDrawn(line)
  BY <1>2, <1>4, Fed DEF Line
<1>6. /\ emitted' = <<>> /\ lastEvent' = lastEvent /\ pendingEvent' = e /\ pending' = "HANDS"
      /\ handMask' = {} /\ flags' = flags /\ fields' = fields
  BY <1>5 DEF FeedDrawn, Await, Line
<1>7. PendingAgrees'
  <2>1. {} = {p \in Players : p < 1 - 1}
    BY DEF Players
  <2> QED
    BY <1>1, <1>2, <1>6, <2>1 DEF PendingAgrees, Upcoming
<1>8. ReaderInv'
  BY <1>1, <1>2, <1>5, <1>6, <1>7, EventGoesOn DEF Owners
<1> QED
  BY <1>2, <1>6, <1>8 DEF Returns

\* The ACTION line of a win.
LEMMA ReadWin ==
    ASSUME IInv, ReaderInv, Reads, linesRead = 0, unread[1].type = "WIN"
    PROVE  ReaderInv' /\ Returns
<1> DEFINE e == unread[1]
           line == Line("ACTION", e, Nobody)
<1>1. /\ unread # <<>> /\ e \in Events /\ Head(unread) = e
      /\ LinesOf(e)[1] = line /\ Len(LinesOf(e)) = 2
  BY FirstUnread, LinesOfEvent DEF Reads
<1>2. FeedLine(line, origin) /\ unread' = unread /\ linesRead' = 1 /\ UNCHANGED vars
  <2>1. linesRead + 1 = 1 /\ linesRead + 1 # Len(LinesOf(e))
    BY <1>1
  <2>2. unread' = unread /\ linesRead' = linesRead + 1
    BY <1>1, <2>1 DEF Reads, Advance
  <2>3. FeedLine(line, origin) /\ UNCHANGED vars
    BY <1>1, <2>1 DEF Reads
  <2> QED
    BY <2>1, <2>2, <2>3
<1>3. /\ pending = "NONE" /\ ~flags.ended /\ flags.game /\ ~flags.firstRound /\ ~flags.result
      /\ flags \in [game : BOOLEAN, firstRound : BOOLEAN, ended : BOOLEAN, result : BOOLEAN]
  BY <1>1, AtBeginning DEF ReaderInv, ParserTypeOK
<1>4. ~OutOfPlace(line)
  BY <1>3 DEF OutOfPlace, Line
<1>5. parserFailed' = parserFailed /\ FeedAction(line)
  BY <1>2, <1>4, Fed DEF Line
<1>6. /\ emitted' = <<>> /\ lastEvent' = lastEvent /\ pendingEvent' = e
      /\ pending' = "WIN_RESULT" /\ handMask' = {} /\ fields' = fields
      /\ flags' = [flags EXCEPT !.result = FALSE]
  BY <1>5 DEF FeedAction, Await, Line
<1>7. flags' = flags
  BY <1>3, <1>6
<1>8. PendingAgrees'
  BY <1>1, <1>2, <1>6 DEF PendingAgrees, Upcoming, Owners
<1>9. ReaderInv'
  BY <1>1, <1>2, <1>5, <1>6, <1>7, <1>8, EventGoesOn
<1> QED
  BY <1>2, <1>6, <1>9 DEF Returns

\* What holds behind the last line of an event that leaves the round open.
LEMMA EventIsOver ==
    ASSUME IInv, ReaderInv, unread # <<>>, unread[1].type # "GAME",
           UNCHANGED <<vars, parserFailed>>,
           unread' = Tail(unread), linesRead' = 0, lastEvent' = <<unread[1]>>,
           flags.game, ~flags.firstRound,
           flags'.game, ~flags'.firstRound, flags' \in [game : BOOLEAN, firstRound : BOOLEAN, ended : BOOLEAN, result : BOOLEAN],
           flags'.ended <=> unread[1].type = "END_GAME",
           flags'.result => unread[1].type \in Over,
           pending' = "NONE", pendingEvent' \in Events, handMask' \in SUBSET Players,
           fields' = Played
    PROVE  ReaderInv'
<1> DEFINE e == unread[1]
<1>1. /\ e \in Events
      /\ e.type \notin Leading => e = rec.last
  BY FirstUnread
<1>2. /\ Rests' /\ Played' = Played /\ rec' = rec /\ header' = header /\ origin' = origin
  BY GameWaits DEF vars
<1>3. /\ Unread' /\ unread' \in Seq(Events)
      /\ ~Upcoming({"GAME", "RIICHI_ACCEPTED"})'
      /\ unread' = <<>> <=> e.type \notin Leading
      /\ ~Upcoming({"ROUND", "END_GAME"})'
  BY <1>2, EventIsRead
<1>4. fields' \in Headers
  BY PlayedFields DEF IInv, TypeOK
<1>5. ParserTypeOK'
  BY <1>3, <1>4 DEF ReaderInv, ParserTypeOK
<1>6. AtResult' <=> unread' = <<>> /\ rec.last.type \in Results
  BY <1>2, <1>3 DEF AtResult, Upcoming
<1>7. FlagsAgree'
  <2>1. ~Upcoming({"GAME"})'
    BY <1>3 DEF Upcoming
  <2>2. flags'.ended <=> unread' = <<>> /\ rec'.last.type = "END_GAME"
    <3>1. rec.last.type = "END_GAME" /\ unread' = <<>> => e.type = "END_GAME"
      BY <1>1, <1>3
    <3>2. e.type = "END_GAME" => rec.last.type = "END_GAME" /\ unread' = <<>>
      BY <1>1, <1>3 DEF Leading
    <3> QED
      BY <1>2, <3>1, <3>2
  <2>3. flags'.result => AtResult' \/ flags'.ended
    BY <1>1, <1>3, <1>6 DEF Over, Results, Leading
  <2>4. unread' = <<>> => lastEvent' = <<rec'.last>>
    BY <1>1, <1>2, <1>3
  <2>5. AtResult' => AfterResult'
    BY <1>1, <1>3, <1>6 DEF AfterResult
  <2> QED
    BY <2>1, <2>2, <2>3, <2>4, <2>5 DEF FlagsAgree
<1>8. PendingAgrees'
  BY DEF PendingAgrees
<1>9. FieldsAgree'
  BY <1>2, <1>3 DEF FieldsAgree, Upcoming
<1> QED
  BY <1>2, <1>3, <1>5, <1>7, <1>8, <1>9 DEF ReaderInv

\* An event of one ACTION line. The sticks are counted when one is put down.
LEMMA ReadAction ==
    ASSUME IInv, ReaderInv, Reads,
           unread[1].type \notin Owners \cup {"GAME", "END_GAME", "WIN"}
    PROVE  ReaderInv' /\ Returns
<1> DEFINE e == unread[1]
           line == Line("ACTION", e, Nobody)
<1>1. /\ unread # <<>> /\ e \in Events /\ Head(unread) = e
      /\ LinesOf(e)[1] = line /\ Len(LinesOf(e)) = 1
  BY FirstUnread, LinesOfEvent DEF Reads
<1>2. linesRead = 0
  BY DEF ReaderInv, Unread, Upcoming, ParserTypeOK
<1>3. FeedLine(line, origin) /\ unread' = Tail(unread) /\ linesRead' = 0 /\ UNCHANGED vars
  <2>1. linesRead + 1 = 1
    BY <1>2
  <2> QED
    BY <1>1, <2>1 DEF Reads, Advance
<1>4. /\ pending = "NONE" /\ ~flags.ended /\ flags.game /\ ~flags.firstRound /\ ~flags.result
      /\ flags \in [game : BOOLEAN, firstRound : BOOLEAN, ended : BOOLEAN, result : BOOLEAN]
  BY <1>1, <1>2, AtBeginning DEF ReaderInv, ParserTypeOK, Owners
<1>5. ~OutOfPlace(line)
  BY <1>4 DEF OutOfPlace, Line
<1>6. parserFailed' = parserFailed /\ FeedAction(line)
  BY <1>3, <1>5, Fed DEF Line
<1>7. /\ emitted' = <<e>> /\ lastEvent' = <<e>>
      /\ UNCHANGED <<pendingEvent, pending>> /\ handMask' = {}
      /\ flags' = [flags EXCEPT !.result = FALSE]
      /\ fields' = IF e.type = "RIICHI_ACCEPTED"
                   THEN [fields EXCEPT !.deposit = @ + 1] ELSE fields
  BY <1>6 DEF FeedAction, Emit, Line
<1>8. fields' = Played
  BY <1>1, <1>4, <1>7 DEF ReaderInv, FieldsAgree, Upcoming, Owners
<1>9. /\ flags' \in [game : BOOLEAN, firstRound : BOOLEAN, ended : BOOLEAN, result : BOOLEAN]
      /\ flags'.game /\ ~flags'.firstRound /\ ~flags'.ended /\ ~flags'.result
  BY <1>4, <1>7
<1>10. pendingEvent' \in Events
  BY <1>7 DEF ReaderInv, ParserTypeOK
<1>11. ReaderInv'
  BY <1>1, <1>3, <1>4, <1>6, <1>7, <1>8, <1>9, <1>10, EventIsOver
<1> QED
  BY <1>3, <1>7, <1>11 DEF Returns

\* The WIN_RESULT line returns the win.
LEMMA ReadWinResult ==
    ASSUME IInv, ReaderInv, Reads, linesRead # 0, unread[1].type = "WIN"
    PROVE  ReaderInv' /\ Returns
<1> DEFINE e == unread[1]
           line == Line("WIN_RESULT", e, Nobody)
<1>1. /\ unread # <<>> /\ e \in Events /\ Head(unread) = e /\ e = rec.last
      /\ LinesOf(e)[2] = line /\ Len(LinesOf(e)) = 2
  BY FirstUnread, LinesOfEvent DEF Reads, Leading
<1>2. linesRead = 1 /\ pending = "WIN_RESULT" /\ pendingEvent = e
  BY <1>1 DEF ReaderInv, ParserTypeOK, PendingAgrees, Upcoming
<1>3. FeedLine(line, origin) /\ unread' = Tail(unread) /\ linesRead' = 0 /\ UNCHANGED vars
  <2>1. linesRead + 1 = 2
    BY <1>2
  <2> QED
    BY <1>1, <2>1 DEF Reads, Advance
<1>4. /\ ~flags.ended /\ flags.game /\ ~flags.firstRound /\ ~flags.result
      /\ flags \in [game : BOOLEAN, firstRound : BOOLEAN, ended : BOOLEAN, result : BOOLEAN]
  BY <1>1, <1>2 DEF ReaderInv, ParserTypeOK, FlagsAgree, AtResult, Upcoming
<1>5. ~OutOfPlace(line)
  BY <1>2, <1>4 DEF OutOfPlace, Line
<1>6. parserFailed' = parserFailed /\ FeedWinResult(line)
  BY <1>3, <1>5, Fed DEF Line
<1>7. /\ emitted' = <<e>> /\ lastEvent' = <<e>> /\ pending' = "NONE"
      /\ UNCHANGED <<pendingEvent, handMask, fields>>
      /\ flags' = [flags EXCEPT !.result = TRUE]
  BY <1>2, <1>6 DEF FeedWinResult, Emit
<1>8. fields' = Played
  BY <1>1, <1>4, <1>7 DEF ReaderInv, FieldsAgree, Upcoming
<1>9. /\ flags' \in [game : BOOLEAN, firstRound : BOOLEAN, ended : BOOLEAN, result : BOOLEAN]
      /\ flags'.game /\ ~flags'.firstRound /\ ~flags'.ended
  BY <1>4, <1>7
<1>10. pendingEvent' \in Events /\ handMask' \in SUBSET Players
  BY <1>7 DEF ReaderInv, ParserTypeOK
<1>11. e.type \in Over
  BY DEF Over, Results
<1>12. ReaderInv'
  BY <1>1, <1>3, <1>4, <1>6, <1>7, <1>8, <1>9, <1>10, <1>11, EventIsOver
<1> QED
  BY <1>3, <1>7, <1>12 DEF Returns

\* An END_GAME line.
LEMMA ReadEndGame ==
    ASSUME IInv, ReaderInv, Reads, unread[1].type = "END_GAME"
    PROVE  ReaderInv' /\ Returns
<1> DEFINE e == unread[1]
           line == Line("END_GAME", e, Nobody)
<1>1. /\ unread # <<>> /\ e \in Events /\ Head(unread) = e
      /\ LinesOf(e)[1] = line /\ Len(LinesOf(e)) = 1
  BY FirstUnread, LinesOfEvent DEF Reads
<1>2. linesRead = 0
  BY DEF ReaderInv, Unread, Upcoming, ParserTypeOK, Owners
<1>3. FeedLine(line, origin) /\ unread' = Tail(unread) /\ linesRead' = 0 /\ UNCHANGED vars
  <2>1. linesRead + 1 = 1
    BY <1>2
  <2> QED
    BY <1>1, <2>1 DEF Reads, Advance
<1>4. /\ pending = "NONE" /\ ~flags.ended /\ flags.game /\ ~flags.firstRound /\ AfterResult
      /\ flags \in [game : BOOLEAN, firstRound : BOOLEAN, ended : BOOLEAN, result : BOOLEAN]
  BY <1>1, <1>2, AtBeginning DEF ReaderInv, ParserTypeOK
<1>5. ~OutOfPlace(line)
  BY <1>4 DEF OutOfPlace, Line
<1>6. parserFailed' = parserFailed /\ FeedEndGame(line)
  BY <1>3, <1>5, Fed DEF Line
<1>7. /\ emitted' = <<e>> /\ lastEvent' = <<e>>
      /\ UNCHANGED <<pendingEvent, pending, handMask, fields>>
      /\ flags' = [flags EXCEPT !.ended = TRUE]
  BY <1>6 DEF FeedEndGame, Emit, Line
<1>8. fields' = Played
  BY <1>1, <1>4, <1>7 DEF ReaderInv, FieldsAgree, Upcoming
<1>9. /\ flags' \in [game : BOOLEAN, firstRound : BOOLEAN, ended : BOOLEAN, result : BOOLEAN]
      /\ flags'.game /\ ~flags'.firstRound /\ flags'.ended
  BY <1>4, <1>7
<1>10. pendingEvent' \in Events /\ handMask' \in SUBSET Players
  BY <1>7 DEF ReaderInv, ParserTypeOK
<1>11. e.type \in Over /\ pending' = "NONE"
  BY <1>4, <1>7 DEF Over
<1>12. ReaderInv'
  BY <1>1, <1>3, <1>4, <1>6, <1>7, <1>8, <1>9, <1>10, <1>11, EventIsOver
<1> QED
  BY <1>3, <1>7, <1>12 DEF Returns

\* A HAND line: the last of the four returns the event they belong to.
LEMMA ReadHand ==
    ASSUME IInv, ReaderInv, Reads, linesRead # 0, unread[1].type \in Owners
    PROVE  ReaderInv' /\ Returns
<1> DEFINE e == unread[1]
           line == Line("HAND", e, linesRead - 1)
<1>1. /\ unread # <<>> /\ e \in Events /\ Head(unread) = e /\ e = rec.last
      /\ \A n \in 1 .. 4 : LinesOf(e)[n + 1] = Line("HAND", e, n - 1)
      /\ Len(LinesOf(e)) = 5
  BY FirstUnread, LinesOfEvent DEF Reads, Leading, Owners
<1>2. /\ linesRead \in 1 .. 4 /\ pending = "HANDS" /\ pendingEvent = e
      /\ handMask = {p \in Players : p < linesRead - 1}
  <2>1. linesRead \in 1 .. 4
    BY DEF ReaderInv, ParserTypeOK
  <2> QED
    BY <1>1, <2>1 DEF ReaderInv, PendingAgrees, Upcoming
<1>3. FeedLine(line, origin) /\ UNCHANGED vars
  BY <1>1, <1>2 DEF Reads
<1>4. IF linesRead = 4 THEN unread' = Tail(unread) /\ linesRead' = 0
      ELSE unread' = unread /\ linesRead' = linesRead + 1
  <2>1. linesRead + 1 = Len(LinesOf(e)) <=> linesRead = 4
    BY <1>1, <1>2
  <2> QED
    BY <1>1, <2>1 DEF Reads, Advance
<1>5. /\ ~flags.ended /\ flags.game /\ ~flags.firstRound /\ ~flags.result
      /\ flags \in [game : BOOLEAN, firstRound : BOOLEAN, ended : BOOLEAN, result : BOOLEAN]
  BY <1>1, <1>2 DEF ReaderInv, ParserTypeOK, FlagsAgree, AtResult, Upcoming, Owners
<1>6. line.name = "HAND" /\ line.seat = linesRead - 1 /\ linesRead - 1 \in Players
      /\ linesRead - 1 \notin handMask
  BY <1>2 DEF Line, Players
<1> HIDE DEF line
<1>7. ~OutOfPlace(line)
  BY <1>2, <1>5, <1>6 DEF OutOfPlace
<1>8. parserFailed' = parserFailed /\ FeedHand(line)
  BY <1>3, <1>6, <1>7, Fed
<1>9. /\ handMask' = {p \in Players : p < linesRead}
      /\ handMask' = Players <=> linesRead = 4
  <2>1. handMask' = handMask \cup {linesRead - 1}
    BY <1>6, <1>8 DEF FeedHand
  <2>2. handMask' = {p \in Players : p < linesRead}
    BY <1>2, <2>1 DEF Players
  <2>3. handMask' = Players <=> linesRead = 4
    BY <1>2, <2>2 DEF Players
  <2> QED
    BY <2>2, <2>3
<1>10. fields' = fields /\ pendingEvent' = pendingEvent
  BY <1>8 DEF FeedHand
<1>11. fields = Played
  BY <1>1, <1>2, <1>5 DEF ReaderInv, FieldsAgree, Upcoming, Owners
<1>12. CASE linesRead = 4
  <2>1. /\ emitted' = <<e>> /\ lastEvent' = <<e>> /\ pending' = "NONE"
        /\ flags' = [flags EXCEPT !.result = e.type \in Results]
    BY <1>2, <1>8, <1>9, <1>12 DEF FeedHand, Emit
  <2>2. /\ flags' \in [game : BOOLEAN, firstRound : BOOLEAN, ended : BOOLEAN, result : BOOLEAN]
        /\ flags'.game /\ ~flags'.firstRound /\ ~flags'.ended
        /\ flags'.result => e.type \in Results
    BY <1>5, <2>1
  <2>3. /\ e.type # "GAME" /\ e.type # "END_GAME"
        /\ flags'.result => e.type \in Over
    BY <2>2 DEF Owners, Over
  <2>4. pendingEvent' \in Events /\ handMask' \in SUBSET Players
    BY <1>1, <1>2, <1>9, <1>10
  <2>5. ReaderInv'
    BY <1>1, <1>3, <1>4, <1>5, <1>8, <1>10, <1>11, <1>12, <2>1, <2>2, <2>3, <2>4, EventIsOver
  <2> QED
    BY <1>4, <1>12, <2>1, <2>5 DEF Returns
<1>13. CASE linesRead # 4
  <2>1. /\ emitted' = <<>> /\ lastEvent' = lastEvent /\ pending' = pending /\ flags' = flags
    BY <1>8, <1>9, <1>13 DEF FeedHand
  <2>2. /\ unread' = unread /\ linesRead' = linesRead + 1
        /\ linesRead' \in 1 .. 4 /\ linesRead' # 0 /\ linesRead' - 1 = linesRead
    BY <1>2, <1>4, <1>13
  <2>3. PendingAgrees'
    BY <1>1, <1>2, <1>9, <1>10, <2>1, <2>2 DEF PendingAgrees, Upcoming, Owners
  <2>4. pendingEvent' \in Events /\ handMask' \in SUBSET Players
    BY <1>1, <1>2, <1>9, <1>10
  <2>5. ReaderInv'
    BY <1>1, <1>3, <1>8, <1>10, <2>1, <2>2, <2>3, <2>4, EventGoesOn
  <2>6. linesRead' > 0
    BY <2>2
  <2> QED
    BY <2>1, <2>2, <2>5, <2>6 DEF Returns
<1> QED
  BY <1>12, <1>13

\* Whatever line comes.
LEMMA ReadsKeeps ==
    ASSUME IInv, ReaderInv, Reads
    PROVE  ReaderInv' /\ Returns
<1>1. CASE unread[1].type = "GAME"
  BY <1>1, ReadGame
<1>2. CASE unread[1].type \in Owners
  BY <1>2, ReadRound, ReadDrawn, ReadHand DEF Owners
<1>3. CASE unread[1].type = "WIN"
  BY <1>3, ReadWin, ReadWinResult
<1>4. CASE unread[1].type = "END_GAME"
  BY <1>4, ReadEndGame
<1>5. CASE unread[1].type \notin Owners \cup {"GAME", "END_GAME", "WIN"}
  BY <1>5, ReadAction
<1> QED
  BY <1>1, <1>2, <1>3, <1>4, <1>5

(***************************************************************************)
(* The analyzer. The one decision that may be open is the one the game     *)
(* waits for, or the events that are left tell what was decided, which is  *)
(* what the players chose.                                                 *)
(***************************************************************************)
Decisions ==
    [trigger : Events, positions : SUBSET Players,
     compound : {<<>>} \cup {<<e>> : e \in Events}]

\* The players a trigger asks, whether they are analysed or not.
AskedBy(t) == IF t.type = "DRAW" THEN {t.player} ELSE Players \ {t.player}

\* The DISCARD that completes what was announced in e.
Completes(g, e) ==
    /\ \E d \in Events : unread = <<d>> /\ d.type = "DISCARD" /\ d.player = e.player
    /\ IF g.trigger.type = "DRAW"
       THEN chosen[g.trigger.player] = e.type
       ELSE chosen[e.player] = e.type

Explained(g) ==
    IF g.compound # <<>> THEN Completes(g, g.compound[1])
    ELSE IF unread = <<>> THEN g.trigger = rec.last
    ELSE IF g.trigger.type = "DRAW"
    THEN TellsMove(unread, g.trigger.player, chosen[g.trigger.player])
    ELSE TellsAnswers(unread, g.trigger.player, chosen)

OpenDecision(g) ==
    /\ g \in Decisions
    /\ g.trigger.type \in {"DRAW", "DISCARD", "UPGRADED_KAN"}
    /\ g.positions \subseteq AskedBy(g.trigger)
    /\ Explained(g)

\* The decisions that may be open.
OpenGroups == groups = <<>> \/ \E g \in Decisions : groups = <<g>> /\ OpenDecision(g)

\* A result that was read is the end of the record, or the next round follows.
LastAgrees ==
    lastEvent # <<>> /\ lastEvent[1].type \in Over =>
        (unread = <<>> /\ rec.last.type \in Over) \/ Upcoming({"ROUND", "END_GAME"})

AnalyzerInv ==
    /\ ~analyzerFailed
    /\ OpenGroups
    /\ LastAgrees
    /\ ClosedAsPlayed

\* advance on no group, and on one.
LEMMA AdvancedNone == ASSUME NEW e, groups = <<>> PROVE Advanced(e) = <<>>
<1> DEFINE F(f) == [n \in 0 .. Len(groups) |->
                       IF n = 0 THEN <<>>
                       ELSE IF Outcome(groups[n], e) = "close" THEN f[n - 1]
                       ELSE Append(f[n - 1], Waiting(groups[n], e))]
           after == CHOOSE f : f = F(f)
<1>1. Advanced(e) = after[Len(groups)]
  BY DEF Advanced
<1>2. \E f : f = F(f)
  <2>1. [n \in 0 .. 0 |-> <<>>] = F([n \in 0 .. 0 |-> <<>>])
    OBVIOUS
  <2> QED
    BY <2>1
<1>3. after = F(after)
  BY <1>2
<1> QED
  BY <1>1, <1>3

LEMMA AdvancedOne ==
    ASSUME NEW e, NEW g, groups = <<g>>
    PROVE  Advanced(e) = IF Outcome(g, e) = "close" THEN <<>> ELSE <<Waiting(g, e)>>
<1> DEFINE F(f) == [n \in 0 .. Len(groups) |->
                       IF n = 0 THEN <<>>
                       ELSE IF Outcome(groups[n], e) = "close" THEN f[n - 1]
                       ELSE Append(f[n - 1], Waiting(groups[n], e))]
           after == CHOOSE f : f = F(f)
           one == IF Outcome(g, e) = "close" THEN <<>> ELSE <<Waiting(g, e)>>
           w == [n \in 0 .. 1 |-> IF n = 0 THEN <<>> ELSE one]
<1>1. Advanced(e) = after[Len(groups)]
  BY DEF Advanced
<1>2. \E f : f = F(f)
  <2>1. F(w) = [n \in 0 .. 1 |-> IF n = 0 THEN <<>>
                                 ELSE IF Outcome(g, e) = "close" THEN w[n - 1]
                                 ELSE Append(w[n - 1], Waiting(g, e))]
    OBVIOUS
  <2>2. w[0] = <<>> /\ Append(<<>>, Waiting(g, e)) = <<Waiting(g, e)>>
    OBVIOUS
  <2>3. w = F(w)
    BY <2>1, <2>2
  <2> QED
    BY <2>3
<1>3. after = F(after)
  BY <1>2
<1> HIDE DEF after
<1>4. after[0] = <<>>
  BY <1>3
<1>5. after[1] = IF Outcome(g, e) = "close" THEN after[0] ELSE Append(after[0], Waiting(g, e))
  BY <1>3
<1> QED
  BY <1>1, <1>4, <1>5

\* What an event does to a decision, by the cases of advance.
LEMMA OutcomeCases ==
    ASSUME NEW g, NEW e
    PROVE  /\ IsSideEffect(e) => Outcome(g, e) = "keep"
           /\ ~IsSideEffect(e) /\ g.compound # <<>>
              /\ e.type = "DISCARD" /\ e.player = g.compound[1].player => Outcome(g, e) = "close"
           /\ ~IsSideEffect(e) /\ g.compound = <<>> /\ g.trigger.type = "DRAW"
              /\ e.player = g.trigger.player =>
                /\ e.type \in {"DISCARD", "CONCEALED_KAN", "UPGRADED_KAN", "WIN",
                               "DRAWN_NINE_TERMINALS"} => Outcome(g, e) = "close"
                /\ e.type = "RIICHI" => Outcome(g, e) = "wait"
           /\ ~IsSideEffect(e) /\ g.compound = <<>> /\ g.trigger.type # "DRAW" =>
                /\ e.type \in {"CHII", "PON"} => Outcome(g, e) = "wait"
                /\ e.type \in {"WIN", "OPEN_KAN", "DRAW", "DRAWN_EXHAUSTIVE"} =>
                      Outcome(g, e) = "close"
<1>1. ASSUME IsSideEffect(e) PROVE Outcome(g, e) = "keep"
  BY <1>1 DEF Outcome
<1>2. ASSUME ~IsSideEffect(e), g.compound # <<>>,
             e.type = "DISCARD", e.player = g.compound[1].player
      PROVE  Outcome(g, e) = "close"
  BY <1>2 DEF Outcome
<1>3. ASSUME ~IsSideEffect(e), g.compound = <<>>, g.trigger.type = "DRAW",
             e.player = g.trigger.player
      PROVE  /\ e.type \in {"DISCARD", "CONCEALED_KAN", "UPGRADED_KAN", "WIN",
                            "DRAWN_NINE_TERMINALS"} => Outcome(g, e) = "close"
             /\ e.type = "RIICHI" => Outcome(g, e) = "wait"
  BY <1>3 DEF Outcome
<1>4. ASSUME ~IsSideEffect(e), g.compound = <<>>, g.trigger.type # "DRAW"
      PROVE  /\ e.type \in {"CHII", "PON"} => Outcome(g, e) = "wait"
             /\ e.type \in {"WIN", "OPEN_KAN", "DRAW", "DRAWN_EXHAUSTIVE"} =>
                   Outcome(g, e) = "close"
  BY <1>4 DEF Outcome, IsResponse, IsBoundary, Calls, Results
<1> QED
  BY <1>1, <1>2, <1>3, <1>4

\* The first event and what is left of one, two or three.
LEMMA ShortTails ==
    ASSUME NEW e \in Events, NEW f \in Events, NEW d \in Events
    PROVE  /\ <<e>>[1] = e /\ Tail(<<e>>) = <<>> /\ <<e>> # <<>>
           /\ <<e, f>>[1] = e /\ Tail(<<e, f>>) = <<f>> /\ <<e, f>> # <<>>
           /\ <<e, f, d>>[1] = e /\ Tail(<<e, f, d>>) = <<f, d>> /\ <<e, f, d>> # <<>>
  OBVIOUS

\* What the analyzer reports when e closes g is what the players chose.
AsChosen(g, e) ==
    \A p \in g.positions : Actual(g, e, p) # <<>> => Actual(g, e, p)[1] = chosen[p]

\* The decision is closed as it was made, or the next event will tell of it.
Follows(g, e) ==
    \/ Outcome(g, e) = "close" /\ AsChosen(g, e)
    \/ /\ Outcome(g, e) \in {"keep", "wait"} /\ unread' # <<>>
       /\ OpenDecision(Waiting(g, e))'

\* A group that waits keeps the event it waits with.
LEMMA WaitingFields ==
    ASSUME NEW g \in Decisions, NEW e \in Events
    PROVE  /\ Waiting(g, e) \in Decisions
           /\ Waiting(g, e).trigger = g.trigger /\ Waiting(g, e).positions = g.positions
           /\ Outcome(g, e) = "wait" => Waiting(g, e).compound = <<e>>
           /\ Outcome(g, e) # "wait" => Waiting(g, e) = g
<1>1. CASE Outcome(g, e) = "wait"
  <2>1. Waiting(g, e) = [g EXCEPT !.compound = <<e>>]
    BY <1>1 DEF Waiting
  <2> QED
    BY <1>1, <2>1 DEF Decisions
<1>2. CASE Outcome(g, e) # "wait"
  BY <1>2 DEF Waiting
<1> QED
  BY <1>1, <1>2

\* The DISCARD behind a RIICHI, CHII or PON.
LEMMA CompoundFollows ==
    ASSUME NEW g, NEW e, OpenDecision(g), g.compound # <<>>, unread # <<>>, e = unread[1]
    PROVE  Follows(g, e)
<1> DEFINE k == g.compound[1]
<1>1. g \in Decisions /\ Completes(g, k)
  BY DEF OpenDecision, Explained
<1>2. e.type = "DISCARD" /\ e.player = k.player
  BY <1>1, ShortTails DEF Completes
<1>3. ~IsSideEffect(e)
  BY <1>2 DEF IsSideEffect
<1>4. Outcome(g, e) = "close"
  BY <1>2, <1>3, OutcomeCases
<1>5. ASSUME NEW p \in g.positions, Actual(g, e, p) # <<>>
      PROVE  Actual(g, e, p)[1] = chosen[p]
  <2>1. Actual(g, e, p) = IF g.trigger.type = "DRAW" \/ p = k.player
                          THEN <<k.type, e.type>> ELSE <<>>
    BY DEF Actual
  <2>2. g.trigger.type = "DRAW" \/ p = k.player
    BY <1>5, <2>1
  <2>3. Actual(g, e, p)[1] = k.type
    BY <2>1, <2>2
  <2>4. CASE g.trigger.type = "DRAW"
    <3>1. p = g.trigger.player
      BY <2>4 DEF OpenDecision, AskedBy
    <3> QED
      BY <1>1, <2>3, <2>4, <3>1 DEF Completes
  <2>5. CASE g.trigger.type # "DRAW"
    BY <1>1, <2>2, <2>3, <2>5 DEF Completes
  <2> QED
    BY <2>4, <2>5
<1> QED
  BY <1>4, <1>5 DEF Follows, AsChosen

\* The move of the player who drew.
LEMMA MoveFollows ==
    ASSUME NEW g, NEW a, OpenDecision(g), g.compound = <<>>, g.trigger.type = "DRAW",
           unread # <<>>, a = unread[1], unread' = Tail(unread),
           UNCHANGED <<chosen, rec>>
    PROVE  Follows(g, a)
<1> DEFINE p == g.trigger.player
           m == chosen[p]
<1>1. /\ g \in Decisions /\ g.positions \subseteq {p}
      /\ TellsMove(unread, p, m)
  BY DEF OpenDecision, Explained, AskedBy
<1>2. ASSUME NEW e \in Events, unread = <<e>>, e.player = p,
             \/ e.type = m /\ m \in {"DISCARD", "CONCEALED_KAN", "UPGRADED_KAN", "WIN"}
             \/ e.type = "DRAWN_NINE_TERMINALS" /\ m = "NINE_TERMINALS"
      PROVE  Follows(g, a)
  <2>1. a = e /\ ~IsSideEffect(e)
    BY <1>2, ShortTails DEF IsSideEffect
  <2>2. Outcome(g, e) = "close"
    BY <1>2, <2>1, OutcomeCases
  <2>3. \A q \in g.positions : Actual(g, e, q) = <<m>> /\ q = p
    BY <1>1, <1>2 DEF Actual
  <2>4. AsChosen(g, e)
    BY <2>3 DEF AsChosen
  <2> QED
    BY <2>1, <2>2, <2>4 DEF Follows
<1>3. ASSUME NEW e \in Events, NEW d \in Events,
             unread = <<e, d>>, e.player = p, d.player = p,
             e.type = "RIICHI", m = "RIICHI", d.type = "DISCARD"
      PROVE  Follows(g, a)
  <2>1. a = e /\ unread' = <<d>> /\ unread' # <<>> /\ ~IsSideEffect(e)
    BY <1>3, ShortTails DEF IsSideEffect
  <2>2. Outcome(g, e) = "wait"
    BY <1>3, <2>1, OutcomeCases
  <2> DEFINE n == Waiting(g, e)
  <2>3. n \in Decisions /\ n.trigger = g.trigger /\ n.positions = g.positions /\ n.compound = <<e>>
    BY <1>1, <2>2, WaitingFields
  <2> HIDE DEF n
  <2>4. n.compound # <<>> /\ n.compound[1] = e
    BY <2>3
  <2>5. Completes(n, e)'
    BY <1>3, <2>1, <2>3 DEF Completes
  <2>6. OpenDecision(n)'
    BY <2>3, <2>4, <2>5 DEF OpenDecision, Explained
  <2> QED
    BY <2>1, <2>2, <2>6 DEF Follows, n
<1> QED
  BY <1>1, <1>2, <1>3 DEF TellsMove

\* The answers to a discard or an upgraded kan.
LEMMA AnswersFollow ==
    ASSUME NEW g, NEW a, OpenDecision(g), g.compound = <<>>, g.trigger.type # "DRAW",
           unread # <<>>, a = unread[1], unread' = Tail(unread),
           UNCHANGED <<chosen, rec>>
    PROVE  Follows(g, a)
<1> DEFINE t == g.trigger.player
<1>1. /\ g \in Decisions /\ g.positions \subseteq Players \ {t}
      /\ TellsAnswers(unread, t, chosen)
  BY DEF OpenDecision, Explained, AskedBy
<1>2. ASSUME NEW e \in Events, unread = <<e>>, TellsAnswer(e, t, chosen)
      PROVE  Follows(g, a)
  <2>1. a = e /\ ~IsSideEffect(e)
    BY <1>2, ShortTails DEF IsSideEffect, TellsAnswer
  <2>2. Outcome(g, e) = "close"
    BY <1>2, <2>1, OutcomeCases DEF TellsAnswer
  <2>3. \A p \in g.positions : Actual(g, e, p) =
           IF e.type \notin {"CHII", "PON", "OPEN_KAN", "WIN"} THEN <<"PASS">>
           ELSE IF p = e.player THEN <<e.type>> ELSE <<>>
    BY DEF Actual, IsResponse, Calls
  <2>4. AsChosen(g, e)
    <3> SUFFICES ASSUME NEW p \in g.positions, Actual(g, e, p) # <<>>
                 PROVE  Actual(g, e, p)[1] = chosen[p]
      BY DEF AsChosen
    <3>1. CASE e.type \in {"WIN", "OPEN_KAN"} /\ chosen[e.player] = e.type
      BY <2>3, <3>1
    <3>2. CASE /\ e.type \in {"DRAW", "DRAWN_EXHAUSTIVE"}
               /\ \A q \in Players \ {t} : chosen[q] = "PASS"
      BY <1>1, <2>3, <3>2
    <3> QED
      BY <1>2, <3>1, <3>2 DEF TellsAnswer
  <2> QED
    BY <2>1, <2>2, <2>4 DEF Follows
<1>3. ASSUME NEW e \in Events, NEW d \in Events, unread = <<e, d>>, TellsCall(e, d, chosen)
      PROVE  Follows(g, a)
  <2>1. a = e /\ unread' = <<d>> /\ unread' # <<>> /\ ~IsSideEffect(e)
    BY <1>3, ShortTails DEF IsSideEffect, TellsCall
  <2>2. Outcome(g, e) = "wait"
    BY <1>3, <2>1, OutcomeCases DEF TellsCall
  <2> DEFINE n == Waiting(g, e)
  <2>3. n \in Decisions /\ n.trigger = g.trigger /\ n.positions = g.positions /\ n.compound = <<e>>
    BY <1>1, <2>2, WaitingFields
  <2> HIDE DEF n
  <2>4. n.compound # <<>> /\ n.compound[1] = e
    BY <2>3
  <2>5. Completes(n, e)'
    BY <1>3, <2>1, <2>3 DEF Completes, TellsCall
  <2>6. OpenDecision(n)'
    BY <2>3, <2>4, <2>5 DEF OpenDecision, Explained
  <2> QED
    BY <2>1, <2>2, <2>6 DEF Follows, n
<1>4. ASSUME NEW s \in Events, IsSideEffect(s), a = s, unread' # <<>>,
             TellsAnswers(unread', t, chosen)
      PROVE  Follows(g, a)
  <2>1. Outcome(g, s) = "keep"
    BY <1>4, OutcomeCases
  <2>2. Waiting(g, s) = g
    BY <1>1, <2>1, WaitingFields
  <2>3. OpenDecision(g)'
    BY <1>1, <1>4 DEF OpenDecision, Explained
  <2>4. OpenDecision(Waiting(g, s))'
    BY <2>2, <2>3
  <2> QED
    BY <1>4, <2>1, <2>4 DEF Follows
<1>5. ASSUME NEW s \in Events, NEW e \in Events,
             unread = <<s, e>>, IsSideEffect(s), TellsAnswer(e, t, chosen)
      PROVE  Follows(g, a)
  <2>1. a = s /\ unread' = <<e>> /\ unread' # <<>>
    BY <1>5, ShortTails
  <2> QED
    BY <1>4, <1>5, <2>1 DEF TellsAnswers
<1>6. ASSUME NEW s \in Events, NEW e \in Events, NEW d \in Events,
             unread = <<s, e, d>>, IsSideEffect(s), TellsCall(e, d, chosen)
      PROVE  Follows(g, a)
  <2>1. a = s /\ unread' = <<e, d>> /\ unread' # <<>>
    BY <1>6, ShortTails
  <2> QED
    BY <1>4, <1>6, <2>1 DEF TellsAnswers
<1> QED
  BY <1>1, <1>2, <1>3, <1>5, <1>6 DEF TellsAnswers

\* The next event closes an open decision, or leaves it waiting for one more.
LEMMA DecisionFollows ==
    ASSUME NEW g, NEW e, OpenDecision(g), unread # <<>>, e = unread[1],
           unread' = Tail(unread), UNCHANGED <<chosen, rec>>
    PROVE  Follows(g, e)
<1>1. CASE g.compound # <<>>
  BY <1>1, CompoundFollows
<1>2. CASE g.compound = <<>> /\ g.trigger.type = "DRAW"
  BY <1>2, MoveFollows
<1>3. CASE g.compound = <<>> /\ g.trigger.type # "DRAW"
  BY <1>3, AnswersFollow
<1> QED
  BY <1>1, <1>2, <1>3

(***************************************************************************)
(* consume, of the event that a line completed.                            *)
(***************************************************************************)
\* An event that asks is the one the game waits at, so nothing is left to read.
LEMMA DecisionOpens ==
    ASSUME IInv, ReaderInv, unread # <<>>, unread' = Tail(unread), linesRead' = 0, rec' = rec,
           NEW e, e = unread[1], NEW deciding, deciding \subseteq Reviewed(e), deciding # {}
    PROVE  /\ unread' = <<>>
           /\ Group(e, deciding) \in Decisions
           /\ OpenDecision(Group(e, deciding))'
<1> DEFINE n == Group(e, deciding)
<1>1. /\ e.type \in {"DRAW", "DISCARD", "UPGRADED_KAN"}
      /\ deciding \subseteq AskedBy(e) /\ deciding \in SUBSET Players
  BY MaskAssumption DEF Reviewed, AskedBy
<1>2. e.type \notin Leading
  BY <1>1 DEF Leading
<1>3. e \in Events /\ e = rec.last /\ unread' = <<>>
  BY <1>2, FirstUnread
<1>4. /\ n \in Decisions
      /\ n.trigger = e /\ n.positions = deciding /\ n.compound = <<>>
  BY <1>1, <1>3 DEF Group, Decisions
<1> HIDE DEF n
<1>5. Explained(n)'
  BY <1>3, <1>4 DEF Explained
<1>6. OpenDecision(n)'
  BY <1>1, <1>4, <1>5 DEF OpenDecision
<1> QED
  BY <1>3, <1>4, <1>6 DEF n

\* An event when no decision is open.
LEMMA ConsumeAlone ==
    ASSUME IInv, ReaderInv, groups = <<>>, unread # <<>>, unread' = Tail(unread),
           linesRead' = 0, UNCHANGED <<rec, chosen>>,
           NEW e, e = unread[1], NEW deciding, Consume(e, deciding)
    PROVE  /\ analyzerFailed' = analyzerFailed
           /\ OpenGroups'
           /\ ClosedAsPlayed'
<1> DEFINE n == Group(e, deciding)
<1>1. deciding \subseteq Reviewed(e) /\ DOMAIN groups = {}
  BY DEF Consume
<1>2. /\ analyzerFailed' = analyzerFailed
      /\ groups' = Advanced(e) \o (IF deciding = {} THEN <<>> ELSE <<n>>)
      /\ results' = ClosedBy(e)
  BY <1>1 DEF Consume
<1>3. ClosedBy(e) = {}
  BY <1>1 DEF ClosedBy, Closing
<1>4. groups' = IF deciding = {} THEN <<>> ELSE <<n>>
  <2>1. <<>> \o <<>> = <<>> /\ <<>> \o <<n>> = <<n>>
    OBVIOUS
  <2> QED
    BY <1>2, <2>1, AdvancedNone
<1>5. OpenGroups'
  <2>1. CASE deciding = {}
    BY <1>4, <2>1 DEF OpenGroups
  <2>2. CASE deciding # {}
    <3>1. n \in Decisions /\ OpenDecision(n)'
      BY <1>1, <2>2, DecisionOpens
    <3>2. groups' = <<n>>
      BY <1>4, <2>2
    <3> HIDE DEF n
    <3> QED
      BY <3>1, <3>2 DEF OpenGroups
  <2> QED
    BY <2>1, <2>2
<1>6. ClosedAsPlayed'
  BY <1>2, <1>3 DEF ClosedAsPlayed
<1> QED
  BY <1>2, <1>5, <1>6

\* An event when a decision is open: a new one opens only when it is closed.
LEMMA ConsumeAnswer ==
    ASSUME IInv, ReaderInv, NEW g \in Decisions, groups = <<g>>, OpenDecision(g),
           unread # <<>>, unread' = Tail(unread),
           linesRead' = 0, UNCHANGED <<rec, chosen>>,
           NEW e, e = unread[1], NEW deciding, Consume(e, deciding)
    PROVE  /\ analyzerFailed' = analyzerFailed
           /\ OpenGroups'
           /\ ClosedAsPlayed'
<1> DEFINE n == Group(e, deciding)
           w == Waiting(g, e)
<1>1. /\ deciding \subseteq Reviewed(e) /\ DOMAIN groups = {1} /\ groups[1] = g
      /\ e \in Events
  BY FirstUnread DEF Consume
<1>2. Follows(g, e)
  BY DecisionFollows
<1>3. Outcome(g, e) # "throw"
  BY <1>2 DEF Follows
<1>4. /\ analyzerFailed' = analyzerFailed
      /\ groups' = Advanced(e) \o (IF deciding = {} THEN <<>> ELSE <<n>>)
      /\ results' = ClosedBy(e)
  BY <1>1, <1>3 DEF Consume
<1>5. CASE Outcome(g, e) = "close" /\ AsChosen(g, e)
  <2>1. groups' = IF deciding = {} THEN <<>> ELSE <<n>>
    <3>1. <<>> \o <<>> = <<>> /\ <<>> \o <<n>> = <<n>>
      OBVIOUS
    <3> QED
      BY <1>4, <1>5, <3>1, AdvancedOne
  <2>2. OpenGroups'
    <3>1. CASE deciding = {}
      BY <2>1, <3>1 DEF OpenGroups
    <3>2. CASE deciding # {}
      <4>1. n \in Decisions /\ OpenDecision(n)'
        BY <1>1, <3>2, DecisionOpens
      <4>2. groups' = <<n>>
        BY <2>1, <3>2
      <4> HIDE DEF n
      <4> QED
        BY <4>1, <4>2 DEF OpenGroups
    <3> QED
      BY <3>1, <3>2
  <2>3. ClosedAsPlayed'
    <3>1. results' = {Observed(g, p, Actual(g, e, p)) : p \in g.positions}
      <4>1. Closing(e) = {1}
        BY <1>1, <1>5 DEF Closing
      <4> QED
        BY <1>1, <1>4, <4>1 DEF ClosedBy
    <3>2. \A p \in g.positions :
             LET r == Observed(g, p, Actual(g, e, p))
             IN r.player = p /\ r.actual = Actual(g, e, p)
      BY DEF Observed
    <3> QED
      BY <1>5, <3>1, <3>2 DEF ClosedAsPlayed, AsChosen
  <2> QED
    BY <1>4, <2>2, <2>3
<1>6. CASE /\ Outcome(g, e) \in {"keep", "wait"} /\ unread' # <<>>
           /\ OpenDecision(w)'
  <2>1. deciding = {}
    BY <1>1, <1>6, DecisionOpens
  <2>2. groups' = <<w>>
    <3>1. <<w>> \o <<>> = <<w>>
      OBVIOUS
    <3> QED
      BY <1>4, <1>6, <2>1, <3>1, AdvancedOne
  <2>3. w \in Decisions
    BY <1>1, WaitingFields
  <2>4. OpenGroups'
    <3> HIDE DEF w
    <3> QED
      BY <1>6, <2>2, <2>3 DEF OpenGroups
  <2>5. ClosedAsPlayed'
    <3>1. Closing(e) = {}
      BY <1>1, <1>6 DEF Closing
    <3>2. results' = {}
      BY <1>4, <3>1 DEF ClosedBy
    <3> QED
      BY <3>2 DEF ClosedAsPlayed
  <2> QED
    BY <1>4, <2>4, <2>5
<1> QED
  BY <1>2, <1>5, <1>6 DEF Follows

\* A line that is read.
LEMMA ReadKeepsAnalyzer ==
    ASSUME IInv, ReaderInv, AnalyzerInv, ReadLine
    PROVE  ReaderInv' /\ AnalyzerInv'
<1>1. Reads /\ UNCHANGED vars /\ rec' = rec /\ chosen' = chosen /\ unread # <<>>
  BY DEF ReadLine, Reads, vars
<1>2. ReaderInv' /\ Returns
  BY <1>1, ReadsKeeps
<1>3. CASE /\ emitted' = <<unread[1]>> /\ lastEvent' = <<unread[1]>>
           /\ unread' = Tail(unread) /\ linesRead' = 0
  <2>1. PICK e : e = unread[1]
    OBVIOUS
  <2>2. PICK deciding \in SUBSET Reviewed(e) : Consume(e, deciding)
    <3>1. emitted' # <<>> /\ emitted'[1] = e
      BY <1>3, <2>1
    <3> QED
      BY <3>1 DEF ReadLine
  <2>3. /\ analyzerFailed' = analyzerFailed
        /\ OpenGroups'
        /\ ClosedAsPlayed'
    <3>1. CASE groups = <<>>
      BY <1>1, <1>3, <2>1, <2>2, <3>1, ConsumeAlone
    <3>2. CASE groups # <<>>
      <4>1. PICK g \in Decisions : groups = <<g>> /\ OpenDecision(g)
        BY <3>2 DEF AnalyzerInv, OpenGroups
      <4> QED
        BY <1>1, <1>3, <2>1, <2>2, <4>1, ConsumeAnswer
    <3> QED
      BY <3>1, <3>2
  <2>4. LastAgrees'
    <3>1. e.type \in Over => unread' = <<>> /\ e = rec.last
      BY <1>1, <1>3, <2>1, FirstUnread DEF Over, Results, Leading
    <3>2. lastEvent' = <<e>> /\ lastEvent'[1] = e
      BY <1>3, <2>1
    <3> QED
      BY <1>1, <3>1, <3>2 DEF LastAgrees
  <2> QED
    BY <1>2, <2>3, <2>4 DEF AnalyzerInv
<1>4. CASE emitted' = <<>> /\ lastEvent' = lastEvent /\ unread' = unread /\ linesRead' > 0
  <2>1. results' = {} /\ groups' = groups /\ analyzerFailed' = analyzerFailed
    BY <1>4 DEF ReadLine
  <2>2. \A g : OpenDecision(g) => OpenDecision(g)'
    BY <1>1, <1>4 DEF OpenDecision, Explained, Completes
  <2>3. OpenGroups'
    BY <2>1, <2>2 DEF AnalyzerInv, OpenGroups
  <2>4. LastAgrees'
    BY <1>1, <1>4 DEF AnalyzerInv, LastAgrees, Upcoming
  <2>5. ClosedAsPlayed'
    BY <2>1 DEF ClosedAsPlayed
  <2> QED
    BY <1>2, <2>1, <2>3, <2>4, <2>5 DEF AnalyzerInv
<1> QED
  BY <1>2, <1>3, <1>4 DEF Returns

(***************************************************************************)
(* The game goes on with nothing left to read: a decision that is open is  *)
(* the one the game waits for, and what it writes tells what was decided.  *)
(***************************************************************************)
LEMMA PlayKeepsAnalyzer ==
    ASSUME IInv, ReaderInv, AnalyzerInv, Play
    PROVE  ReaderInv' /\ AnalyzerInv'
<1>1. ReaderInv' /\ IInv' /\ Called
  BY PlayIsCall, PlayKeepsReader
<1>2. /\ unread = <<>> /\ unread' = wrote' /\ unread' # <<>> /\ results' = {}
      /\ groups' = groups /\ analyzerFailed' = analyzerFailed /\ lastEvent' = lastEvent
  BY <1>1 DEF Play, parserVars, Called, Batch
<1>3. LastAgrees'
  <2>1. lastEvent = <<rec.last>> /\ lastEvent[1] = rec.last
    BY <1>2 DEF ReaderInv, FlagsAgree
  <2>2. rec.last.type \in Over => rec'.last.type \in {"ROUND", "END_GAME"}
    BY <1>1 DEF Called, Over
  <2>3. rec'.last.type \in {"ROUND", "END_GAME"} => unread'[1] = rec'.last
    BY <1>1, <1>2 DEF Called, Batch, Over
  <2> QED
    BY <1>2, <2>1, <2>2, <2>3 DEF LastAgrees, Upcoming
<1>4. ClosedAsPlayed'
  BY <1>2 DEF ClosedAsPlayed
<1>5. ASSUME NEW g \in Decisions, groups = <<g>>, OpenDecision(g)
      PROVE  OpenDecision(g)'
  <2>1. g.compound = <<>>
    <3>1. \A d : unread # <<d>>
      BY <1>2
    <3> QED
      BY <1>5, <3>1 DEF OpenDecision, Explained, Completes
  <2>2. g.trigger = rec.last /\ rec.last.type \in {"DRAW", "DISCARD", "UPGRADED_KAN"}
    BY <1>2, <1>5, <2>1 DEF OpenDecision, Explained
  <2>3. \/ \E m \in OwnMoves : MoveAfterDraw(m) /\ chosen' = [p \in {rec.last.player} |-> m]
        \/ \E c \in Answers(rec) : MoveAfterDiscard(c) /\ chosen' = c
    BY <2>2 DEF Play, FirstDraw, AfterConcealedKan, AfterOpenKan, EndGame, NextRound, Results
  <2>4. ASSUME NEW m \in OwnMoves, MoveAfterDraw(m), chosen' = [p \in {rec.last.player} |-> m]
        PROVE  Explained(g)'
    <3>1. TellsMove(unread', rec.last.player, m)
      BY <1>1, <1>2, <2>4, MoveAfterDrawCalled
    <3>2. rec.last.type = "DRAW" /\ chosen'[rec.last.player] = m
      BY <2>4 DEF MoveAfterDraw
    <3> QED
      BY <1>2, <2>1, <2>2, <3>1, <3>2 DEF Explained
  <2>5. ASSUME NEW c \in Answers(rec), MoveAfterDiscard(c), chosen' = c
        PROVE  Explained(g)'
    <3>1. TellsAnswers(unread', rec.last.player, chosen')
      BY <1>1, <1>2, <2>5, MoveAfterDiscardCalled
    <3>2. rec.last.type # "DRAW"
      BY <2>5 DEF MoveAfterDiscard
    <3> QED
      BY <1>2, <2>1, <2>2, <3>1, <3>2 DEF Explained
  <2> QED
    BY <1>5, <2>3, <2>4, <2>5 DEF OpenDecision
<1>6. OpenGroups'
  BY <1>2, <1>5 DEF AnalyzerInv, OpenGroups
<1> QED
  BY <1>1, <1>2, <1>3, <1>4, <1>6 DEF AnalyzerInv

(***************************************************************************)
(* The inductive invariant of the game, its reader and the analyzer.       *)
(***************************************************************************)
AnalyzedInv == IInv /\ ReaderInv /\ AnalyzerInv

LEMMA AnalyzedInitInv == AnalyzedInit => AnalyzedInv
<1> SUFFICES ASSUME AnalyzedInit PROVE AnalyzedInv
  OBVIOUS
<1> DEFINE e == Event("GAME", Nobody)
           f == Event("ROUND", Nobody)
<1>1. IInv
  BY InitIInv DEF AnalyzedInit
<1>2. /\ e \in Events /\ f \in Events /\ e.type = "GAME" /\ f.type = "ROUND"
      /\ NoEvent = e
  BY EventFields DEF EventTypes, NoEvent
<1>3. /\ unread = <<e, f>> /\ rec = FreshRecord /\ rec.last = f /\ header = origin
      /\ linesRead = 0
  BY DEF AnalyzedInit, Init, FreshRecord
<1>4. /\ lastEvent = <<>> /\ pendingEvent = e /\ pending = "NONE" /\ handMask = {}
      /\ flags = [game |-> FALSE, firstRound |-> TRUE, ended |-> FALSE, result |-> FALSE]
      /\ fields = [dealer |-> 0, wind |-> 0, round |-> 1, ranking |-> 0,
                   repeat |-> 0, deposit |-> 0, scores |-> NoScores]
      /\ ~parserFailed
  BY <1>2 DEF AnalyzedInit, ParserInit
<1> HIDE DEF e, f
<1>5. /\ unread \in Seq(Events) /\ Len(unread) = 2 /\ unread[1] = e /\ unread[2] = f
      /\ unread # <<>>
  BY <1>2, <1>3
<1>6. Rests
  BY <1>2, <1>3 DEF Rests, Leading, Results
<1>7. ParserTypeOK
  <2>1. fields \in Headers
    BY <1>4 DEF Headers, Players, NoScores
  <2>2. pendingEvent \in Events /\ handMask \subseteq Players
    BY <1>2, <1>4
  <2> QED
    BY <1>3, <1>4, <1>5, <2>1, <2>2 DEF ParserTypeOK
<1>8. Unread
  BY <1>2, <1>3, <1>5 DEF Unread, Upcoming, Leading, Over, Results
<1>9. FlagsAgree
  <2>1. Upcoming({"GAME"}) /\ ~AtResult
    BY <1>2, <1>4, <1>5 DEF Upcoming, AtResult
  <2> QED
    BY <1>2, <1>3, <1>4, <1>5, <2>1 DEF FlagsAgree
<1>10. PendingAgrees /\ FieldsAgree
  BY <1>3, <1>4 DEF PendingAgrees, FieldsAgree
<1>11. AnalyzerInv
  BY <1>4 DEF AnalyzedInit, AnalyzerInit, AnalyzerInv, OpenGroups, LastAgrees, ClosedAsPlayed
<1> QED
  BY <1>1, <1>4, <1>6, <1>7, <1>8, <1>9, <1>10, <1>11 DEF AnalyzedInv, ReaderInv

LEMMA AnalyzedNextInv == AnalyzedInv /\ [AnalyzedNext]_allVars => AnalyzedInv'
<1> SUFFICES ASSUME AnalyzedInv, [AnalyzedNext]_allVars PROVE AnalyzedInv'
  OBVIOUS
<1>1. IInv /\ ReaderInv /\ AnalyzerInv
  BY DEF AnalyzedInv
<1>2. CASE Play
  BY <1>1, <1>2, PlayIsCall, PlayKeepsAnalyzer DEF AnalyzedInv
<1>3. CASE ReadLine
  <2>1. UNCHANGED vars
    BY <1>3 DEF ReadLine
  <2>2. IInv'
    BY <1>1, <2>1, NextIInv
  <2> QED
    BY <1>1, <1>3, <2>2, ReadKeepsAnalyzer DEF AnalyzedInv
<1>4. CASE UNCHANGED allVars
  <2>1. /\ UNCHANGED <<vars, parserVars, analyzerVars, unread, linesRead, chosen>>
        /\ UNCHANGED <<origin, header, rec>>
        /\ UNCHANGED <<lastEvent, pendingEvent, pending, handMask, flags, fields, parserFailed>>
        /\ UNCHANGED <<groups, results, analyzerFailed>>
    BY <1>4 DEF allVars, vars, parserVars, analyzerVars
  <2>2. IInv'
    BY <1>1, <2>1, NextIInv
  <2>3. Rests' /\ ParserTypeOK' /\ Unread' /\ PendingAgrees' /\ ~parserFailed'
    BY <1>1, <2>1 DEF ReaderInv, Rests, ParserTypeOK, Unread, PendingAgrees, Upcoming
  <2>4. FlagsAgree'
    BY <1>1, <2>1 DEF ReaderInv, FlagsAgree, AtResult, AfterResult, Upcoming
  <2>5. FieldsAgree'
    BY <1>1, <2>1 DEF ReaderInv, FieldsAgree, Played, Upcoming
  <2>6. \A g : OpenDecision(g) => OpenDecision(g)'
    BY <2>1 DEF OpenDecision, Explained, Completes
  <2>7. OpenGroups'
    BY <1>1, <2>1, <2>6 DEF AnalyzerInv, OpenGroups
  <2>8. LastAgrees' /\ ClosedAsPlayed' /\ ~analyzerFailed'
    BY <1>1, <2>1 DEF AnalyzerInv, LastAgrees, ClosedAsPlayed, Upcoming
  <2> QED
    BY <2>2, <2>3, <2>4, <2>5, <2>7, <2>8 DEF AnalyzedInv, ReaderInv, AnalyzerInv
<1> QED
  BY <1>2, <1>3, <1>4 DEF AnalyzedNext

\* The inductive invariant holds at every line of every record.
THEOREM AnalyzedInvariantHolds == AnalyzedSpec => []AnalyzedInv
<1>1. AnalyzedInit => AnalyzedInv
  BY AnalyzedInitInv
<1>2. AnalyzedInv /\ [AnalyzedNext]_allVars => AnalyzedInv'
  BY AnalyzedNextInv
<1> QED
  BY <1>1, <1>2, PTL DEF AnalyzedSpec

(***************************************************************************)
(* The header that RecordParser works out for a round, from a ROUND line   *)
(* that has none of it, is the one the game is played with, over any       *)
(* number of rounds and whatever the hands are worth.                      *)
(***************************************************************************)
THEOREM HeadersAgree == AnalyzedSpec => []HeaderMatches
<1>1. AnalyzedInv => HeaderMatches
  <2> SUFFICES ASSUME AnalyzedInv, unread = <<>>, ~rec.won
               PROVE  fields = [header EXCEPT !.deposit = Deposit(header, rec)]
    BY DEF HeaderMatches
  <2>1. flags.game /\ ~flags.firstRound
    BY DEF AnalyzedInv, ReaderInv, FlagsAgree, Upcoming
  <2>2. fields = Played
    BY <2>1 DEF AnalyzedInv, ReaderInv, FieldsAgree, Upcoming
  <2> QED
    BY <2>2 DEF Played, KeptDeposit, Deposit
<1> QED
  BY <1>1, AnalyzedInvariantHolds, PTL

(***************************************************************************)
(* feed_line and consume throw on no record of a game, and finish of both  *)
(* returns wherever the record may end: no decision is open behind a       *)
(* result.                                                                 *)
(***************************************************************************)
THEOREM RecordsAreAccepted == AnalyzedSpec => []RecordAccepted
<1>1. AnalyzedInv => RecordAccepted
  <2> SUFFICES ASSUME AnalyzedInv, MayEnd PROVE groups = <<>>
    BY DEF AnalyzedInv, ReaderInv, AnalyzerInv, RecordAccepted
  <2> SUFFICES ASSUME NEW g \in Decisions, OpenDecision(g) PROVE FALSE
    BY DEF AnalyzedInv, AnalyzerInv, OpenGroups
  <2>1. (unread = <<>> /\ rec.last.type \in Over) \/ Upcoming({"ROUND", "END_GAME"})
    BY DEF AnalyzedInv, AnalyzerInv, LastAgrees, MayEnd, Over
  <2>2. g.compound = <<>>
    <3>1. g.compound # <<>> => \E d \in Events : unread = <<d>> /\ d.type = "DISCARD"
      BY DEF OpenDecision, Explained, Completes
    <3> QED
      BY <2>1, <3>1 DEF Upcoming
  <2>3. CASE unread = <<>>
    BY <2>1, <2>2, <2>3 DEF OpenDecision, Explained, Upcoming, Over, Results
  <2>4. CASE unread # <<>> /\ unread[1].type \in {"ROUND", "END_GAME"}
    <3>1. \/ TellsMove(unread, g.trigger.player, chosen[g.trigger.player])
          \/ TellsAnswers(unread, g.trigger.player, chosen)
      BY <2>2, <2>4 DEF OpenDecision, Explained
    <3>2. ~TellsMove(unread, g.trigger.player, chosen[g.trigger.player])
      BY <2>4, ShortTails DEF TellsMove
    <3>3. ~TellsAnswers(unread, g.trigger.player, chosen)
      BY <2>4, ShortTails DEF TellsAnswers, TellsAnswer, TellsCall, IsSideEffect
    <3> QED
      BY <3>1, <3>2, <3>3
  <2> QED
    BY <2>1, <2>3, <2>4 DEF Upcoming
<1> QED
  BY <1>1, AnalyzedInvariantHolds, PTL

(***************************************************************************)
(* advance never has more than one group to go through.                    *)
(***************************************************************************)
THEOREM OneDecisionIsOpen == AnalyzedSpec => []OneOpenDecision
<1>1. AnalyzedInv => OneOpenDecision
  <2> SUFFICES ASSUME AnalyzedInv PROVE Len(groups) <= 1
    BY DEF OneOpenDecision
  <2>1. CASE groups = <<>>
    BY <2>1
  <2>2. ASSUME NEW g \in Decisions, groups = <<g>> PROVE Len(groups) <= 1
    BY <2>2
  <2> QED
    BY <2>1, <2>2 DEF AnalyzedInv, AnalyzerInv, OpenGroups
<1> QED
  BY <1>1, AnalyzedInvariantHolds, PTL

(***************************************************************************)
(* What the analyzer reports of a player is what that player decided, in   *)
(* every game and whichever players are analysed.                          *)
(***************************************************************************)
THEOREM DecisionsAreReported == AnalyzedSpec => []ClosedAsPlayed
<1>1. AnalyzedInv => ClosedAsPlayed
  BY DEF AnalyzedInv, AnalyzerInv
<1> QED
  BY <1>1, AnalyzedInvariantHolds, PTL
=============================================================================
