------------------------- MODULE GameManager_proofs -------------------------
(***************************************************************************)
(* Proofs about GameManager, for any number of draws, any game and any     *)
(* payments. A call of proceed_game appends up to three events; the        *)
(* invariant Good is proved event by event, of the record in the middle of *)
(* a call too, from what the call knows of the event (Permitted).          *)
(***************************************************************************)
EXTENDS GameManager, TLAPS

Over == Results \cup {"END_GAME"}
OfPlayer == EventTypes \ {"GAME", "ROUND", "DORA", "END_GAME", "DRAWN_EXHAUSTIVE"}

\* A riichi is declared and not yet paid for.
Declaring(r) ==
    \/ r.last.type = "RIICHI"
    \/ r.last.type = "DISCARD" /\ r.prev = "RIICHI"

\* A tile of the dead wall is still to be drawn.
Reserved(r) ==
    \/ r.last.type \in Kans
    \/ r.last.type = "DORA" /\ r.prev = "CONCEALED_KAN"

\* The indicator of a kan was not turned at once, and still may be.
Owed(r) ==
    \/ r.last.type = "DRAW" /\ r.prev \in {"OPEN_KAN", "UPGRADED_KAN"}
    \/ /\ r.last.type = "DISCARD"
       /\ r.prev = "DRAW"
       /\ r.prev2 \in {"OPEN_KAN", "UPGRADED_KAN"}

SeatGood(r) ==
    /\ r.last.type \in OfPlayer => r.last.player \in Players
    /\ r.won => r.last.type \in Over
RiichiGood(r) ==
    /\ Declaring(r) => ~r.accepted[r.last.player]
    /\ \A p \in Players : r.declared[p] /\ ~r.accepted[p] =>
          (Declaring(r) /\ r.last.player = p) \/ r.last.type \in Over
MeldsGood(r) == \A p \in Players : r.pons[p] <= r.melds[p]
WallGood(r) ==
    /\ Draws(r) <= LastDraw
    /\ Reserved(r) => Draws(r) < LastDraw
DoraGood(r) ==
    /\ r.doras <= r.dead + IF r.last.type = "DORA" /\ r.prev = "CONCEALED_KAN" THEN 2 ELSE 1
    /\ Owed(r) => r.doras <= r.dead
Balance(h, r) == Sum(Points(h, r)) + 10 * Deposit(h, r)

Good(r) ==
    /\ r \in Records
    /\ SeatGood(r)
    /\ RiichiGood(r)
    /\ MeldsGood(r)
    /\ WallGood(r)
    /\ DoraGood(r)

(***************************************************************************)
(* What a call knows of an event that it appends.                          *)
(***************************************************************************)
Permitted(r, e) ==
    /\ e \in Events
    /\ r.last.type \notin Over
    /\ e.type \notin {"GAME", "ROUND", "END_GAME"}
    /\ e.type \in OfPlayer => e.player \in Players
    /\ e.type \in Calls \cup {"CONCEALED_KAN"} => r.melds[e.player] < HandMelds
    /\ e.type = "UPGRADED_KAN" => r.pons[e.player] > 0
    /\ e.type = "RIICHI" => ~r.declared[e.player] /\ ~r.accepted[e.player]
    /\ r.last.type = "RIICHI" => e.type = "DISCARD" /\ e.player = r.last.player
    /\ r.last.type = "DISCARD" /\ r.prev = "RIICHI" =>
          e.type \in Results \/ (e.type = "RIICHI_ACCEPTED" /\ e.player = r.last.player)
    /\ e.type = "RIICHI_ACCEPTED" =>
          r.last.type = "DISCARD" /\ r.prev = "RIICHI" /\ e.player = r.last.player
    /\ e.type \in Kans \cup {"DRAW"} => Draws(r) < LastDraw
    /\ e.type = "DORA" => r.last.type = "CONCEALED_KAN" \/ Owed(r)
    /\ r.last.type = "CONCEALED_KAN" => e.type = "DORA"
    /\ r.last.type = "DORA" /\ r.prev = "CONCEALED_KAN" => e.type = "DRAW"

\* An event keeps the types, as long as melds are counted up to what a hand has
\* and only a player with a PON upgrades one.
LEMMA TypeStep ==
    ASSUME NEW r \in Records, NEW e \in Events, MeldsGood(r),
           e.type \in Calls \cup {"CONCEALED_KAN"} =>
              e.player \in Players /\ r.melds[e.player] < HandMelds,
           e.type = "UPGRADED_KAN" => r.pons[e.player] > 0
    PROVE  AfterEvent(r, e) \in Records /\ MeldsGood(AfterEvent(r, e))
<1> DEFINE n == AfterEvent(r, e)
<1>1. /\ n.last = e /\ n.prev = r.last.type /\ n.prev2 = r.prev
      /\ n.last \in Events /\ n.prev \in EventTypes /\ n.prev2 \in EventTypes
  BY DEF AfterEvent, Records, Events
<1>2. n.live \in Nat /\ n.dead \in Nat /\ n.doras \in Nat /\ n.won \in BOOLEAN
  BY DEF AfterEvent, Records
<1>3. /\ n.declared \in [Players -> BOOLEAN] /\ n.accepted \in [Players -> BOOLEAN]
      /\ n.river \in [Players -> BOOLEAN] /\ n.open \in [Players -> BOOLEAN]
  BY DEF AfterEvent, Records, Mark
<1>4. \A p \in Players :
         /\ r.melds[p] \in 0 .. HandMelds /\ r.pons[p] \in 0 .. HandMelds
         /\ r.pons[p] <= r.melds[p]
  BY DEF Records, MeldsGood
<1>5. /\ n.melds = [p \in Players |->
            r.melds[p] + IF e.type \in Calls \cup {"CONCEALED_KAN"} /\ e.player = p THEN 1 ELSE 0]
      /\ n.pons = [p \in Players |->
            (r.pons[p] + IF e.type \in {"PON"} /\ e.player = p THEN 1 ELSE 0)
             - IF e.type \in {"UPGRADED_KAN"} /\ e.player = p THEN 1 ELSE 0]
  BY DEF AfterEvent, Tally, Untally
<1>6. \A p \in Players :
         /\ n.melds[p] \in 0 .. HandMelds
         /\ n.pons[p] \in 0 .. HandMelds
         /\ n.pons[p] <= n.melds[p]
  <2> SUFFICES ASSUME NEW p \in Players
               PROVE  /\ n.melds[p] \in 0 .. HandMelds
                      /\ n.pons[p] \in 0 .. HandMelds
                      /\ n.pons[p] <= n.melds[p]
    OBVIOUS
  <2> DEFINE meld == IF e.type \in Calls \cup {"CONCEALED_KAN"} /\ e.player = p THEN 1 ELSE 0
             pon  == IF e.type \in {"PON"} /\ e.player = p THEN 1 ELSE 0
             kan  == IF e.type \in {"UPGRADED_KAN"} /\ e.player = p THEN 1 ELSE 0
  <2>1. n.melds[p] = r.melds[p] + meld /\ n.pons[p] = (r.pons[p] + pon) - kan
    BY <1>5
  <2>2. meld \in 0 .. 1 /\ pon \in 0 .. 1 /\ kan \in 0 .. 1 /\ pon <= meld
    BY DEF Calls
  <2>3. (meld = 1 => r.melds[p] < HandMelds) /\ (kan = 1 => r.pons[p] > 0)
    OBVIOUS
  <2>4. /\ r.melds[p] \in Int /\ r.pons[p] \in Int /\ HandMelds \in Nat
        /\ 0 <= r.pons[p] /\ r.pons[p] <= r.melds[p] /\ r.melds[p] <= HandMelds
    BY <1>4, GameAssumption
  <2> HIDE DEF n, meld, pon, kan
  <2> QED
    BY <2>1, <2>2, <2>3, <2>4
<1>7. n.melds \in [Players -> 0 .. HandMelds] /\ n.pons \in [Players -> 0 .. HandMelds]
  BY <1>5, <1>6
<1>8. n \in Records
  BY <1>1, <1>2, <1>3, <1>7 DEF AfterEvent, Records
<1> QED
  BY <1>6, <1>8 DEF MeldsGood

\* The fields of the record after an event, one by one.
LEMMA LastOfStep ==
    ASSUME NEW r \in Records, NEW e
    PROVE  LET n == AfterEvent(r, e)
           IN /\ n.last = e /\ n.prev = r.last.type /\ n.prev2 = r.prev
              /\ n.won = (r.won \/ e.type = "WIN")
              /\ n.live + n.dead = Draws(r) + IF e.type = "DRAW" THEN 1 ELSE 0
              /\ n.dead = r.dead + IF e.type = "DRAW" /\ FromDeadWall(r) THEN 1 ELSE 0
              /\ n.doras = r.doras + IF e.type = "DORA" THEN 1 ELSE 0
              /\ \A p \in Players :
                    /\ n.declared[p] = (r.declared[p] \/ (e.type = "RIICHI" /\ e.player = p))
                    /\ n.accepted[p] =
                          (r.accepted[p] \/ (e.type = "RIICHI_ACCEPTED" /\ e.player = p))
  BY DEF AfterEvent, Mark, Draws, Records

\* Events of a player name one, and only a result follows a win.
LEMMA SeatStep ==
    ASSUME NEW r \in Records, NEW e, SeatGood(r), Permitted(r, e)
    PROVE  SeatGood(AfterEvent(r, e))
<1> DEFINE n == AfterEvent(r, e)
<1>1. n.last = e /\ (n.won => r.won \/ e.type = "WIN")
  BY DEF AfterEvent
<1>2. e.type \in OfPlayer => e.player \in Players
  BY DEF Permitted
<1>3. ~r.won
  BY DEF SeatGood, Permitted
<1>4. "WIN" \in Over
  BY DEF Over, Results
<1> HIDE DEF n
<1>5. SeatGood(n)
  BY <1>1, <1>2, <1>3, <1>4 DEF SeatGood
<1> QED
  BY <1>5 DEF n

\* A declared riichi stays the last thing that happened until it is accepted.
LEMMA RiichiStep ==
    ASSUME NEW r \in Records, NEW e, SeatGood(r), RiichiGood(r), Permitted(r, e)
    PROVE  RiichiGood(AfterEvent(r, e))
<1> DEFINE n == AfterEvent(r, e)
<1>1. /\ n.last = e /\ n.prev = r.last.type
      /\ \A p \in Players :
            /\ n.declared[p] = (r.declared[p] \/ (e.type = "RIICHI" /\ e.player = p))
            /\ n.accepted[p] =
                  (r.accepted[p] \/ (e.type = "RIICHI_ACCEPTED" /\ e.player = p))
  BY LastOfStep
<1>2. ASSUME Declaring(n) PROVE ~n.accepted[n.last.player]
  <2>1. e.player \in Players
    BY <1>1, <1>2 DEF Declaring, Permitted, OfPlayer, EventTypes, Kans, Calls, Results
  <2>2. e.type # "RIICHI_ACCEPTED"
    BY <1>1, <1>2 DEF Declaring
  <2>3. ~r.accepted[e.player]
    BY <1>1, <1>2 DEF Declaring, Permitted, RiichiGood
  <2> QED
    BY <1>1, <2>1, <2>2, <2>3
<1>3. ASSUME NEW p \in Players, n.declared[p], ~n.accepted[p]
      PROVE  (Declaring(n) /\ n.last.player = p) \/ n.last.type \in Over
  <2>1. CASE e.type = "RIICHI" /\ e.player = p
    BY <1>1, <2>1 DEF Declaring
  <2>2. CASE r.declared[p] /\ ~r.accepted[p]
    <3>1. Declaring(r) /\ r.last.player = p
      BY <2>2 DEF RiichiGood, Permitted
    <3>2. CASE r.last.type = "RIICHI"
      BY <1>1, <3>1, <3>2 DEF Permitted, Declaring
    <3>3. CASE r.last.type = "DISCARD" /\ r.prev = "RIICHI"
      BY <1>1, <1>3, <3>1, <3>3 DEF Permitted, Over
    <3> QED
      BY <3>1, <3>2, <3>3 DEF Declaring
  <2> QED
    BY <1>1, <1>3, <2>1, <2>2
<1> HIDE DEF n
<1> QED
  BY <1>2, <1>3 DEF RiichiGood, n

\* A kan leaves a tile to draw, and an indicator is turned only for a kan.
LEMMA WallStep ==
    ASSUME NEW r \in Records, NEW e, WallGood(r), DoraGood(r), Permitted(r, e)
    PROVE  WallGood(AfterEvent(r, e)) /\ DoraGood(AfterEvent(r, e))
<1> DEFINE n == AfterEvent(r, e)
<1>1. /\ n.last = e /\ n.prev = r.last.type /\ n.prev2 = r.prev
      /\ Draws(n) = Draws(r) + IF e.type = "DRAW" THEN 1 ELSE 0
      /\ n.dead = r.dead + IF e.type = "DRAW" /\ FromDeadWall(r) THEN 1 ELSE 0
      /\ n.doras = r.doras + IF e.type = "DORA" THEN 1 ELSE 0
  BY LastOfStep DEF Draws
<1>2. Draws(r) \in Nat /\ r.dead \in Nat /\ r.doras \in Nat /\ LastDraw \in Nat
  BY GameAssumption DEF Draws, Records
<1>3. WallGood(n)
  <2>1. Draws(n) <= LastDraw
    BY <1>1, <1>2 DEF WallGood, Permitted
  <2>2. ASSUME Reserved(n) PROVE Draws(n) < LastDraw
    <3>1. CASE e.type \in Kans
      BY <1>1, <1>2, <3>1 DEF Permitted, Kans
    <3>2. CASE e.type = "DORA" /\ r.last.type = "CONCEALED_KAN"
      BY <1>1, <1>2, <3>2 DEF WallGood, Reserved, Kans
    <3> QED
      BY <1>1, <2>2, <3>1, <3>2 DEF Reserved
  <2> QED
    BY <2>1, <2>2 DEF WallGood
<1>4. DoraGood(n)
  <2>1. CASE e.type = "DORA"
    <3>1. n.doras = r.doras + 1 /\ n.dead = r.dead /\ ~Owed(n)
      BY <1>1, <1>2, <2>1 DEF Owed
    <3>2. CASE r.last.type = "CONCEALED_KAN"
      BY <1>1, <1>2, <2>1, <3>1, <3>2 DEF DoraGood
    <3>3. CASE Owed(r)
      BY <1>1, <1>2, <2>1, <3>1, <3>3 DEF DoraGood
    <3> QED
      BY <2>1, <3>2, <3>3 DEF Permitted
  <2>2. CASE e.type = "DRAW"
    <3>1. CASE FromDeadWall(r)
      BY <1>1, <1>2, <2>2, <3>1 DEF DoraGood, Owed
    <3>2. CASE ~FromDeadWall(r)
      <4>1. r.doras <= r.dead + 1 /\ ~Owed(n)
        BY <1>1, <1>2, <2>2, <3>2 DEF DoraGood, Owed, FromDeadWall
      <4> QED
        BY <1>1, <1>2, <2>2, <3>2, <4>1 DEF DoraGood
    <3> QED
      BY <3>1, <3>2
  <2>3. CASE e.type \notin {"DORA", "DRAW"}
    <3>1. r.doras <= r.dead + 1
      BY <1>2, <2>3 DEF DoraGood, Permitted
    <3>2. Owed(n) => Owed(r)
      BY <1>1, <2>3 DEF Owed
    <3> QED
      BY <1>1, <1>2, <2>3, <3>1, <3>2 DEF DoraGood
  <2> QED
    BY <2>1, <2>2, <2>3
<1> QED
  BY <1>3, <1>4

\* The four parts together.
LEMMA GoodStep ==
    ASSUME NEW r, NEW e, Good(r), Permitted(r, e)
    PROVE  Good(AfterEvent(r, e))
<1>1. /\ e \in Events
      /\ e.type \in Calls \cup {"CONCEALED_KAN"} =>
            e.player \in Players /\ r.melds[e.player] < HandMelds
      /\ e.type = "UPGRADED_KAN" => r.pons[e.player] > 0
  BY DEF Permitted, OfPlayer, EventTypes, Calls, Kans, Results
<1>2. AfterEvent(r, e) \in Records /\ MeldsGood(AfterEvent(r, e))
  BY <1>1, TypeStep DEF Good
<1> QED
  BY <1>2, SeatStep, RiichiStep, WallStep DEF Good

(***************************************************************************)
(* Points. Of the events of a call, the acceptance of a riichi moves ten   *)
(* to the table, and a result moves them as its scores say.                *)
(***************************************************************************)
LEMMA SumOfScores ==
    ASSUME NEW h \in Headers, NEW r \in Records
    PROVE  /\ \A p \in Players : Scores(h, r)[p] \in Int
           /\ Sum(Scores(h, r)) + 10 * Count(r.accepted) = Sum(h.scores)
           /\ Sum(h.scores) \in Int /\ Count(r.accepted) \in Nat /\ h.deposit \in Nat
<1> DEFINE s == Scores(h, r)
           b == [p \in Players |-> IF r.accepted[p] THEN 1 ELSE 0]
           n == Count(r.accepted)
           k == h.scores
<1>1. \A p \in Players : k[p] \in Int
  BY DEF Headers
<1>2. \A p \in Players : b[p] \in 0 .. 1 /\ s[p] = k[p] - 10 * b[p]
  <2> TAKE p \in Players
  <2>1. CASE r.accepted[p]
    BY <2>1 DEF Scores
  <2>2. CASE ~r.accepted[p]
    BY <1>1, <2>2 DEF Scores
  <2> QED
    BY <2>1, <2>2
<1>3. n = Sum(b)
  BY DEF Count
<1>4. h.deposit \in Nat
  BY DEF Headers
<1>5. 0 \in Players /\ 1 \in Players /\ 2 \in Players /\ 3 \in Players
  BY DEF Players
<1> HIDE DEF s, b, n, k
<1>6. \A p \in Players : s[p] \in Int
  <2> TAKE p \in Players
  <2>1. k[p] \in Int /\ b[p] \in Int /\ s[p] = k[p] - 10 * b[p]
    BY <1>1, <1>2
  <2> QED
    BY <2>1
<1>7. Sum(s) + 10 * Sum(b) = Sum(k)
  BY <1>1, <1>2, <1>5 DEF Sum
<1>8. Sum(b) \in Nat /\ Sum(k) \in Int
  BY <1>1, <1>2, <1>5 DEF Sum
<1> QED
  BY <1>3, <1>4, <1>6, <1>7, <1>8 DEF s, n, k

\* What moves adds up.
LEMMA SumOfPlus ==
    ASSUME NEW f, NEW g,
           \A p \in Players : f[p] \in Int /\ g[p] \in Int
    PROVE  /\ Sum(Plus(f, g)) = Sum(f) + Sum(g)
           /\ Plus(f, g) \in [Players -> Int]
<1>1. f[0] \in Int /\ f[1] \in Int /\ f[2] \in Int /\ f[3] \in Int
      /\ g[0] \in Int /\ g[1] \in Int /\ g[2] \in Int /\ g[3] \in Int
  BY DEF Players
<1>2. /\ Plus(f, g)[0] = f[0] + g[0] /\ Plus(f, g)[1] = f[1] + g[1]
      /\ Plus(f, g)[2] = f[2] + g[2] /\ Plus(f, g)[3] = f[3] + g[3]
  BY DEF Plus, Players
<1>3. Sum(Plus(f, g)) = Sum(f) + Sum(g)
  BY <1>1, <1>2 DEF Sum
<1> QED
  BY <1>3 DEF Plus

\* A win moves points among the players, and the sticks to the winner.
LEMMA WinMoves ==
    ASSUME header \in Headers, rec \in Records,
           NEW who \in Players, NEW from \in Players, NEW pay \in Payments
    PROVE  /\ \A p \in Players : PointsMoveWin(who, from, pay)[p] \in Int
           /\ Sum(PointsMoveWin(who, from, pay)) = 10 * Deposit(header, rec)
<1> DEFINE m == PointsMoveWin(who, from, pay)
<1>1. /\ header.dealer \in Players /\ header.repeat \in Nat
      /\ Deposit(header, rec) \in Nat
      /\ pay.ron \in Nat /\ pay.ronDealer \in Nat
      /\ pay.loss \in Nat /\ pay.lossDealer \in Nat
  BY GameAssumption, SumOfScores DEF Headers, Deposit
<1>2. CASE who = from
  <2>1. \A p \in Players : m[p] =
           IF p = who THEN TsumoGain(pay, who) + 3 * header.repeat + 10 * Deposit(header, rec)
                      ELSE -TsumoLoss(pay, p, who)
    BY <1>2 DEF PointsMoveWin
  <2> HIDE DEF m
  <2>2. \A p \in Players : m[p] \in Int
    <3> TAKE p \in Players
    <3>1. TsumoGain(pay, who) \in Int /\ TsumoLoss(pay, p, who) \in Int
      BY <1>1 DEF TsumoGain, TsumoLoss
    <3>2. CASE p = who
      BY <1>1, <2>1, <3>1, <3>2
    <3>3. CASE p # who
      BY <1>1, <2>1, <3>1, <3>3
    <3> QED
      BY <3>2, <3>3
  <2>3. Sum(m) = 10 * Deposit(header, rec)
    BY <1>1, <2>1 DEF TsumoGain, TsumoLoss, Sum, Players
  <2> QED
    BY <2>2, <2>3 DEF m
<1>3. CASE who # from
  <2>1. \A p \in Players : m[p] =
           IF p = who THEN Ron(pay, who) + 3 * header.repeat + 10 * Deposit(header, rec)
           ELSE IF p = from THEN -(Ron(pay, who) + 3 * header.repeat)
           ELSE 0
    BY <1>3 DEF PointsMoveWin
  <2>2. Ron(pay, who) \in Nat
    BY <1>1 DEF Ron
  <2> HIDE DEF m
  <2>3. \A p \in Players : m[p] \in Int
    <3> TAKE p \in Players
    <3>1. CASE p = who
      BY <1>1, <2>1, <2>2, <3>1
    <3>2. CASE p # who /\ p = from
      BY <1>1, <2>1, <2>2, <3>2
    <3>3. CASE p # who /\ p # from
      BY <2>1, <3>3
    <3> QED
      BY <3>1, <3>2, <3>3
  <2>4. Sum(m) = 10 * Deposit(header, rec)
    BY <1>1, <1>3, <2>1, <2>2 DEF Sum, Players
  <2> QED
    BY <2>3, <2>4 DEF m
<1> QED
  BY <1>2, <1>3

\* An exhausted wall moves points among the players only.
LEMMA DrawnMoves ==
    ASSUME NEW ready \in [Players -> BOOLEAN]
    PROVE  /\ \A p \in Players : PointsMoveDrawn(ready)[p] \in Int
           /\ Sum(PointsMoveDrawn(ready)) = 0
<1> DEFINE b(p) == IF ready[p] THEN 1 ELSE 0
           n == Count(ready)
           m == PointsMoveDrawn(ready)
<1>1. /\ n = b(0) + b(1) + b(2) + b(3)
      /\ n \in 0 .. 4
  BY DEF Count, Sum, Players
<1>2. \A p \in Players : m[p] =
         CASE n = 1 -> IF b(p) = 1 THEN 30 ELSE -10
           [] n = 2 -> IF b(p) = 1 THEN 15 ELSE -15
           [] n = 3 -> IF b(p) = 1 THEN 10 ELSE -30
           [] OTHER -> 0
  BY DEF PointsMoveDrawn
<1>3. \A p \in Players : b(p) \in 0 .. 1
  OBVIOUS
<1>4. 0 \in Players /\ 1 \in Players /\ 2 \in Players /\ 3 \in Players
  BY DEF Players
<1> HIDE DEF b, n, m
<1>5. \A p \in Players : m[p] \in Int
  <2> TAKE p \in Players
  <2>1. CASE n = 1
    BY <1>2, <2>1
  <2>2. CASE n = 2
    BY <1>2, <2>2
  <2>3. CASE n = 3
    BY <1>2, <2>3
  <2>4. CASE n = 0 \/ n = 4
    BY <1>2, <2>4
  <2> QED
    BY <1>1, <2>1, <2>2, <2>3, <2>4
<1>6. Sum(m) = m[0] + m[1] + m[2] + m[3]
  BY DEF Sum
<1>7. Sum(m) = 0
  <2>1. CASE n = 1
    BY <1>1, <1>2, <1>3, <1>4, <1>6, <2>1
  <2>2. CASE n = 2
    BY <1>1, <1>2, <1>3, <1>4, <1>6, <2>2
  <2>3. CASE n = 3
    BY <1>1, <1>2, <1>3, <1>4, <1>6, <2>3
  <2>4. CASE n = 0 \/ n = 4
    BY <1>1, <1>2, <1>3, <1>4, <1>6, <2>4
  <2> QED
    BY <1>1, <2>1, <2>2, <2>3, <2>4
<1> QED
  BY <1>5, <1>7 DEF m

(***************************************************************************)
(* The inductive invariant, and a call that does not end the round. While  *)
(* no result is on the record the sum of the points is that of the header, *)
(* whoever has declared riichi.                                            *)
(***************************************************************************)
IInv ==
    /\ TypeOK
    /\ Good(rec)
    /\ rec.last.type # "RIICHI"
    /\ rec.last.type = "ROUND" => Draws(rec) = 0
    /\ PointsConserved

\* Before the result of a round, its players and its table hold what they
\* held at its start.
LEMMA BalanceOfOpenRound ==
    ASSUME NEW h \in Headers, NEW r \in Records, SeatGood(r), r.last.type \notin Over
    PROVE  /\ Balance(h, r) = Sum(h.scores) + 10 * h.deposit
           /\ Points(h, r) = Scores(h, r)
           /\ Deposit(h, r) = h.deposit + Count(r.accepted)
<1>1. Points(h, r) = Scores(h, r)
  BY DEF Points, Over
<1>2. Deposit(h, r) = h.deposit + Count(r.accepted)
  BY DEF Deposit, SeatGood
<1>3. /\ Sum(Scores(h, r)) + 10 * Count(r.accepted) = Sum(h.scores)
      /\ Sum(h.scores) \in Int /\ Count(r.accepted) \in Nat /\ h.deposit \in Nat
      /\ \A p \in Players : Scores(h, r)[p] \in Int
  BY SumOfScores
<1>4. Sum(Scores(h, r)) \in Int
  BY <1>3 DEF Sum, Players
<1>5. Balance(h, r) = Sum(Scores(h, r)) + 10 * (h.deposit + Count(r.accepted))
  BY <1>1, <1>2 DEF Balance
<1> QED
  BY <1>1, <1>2, <1>3, <1>4, <1>5

\* Events that do not end the round keep the invariant.
LEMMA RoundGoesOn ==
    ASSUME IInv, rec.last.type \notin Over, UNCHANGED <<origin, header, rounds>>,
           Good(rec)', wrote' \in Seq(Events),
           rec'.last.type \notin Over \cup {"ROUND", "RIICHI"}
    PROVE  IInv'
<1>1. TypeOK'
  BY DEF IInv, TypeOK, Good
<1>2. /\ header \in Headers /\ rec \in Records /\ rec' \in Records
      /\ SeatGood(rec) /\ SeatGood(rec')
  BY DEF IInv, TypeOK, Good
<1>3. Balance(header, rec') = Balance(header, rec)
  BY <1>2, BalanceOfOpenRound
<1>4. PointsConserved'
  BY <1>3 DEF IInv, PointsConserved, Balance
<1> QED
  BY <1>1, <1>4 DEF IInv

\* A call that appends one event, or two.
LEMMA WriteOne ==
    ASSUME NEW e, Good(rec), Permitted(rec, e), Write(<<>>, <<e>>)
    PROVE  /\ rec' = AfterEvent(rec, e) /\ Good(rec)' /\ wrote' \in Seq(Events)
           /\ UNCHANGED <<origin, header, rounds>>
<1>1. rec' = AfterEvent(rec, e)
  BY DEF Write, AfterEvents
<1>2. Good(AfterEvent(rec, e))
  BY GoodStep
<1>3. e \in Events
  BY DEF Permitted
<1>4. wrote' \in Seq(Events)
  BY <1>3 DEF Write
<1> QED
  BY <1>1, <1>2, <1>4 DEF Write

\* The same of two events, wherever the call divides them.
LEMMA WriteTwo ==
    ASSUME NEW e, NEW f, Good(rec), Permitted(rec, e), Permitted(AfterEvent(rec, e), f),
           Write(<<>>, <<e, f>>) \/ Write(<<e>>, <<f>>)
    PROVE  /\ rec' = AfterEvent(AfterEvent(rec, e), f)
           /\ Good(rec)' /\ wrote' \in Seq(Events)
           /\ UNCHANGED <<origin, header, rounds>>
<1>1. rec' = AfterEvent(AfterEvent(rec, e), f)
  BY DEF Write, AfterEvents
<1>2. Good(AfterEvent(AfterEvent(rec, e), f))
  BY GoodStep
<1>3. e \in Events /\ f \in Events
  BY DEF Permitted
<1>4. <<>> \in Seq(Events) /\ <<e>> \in Seq(Events)
      /\ <<f>> \in Seq(Events) /\ <<e, f>> \in Seq(Events)
  BY <1>3
<1>5. wrote' = <<>> \o <<e, f>> \/ wrote' = <<e>> \o <<f>>
  BY DEF Write
<1>6. \A u, v \in Seq(Events) : u \o v \in Seq(Events)
  OBVIOUS
<1>7. <<>> \o <<e, f>> \in Seq(Events) /\ <<e>> \o <<f>> \in Seq(Events)
  BY <1>4, <1>6
<1>8. wrote' \in Seq(Events)
  BY <1>5, <1>7
<1> QED
  BY <1>1, <1>2, <1>8 DEF Write

(***************************************************************************)
(* The calls, one by one.                                                  *)
(***************************************************************************)
\* The fields of an event without scores.
LEMMA EventFields ==
    ASSUME NEW t \in EventTypes, NEW p \in Players \cup {Nobody}
    PROVE  Event(t, p) \in Events /\ Event(t, p).type = t /\ Event(t, p).player = p
  BY DEF Event, Result, Events, NoScores, NotReady

\* The dealer draws first, from a wall of which nothing was drawn.
LEMMA FirstDrawKeeps ==
    ASSUME IInv, FirstDraw
    PROVE  IInv'
<1> DEFINE e == Event("DRAW", header.dealer)
<1>1. Good(rec) /\ rec.last.type = "ROUND" /\ Draws(rec) = 0 /\ header.dealer \in Players
  BY DEF IInv, FirstDraw, TypeOK, Headers
<1>2. e \in Events /\ e.type = "DRAW" /\ e.player = header.dealer
  BY <1>1, EventFields DEF EventTypes
<1>3. Write(<<>>, <<e>>)
  BY DEF FirstDraw
<1> HIDE DEF e
<1>4. Permitted(rec, e)
  BY <1>1, <1>2, GameAssumption DEF Permitted, Over, Results, Calls, Kans
<1>5. /\ rec' = AfterEvent(rec, e) /\ Good(rec)' /\ wrote' \in Seq(Events)
      /\ UNCHANGED <<origin, header, rounds>>
  BY <1>1, <1>3, <1>4, WriteOne
<1>6. rec'.last = e
  BY <1>5 DEF AfterEvent
<1> QED
  BY <1>1, <1>2, <1>5, <1>6, RoundGoesOn DEF Over, Results

\* The indicator of a concealed kan is turned at once, then its tile is drawn.
LEMMA AfterConcealedKanKeeps ==
    ASSUME IInv, AfterConcealedKan
    PROVE  IInv'
<1> DEFINE d == Event("DORA", Nobody)
           e == Event("DRAW", rec.last.player)
           n == AfterEvent(rec, d)
<1>1. /\ Good(rec) /\ rec \in Records /\ rec.last.type = "CONCEALED_KAN"
      /\ rec.last.player \in Players /\ Draws(rec) < LastDraw
  BY DEF IInv, AfterConcealedKan, Good, SeatGood, WallGood, OfPlayer, EventTypes, Reserved, Kans
<1>2. d \in Events /\ d.type = "DORA" /\ e \in Events /\ e.type = "DRAW"
      /\ e.player = rec.last.player
  BY <1>1, EventFields DEF EventTypes
<1>3. Write(<<>>, <<d, e>>)
  BY DEF AfterConcealedKan
<1> HIDE DEF d, e
<1>4. Permitted(rec, d)
  BY <1>1, <1>2 DEF Permitted, Over, Results, Calls, Kans, OfPlayer
<1>5. n.last = d /\ n.prev = "CONCEALED_KAN" /\ Draws(n) = Draws(rec)
  <2>1. Draws(rec) \in Nat
    BY <1>1 DEF Draws, Records
  <2> QED
    BY <1>1, <1>2, <2>1, LastOfStep DEF Draws
<1> HIDE DEF n
<1>6. Permitted(n, e)
  BY <1>1, <1>2, <1>5 DEF Permitted, Over, Results, Calls, Kans, OfPlayer
<1>7. /\ rec' = AfterEvent(n, e) /\ Good(rec)' /\ wrote' \in Seq(Events)
      /\ UNCHANGED <<origin, header, rounds>>
  BY <1>1, <1>3, <1>4, <1>6, WriteTwo DEF n
<1>8. rec'.last = e
  BY <1>7 DEF AfterEvent
<1> QED
  BY <1>1, <1>2, <1>7, <1>8, RoundGoesOn DEF Over, Results

\* The tile of an open kan is drawn, for which the wall had room.
LEMMA AfterOpenKanKeeps ==
    ASSUME IInv, AfterOpenKan
    PROVE  IInv'
<1> DEFINE e == Event("DRAW", rec.last.player)
<1>1. /\ Good(rec) /\ rec.last.type = "OPEN_KAN"
      /\ rec.last.player \in Players /\ Draws(rec) < LastDraw
  BY DEF IInv, AfterOpenKan, Good, SeatGood, WallGood, OfPlayer, EventTypes, Reserved, Kans
<1>2. e \in Events /\ e.type = "DRAW" /\ e.player = rec.last.player
  BY <1>1, EventFields DEF EventTypes
<1>3. Write(<<>>, <<e>>)
  BY DEF AfterOpenKan
<1> HIDE DEF e
<1>4. Permitted(rec, e)
  BY <1>1, <1>2 DEF Permitted, Over, Results, Calls, Kans
<1>5. /\ rec' = AfterEvent(rec, e) /\ Good(rec)' /\ wrote' \in Seq(Events)
      /\ UNCHANGED <<origin, header, rounds>>
  BY <1>1, <1>3, <1>4, WriteOne
<1>6. rec'.last = e
  BY <1>5 DEF AfterEvent
<1> QED
  BY <1>1, <1>2, <1>5, <1>6, RoundGoesOn DEF Over, Results

\* A result ends the round without losing a point: its scores are those of the
\* players with what moved, and what moved is what left the table.
LEMMA ResultKeeps ==
    ASSUME IInv, rec.last.type \notin Over,
           NEW type \in Results, NEW p \in Players \cup {Nobody},
           type \in OfPlayer => p \in Players,
           NEW moved, NEW ready \in [Players -> BOOLEAN],
           \A q \in Players : moved[q] \in Int,
           Sum(moved) = IF type = "WIN" THEN 10 * Deposit(header, rec) ELSE 0,
           rec.last.type # "CONCEALED_KAN",
           ~(rec.last.type = "DORA" /\ rec.prev = "CONCEALED_KAN"),
           WriteResult(type, p, moved, ready)
    PROVE  IInv'
<1> DEFINE scores == Plus(Scores(header, rec), moved)
           e == Result(type, p, scores, ready)
<1>1. Good(rec) /\ header \in Headers /\ rec \in Records /\ SeatGood(rec)
  BY DEF IInv, TypeOK, Good
<1>2. \A q \in Players : Scores(header, rec)[q] \in Int
  BY <1>1, SumOfScores
<1>3. Sum(scores) = Sum(Scores(header, rec)) + Sum(moved) /\ scores \in [Players -> Int]
  BY <1>2, SumOfPlus
<1>4. e \in Events /\ e.type = type /\ e.player = p /\ e.scores = scores
  BY <1>3 DEF Result, Events, EventTypes
<1>5. Write(<<>>, <<e>>)
  BY DEF WriteResult
<1> HIDE DEF scores, e
<1>6. Permitted(rec, e)
  BY <1>1, <1>4 DEF IInv, Permitted, Over, Results, Calls, Kans
<1>7. /\ rec' = AfterEvent(rec, e) /\ Good(rec)' /\ wrote' \in Seq(Events)
      /\ UNCHANGED <<origin, header, rounds>>
  BY <1>1, <1>5, <1>6, WriteOne
<1>8. /\ rec'.last = e /\ rec'.won = (rec.won \/ type = "WIN")
      /\ rec'.accepted = rec.accepted
  <2>1. rec'.accepted = Mark(rec.accepted, e, {"RIICHI_ACCEPTED"})
    BY <1>7 DEF AfterEvent
  <2>2. e.type # "RIICHI_ACCEPTED"
    BY <1>4 DEF Results
  <2>3. rec.accepted \in [Players -> BOOLEAN]
    BY <1>1 DEF Records
  <2>4. rec'.accepted = rec.accepted
    BY <2>1, <2>2, <2>3 DEF Mark
  <2> QED
    BY <1>4, <1>7, <2>4 DEF AfterEvent
<1>9. /\ Points(header, rec) = Scores(header, rec)
      /\ Deposit(header, rec) = header.deposit + Count(rec.accepted)
  BY <1>1, BalanceOfOpenRound
<1>10. Points(header, rec') = scores
  BY <1>4, <1>8 DEF Points, Results
<1>11. Deposit(header, rec') = IF type = "WIN" THEN 0 ELSE Deposit(header, rec)
  <2>1. ~rec.won
    BY <1>1 DEF SeatGood
  <2> QED
    BY <1>8, <2>1 DEF Deposit
<1>12. Sum(Scores(header, rec)) \in Int /\ Deposit(header, rec) \in Nat
  BY <1>1, <1>2, <1>9, SumOfScores DEF Sum, Players
<1>13. Balance(header, rec') = Balance(header, rec)
  BY <1>3, <1>9, <1>10, <1>11, <1>12 DEF Balance
<1>14. PointsConserved'
  BY <1>7, <1>13 DEF IInv, PointsConserved, Balance
<1>15. TypeOK'
  BY <1>7 DEF IInv, TypeOK, Good
<1> QED
  BY <1>4, <1>7, <1>8, <1>14, <1>15 DEF IInv, Results

\* The move of the player who drew. A kan is made only below the last draw and
\* a riichi is followed by its discard, in the same call.
LEMMA MoveAfterDrawKeeps ==
    ASSUME IInv, NEW m \in OwnMoves, MoveAfterDraw(m)
    PROVE  IInv'
<1> DEFINE p == rec.last.player
<1>1. /\ Good(rec) /\ rec \in Records /\ header \in Headers /\ rec.last.type = "DRAW"
      /\ p \in Players /\ m \in AiMoves(rec, p)
  BY DEF IInv, MoveAfterDraw, Good, SeatGood, OfPlayer, EventTypes, TypeOK
<1>2. rec.last.type \notin Over
  BY <1>1 DEF Over, Results
<1>3. CASE \E pay \in Payments : WriteResult("WIN", p, PointsMoveWin(p, p, pay), NotReady)
  <2>1. PICK pay \in Payments : WriteResult("WIN", p, PointsMoveWin(p, p, pay), NotReady)
    BY <1>3
  <2>2. /\ \A q \in Players : PointsMoveWin(p, p, pay)[q] \in Int
        /\ Sum(PointsMoveWin(p, p, pay)) = 10 * Deposit(header, rec)
    BY <1>1, WinMoves
  <2>3. NotReady \in [Players -> BOOLEAN] /\ "WIN" \in Results
    BY DEF NotReady, Results
  <2> QED
    BY <1>1, <1>2, <2>1, <2>2, <2>3, ResultKeeps
<1>4. CASE WriteResult("DRAWN_NINE_TERMINALS", p, NoScores, NotReady)
  <2>1. (\A q \in Players : NoScores[q] \in Int) /\ Sum(NoScores) = 0
    BY DEF NoScores, Sum, Players
  <2>2. NotReady \in [Players -> BOOLEAN] /\ "DRAWN_NINE_TERMINALS" \in Results
    BY DEF NotReady, Results
  <2> QED
    BY <1>1, <1>2, <1>4, <2>1, <2>2, ResultKeeps
<1>5. CASE m = "RIICHI" /\ Write(<<>>, <<Event("RIICHI", p), Event("DISCARD", p)>>)
  <2> DEFINE e == Event("RIICHI", p)
             d == Event("DISCARD", p)
             n == AfterEvent(rec, e)
  <2>1. /\ e \in Events /\ e.type = "RIICHI" /\ e.player = p
        /\ d \in Events /\ d.type = "DISCARD" /\ d.player = p
    BY <1>1, EventFields DEF EventTypes
  <2>2. ~rec.declared[p] /\ ~rec.accepted[p]
    BY <1>1, <1>5 DEF AiMoves, LegalAfterDraw, IsLegalRiichi
  <2>3. Write(<<>>, <<e, d>>)
    BY <1>5
  <2> HIDE DEF e, d
  <2>4. Permitted(rec, e)
    BY <1>1, <1>2, <2>1, <2>2 DEF Permitted, Calls, Kans
  <2>5. n.last = e
    BY DEF AfterEvent
  <2> HIDE DEF n
  <2>6. Permitted(n, d)
    BY <1>1, <2>1, <2>5 DEF Permitted, Over, Results, Calls, Kans
  <2>7. /\ rec' = AfterEvent(n, d) /\ Good(rec)' /\ wrote' \in Seq(Events)
        /\ UNCHANGED <<origin, header, rounds>>
    BY <1>1, <2>3, <2>4, <2>6, WriteTwo DEF n
  <2>8. rec'.last = d
    BY <2>7 DEF AfterEvent
  <2> QED
    BY <1>2, <2>1, <2>7, <2>8, RoundGoesOn DEF Over, Results
<1>6. CASE /\ m \in {"DISCARD", "CONCEALED_KAN", "UPGRADED_KAN"}
           /\ Write(<<>>, <<Event(m, p)>>)
  <2> DEFINE e == Event(m, p)
  <2>1. e \in Events /\ e.type = m /\ e.player = p
    BY <1>1, <1>6, EventFields DEF EventTypes, Kans
  <2>2. /\ m \in Kans => Draws(rec) < LastDraw
        /\ m = "CONCEALED_KAN" => rec.melds[p] < HandMelds
        /\ m = "UPGRADED_KAN" => rec.pons[p] > 0
    BY <1>1 DEF AiMoves, LegalAfterDraw, IsLegalConcealedKan, IsLegalUpgradedKan
  <2>3. Write(<<>>, <<e>>)
    BY <1>6
  <2> HIDE DEF e
  <2>4. Permitted(rec, e)
    BY <1>1, <1>2, <1>6, <2>1, <2>2 DEF Permitted, Calls, Kans
  <2>5. /\ rec' = AfterEvent(rec, e) /\ Good(rec)' /\ wrote' \in Seq(Events)
        /\ UNCHANGED <<origin, header, rounds>>
    BY <1>1, <2>3, <2>4, WriteOne
  <2>6. rec'.last = e
    BY <2>5 DEF AfterEvent
  <2> QED
    BY <1>2, <1>6, <2>1, <2>5, <2>6, RoundGoesOn DEF Over, Results
<1> QED
  BY <1>3, <1>4, <1>5, <1>6 DEF MoveAfterDraw

\* The first of those who answer is another player, with that answer.
LEMMA FirstResponderAnswers ==
    ASSUME NEW target \in Players, NEW c, NEW moves,
           FirstResponder(target, c, moves) # Nobody
    PROVE  /\ FirstResponder(target, c, moves) \in Players \ {target}
           /\ c[FirstResponder(target, c, moves)] \in moves
<1> DEFINE asking == {n \in 1 .. 3 : c[Seat(target, n)] \in moves}
           k == CHOOSE n \in asking : \A i \in asking : n <= i
<1>1. asking # {} /\ FirstResponder(target, c, moves) = Seat(target, k)
  BY DEF FirstResponder
<1>2. \E n \in asking : \A i \in asking : n <= i
  <2>1. CASE 1 \in asking
    BY <2>1
  <2>2. CASE 1 \notin asking /\ 2 \in asking
    BY <2>2
  <2>3. CASE 1 \notin asking /\ 2 \notin asking
    BY <1>1, <2>3
  <2> QED
    BY <2>1, <2>2, <2>3
<1>3. k \in asking
  BY <1>2
<1>4. k \in 1 .. 3 /\ c[Seat(target, k)] \in moves
  BY <1>3
<1> HIDE DEF k
<1>5. Seat(target, k) \in Players \ {target}
  BY <1>4 DEF Seat, Players
<1> QED
  BY <1>1, <1>4, <1>5

\* The record between what settles a discard and the move that follows it.
Settled(n) ==
    /\ Good(n)
    /\ n.last.type \in {"DISCARD", "RIICHI_ACCEPTED", "DORA"}
    /\ ~Declaring(n)
    /\ ~(n.last.type = "DORA" /\ n.prev = "CONCEALED_KAN")
    /\ Draws(n) < LastDraw
    /\ n.melds = rec.melds

\* Accepting a riichi or turning the indicator that a kan still owes.
LEMMA DiscardIsSettled ==
    ASSUME IInv, rec.last.type = "DISCARD", Draws(rec) < LastDraw
    PROVE  /\ Settled(AfterEvents(rec, AcceptRiichiOrDora(rec)))
           /\ AcceptRiichiOrDora(rec) \in Seq(Events)
<1> DEFINE a == Event("RIICHI_ACCEPTED", rec.last.player)
           d == Event("DORA", Nobody)
<1>1. /\ Good(rec) /\ rec \in Records /\ rec.last.player \in Players
      /\ rec.last.type \notin Over
  BY DEF IInv, Good, SeatGood, OfPlayer, EventTypes, Over, Results
<1>2. /\ a \in Events /\ a.type = "RIICHI_ACCEPTED" /\ a.player = rec.last.player
      /\ d \in Events /\ d.type = "DORA"
  BY <1>1, EventFields DEF EventTypes
<1> HIDE DEF a, d
<1>3. ASSUME NEW e \in {a, d}, Permitted(rec, e)
      PROVE  Settled(AfterEvents(rec, <<e>>)) /\ <<e>> \in Seq(Events)
  <2> DEFINE n == AfterEvent(rec, e)
  <2>1. AfterEvents(rec, <<e>>) = n
    BY DEF AfterEvents
  <2>2. Good(n)
    BY <1>1, <1>3, GoodStep
  <2>3. n.last = e /\ n.prev = "DISCARD"
    BY DEF AfterEvent
  <2>4. Draws(n) < LastDraw
    <3>1. Draws(rec) \in Nat
      BY <1>1 DEF Draws, Records
    <3> QED
      BY <1>1, <1>2, <1>3, <3>1, LastOfStep DEF Draws
  <2>5. n.melds = rec.melds
    <3>1. e.type \notin Calls \cup {"CONCEALED_KAN"}
      BY <1>2, <1>3 DEF Calls
    <3>2. n.melds = [p \in Players |-> rec.melds[p] + 0]
      BY <3>1 DEF AfterEvent, Tally
    <3>3. \A p \in Players : rec.melds[p] \in Int
      BY <1>1, GameAssumption DEF Records
    <3>4. rec.melds = [p \in Players |-> rec.melds[p]]
      BY <1>1 DEF Records
    <3> QED
      BY <3>2, <3>3, <3>4
  <2> HIDE DEF n
  <2>6. Settled(n)
    BY <1>2, <1>3, <2>2, <2>3, <2>4, <2>5 DEF Settled, Declaring
  <2> QED
    BY <1>2, <1>3, <2>1, <2>6
<1>4. CASE rec.prev = "RIICHI"
  <2>1. AcceptRiichiOrDora(rec) = <<a>>
    BY <1>4 DEF AcceptRiichiOrDora, a
  <2>2. Permitted(rec, a)
    BY <1>1, <1>2, <1>4 DEF Permitted, Calls, Kans
  <2> QED
    BY <1>3, <2>1, <2>2
<1>5. CASE /\ rec.prev # "RIICHI"
           /\ rec.prev = "DRAW" /\ rec.prev2 \in {"OPEN_KAN", "UPGRADED_KAN"}
  <2>1. AcceptRiichiOrDora(rec) = <<d>>
    BY <1>5 DEF AcceptRiichiOrDora, d
  <2>2. Permitted(rec, d)
    BY <1>1, <1>2, <1>5 DEF Permitted, Calls, Kans, Owed, OfPlayer
  <2> QED
    BY <1>3, <2>1, <2>2
<1>6. CASE /\ rec.prev # "RIICHI"
           /\ ~(rec.prev = "DRAW" /\ rec.prev2 \in {"OPEN_KAN", "UPGRADED_KAN"})
  <2>1. AcceptRiichiOrDora(rec) = <<>>
    BY <1>6 DEF AcceptRiichiOrDora
  <2>2. AfterEvents(rec, <<>>) = rec
    BY DEF AfterEvents
  <2>3. Settled(rec)
    BY <1>1, <1>6 DEF Settled, Declaring
  <2> QED
    BY <2>1, <2>2, <2>3
<1> QED
  BY <1>4, <1>5, <1>6

\* From there the next player draws, or someone calls the discard.
LEMMA MoveFromSettled ==
    ASSUME NEW n, Settled(n), NEW p \in Players, NEW move,
           \/ move = <<Event("DRAW", p)>>
           \/ \E m \in Calls : move = CallOf(p, m) /\ rec.melds[p] < HandMelds
    PROVE  /\ Good(AfterEvents(n, move))
           /\ AfterEvents(n, move).last.type \in {"DRAW", "DISCARD", "OPEN_KAN"}
           /\ move \in Seq(Events)
<1>1. ASSUME NEW t \in Calls \cup {"DRAW"}, t \in Calls => rec.melds[p] < HandMelds
      PROVE  /\ Permitted(n, Event(t, p))
             /\ Event(t, p) \in Events /\ Event(t, p).type = t
             /\ Good(AfterEvent(n, Event(t, p)))
             /\ AfterEvent(n, Event(t, p)).last = Event(t, p)
  <2> DEFINE e == Event(t, p)
  <2>1. e \in Events /\ e.type = t /\ e.player = p
    BY EventFields DEF EventTypes, Calls
  <2> HIDE DEF e
  <2>2. Permitted(n, e)
    BY <1>1, <2>1 DEF Settled, Declaring, Permitted, Over, Results, Calls, Kans
  <2>3. Good(AfterEvent(n, e))
    BY <2>2, GoodStep DEF Settled
  <2>4. AfterEvent(n, e).last = e
    BY DEF AfterEvent
  <2> QED
    BY <2>1, <2>2, <2>3, <2>4 DEF e
<1>2. ASSUME NEW t \in Calls \cup {"DRAW"}, t \in Calls => rec.melds[p] < HandMelds,
             t \in {"DRAW", "OPEN_KAN"}, move = <<Event(t, p)>>
      PROVE  /\ Good(AfterEvents(n, move))
             /\ AfterEvents(n, move).last.type \in {"DRAW", "DISCARD", "OPEN_KAN"}
             /\ move \in Seq(Events)
  <2>1. AfterEvents(n, move) = AfterEvent(n, Event(t, p))
    BY <1>2 DEF AfterEvents
  <2> QED
    BY <1>1, <1>2, <2>1
<1>3. ASSUME NEW t \in Calls, t # "OPEN_KAN", rec.melds[p] < HandMelds,
             move = <<Event(t, p), Event("DISCARD", p)>>
      PROVE  /\ Good(AfterEvents(n, move))
             /\ AfterEvents(n, move).last.type \in {"DRAW", "DISCARD", "OPEN_KAN"}
             /\ move \in Seq(Events)
  <2> DEFINE e == Event(t, p)
             d == Event("DISCARD", p)
             k == AfterEvent(n, e)
  <2>1. e \in Events /\ e.type = t /\ Good(k) /\ k.last = e
    BY <1>1, <1>3
  <2>2. d \in Events /\ d.type = "DISCARD" /\ d.player = p
    BY EventFields DEF EventTypes
  <2>3. AfterEvents(n, move) = AfterEvent(k, d)
    BY <1>3 DEF AfterEvents
  <2>4. move = <<e, d>>
    BY <1>3
  <2> HIDE DEF e, d, k
  <2>5. Permitted(k, d)
    BY <1>3, <2>1, <2>2 DEF Permitted, Over, Results, Calls, Kans
  <2>6. Good(AfterEvent(k, d)) /\ AfterEvent(k, d).last = d
    <3>1. Good(AfterEvent(k, d))
      BY <2>1, <2>5, GoodStep
    <3> QED
      BY <3>1 DEF AfterEvent
  <2> QED
    BY <2>1, <2>2, <2>3, <2>4, <2>6
<1>4. CASE move = <<Event("DRAW", p)>>
  BY <1>2, <1>4 DEF Calls
<1>5. ASSUME NEW m \in Calls, move = CallOf(p, m), rec.melds[p] < HandMelds
      PROVE  /\ Good(AfterEvents(n, move))
             /\ AfterEvents(n, move).last.type \in {"DRAW", "DISCARD", "OPEN_KAN"}
             /\ move \in Seq(Events)
  <2>1. CASE m = "OPEN_KAN"
    BY <1>2, <1>5, <2>1 DEF CallOf
  <2>2. CASE m # "OPEN_KAN"
    BY <1>3, <1>5, <2>2 DEF CallOf
  <2> QED
    BY <2>1, <2>2
<1> QED
  BY <1>4, <1>5

\* The others' answers to a discard: somebody wins, the wall is empty, a kan is
\* completed, or the discard is settled and the round goes on.
LEMMA MoveAfterDiscardKeeps ==
    ASSUME IInv, NEW c, MoveAfterDiscard(c)
    PROVE  IInv'
<1> DEFINE target == rec.last.player
           winner == FirstResponder(target, c, {"WIN"})
           taker  == FirstResponder(target, c, {"PON", "OPEN_KAN"})
           next   == Seat(target, 1)
           settled == AcceptRiichiOrDora(rec)
           Move(move) == Write(settled, move)
<1>1. /\ Good(rec) /\ rec \in Records /\ header \in Headers
      /\ rec.last.type \in {"DISCARD", "UPGRADED_KAN"}
      /\ target \in Players /\ c \in Answers(rec)
  BY DEF IInv, MoveAfterDiscard, Good, SeatGood, OfPlayer, EventTypes, Kans, TypeOK
<1>2. rec.last.type \notin Over
  BY <1>1 DEF Over, Results
<1>3. CASE /\ winner # Nobody
           /\ \E pay \in Payments :
                  WriteResult("WIN", winner, PointsMoveWin(winner, target, pay), NotReady)
  <2>1. PICK pay \in Payments :
           WriteResult("WIN", winner, PointsMoveWin(winner, target, pay), NotReady)
    BY <1>3
  <2>2. winner \in Players
    BY <1>1, <1>3, FirstResponderAnswers
  <2>3. /\ \A q \in Players : PointsMoveWin(winner, target, pay)[q] \in Int
        /\ Sum(PointsMoveWin(winner, target, pay)) = 10 * Deposit(header, rec)
    BY <1>1, <2>2, WinMoves
  <2>4. NotReady \in [Players -> BOOLEAN] /\ "WIN" \in Results
    BY DEF NotReady, Results
  <2> HIDE DEF winner, target
  <2> QED
    BY <1>1, <1>2, <2>1, <2>2, <2>3, <2>4, ResultKeeps
<1>4. CASE \E ready \in [Players -> BOOLEAN] :
              WriteResult("DRAWN_EXHAUSTIVE", Nobody, PointsMoveDrawn(ready), ready)
  <2>1. PICK ready \in [Players -> BOOLEAN] :
           WriteResult("DRAWN_EXHAUSTIVE", Nobody, PointsMoveDrawn(ready), ready)
    BY <1>4
  <2>2. /\ \A q \in Players : PointsMoveDrawn(ready)[q] \in Int
        /\ Sum(PointsMoveDrawn(ready)) = 0
    BY DrawnMoves
  <2>3. "DRAWN_EXHAUSTIVE" \in Results \ OfPlayer
    BY DEF Results, OfPlayer
  <2> QED
    BY <1>1, <1>2, <2>1, <2>2, <2>3, ResultKeeps
<1>5. CASE /\ Draws(rec) # LastDraw /\ rec.last.type = "UPGRADED_KAN"
           /\ Write(<<>>, <<Event("DRAW", target)>>)
  <2> DEFINE e == Event("DRAW", target)
  <2>1. Draws(rec) < LastDraw
    BY <1>1, <1>5 DEF Good, WallGood, Reserved, Kans
  <2>2. e \in Events /\ e.type = "DRAW" /\ e.player = target
    BY <1>1, EventFields DEF EventTypes
  <2>3. Write(<<>>, <<e>>)
    BY <1>5
  <2> HIDE DEF e
  <2>4. Permitted(rec, e)
    BY <1>1, <1>2, <1>5, <2>1, <2>2 DEF Permitted, Calls, Kans
  <2>5. /\ rec' = AfterEvent(rec, e) /\ Good(rec)' /\ wrote' \in Seq(Events)
        /\ UNCHANGED <<origin, header, rounds>>
    BY <1>1, <2>3, <2>4, WriteOne
  <2>6. rec'.last = e
    BY <2>5 DEF AfterEvent
  <2> QED
    BY <1>2, <2>2, <2>5, <2>6, RoundGoesOn DEF Over, Results
<1>6. ASSUME Draws(rec) # LastDraw, rec.last.type = "DISCARD",
             NEW p \in Players, NEW move, Write(settled, move),
             \/ move = <<Event("DRAW", p)>>
             \/ \E m \in Calls : move = CallOf(p, m) /\ rec.melds[p] < HandMelds
      PROVE  IInv'
  <2>1. Draws(rec) < LastDraw
    <3>1. Draws(rec) \in Nat /\ LastDraw \in Nat /\ Draws(rec) <= LastDraw
      BY <1>1, GameAssumption DEF Good, WallGood, Draws, Records
    <3> QED
      BY <1>6, <3>1
  <2> DEFINE n == AfterEvents(rec, settled)
  <2>2. Settled(n) /\ settled \in Seq(Events)
    BY <1>6, <2>1, DiscardIsSettled
  <2> HIDE DEF settled
  <2>3. rec' = AfterEvents(n, move) /\ wrote' = settled \o move
        /\ UNCHANGED <<origin, header, rounds>>
    BY <1>6 DEF Write
  <2> HIDE DEF n
  <2>4. /\ Good(AfterEvents(n, move))
        /\ AfterEvents(n, move).last.type \in {"DRAW", "DISCARD", "OPEN_KAN"}
        /\ move \in Seq(Events)
    BY <1>6, <2>2, MoveFromSettled
  <2>5. wrote' \in Seq(Events)
    BY <2>2, <2>3, <2>4
  <2>6. Good(rec)' /\ rec'.last.type \in {"DRAW", "DISCARD", "OPEN_KAN"}
    BY <2>3, <2>4
  <2> QED
    BY <1>2, <2>3, <2>5, <2>6, RoundGoesOn DEF Over, Results
<1>7. CASE /\ Draws(rec) # LastDraw /\ rec.last.type = "DISCARD"
           /\ taker # Nobody /\ Move(CallOf(taker, c[taker]))
  <2>1. taker \in Players \ {target} /\ c[taker] \in {"PON", "OPEN_KAN"}
    BY <1>1, <1>7, FirstResponderAnswers
  <2>2. c[taker] \in AnswersOf(rec, taker)
    BY <1>1, <2>1 DEF Answers, Asked
  <2>3. rec.melds[taker] < HandMelds
    BY <2>1, <2>2 DEF AnswersOf, LegalResponses, IsLegalCall, Calls
  <2> QED
    BY <1>6, <1>7, <2>1, <2>3 DEF Calls
<1>8. CASE /\ Draws(rec) # LastDraw /\ rec.last.type = "DISCARD"
           /\ c[next] = "CHII" /\ Move(CallOf(next, "CHII"))
  <2>1. next \in Players \ {target}
    BY <1>1 DEF Seat, Players
  <2>2. c[next] \in AnswersOf(rec, next)
    BY <1>1, <2>1 DEF Answers, Asked
  <2>3. rec.melds[next] < HandMelds
    BY <1>8, <2>2 DEF AnswersOf, LegalResponses, IsLegalCall, Calls
  <2> QED
    BY <1>6, <1>8, <2>1, <2>3 DEF Calls
<1>9. CASE /\ Draws(rec) # LastDraw /\ rec.last.type = "DISCARD"
           /\ Move(<<Event("DRAW", next)>>)
  <2>1. next \in Players
    BY <1>1 DEF Seat, Players
  <2> QED
    BY <1>6, <1>9, <2>1
<1> QED
  BY <1>1, <1>3, <1>4, <1>5, <1>7, <1>8, <1>9 DEF MoveAfterDiscard

\* END_GAME repeats the scores of the last result.
LEMMA EndGameKeeps ==
    ASSUME IInv, EndGame
    PROVE  IInv'
<1> DEFINE e == Result("END_GAME", Nobody, rec.last.scores, NotReady)
<1>1. /\ Good(rec) /\ rec \in Records /\ header \in Headers /\ rec.last.type \in Results
      /\ rec.last \in Events
  BY DEF IInv, EndGame, Good, TypeOK, Records
<1>2. /\ e \in Events /\ e.type = "END_GAME" /\ e.scores = rec.last.scores
      /\ Write(<<>>, <<e>>)
  BY <1>1 DEF EndGame, Result, Events, EventTypes, NotReady
<1> HIDE DEF e
<1>3. /\ rec' = AfterEvent(rec, e) /\ wrote' = <<>> \o <<e>>
      /\ UNCHANGED <<origin, header, rounds>>
  BY <1>2 DEF Write, AfterEvents
<1>4. wrote' \in Seq(Events)
  BY <1>2, <1>3
<1>5. rec' \in Records /\ MeldsGood(rec')
  BY <1>1, <1>2, <1>3, TypeStep DEF Good, Calls
<1>6. /\ rec'.last = e /\ rec'.prev = rec.last.type
      /\ rec'.won = rec.won /\ rec'.dead = rec.dead /\ rec'.doras = rec.doras
      /\ Draws(rec') = Draws(rec)
      /\ \A p \in Players : rec'.declared[p] = rec.declared[p]
                          /\ rec'.accepted[p] = rec.accepted[p]
  <2>1. Draws(rec) \in Nat /\ rec.dead \in Nat /\ rec.doras \in Nat /\ rec.won \in BOOLEAN
    BY <1>1 DEF Draws, Records
  <2>2. \A p \in Players : rec.declared[p] \in BOOLEAN /\ rec.accepted[p] \in BOOLEAN
    BY <1>1 DEF Records
  <2>3. /\ rec'.last = e /\ rec'.prev = rec.last.type
        /\ rec'.won = (rec.won \/ e.type = "WIN")
        /\ rec'.live + rec'.dead = Draws(rec) + IF e.type = "DRAW" THEN 1 ELSE 0
        /\ rec'.dead = rec.dead + IF e.type = "DRAW" /\ FromDeadWall(rec) THEN 1 ELSE 0
        /\ rec'.doras = rec.doras + IF e.type = "DORA" THEN 1 ELSE 0
        /\ \A p \in Players :
              /\ rec'.declared[p] = (rec.declared[p] \/ (e.type = "RIICHI" /\ e.player = p))
              /\ rec'.accepted[p] =
                    (rec.accepted[p] \/ (e.type = "RIICHI_ACCEPTED" /\ e.player = p))
    BY <1>1, <1>3, LastOfStep
  <2>4. rec'.won = rec.won
    BY <1>2, <2>1, <2>3
  <2>5. \A p \in Players : rec'.declared[p] = rec.declared[p]
                        /\ rec'.accepted[p] = rec.accepted[p]
    BY <1>2, <2>2, <2>3
  <2>6. rec'.dead = rec.dead /\ rec'.doras = rec.doras /\ Draws(rec') = Draws(rec)
    BY <1>2, <2>1, <2>3 DEF Draws
  <2> QED
    BY <2>3, <2>4, <2>5, <2>6
<1>7. Good(rec')
  <2>1. SeatGood(rec')
    BY <1>1, <1>2, <1>6 DEF SeatGood, OfPlayer, Over
  <2>2. RiichiGood(rec')
    BY <1>2, <1>6 DEF RiichiGood, Declaring, Over
  <2>3. WallGood(rec')
    BY <1>1, <1>2, <1>6 DEF Good, WallGood, Reserved, Kans
  <2>4. DoraGood(rec')
    BY <1>1, <1>2, <1>6 DEF Good, DoraGood, Owed, Results
  <2> QED
    BY <1>5, <2>1, <2>2, <2>3, <2>4 DEF Good
<1>8. rec'.accepted = rec.accepted
  BY <1>1, <1>5, <1>6 DEF Records
<1>9. PointsConserved'
  BY <1>1, <1>2, <1>3, <1>6, <1>8 DEF IInv, PointsConserved, Points, Deposit
<1>10. TypeOK'
  BY <1>3, <1>4, <1>5 DEF IInv, TypeOK
<1> QED
  BY <1>2, <1>6, <1>7, <1>9, <1>10 DEF IInv

\* A round starts with nothing drawn and one indicator turned.
LEMMA FreshRecordGood ==
    /\ Good(FreshRecord)
    /\ FreshRecord.last.type = "ROUND"
    /\ Draws(FreshRecord) = 0
<1> DEFINE r == FreshRecord
<1>1. r \in Records
  <2>1. Event("ROUND", Nobody) \in Events
    BY EventFields DEF EventTypes
  <2>2. NoScores \in [Players -> 0 .. HandMelds] /\ NotReady \in [Players -> BOOLEAN]
    BY GameAssumption DEF NoScores, NotReady
  <2> QED
    BY <2>1, <2>2 DEF FreshRecord, Records, EventTypes
<1>2. /\ r.last.type = "ROUND" /\ r.live = 0 /\ r.dead = 0 /\ r.doras = 1 /\ r.won = FALSE
      /\ r.declared = NotReady /\ r.melds = NoScores /\ r.pons = NoScores
  BY EventFields DEF FreshRecord, EventTypes
<1> HIDE DEF r
<1>3. SeatGood(r)
  BY <1>2 DEF SeatGood, OfPlayer
<1>4. RiichiGood(r)
  BY <1>2 DEF RiichiGood, Declaring, NotReady
<1>5. MeldsGood(r)
  <2>1. \A p \in Players : NoScores[p] = 0
    BY DEF NoScores
  <2>2. \A p \in Players : r.pons[p] = 0 /\ r.melds[p] = 0
    BY <1>2, <2>1
  <2>3. \A p \in Players : r.pons[p] <= r.melds[p]
    <3> TAKE p \in Players
    <3>1. r.pons[p] = 0 /\ r.melds[p] = 0
      BY <2>2
    <3> QED
      BY <3>1
  <2> QED
    BY <2>3 DEF MeldsGood
<1>6. WallGood(r) /\ Draws(r) = 0
  BY <1>2, GameAssumption DEF WallGood, Reserved, Draws, Kans
<1>7. DoraGood(r)
  BY <1>2 DEF DoraGood, Owed
<1> QED
  BY <1>1, <1>2, <1>3, <1>4, <1>5, <1>6, <1>7 DEF Good, r

\* The header of the next round is one: the sticks that nobody won are carried
\* over to it, and the scores are those of the result.
LEMMA NextRoundKeeps ==
    ASSUME IInv, NextRound
    PROVE  IInv'
<1> DEFINE h == NextHeader(header, rec.last)
<1>1. /\ Good(rec) /\ rec \in Records /\ header \in Headers /\ rec.last.type \in Results
      /\ rec.last.scores \in [Players -> Int] /\ rounds \in Nat
      /\ origin \in Origins /\ PointsConserved
  BY DEF IInv, NextRound, Good, TypeOK, Records, Events
<1>2. /\ header' = h /\ rec' = FreshRecord /\ wrote' = <<Event("ROUND", Nobody)>>
      /\ rounds' = rounds + 1 /\ origin' = origin
  BY DEF NextRound
<1>3. /\ header.dealer \in Players /\ header.wind \in Nat /\ header.round \in 1 .. 4
      /\ header.ranking \in Nat /\ header.repeat \in Nat
  BY <1>1 DEF Headers
<1>4. Deposit(header, rec) \in Nat
  BY <1>1, SumOfScores DEF Deposit
<1>5. NextDealer(header, rec.last) \in Players
  BY <1>3 DEF NextDealer, Seat, Players
<1>6. NextRepeatCounter(header, rec.last) \in Nat
  BY <1>3 DEF NextRepeatCounter
<1>7. h \in Headers /\ h.scores = rec.last.scores /\ h.deposit = Deposit(header, rec)
  BY <1>1, <1>3, <1>4, <1>5, <1>6 DEF NextHeader, Headers
<1> HIDE DEF h
<1>8. Good(FreshRecord) /\ FreshRecord.last.type = "ROUND" /\ Draws(FreshRecord) = 0
  BY FreshRecordGood
<1>9. Balance(h, FreshRecord) = Sum(h.scores) + 10 * h.deposit
  BY <1>7, <1>8, BalanceOfOpenRound DEF Good, Over, Results
<1>10. Balance(h, FreshRecord) = Balance(header, rec)
  BY <1>1, <1>7, <1>9 DEF Balance, Points
<1>11. PointsConserved'
  BY <1>1, <1>2, <1>10 DEF PointsConserved, Balance
<1>12. wrote' \in Seq(Events)
  <2>1. Event("ROUND", Nobody) \in Events
    BY EventFields DEF EventTypes
  <2> QED
    BY <1>2, <2>1
<1>13. TypeOK'
  BY <1>1, <1>2, <1>7, <1>8, <1>12 DEF TypeOK, Good
<1> QED
  BY <1>2, <1>8, <1>11, <1>13 DEF IInv

\* The inductive invariant holds when initialize_game returns.
LEMMA InitIInv == Init => IInv
<1> SUFFICES ASSUME Init PROVE IInv
  OBVIOUS
<1>1. Good(FreshRecord) /\ FreshRecord.last.type = "ROUND" /\ Draws(FreshRecord) = 0
  BY FreshRecordGood
<1>2. origin \in Headers /\ header = origin /\ rec = FreshRecord /\ rounds = 1
  BY GameAssumption DEF Init
<1>3. wrote \in Seq(Events)
  <2>1. Event("GAME", Nobody) \in Events /\ Event("ROUND", Nobody) \in Events
    BY EventFields DEF EventTypes
  <2> QED
    BY <2>1 DEF Init
<1>4. PointsConserved
  BY <1>1, <1>2, BalanceOfOpenRound DEF Good, Over, Results, PointsConserved, Balance
<1>5. TypeOK
  BY <1>1, <1>2, <1>3 DEF Init, TypeOK, Good
<1> QED
  BY <1>1, <1>2, <1>4, <1>5 DEF IInv

\* Every call keeps the inductive invariant.
LEMMA NextIInv == IInv /\ [Next]_vars => IInv'
<1> SUFFICES ASSUME IInv, [Next]_vars PROVE IInv'
  OBVIOUS
<1>1. CASE FirstDraw
  BY <1>1, FirstDrawKeeps
<1>2. CASE \E m \in OwnMoves : MoveAfterDraw(m)
  BY <1>2, MoveAfterDrawKeeps
<1>3. CASE AfterConcealedKan
  BY <1>3, AfterConcealedKanKeeps
<1>4. CASE AfterOpenKan
  BY <1>4, AfterOpenKanKeeps
<1>5. CASE \E c \in Answers(rec) : MoveAfterDiscard(c)
  BY <1>5, MoveAfterDiscardKeeps
<1>6. CASE EndGame
  BY <1>6, EndGameKeeps
<1>7. CASE NextRound
  BY <1>7, NextRoundKeeps
<1>8. CASE UNCHANGED vars
  BY <1>8 DEF vars, IInv, TypeOK, PointsConserved
<1> QED
  BY <1>1, <1>2, <1>3, <1>4, <1>5, <1>6, <1>7, <1>8 DEF Next

\* What the invariant says of the wall, for however many draws there are.
LEMMA WallFollows == IInv => WallRespected
<1> SUFFICES ASSUME IInv PROVE WallRespected
  OBVIOUS
<1>1. /\ rec.live \in Nat /\ rec.dead \in Nat /\ rec.doras \in Nat
      /\ rec.live + rec.dead <= LastDraw
      /\ rec.doras <= rec.dead + 2
      /\ rec.doras <= rec.dead + 1 \/ rec.last.type = "DORA"
  BY DEF IInv, Good, Records, WallGood, DoraGood, Draws
<1> QED
  BY <1>1, GameAssumption DEF WallRespected, LiveTiles, DeadTiles, DoraTiles, UnderTiles, Draws

\* The inductive invariant holds in every state of every game.
THEOREM InvariantHolds == Spec => []IInv
<1>1. Init => IInv
  BY InitIInv
<1>2. IInv /\ [Next]_vars => IInv'
  BY NextIInv
<1> QED
  BY <1>1, <1>2, PTL DEF Spec

(***************************************************************************)
(* Every state of a game is of the declared types: the header that         *)
(* add_next_round_or_end_game builds, and the counts of a hand's melds,    *)
(* which the legality checks keep between none and what the hand has.      *)
(***************************************************************************)
THEOREM TypeCorrect == Spec => []TypeOK
<1>1. IInv => TypeOK
  BY DEF IInv
<1> QED
  BY <1>1, InvariantHolds, PTL

(***************************************************************************)
(* No call of proceed_game makes or loses points, over any number of       *)
(* rounds and whatever the hands are worth.                                *)
(***************************************************************************)
THEOREM PointsAreConserved == Spec => []PointsConserved
<1>1. IInv => PointsConserved
  BY DEF IInv
<1> QED
  BY <1>1, InvariantHolds, PTL

(***************************************************************************)
(* No tile of the wall is used for two purposes, however long the wall.    *)
(***************************************************************************)
THEOREM WallIsRespected == Spec => []WallRespected
<1>1. IInv => WallRespected
  BY WallFollows
<1> QED
  BY <1>1, InvariantHolds, PTL

(***************************************************************************)
(* A declared riichi is accepted, whoever calls the discard.               *)
(***************************************************************************)
THEOREM RiichiIsSettled == Spec => []RiichiSettled
<1>1. IInv => RiichiSettled
  <2> SUFFICES ASSUME IInv, NEW p \in Players, rec.declared[p], ~rec.accepted[p]
               PROVE  \/ rec.last.type = "DISCARD" /\ rec.prev = "RIICHI" /\ rec.last.player = p
                      \/ rec.last.type \in Results \cup {"END_GAME"}
    BY DEF RiichiSettled
  <2>1. (Declaring(rec) /\ rec.last.player = p) \/ rec.last.type \in Over
    BY DEF IInv, Good, RiichiGood
  <2> QED
    BY <2>1 DEF IInv, Declaring, Over
<1> QED
  BY <1>1, InvariantHolds, PTL
=============================================================================
