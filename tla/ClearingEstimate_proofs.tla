---------------------- MODULE ClearingEstimate_proofs -----------------------
(***************************************************************************)
(* Proofs about ClearingEstimate, for every book, side and size: the walk  *)
(* accounts for the whole size, the average price lies between the touch   *)
(* and the worst level consumed, the amount filled is exact, and no other  *)
(* fill of that amount is better.                                          *)
(***************************************************************************)
EXTENDS ClearingEstimate, FiniteSetTheorems, WellFoundedInduction, TLAPS

TypeOK ==
  /\ side \in Sides /\ want \in Int
  /\ book \in Books
  /\ pc \in {"start", "levels", "walk", "done", "error"}
  /\ pc \in {"levels", "walk", "done"} => want > 0

Walking == pc \in {"walk", "done"}

\* The levels are positive and better ones come first.
LevelsSorted ==
  Walking =>
    /\ side \in {"BUY", "SELL"}
    /\ levels \in Seq([price : Int, size : Int]) /\ Len(levels) >= 1
    /\ \A n \in 1 .. Len(levels) : levels[n].price > 0 /\ levels[n].size > 0
    /\ \A m, n \in 1 .. Len(levels) :
         m < n => IF side = "BUY" THEN levels[m].price <= levels[n].price
                                  ELSE levels[m].price >= levels[n].price

\* What is filled and what remains make up the size asked for.
SizeAccounted ==
  Walking =>
    /\ filled \in Int /\ remaining \in Int
    /\ filled >= 0 /\ remaining >= 0
    /\ filled + remaining = want

\* The walk stands just behind the worst level consumed.
WorstIsLast ==
  Walking =>
    /\ i \in 1 .. Len(levels) + 1
    /\ worst = levels[IF i = 1 THEN 1 ELSE i - 1].price

\* The cost lies between the filled size at the touch and at the worst price.
CostBounds ==
  Walking =>
    /\ cost \in Int
    /\ IF side = "BUY"
         THEN Touch * filled <= cost /\ cost <= worst * filled
         ELSE worst * filled <= cost /\ cost <= Touch * filled

Inv == TypeOK /\ LevelsSorted /\ SizeAccounted /\ WorstIsLast /\ CostBounds

-----------------------------------------------------------------------------
\* Multiplication by a natural is monotone.
LEMMA TimesMonotone ==
  ASSUME NEW a \in Int, NEW b \in Int, NEW c \in Int, a <= b, 0 <= c
  PROVE  a * c <= b * c
BY Z3

\* An element of a sequence is an element of its range set.
LEMMA ElementOf ==
  ASSUME NEW S, NEW s \in Seq(S), NEW n \in 1 .. Len(s)
  PROVE  s[n] \in S
OBVIOUS

\* An element of a sequence of levels is a level.
LEMMA LevelOf ==
  ASSUME NEW s \in Seq([price : Int, size : Int]), NEW n \in 1 .. Len(s)
  PROVE  s[n] \in [price : Int, size : Int] /\ s[n].price \in Int /\ s[n].size \in Int
<1>1. s[n] \in [price : Int, size : Int]
  BY ElementOf, Zenon
<1> QED
  BY <1>1

\* A turn takes no more than what remains, and nothing negative.
LEMMA TakeBounds ==
  ASSUME NEW lvl, lvl.size \in Int, lvl.size > 0, remaining \in Int, remaining > 0
  PROVE  Take(lvl) \in Int /\ Take(lvl) >= 0 /\ Take(lvl) <= remaining
BY DEF Take

\* A turn's arithmetic: a level p with t <= w <= p, of which x is taken.
LEMMA TurnUp ==
  ASSUME NEW t \in Int, NEW w \in Int, NEW p \in Int, NEW x \in Int,
         NEW f \in Int, NEW c \in Int,
         t <= w, w <= p, 0 <= x, 0 <= f, t * f <= c, c <= w * f
  PROVE  t * (f + x) <= c + p * x /\ c + p * x <= p * (f + x)
<1>1. t * x <= p * x /\ w * f <= p * f
  BY TimesMonotone
<1>2. t * (f + x) = t * f + t * x /\ p * (f + x) = p * f + p * x
  BY Z3
<1>3. /\ t * x \in Int /\ p * x \in Int /\ w * f \in Int /\ p * f \in Int
      /\ t * f \in Int
  OBVIOUS
<1> QED
  BY <1>1, <1>2, <1>3

\* The same, downwards.
LEMMA TurnDown ==
  ASSUME NEW t \in Int, NEW w \in Int, NEW p \in Int, NEW x \in Int,
         NEW f \in Int, NEW c \in Int,
         p <= w, w <= t, 0 <= x, 0 <= f, w * f <= c, c <= t * f
  PROVE  p * (f + x) <= c + p * x /\ c + p * x <= t * (f + x)
<1>1. p * x <= t * x /\ p * f <= w * f
  BY TimesMonotone
<1>2. t * (f + x) = t * f + t * x /\ p * (f + x) = p * f + p * x
  BY Z3
<1>3. /\ t * x \in Int /\ p * x \in Int /\ w * f \in Int /\ p * f \in Int
      /\ t * f \in Int
  OBVIOUS
<1> QED
  BY <1>1, <1>2, <1>3

-----------------------------------------------------------------------------
\* The initial states satisfy the invariant.
LEMMA InitInv == Init => Inv
BY WantedAssumption DEF Init, Inv, TypeOK, Walking, LevelsSorted, SizeAccounted,
   WorstIsLast, CostBounds

\* restingLevels delivers positive levels, the better ones first.
LEMMA RestingLevelsStep ==
  ASSUME Inv, RestingLevels
  PROVE  Inv'
<1> DEFINE kept == {n \in DOMAIN book : Positive(book[n])}
           N == Cardinality(kept)
<1>0. PICK k \in 0 .. MaxLevels : book \in [1 .. k -> RawLevels]
  BY DEF Inv, TypeOK, Books
<1>1. IsFiniteSet(kept) /\ N \in Nat
  <2>1. k \in Int
    BY <1>0, MaxLevelsAssumption
  <2>2. IsFiniteSet(1 .. k)
    BY <2>1, FS_Interval
  <2>3. kept \subseteq 1 .. k
    BY <1>0
  <2> QED
    BY <2>2, <2>3, FS_Subset, FS_CardinalityType
<1>2. PICK f \in Numberings(kept) :
        /\ InOrder(side, book, f)
        /\ levels' = [n \in 1 .. N |->
                        [price |-> book[f[n]].price, size |-> book[f[n]].size]]
        /\ IF kept = {}
             THEN pc' = "error" /\ UNCHANGED walk
             ELSE /\ pc' = "walk"
                  /\ i' = 1 /\ remaining' = want /\ cost' = 0 /\ filled' = 0
                  /\ worst' = levels'[1].price
  BY DEF RestingLevels
<1>3. f \in [1 .. N -> kept]
  BY DEF Numberings
<1>4. UNCHANGED input /\ side \in {"BUY", "SELL"}
  BY DEF RestingLevels, Inv, TypeOK, Sides
<1>5. TypeOK'
  BY <1>2, <1>4 DEF Inv, TypeOK, input, RestingLevels
<1>6. CASE kept = {}
  <2>1. pc' = "error"
    BY <1>2, <1>6
  <2> QED
    BY <1>5, <2>1 DEF Inv, Walking, LevelsSorted, SizeAccounted, WorstIsLast, CostBounds
<1>7. CASE kept # {}
  <2>1. N >= 1
    BY <1>1, <1>7, FS_EmptySet
  <2>2. ASSUME NEW n \in 1 .. N
        PROVE  /\ book[f[n]].price \in Int /\ book[f[n]].size \in Int
               /\ book[f[n]].price > 0 /\ book[f[n]].size > 0
    <3>1. f[n] \in 1 .. k /\ Positive(book[f[n]])
      BY <1>0, <1>3
    <3> QED
      BY <1>0, <3>1, PricesAssumption, SizesAssumption DEF Positive, RawLevels
  <2> HIDE DEF N, kept
  <2>3. levels' \in Seq([price : Int, size : Int]) /\ Len(levels') = N
    BY <1>1, <1>2, <2>2
  <2>4. \A n \in 1 .. N : /\ levels'[n].price = book[f[n]].price
                          /\ levels'[n].size = book[f[n]].size
    BY <1>2
  <2>5. ASSUME NEW m \in 1 .. N, NEW n \in 1 .. N, m < n
        PROVE  IF side = "BUY" THEN levels'[m].price <= levels'[n].price
                               ELSE levels'[m].price >= levels'[n].price
    <3>1. DOMAIN f = 1 .. N
      BY <1>3
    <3>2. \/ Better(side, book[f[m]], book[f[n]])
          \/ ~Better(side, book[f[n]], book[f[m]])
      BY <1>2, <2>5, <3>1 DEF InOrder
    <3> QED
      BY <1>4, <2>2, <2>4, <3>2 DEF Better
  <2>6. /\ pc' = "walk" /\ side' = side /\ want' = want
        /\ i' = 1 /\ remaining' = want /\ cost' = 0 /\ filled' = 0
        /\ worst' = levels'[1].price
    BY <1>2, <1>4, <1>7 DEF input
  <2>7. want >= 0 /\ want \in Int
    BY DEF Inv, TypeOK, RestingLevels
  <2>8. LevelsSorted'
    BY <1>4, <2>1, <2>2, <2>3, <2>4, <2>5, <2>6 DEF LevelsSorted
  <2>9. SizeAccounted' /\ WorstIsLast'
    BY <2>1, <2>3, <2>6, <2>7 DEF SizeAccounted, WorstIsLast
  <2>10. levels'[1].price \in Int
    <3>1. 1 \in 1 .. Len(levels')
      BY <1>1, <2>1, <2>3
    <3> QED
      BY <2>3, <3>1, LevelOf
  <2>11. CostBounds'
    <3>1. levels'[1].price * 0 = 0
      BY <2>10
    <3> QED
      BY <2>6, <3>1 DEF CostBounds, Touch
  <2> QED
    BY <1>5, <2>8, <2>9, <2>11 DEF Inv
<1> QED
  BY <1>6, <1>7

\* A turn of the loop keeps the accounts and the bounds on the cost.
LEMMA ConsumeStep ==
  ASSUME Inv, Consume
  PROVE  Inv'
<1> DEFINE lvl == levels[i]
           take == Take(lvl)
           last == IF i = 1 THEN 1 ELSE i - 1
<1>1. /\ pc = "walk" /\ pc' = pc /\ levels' = levels /\ i' = i + 1
      /\ side' = side /\ want' = want /\ book' = book
      /\ i <= Len(levels) /\ remaining > 0
      /\ cost' = cost + lvl.price * take /\ filled' = filled + take
      /\ remaining' = remaining - take /\ worst' = lvl.price
  BY DEF Consume, input
<1>2. Walking /\ Walking'
  BY <1>1 DEF Walking
<1>3. TypeOK' /\ LevelsSorted'
  BY <1>1, <1>2 DEF Inv, TypeOK, LevelsSorted
<1>4. /\ levels \in Seq([price : Int, size : Int])
      /\ i \in 1 .. Len(levels) /\ last \in 1 .. Len(levels) /\ last <= i
      /\ 1 \in 1 .. Len(levels) /\ 1 <= last
      /\ worst = levels[last].price /\ (last = i \/ last < i) /\ (last = 1 \/ 1 < last)
  BY <1>1, <1>2 DEF Inv, LevelsSorted, WorstIsLast
<1> HIDE DEF last
<1>5. /\ lvl.price \in Int /\ lvl.size \in Int
      /\ levels[last].price \in Int /\ levels[1].price \in Int
  BY <1>4, LevelOf
<1>6. lvl.price \in Int /\ lvl.size \in Int /\ lvl.size > 0 /\ worst \in Int /\ Touch \in Int
  BY <1>2, <1>4, <1>5 DEF Inv, LevelsSorted, Touch
<1>7. filled \in Int /\ remaining \in Int /\ filled >= 0 /\ filled + remaining = want /\ cost \in Int
  BY <1>2 DEF Inv, SizeAccounted, CostBounds
<1>8. take \in Int /\ take >= 0 /\ take <= remaining
  BY <1>1, <1>6, <1>7, TakeBounds
<1>9. IF side = "BUY" THEN Touch <= worst /\ worst <= lvl.price
                      ELSE lvl.price <= worst /\ worst <= Touch
  <2>1. \A m, n \in 1 .. Len(levels) :
          m < n => IF side = "BUY" THEN levels[m].price <= levels[n].price
                                   ELSE levels[m].price >= levels[n].price
    BY <1>2 DEF Inv, LevelsSorted
  <2>2. IF side = "BUY" THEN levels[last].price <= levels[i].price
                        ELSE levels[last].price >= levels[i].price
    BY <1>4, <1>5, <2>1
  <2>3. IF side = "BUY" THEN levels[1].price <= levels[last].price
                        ELSE levels[1].price >= levels[last].price
    BY <1>4, <1>5, <2>1
  <2> QED
    BY <1>4, <1>5, <2>2, <2>3 DEF Touch
<1>10. SizeAccounted'
  <2> HIDE DEF take, lvl, last
  <2>1. /\ filled' \in Int /\ remaining' \in Int
        /\ filled' >= 0 /\ remaining' >= 0
    BY <1>1, <1>7, <1>8
  <2>2. filled' + remaining' = want'
    BY <1>1, <1>7, <1>8
  <2> QED
    BY <2>1, <2>2 DEF SizeAccounted
<1>11. WorstIsLast'
  BY <1>1, <1>4 DEF WorstIsLast
<1>12. CostBounds'
  <2> HIDE DEF take, lvl, last
  <2> DEFINE p == levels[i].price
  <2>0. Touch' = Touch /\ lvl.price = p /\ p \in Int
    BY <1>1, <1>6 DEF Touch, lvl
  <2>1. cost' \in Int
    BY <1>1, <1>6, <1>7, <1>8
  <2> HIDE DEF p
  <2>2. CASE side = "BUY"
    <3>1. Touch * filled <= cost /\ cost <= worst * filled
      BY <1>2, <2>2 DEF Inv, CostBounds
    <3>2. /\ Touch * (filled + take) <= cost + p * take
          /\ cost + p * take <= p * (filled + take)
      BY <1>6, <1>7, <1>8, <1>9, <2>0, <2>2, <3>1, TurnUp
    <3> QED
      BY <1>1, <2>0, <2>1, <2>2, <3>2 DEF CostBounds
  <2>3. CASE side # "BUY"
    <3>1. worst * filled <= cost /\ cost <= Touch * filled
      BY <1>2, <2>3 DEF Inv, CostBounds
    <3>2. /\ p * (filled + take) <= cost + p * take
          /\ cost + p * take <= Touch * (filled + take)
      BY <1>6, <1>7, <1>8, <1>9, <2>0, <2>3, <3>1, TurnDown
    <3> QED
      BY <1>1, <2>0, <2>1, <2>3, <3>2 DEF CostBounds
  <2> QED
    BY <2>2, <2>3
<1> QED
  BY <1>3, <1>10, <1>11, <1>12 DEF Inv

\* A step that leaves the computation's data alone and does not start the walk.
LEMMA QuietStep ==
  ASSUME Inv, UNCHANGED <<input, levels, walk>>, TypeOK', Walking' => Walking
  PROVE  Inv'
BY DEF Inv, LevelsSorted, SizeAccounted, WorstIsLast, CostBounds, Touch, input, walk

\* Every step preserves the invariant.
LEMMA NextInv == Inv /\ [Next]_vars => Inv'
<1> SUFFICES ASSUME Inv, [Next]_vars PROVE Inv'
  OBVIOUS
<1> USE DEF Inv, TypeOK, Walking, input
<1>1. CASE CheckSize
  BY <1>1, QuietStep DEF CheckSize
<1>2. CASE NoBook
  BY <1>2, QuietStep DEF NoBook
<1>3. CASE BadLevels
  BY <1>3, QuietStep DEF BadLevels
<1>4. CASE RestingLevels
  BY <1>4, RestingLevelsStep
<1>5. CASE Consume
  BY <1>5, ConsumeStep
<1>6. CASE Finish
  BY <1>6, QuietStep DEF Finish
<1>7. CASE Finished
  BY <1>7, QuietStep DEF Finished, vars
<1>8. CASE UNCHANGED vars
  BY <1>8, QuietStep DEF vars
<1> QED
  BY <1>1, <1>2, <1>3, <1>4, <1>5, <1>6, <1>7, <1>8 DEF Next

-----------------------------------------------------------------------------
\* The walk's accounts and bounds hold throughout, for books of any length and
\* any prices (auction.go:89-108, 144-177).
THEOREM InvHolds == Spec => []Inv
BY InitInv, NextInv, PTL DEF Spec

\* The average price of an estimate lies between the touch and the worst level
\* consumed, whatever book the indexer answers with (auction.go:96-122).
THEOREM AverageBounded == Spec => []AverageBetweenTouchAndWorst
<1>1. Inv => AverageBetweenTouchAndWorst
  <2> SUFFICES ASSUME Inv, pc = "done"
               PROVE  /\ Slippage >= 0
                      /\ IF side = "BUY" THEN cost <= worst * filled
                                         ELSE cost >= worst * filled
    BY DEF AverageBetweenTouchAndWorst
  <2>1. /\ side \in {"BUY", "SELL"} /\ cost \in Int /\ filled \in Int
        /\ levels \in Seq([price : Int, size : Int]) /\ 1 \in 1 .. Len(levels)
    BY DEF Inv, Walking, LevelsSorted, SizeAccounted, CostBounds
  <2>2. levels[1].price \in Int
    BY <2>1, LevelOf
  <2>3. Touch \in Int /\ Touch * filled \in Int
    BY <2>1, <2>2 DEF Touch
  <2>4. worst \in Int /\ worst * filled \in Int
    <3>1. (IF i = 1 THEN 1 ELSE i - 1) \in 1 .. Len(levels)
      BY <2>1 DEF Inv, Walking, WorstIsLast
    <3>2. levels[IF i = 1 THEN 1 ELSE i - 1].price \in Int
      BY <2>1, <3>1, LevelOf
    <3> QED
      BY <2>1, <3>2 DEF Inv, Walking, WorstIsLast
  <2>5. IF side = "BUY" THEN Touch * filled <= cost /\ cost <= worst * filled
                        ELSE worst * filled <= cost /\ cost <= Touch * filled
    BY DEF Inv, Walking, CostBounds
  <2> HIDE DEF Touch
  <2> QED
    BY <2>1, <2>3, <2>4, <2>5 DEF Slippage
<1> QED
  BY <1>1, InvHolds, PTL

-----------------------------------------------------------------------------
\* Sums over a finite set.  Total folds over the set in an order that CHOOSE
\* fixes; the lemmas show that the order does not matter.

\* Induction over the subsets of a finite set, with a set for the predicate.
LEMMA SubsetInduction ==
  ASSUME NEW S, IsFiniteSet(S), NEW G,
         \A T \in SUBSET S : (\A U \in SUBSET T : U # T => U \in G) => T \in G
  PROVE  \A T \in SUBSET S : T \in G
<1> DEFINE Bad == {T \in SUBSET S : T \notin G}
<1> SUFFICES ASSUME Bad # {} PROVE FALSE
  OBVIOUS
<1>1. IsWellFoundedOn(StrictSubsetOrdering(S), FiniteSubsetsOf(S))
  BY FS_StrictSubsetOrderingWellFounded
<1>2. Bad \subseteq FiniteSubsetsOf(S)
  BY FS_Subset DEF FiniteSubsetsOf
<1>3. PICK T \in Bad : \A U \in Bad : ~(<<U, T>> \in StrictSubsetOrdering(S))
  <2> HIDE DEF Bad
  <2> QED
    BY <1>1, <1>2, WFMin
<1>4. \A U \in SUBSET T : U # T => U \in G
  BY <1>3 DEF StrictSubsetOrdering
<1> QED
  BY <1>3, <1>4

\* The element the fold takes first.
Pick(s) == CHOOSE x \in s : TRUE

\* g adds f up over the subsets of S, as the fold does.
Adds(g, f, S) ==
  g = [s \in SUBSET S |-> IF s = {} THEN 0 ELSE f[Pick(s)] + g[s \ {Pick(s)}]]

\* The fold is the value of such a function.
LEMMA Unfold ==
  ASSUME NEW S, NEW f
  PROVE  Total(f, S) = (CHOOSE g : Adds(g, f, S))[S]
BY Zenon DEF Total, MapThenSumSet, MapThenFoldSet, Adds, Pick

\* A non-empty set has an element to pick.
LEMMA PickIn == ASSUME NEW s, s # {} PROVE Pick(s) \in s
BY DEF Pick

\* What it says of one subset.
LEMMA AddsAt ==
  ASSUME NEW f, NEW S, NEW g, Adds(g, f, S), NEW s, s \subseteq S
  PROVE  g[s] = IF s = {} THEN 0 ELSE f[Pick(s)] + g[s \ {Pick(s)}]
<1>1. s \in SUBSET S
  OBVIOUS
<1> QED
  BY <1>1 DEF Adds

\* Two such functions agree wherever both are defined.
LEMMA AddsAgree ==
  ASSUME NEW f, NEW S, IsFiniteSet(S), NEW T, NEW U, S \subseteq T, S \subseteq U,
         NEW g, Adds(g, f, T), NEW h, Adds(h, f, U)
  PROVE  g[S] = h[S]
<1> DEFINE G == {s \in SUBSET S : g[s] = h[s]}
<1>1. ASSUME NEW s \in SUBSET S, \A u \in SUBSET s : u # s => u \in G
      PROVE  s \in G
  <2>0. /\ g[s] = IF s = {} THEN 0 ELSE f[Pick(s)] + g[s \ {Pick(s)}]
        /\ h[s] = IF s = {} THEN 0 ELSE f[Pick(s)] + h[s \ {Pick(s)}]
    <3>1. s \subseteq T /\ s \subseteq U
      OBVIOUS
    <3> QED
      BY <3>1, AddsAt
  <2>1. CASE s = {}
    BY <2>0, <2>1
  <2>2. CASE s # {}
    <3>1. s \ {Pick(s)} \in SUBSET s /\ s \ {Pick(s)} # s
      BY <2>2, PickIn
    <3>2. g[s \ {Pick(s)}] = h[s \ {Pick(s)}]
      BY <1>1, <3>1
    <3>4. g[s] = f[Pick(s)] + g[s \ {Pick(s)}]
      BY <2>0, <2>2
    <3>5. h[s] = f[Pick(s)] + h[s \ {Pick(s)}]
      BY <2>0, <2>2
    <3> QED
      BY <3>2, <3>4, <3>5
  <2> QED
    BY <2>1, <2>2
<1> HIDE DEF G
<1>2. \A s \in SUBSET S : s \in G
  BY <1>1, SubsetInduction
<1> QED
  BY <1>2 DEF G

\* Over a finite set there is one.
LEMMA AddsExists ==
  ASSUME NEW f, NEW S, IsFiniteSet(S)
  PROVE  Adds(CHOOSE g : Adds(g, f, S), f, S)
<1> DEFINE G == {T \in SUBSET S : \E g : Adds(g, f, T)}
           h(T) == CHOOSE g : Adds(g, f, T)
<1>1. ASSUME NEW T \in SUBSET S, \A U \in SUBSET T : U # T => U \in G
      PROVE  T \in G
  <2> DEFINE g == [s \in SUBSET T |->
                     IF s = {} THEN 0
                     ELSE f[Pick(s)] + h(s \ {Pick(s)})[s \ {Pick(s)}]]
  <2>1. ASSUME NEW U \in SUBSET T, U # T
        PROVE  Adds(h(U), f, U)
    <3>1. \E k : Adds(k, f, U)
      BY <1>1, <2>1
    <3> QED
      BY <3>1, Zenon
  <2>2. ASSUME NEW U \in SUBSET T, U # T
        PROVE  g[U] = h(U)[U]
    <3>1. Adds(h(U), f, U)
      BY <2>1, <2>2
    <3> HIDE DEF h
    <3>0. h(U)[U] = IF U = {} THEN 0 ELSE f[Pick(U)] + h(U)[U \ {Pick(U)}]
      BY <3>1, AddsAt
    <3>2. CASE U = {}
      <4>1. h(U)[U] = 0
        BY <3>0, <3>2
      <4>2. g[U] = 0
        BY <3>2
      <4> QED
        BY <4>1, <4>2
    <3>3. CASE U # {}
      <4> DEFINE V == U \ {Pick(U)}
      <4>1. V \in SUBSET U /\ V \in SUBSET T /\ V # T
        BY <3>3, <2>2
      <4>2. h(U)[U] = f[Pick(U)] + h(U)[V]
        BY <3>0, <3>3
      <4>3. IsFiniteSet(V)
        BY <4>1, FS_Subset
      <4>4. Adds(h(V), f, V)
        BY <2>1, <4>1
      <4>5. h(U)[V] = h(V)[V]
        <5> HIDE DEF V
        <5> QED
          BY <3>1, <4>1, <4>3, <4>4, AddsAgree
      <4>6. g[U] = f[Pick(U)] + h(V)[V]
        BY <3>3
      <4> QED
        BY <4>2, <4>5, <4>6
    <3> QED
      BY <3>2, <3>3
  <2>3. ASSUME NEW s \in SUBSET T, s # {}
        PROVE  g[s] = f[Pick(s)] + g[s \ {Pick(s)}]
    <3>1. s \ {Pick(s)} \in SUBSET T /\ s \ {Pick(s)} # T
      BY <2>3, PickIn
    <3>2. g[s \ {Pick(s)}] = h(s \ {Pick(s)})[s \ {Pick(s)}]
      BY <2>2, <3>1
    <3>3. g[s] = f[Pick(s)] + h(s \ {Pick(s)})[s \ {Pick(s)}]
      BY <2>3
    <3> QED
      BY <3>2, <3>3
  <2>4. g = [s \in SUBSET T |-> IF s = {} THEN 0 ELSE f[Pick(s)] + g[s \ {Pick(s)}]]
    <3>1. g[{}] = 0
      OBVIOUS
    <3>2. g = [s \in SUBSET T |-> g[s]]
      OBVIOUS
    <3> HIDE DEF g
    <3> QED
      BY <2>3, <3>1, <3>2
  <2>5. Adds(g, f, T)
    BY <2>4 DEF Adds
  <2> QED
    BY <2>5
<1>2. S \in G
  <2> HIDE DEF G
  <2> QED
    BY <1>1, SubsetInduction
<1>3. \E g : Adds(g, f, S)
  BY <1>2
<1> QED
  BY <1>3, Zenon

\* The total of a set is an element and the total of the rest.
LEMMA TotalStep ==
  ASSUME NEW f, NEW S, IsFiniteSet(S)
  PROVE  /\ S = {} => Total(f, S) = 0
         /\ S # {} => Total(f, S) = f[Pick(S)] + Total(f, S \ {Pick(S)})
<1> DEFINE g == CHOOSE g : Adds(g, f, S)
           T == S \ {Pick(S)}
           h == CHOOSE h : Adds(h, f, T)
<1>1. IsFiniteSet(T) /\ T \subseteq S
  BY FS_Subset
<1>2. Adds(g, f, S) /\ Adds(h, f, T)
  BY <1>1, AddsExists
<1>3. Total(f, S) = g[S] /\ Total(f, T) = h[T]
  BY Unfold
<1> HIDE DEF g, h, T
<1>4. g[T] = h[T]
  BY <1>1, <1>2, AddsAgree
<1>5. g[S] = IF S = {} THEN 0 ELSE f[Pick(S)] + g[S \ {Pick(S)}]
  <2>1. Adds(g, f, S) /\ S \subseteq S
    BY <1>2
  <2> QED
    BY <2>1, AddsAt
<1> QED
  BY <1>3, <1>4, <1>5 DEF T

\* The total of integers is one.
LEMMA TotalInt ==
  ASSUME NEW S, IsFiniteSet(S), NEW f, \A x \in S : f[x] \in Int
  PROVE  Total(f, S) \in Int
<1> DEFINE G == {T \in SUBSET S : Total(f, T) \in Int}
<1>1. ASSUME NEW T \in SUBSET S, \A U \in SUBSET T : U # T => U \in G
      PROVE  T \in G
  <2>1. IsFiniteSet(T)
    BY FS_Subset
  <2>2. CASE T = {}
    BY <2>1, <2>2, TotalStep
  <2>3. CASE T # {}
    <3>1. /\ T \ {Pick(T)} \in SUBSET T /\ T \ {Pick(T)} # T
          /\ f[Pick(T)] \in Int
      BY <2>3, PickIn
    <3>2. Total(f, T \ {Pick(T)}) \in Int
      BY <1>1, <3>1
    <3>3. Total(f, T) = f[Pick(T)] + Total(f, T \ {Pick(T)})
      BY <2>1, <2>3, TotalStep
    <3> QED
      BY <3>1, <3>2, <3>3
  <2> QED
    BY <2>2, <2>3
<1> HIDE DEF G
<1>2. S \in G
  BY <1>1, SubsetInduction
<1> QED
  BY <1>2 DEF G

\* Any element may be taken out first.
LEMMA TotalRemove ==
  ASSUME NEW S, IsFiniteSet(S), NEW f, \A x \in S : f[x] \in Int, NEW x \in S
  PROVE  Total(f, S) = f[x] + Total(f, S \ {x})
<1> DEFINE G == {T \in SUBSET S : \A y \in T : Total(f, T) = f[y] + Total(f, T \ {y})}
<1>1. ASSUME NEW T \in SUBSET S, \A U \in SUBSET T : U # T => U \in G
      PROVE  T \in G
  <2> SUFFICES ASSUME NEW y \in T
               PROVE  Total(f, T) = f[y] + Total(f, T \ {y})
    OBVIOUS
  <2> DEFINE p == Pick(T)
  <2>1. IsFiniteSet(T) /\ p \in T
    BY FS_Subset, PickIn
  <2>2. Total(f, T) = f[p] + Total(f, T \ {p})
    BY <2>1, TotalStep
  <2> HIDE DEF p
  <2>3. CASE y = p
    BY <2>2, <2>3
  <2>4. CASE y # p
    <3> DEFINE R == T \ {p, y}
    <3>1. /\ T \ {p} \in SUBSET T /\ T \ {p} # T /\ y \in T \ {p}
          /\ T \ {y} \in SUBSET T /\ T \ {y} # T /\ p \in T \ {y}
          /\ (T \ {p}) \ {y} = R /\ (T \ {y}) \ {p} = R
      BY <2>1, <2>4
    <3>2. Total(f, T \ {p}) = f[y] + Total(f, R)
      BY <1>1, <3>1
    <3>3. Total(f, T \ {y}) = f[p] + Total(f, R)
      BY <1>1, <3>1
    <3>4. f[p] \in Int /\ f[y] \in Int
      BY <2>1
    <3>5. Total(f, R) \in Int
      <4>1. IsFiniteSet(R) /\ \A z \in R : f[z] \in Int
        BY <2>1, FS_Subset
      <4> QED
        BY <4>1, TotalInt
    <3> HIDE DEF R
    <3> QED
      BY <2>2, <3>2, <3>3, <3>4, <3>5
  <2> QED
    BY <2>3, <2>4
<1> HIDE DEF G
<1>2. S \in G
  BY <1>1, SubsetInduction
<1> QED
  BY <1>2 DEF G

\* Differences compare element by element.
LEMMA TotalCompare ==
  ASSUME NEW S, IsFiniteSet(S), NEW f, NEW g, NEW h, NEW k, NEW w \in Int,
         \A x \in S : /\ f[x] \in Int /\ g[x] \in Int /\ h[x] \in Int /\ k[x] \in Int
                      /\ f[x] - g[x] <= w * (h[x] - k[x])
  PROVE  Total(f, S) - Total(g, S) <= w * (Total(h, S) - Total(k, S))
<1> DEFINE G == {T \in SUBSET S :
                   Total(f, T) - Total(g, T) <= w * (Total(h, T) - Total(k, T))}
<1>1. ASSUME NEW T \in SUBSET S, \A U \in SUBSET T : U # T => U \in G
      PROVE  T \in G
  <2>1. IsFiniteSet(T)
    BY FS_Subset
  <2>2. CASE T = {}
    <3>1. Total(f, T) = 0 /\ Total(g, T) = 0 /\ Total(h, T) = 0 /\ Total(k, T) = 0
      BY <2>1, <2>2, TotalStep
    <3>2. w * (0 - 0) = 0
      OBVIOUS
    <3> QED
      BY <3>1, <3>2
  <2>3. CASE T # {}
    <3> DEFINE p == Pick(T)
               R == T \ {p}
    <3>1. R \in SUBSET T /\ R # T /\ p \in S /\ IsFiniteSet(R)
      BY <2>1, <2>3, PickIn, FS_Subset
    <3>2. Total(f, R) - Total(g, R) <= w * (Total(h, R) - Total(k, R))
      BY <1>1, <3>1
    <3>3. /\ Total(f, T) = f[p] + Total(f, R) /\ Total(g, T) = g[p] + Total(g, R)
          /\ Total(h, T) = h[p] + Total(h, R) /\ Total(k, T) = k[p] + Total(k, R)
      BY <2>1, <2>3, TotalStep
    <3>4. /\ Total(f, R) \in Int /\ Total(g, R) \in Int
          /\ Total(h, R) \in Int /\ Total(k, R) \in Int
      BY <3>1, TotalInt
    <3>5. /\ f[p] \in Int /\ g[p] \in Int /\ h[p] \in Int /\ k[p] \in Int
          /\ f[p] - g[p] <= w * (h[p] - k[p])
      BY <3>1
    <3> HIDE DEF p, R
    <3> DEFINE a == h[p] - k[p]
               b == Total(h, R) - Total(k, R)
    <3>6. w * (a + b) = w * a + w * b /\ w * a \in Int /\ w * b \in Int
      <4>1. a \in Int /\ b \in Int
        BY <3>4, <3>5
      <4> HIDE DEF a, b
      <4> QED
        BY <4>1
    <3>7. a + b = Total(h, T) - Total(k, T)
      BY <3>3, <3>4, <3>5
    <3>8. /\ Total(f, T) - Total(g, T) = (f[p] - g[p]) + (Total(f, R) - Total(g, R))
          /\ f[p] - g[p] <= w * a /\ Total(f, R) - Total(g, R) <= w * b
      BY <3>2, <3>3, <3>4, <3>5
    <3> HIDE DEF a, b
    <3> QED
      BY <3>4, <3>5, <3>6, <3>7, <3>8
  <2> QED
    BY <2>2, <2>3
<1> HIDE DEF G
<1>2. S \in G
  BY <1>1, SubsetInduction
<1> QED
  BY <1>2 DEF G

\* Changing one of the summands changes the total by as much.
LEMMA TotalChange ==
  ASSUME NEW S, IsFiniteSet(S), NEW z \in S, NEW f, NEW g,
         \A x \in S : f[x] \in Int /\ g[x] \in Int /\ (x # z => g[x] = f[x])
  PROVE  Total(g, S) = Total(f, S) - f[z] + g[z]
<1> DEFINE R == S \ {z}
<1>1. \A x \in R : /\ f[x] \in Int /\ g[x] \in Int /\ g[x] = f[x]
                   /\ g[x] - f[x] <= 0 * (f[x] - f[x]) /\ f[x] - g[x] <= 0 * (f[x] - f[x])
  OBVIOUS
<1>2. IsFiniteSet(R)
  BY FS_Subset
<1>3. Total(g, S) = g[z] + Total(g, R) /\ Total(f, S) = f[z] + Total(f, R)
  BY TotalRemove
<1>4. Total(g, R) \in Int /\ Total(f, R) \in Int
  BY <1>1, <1>2, TotalInt
<1> HIDE DEF R
<1>5. /\ Total(g, R) - Total(f, R) <= 0 * (Total(f, R) - Total(f, R))
      /\ Total(f, R) - Total(g, R) <= 0 * (Total(f, R) - Total(f, R))
  BY <1>1, <1>2, TotalCompare
<1>6. Total(g, R) = Total(f, R)
  BY <1>4, <1>5
<1> QED
  BY <1>3, <1>4, <1>6

\* Zeros add up to zero.
LEMMA TotalZero ==
  ASSUME NEW S, IsFiniteSet(S), NEW f, \A x \in S : f[x] = 0
  PROVE  Total(f, S) = 0
<1> DEFINE G == {T \in SUBSET S : Total(f, T) = 0}
<1>1. ASSUME NEW T \in SUBSET S, \A U \in SUBSET T : U # T => U \in G
      PROVE  T \in G
  <2>1. IsFiniteSet(T)
    BY FS_Subset
  <2>2. CASE T = {}
    BY <2>1, <2>2, TotalStep
  <2>3. CASE T # {}
    <3>1. /\ T \ {Pick(T)} \in SUBSET T /\ T \ {Pick(T)} # T
          /\ f[Pick(T)] = 0
      BY <2>3, PickIn
    <3>2. Total(f, T \ {Pick(T)}) = 0
      BY <1>1, <3>1
    <3>3. Total(f, T) = f[Pick(T)] + Total(f, T \ {Pick(T)})
      BY <2>1, <2>3, TotalStep
    <3> QED
      BY <3>1, <3>2, <3>3
  <2> QED
    BY <2>2, <2>3
<1> HIDE DEF G
<1>2. S \in G
  BY <1>1, SubsetInduction
<1> QED
  BY <1>2 DEF G

-----------------------------------------------------------------------------
\* The fill.

\* y says how much of each liquid level has been consumed so far, when f
\* numbers the levels in the order of the walk: all of those behind the walk,
\* but for the last when nothing remains, and none of those ahead.
FillOf(f, y) ==
  /\ Len(levels) = Cardinality(Liquid)
  /\ \A m \in 1 .. Len(levels) : levels[m].price = book[f[m]].price
                                 /\ levels[m].size = book[f[m]].size
  /\ Total(y, Liquid) = filled
  /\ CostOf(y) = cost
  /\ \A n \in Liquid : 0 <= y[n] /\ y[n] <= book[n].size
  /\ \A m \in 1 .. Len(levels) :
       /\ m >= i => y[f[m]] = 0
       /\ m < i /\ (m < i - 1 \/ remaining > 0) => y[f[m]] = book[f[m]].size

\* The walk's numbers are those of a fill of the book.
HasFill ==
  Walking => \E f \in Numberings(Liquid), y \in [Liquid -> Int] : FillOf(f, y)

\* The loop ends only for one of its two reasons.
DoneOverrun == pc = "done" => i > Len(levels) \/ remaining <= 0

FillInv == Inv /\ HasFill /\ DoneOverrun

\* The liquid levels are finitely many, positive, and integers.
LEMMA LiquidLevels ==
  ASSUME TypeOK
  PROVE  /\ IsFiniteSet(Liquid)
         /\ \A n \in Liquid : /\ book[n].price \in Int /\ book[n].size \in Int
                              /\ book[n].price > 0 /\ book[n].size > 0
<1>1. PICK k \in 0 .. MaxLevels : book \in [1 .. k -> RawLevels]
  BY DEF TypeOK, Books
<1>2. k \in Int
  BY <1>1, MaxLevelsAssumption
<1>3. IsFiniteSet(1 .. k)
  BY <1>2, FS_Interval
<1>4. Liquid \subseteq 1 .. k
  BY <1>1 DEF Liquid
<1>5. IsFiniteSet(Liquid)
  BY <1>3, <1>4, FS_Subset
<1>6. ASSUME NEW n \in Liquid
      PROVE  /\ book[n].price \in Int /\ book[n].size \in Int
             /\ book[n].price > 0 /\ book[n].size > 0
  <2>1. book[n] \in RawLevels /\ Positive(book[n])
    BY <1>1, <1>4 DEF Liquid
  <2> QED
    BY <2>1, PricesAssumption, SizesAssumption DEF Positive, RawLevels
<1> QED
  BY <1>5, <1>6

\* A numbering of a finite set misses no element.
LEMMA NumberingsOnto ==
  ASSUME NEW P, IsFiniteSet(P), NEW f \in Numberings(P), NEW n \in P
  PROVE  \E m \in 1 .. Cardinality(P) : f[m] = n
<1> DEFINE N == Cardinality(P)
<1>1. N \in Nat
  BY FS_CardinalityType
<1>2. IsFiniteSet(1 .. N) /\ Cardinality(1 .. N) = N
  BY <1>1, FS_Interval
<1>3. f \in [1 .. N -> P] /\ \A a, b \in 1 .. N : a # b => f[a] # f[b]
  BY DEF Numberings
<1> HIDE DEF N
<1>4. f \in Injection(1 .. N, P)
  BY <1>3 DEF Injection, IsInjective
<1>5. f \in Surjection(1 .. N, P)
  BY <1>2, <1>4, FS_Injection DEF N
<1> QED
  BY <1>5 DEF Surjection, N

\* Before the first turn nothing is filled.
LEMMA FillStarts ==
  ASSUME Inv, Inv', RestingLevels
  PROVE  HasFill'
<1> DEFINE N == Cardinality(Liquid)
<1>1. IsFiniteSet(Liquid) /\ N \in Nat
  BY LiquidLevels, FS_CardinalityType DEF Inv
<1>2. ASSUME NEW n \in Liquid
      PROVE  book[n].price \in Int /\ book[n].size \in Int /\ book[n].size > 0
  BY LiquidLevels DEF Inv
<1>3. PICK f \in Numberings(Liquid) :
        /\ levels' = [n \in 1 .. N |->
                        [price |-> book[f[n]].price, size |-> book[f[n]].size]]
        /\ \/ pc' = "error"
           \/ pc' = "walk" /\ i' = 1 /\ cost' = 0 /\ filled' = 0
  BY DEF RestingLevels, Liquid
<1>4. book' = book /\ Liquid' = Liquid
  BY DEF RestingLevels, input, Liquid
<1>5. CASE pc' = "error"
  BY <1>5 DEF HasFill, Walking
<1>6. CASE pc' = "walk" /\ i' = 1 /\ cost' = 0 /\ filled' = 0
  <2>1. PICK y \in [Liquid -> Int] : \A n \in Liquid : y[n] = 0
    <3>1. [n \in Liquid |-> 0] \in [Liquid -> Int]
      OBVIOUS
    <3> QED
      BY <3>1
  <2>2. Total(y, Liquid) = 0
    BY <1>1, <2>1, TotalZero
  <2>3. CostOf(y) = 0
    <3> DEFINE c == [n \in Liquid |-> book[n].price * y[n]]
    <3>1. \A n \in Liquid : c[n] = 0
      BY <1>2, <2>1
    <3> HIDE DEF c
    <3>2. Total(c, Liquid) = 0
      BY <1>1, <3>1, TotalZero
    <3> QED
      BY <3>2 DEF CostOf, c
  <2>4. Len(levels') = N /\ \A m \in 1 .. N : /\ levels'[m].price = book[f[m]].price
                                              /\ levels'[m].size = book[f[m]].size
    BY <1>1, <1>3
  <2>5. \A m \in 1 .. N : f[m] \in Liquid
    BY DEF Numberings
  <2>6. CostOf(y)' = CostOf(y)
    BY <1>4 DEF CostOf
  <2>7. FillOf(f, y)'
    <3>1. Total(y, Liquid)' = Total(y, Liquid)
      BY <1>4
    <3> QED
      BY <1>1, <1>2, <1>4, <1>6, <2>1, <2>2, <2>3, <2>4, <2>5, <2>6, <3>1 DEF FillOf
  <2> QED
    BY <1>4, <2>1, <2>7 DEF HasFill, Numberings
<1> QED
  BY <1>3, <1>5, <1>6

\* A turn adds what it takes of its level to the fill.
LEMMA FillGrows ==
  ASSUME Inv, HasFill, Consume
  PROVE  HasFill'
<1> DEFINE take == Take(levels[i])
<1>1. /\ pc = "walk" /\ pc' = pc /\ levels' = levels /\ i' = i + 1
      /\ book' = book /\ i <= Len(levels) /\ remaining > 0
      /\ cost' = cost + levels[i].price * take /\ filled' = filled + take
      /\ remaining' = remaining - take
  BY DEF Consume, input
<1>2. Walking /\ Walking'
  BY <1>1 DEF Walking
<1>3. PICK f \in Numberings(Liquid), y \in [Liquid -> Int] : FillOf(f, y)
  BY <1>2 DEF HasFill
<1>4. /\ i \in 1 .. Len(levels) /\ remaining \in Int /\ Len(levels) \in Nat
      /\ cost \in Int /\ filled \in Int
  BY <1>1, <1>2 DEF Inv, LevelsSorted, WorstIsLast, SizeAccounted, CostBounds
<1>5. /\ f \in [1 .. Len(levels) -> Liquid]
      /\ \A m \in 1 .. Len(levels) : m # i => f[m] # f[i]
  BY <1>3, <1>4 DEF FillOf, Numberings
<1> DEFINE z == f[i]
           p == book[z].price
           s == book[z].size
<1>6. z \in Liquid /\ levels[i].price = p /\ levels[i].size = s /\ y[z] = 0
  BY <1>3, <1>4, <1>5 DEF FillOf
<1>7. IsFiniteSet(Liquid) /\ p \in Int /\ s \in Int /\ s > 0
  BY <1>6, LiquidLevels DEF Inv
<1>8. take \in Int /\ 0 <= take /\ take <= s /\ (remaining' > 0 => take = s)
  BY <1>1, <1>4, <1>6, <1>7 DEF Take
<1>9. PICK u \in [Liquid -> Int] : u = [y EXCEPT ![z] = take]
  BY <1>6, <1>8
<1>10. u[z] = take /\ \A n \in Liquid : n # z => u[n] = y[n]
  BY <1>6, <1>9
<1> HIDE DEF take, z, p, s
<1>11. Total(u, Liquid) = filled + take
  <2>1. Total(u, Liquid) = Total(y, Liquid) - y[z] + take
    <3>1. \A n \in Liquid : y[n] \in Int /\ u[n] \in Int /\ (n # z => u[n] = y[n])
      BY <1>3, <1>9, <1>10
    <3> QED
      BY <1>6, <1>7, <1>10, <3>1, TotalChange
  <2> QED
    BY <1>3, <1>4, <1>6, <1>8, <2>1 DEF FillOf
<1>12. CostOf(u) = cost + p * take
  <2> DEFINE c == [n \in Liquid |-> book[n].price * y[n]]
             d == [n \in Liquid |-> book[n].price * u[n]]
  <2>1. \A n \in Liquid : book[n].price * y[n] \in Int
    BY LiquidLevels DEF Inv
  <2>2. c[z] = 0 /\ d[z] = p * take /\ p * take \in Int
    BY <1>6, <1>7, <1>8, <1>10, <2>1 DEF p
  <2>3. \A n \in Liquid : c[n] \in Int /\ d[n] \in Int /\ (n # z => d[n] = c[n])
    BY <1>6, <1>7, <1>10, <2>1, <2>2
  <2>4. CostOf(u) = Total(d, Liquid) /\ Total(c, Liquid) = cost
    BY <1>3 DEF CostOf, FillOf
  <2> HIDE DEF c, d
  <2>5. Total(d, Liquid) = Total(c, Liquid) - c[z] + d[z]
    BY <1>6, <1>7, <2>3, TotalChange
  <2> QED
    BY <1>4, <2>2, <2>4, <2>5
<1>13. Liquid' = Liquid /\ CostOf(u)' = CostOf(u) /\ Total(u, Liquid)' = Total(u, Liquid)
  <2>1. Liquid' = Liquid
    BY <1>1 DEF Liquid
  <2> QED
    BY <1>1, <2>1 DEF CostOf
<1>14. \A n \in Liquid : 0 <= u[n] /\ u[n] <= book[n].size
  <2> SUFFICES ASSUME NEW n \in Liquid
               PROVE  0 <= u[n] /\ u[n] <= book[n].size
    OBVIOUS
  <2>1. CASE n = z
    BY <1>8, <1>10, <2>1 DEF s
  <2>2. CASE n # z
    BY <1>3, <1>10, <2>2 DEF FillOf
  <2> QED
    BY <2>1, <2>2
<1>15. ASSUME NEW m \in 1 .. Len(levels)
       PROVE  /\ m >= i' => u[f[m]] = 0
              /\ m < i' /\ (m < i' - 1 \/ remaining' > 0) => u[f[m]] = book[f[m]].size
  <2>0. f[m] \in Liquid
    BY <1>5
  <2>1. CASE m = i
    <3>1. f[m] = z /\ i' = m + 1
      BY <1>1, <2>1 DEF z
    <3> QED
      BY <1>4, <1>8, <1>10, <2>1, <3>1 DEF s
  <2>2. CASE m # i
    <3>1. u[f[m]] = y[f[m]]
      BY <1>5, <1>10, <2>0, <2>2 DEF z
    <3>2. /\ m >= i => y[f[m]] = 0
          /\ m < i => y[f[m]] = book[f[m]].size
      BY <1>1, <1>3 DEF FillOf
    <3> QED
      BY <1>1, <1>4, <2>2, <3>1, <3>2
  <2> QED
    BY <2>1, <2>2
<1>16. FillOf(f, u)'
  <2>1. p = levels[i].price
    BY <1>6
  <2>2. Len(levels) = Cardinality(Liquid)
        /\ \A m \in 1 .. Len(levels) : levels[m].price = book[f[m]].price
                                       /\ levels[m].size = book[f[m]].size
    BY <1>3 DEF FillOf
  <2> QED
    BY <1>1, <1>11, <1>12, <1>13, <1>14, <1>15, <2>1, <2>2 DEF FillOf
<1> QED
  BY <1>13, <1>16 DEF HasFill, Numberings

\* Every step preserves the fill and the reasons the walk ends.
LEMMA FillNext == FillInv /\ [Next]_vars => FillInv'
<1> SUFFICES ASSUME FillInv, [Next]_vars PROVE FillInv'
  OBVIOUS
<1>1. Inv /\ Inv'
  BY NextInv DEF FillInv
<1>2. ASSUME UNCHANGED <<input, levels, walk>>, Walking' => Walking
      PROVE  HasFill'
  <2>1. Liquid' = Liquid
    BY <1>2 DEF input, Liquid
  <2>2. CASE ~Walking'
    BY <2>2 DEF HasFill
  <2>3. CASE Walking'
    <3>1. PICK f \in Numberings(Liquid), y \in [Liquid -> Int] : FillOf(f, y)
      BY <1>2, <2>3 DEF FillInv, HasFill
    <3>2. CostOf(y)' = CostOf(y) /\ Total(y, Liquid)' = Total(y, Liquid)
      BY <1>2, <2>1 DEF CostOf, input
    <3>3. FillOf(f, y)'
      BY <1>2, <2>1, <3>1, <3>2 DEF FillOf, input, walk
    <3> QED
      BY <2>1, <3>1, <3>3 DEF HasFill, Numberings
  <2> QED
    BY <2>2, <2>3
<1>3. CASE CheckSize
  BY <1>1, <1>2, <1>3 DEF CheckSize, Walking, DoneOverrun, FillInv
<1>4. CASE NoBook
  BY <1>1, <1>2, <1>4 DEF NoBook, Walking, DoneOverrun, FillInv
<1>5. CASE BadLevels
  BY <1>1, <1>2, <1>5 DEF BadLevels, Walking, DoneOverrun, FillInv
<1>6. CASE RestingLevels
  <2>1. DoneOverrun'
    BY <1>6 DEF RestingLevels, DoneOverrun
  <2> QED
    BY <1>1, <1>6, <2>1, FillStarts DEF FillInv
<1>7. CASE Consume
  <2>1. DoneOverrun'
    BY <1>7 DEF Consume, DoneOverrun
  <2> QED
    BY <1>1, <1>7, <2>1, FillGrows DEF FillInv
<1>8. CASE Finish
  <2>1. DoneOverrun'
    BY <1>8 DEF Finish, DoneOverrun, walk
  <2> QED
    BY <1>1, <1>2, <1>8, <2>1 DEF Finish, Walking, FillInv
<1>9. CASE UNCHANGED vars
  <2>1. DoneOverrun'
    BY <1>9 DEF DoneOverrun, FillInv, vars, walk
  <2> QED
    BY <1>1, <1>2, <1>9, <2>1 DEF Walking, FillInv, vars
<1> QED
  BY <1>3, <1>4, <1>5, <1>6, <1>7, <1>8, <1>9 DEF Next, Finished

\* The walk's numbers are those of a fill throughout.
LEMMA FillInvHolds == Spec => []FillInv
<1>1. Init => FillInv
  BY InitInv DEF Init, FillInv, HasFill, DoneOverrun, Walking
<1> QED
  BY <1>1, FillNext, PTL DEF Spec

\* Whoever consumes a level fully when it is cheaper than w, and not at all
\* when it is dearer, pays no more per unit moved than w.
LEMMA GreedyStep ==
  ASSUME NEW p \in Int, NEW w \in Int, NEW d \in Int,
         p < w => d >= 0, p > w => d <= 0
  PROVE  p * d <= w * d
<1>1. CASE p < w
  <2>1. d >= 0
    BY <1>1
  <2> QED
    BY <1>1, <2>1, TimesMonotone
<1>2. CASE p = w
  BY <1>2
<1>3. CASE p > w
  <2>1. 0 <= 0 - d /\ 0 - d \in Int /\ w <= p
    BY <1>3
  <2>2. w * (0 - d) <= p * (0 - d)
    BY <2>1, TimesMonotone
  <2>3. w * (0 - d) = 0 - w * d /\ p * (0 - d) = 0 - p * d
    BY Z3
  <2>4. w * d \in Int /\ p * d \in Int
    OBVIOUS
  <2> QED
    BY <2>2, <2>3, <2>4
<1> QED
  BY <1>1, <1>2, <1>3

-----------------------------------------------------------------------------
\* A level of the book is one of the walk's.
LEMMA LevelAt ==
  ASSUME TypeOK, NEW f \in Numberings(Liquid), Len(levels) = Cardinality(Liquid),
         NEW n \in Liquid
  PROVE  \E m \in 1 .. Len(levels) : f[m] = n
BY LiquidLevels, NumberingsOnto

\* The amount filled is the size asked for or, when the book holds less, all of
\* it, and FullyFilled tells which (auction.go:94-110, 127).
THEOREM FillExact == Spec => []FillIsExact
<1>1. FillInv => FillIsExact
  <2> SUFFICES ASSUME FillInv, pc = "done"
               PROVE  /\ filled = IF Depth < want THEN Depth ELSE want
                      /\ FullyFilled <=> Depth >= want
    BY DEF FillIsExact
  <2>1. Inv /\ Walking /\ TypeOK
    BY DEF FillInv, Inv, Walking
  <2>2. PICK f \in Numberings(Liquid), y \in [Liquid -> Int] : FillOf(f, y)
    BY <2>1 DEF FillInv, HasFill
  <2>3. /\ filled \in Int /\ remaining \in Int /\ remaining >= 0
        /\ filled + remaining = want /\ want \in Int
    BY <2>1 DEF Inv, SizeAccounted, TypeOK
  <2> DEFINE s == [n \in Liquid |-> book[n].size]
  <2>4. IsFiniteSet(Liquid)
        /\ \A n \in Liquid : s[n] \in Int /\ y[n] \in Int /\ 0 <= y[n] /\ y[n] <= s[n]
    BY <2>1, <2>2, LiquidLevels DEF FillOf
  <2>5. Depth = Total(s, Liquid) /\ filled = Total(y, Liquid)
    BY <2>2 DEF Depth, FillOf
  <2>6. remaining > 0 => \A n \in Liquid : s[n] = y[n]
    <3> SUFFICES ASSUME remaining > 0, NEW n \in Liquid PROVE y[n] = book[n].size
      OBVIOUS
    <3>1. Len(levels) = Cardinality(Liquid)
      BY <2>2 DEF FillOf
    <3>2. PICK m \in 1 .. Len(levels) : f[m] = n
      BY <2>1, <3>1, LevelAt
    <3>3. i > Len(levels) /\ i \in Int /\ Len(levels) \in Int
      BY <2>1, <2>3 DEF FillInv, DoneOverrun, Inv, WorstIsLast, LevelsSorted
    <3>4. m < i
      BY <3>3
    <3> QED
      BY <2>2, <3>2, <3>4 DEF FillOf
  <2> HIDE DEF s
  <2>7. Depth \in Int /\ filled <= Depth
    <3>1. \A n \in Liquid : y[n] - s[n] <= 0 * (y[n] - y[n])
      BY <2>4
    <3>2. Total(y, Liquid) - Total(s, Liquid) <= 0 * (Total(y, Liquid) - Total(y, Liquid))
      BY <2>4, <3>1, TotalCompare
    <3>3. Total(s, Liquid) \in Int
      BY <2>4, TotalInt
    <3> QED
      BY <2>3, <2>5, <3>2, <3>3
  <2>8. remaining > 0 => Depth <= filled
    <3> SUFFICES ASSUME remaining > 0 PROVE Depth <= filled
      OBVIOUS
    <3>1. \A n \in Liquid : s[n] - y[n] <= 0 * (y[n] - y[n])
      BY <2>4, <2>6
    <3>2. Total(s, Liquid) - Total(y, Liquid) <= 0 * (Total(y, Liquid) - Total(y, Liquid))
      BY <2>4, <3>1, TotalCompare
    <3> QED
      BY <2>3, <2>5, <2>7, <3>2
  <2> QED
    BY <2>3, <2>7, <2>8 DEF FullyFilled
<1> QED
  BY <1>1, FillInvHolds, PTL

\* When the walk has ended, a liquid level better than the worst one consumed is
\* used up, and a worse one is untouched.
LEMMA GreedyFill ==
  ASSUME Inv, Walking, NEW f \in Numberings(Liquid), NEW y \in [Liquid -> Int],
         FillOf(f, y), NEW n \in Liquid
  PROVE  IF side = "BUY"
           THEN /\ book[n].price < worst => y[n] = book[n].size
                /\ book[n].price > worst => y[n] = 0
           ELSE /\ book[n].price > worst => y[n] = book[n].size
                /\ book[n].price < worst => y[n] = 0
<1> DEFINE last == IF i = 1 THEN 1 ELSE i - 1
<1>1. Len(levels) = Cardinality(Liquid) /\ TypeOK
  BY DEF FillOf, Inv
<1>2. PICK m \in 1 .. Len(levels) : f[m] = n
  BY <1>1, LevelAt
<1>3. /\ levels \in Seq([price : Int, size : Int]) /\ Len(levels) \in Nat
      /\ i \in Int /\ last \in 1 .. Len(levels) /\ worst = levels[last].price
  BY DEF Inv, LevelsSorted, WorstIsLast
<1>4. levels[m].price = book[n].price /\ levels[m].price \in Int
      /\ worst \in Int
  BY <1>2, <1>3, LevelOf DEF FillOf
<1>5. /\ m > last => IF side = "BUY" THEN worst <= levels[m].price
                                      ELSE worst >= levels[m].price
      /\ m < last => IF side = "BUY" THEN levels[m].price <= worst
                                      ELSE levels[m].price >= worst
  BY <1>3 DEF Inv, LevelsSorted
<1>6. m < last => y[n] = book[n].size
  <2>1. m < last => m < i - 1 /\ m < i
    BY <1>3
  <2> QED
    BY <1>2, <2>1 DEF FillOf
<1>7. m > last => y[n] = 0
  <2>1. m > last => m >= i
    BY <1>3
  <2> QED
    BY <1>2, <2>1 DEF FillOf
<1> HIDE DEF last
<1>8. m = last => levels[m].price = worst
  BY <1>3
<1> QED
  BY <1>3, <1>4, <1>5, <1>6, <1>7, <1>8

\* No choice of levels fills as much for less, or sells it for more, whatever
\* order the indexer listed the book in (auction.go:74-132, 144-177).
THEOREM FillBest == Spec => []FillIsBest
<1>1. FillInv => FillIsBest
  <2> SUFFICES ASSUME FillInv, pc = "done", NEW x \in Fills(filled)
               PROVE  IF side = "BUY" THEN cost <= CostOf(x) ELSE cost >= CostOf(x)
    BY DEF FillIsBest
  <2>1. Inv /\ Walking /\ TypeOK
    BY DEF FillInv, Inv, Walking
  <2>2. PICK f \in Numberings(Liquid), y \in [Liquid -> Int] : FillOf(f, y)
    BY <2>1 DEF FillInv, HasFill
  <2>3. filled \in Int /\ cost \in Int
    BY <2>1 DEF Inv, SizeAccounted, CostBounds
  <2>4. /\ \A n \in Liquid : x[n] \in Int /\ 0 <= x[n] /\ x[n] <= book[n].size
        /\ Total(x, Liquid) = filled
    BY <2>3 DEF Fills
  <2>5. /\ IsFiniteSet(Liquid)
        /\ \A n \in Liquid : /\ book[n].price \in Int /\ book[n].size \in Int
                             /\ y[n] \in Int /\ 0 <= y[n] /\ y[n] <= book[n].size
    BY <2>1, <2>2, LiquidLevels DEF FillOf
  <2>6. Total(y, Liquid) = filled /\ CostOf(y) = cost
    BY <2>2 DEF FillOf
  <2>7. worst \in Int
    <3>1. /\ levels \in Seq([price : Int, size : Int])
          /\ (IF i = 1 THEN 1 ELSE i - 1) \in 1 .. Len(levels)
          /\ worst = levels[IF i = 1 THEN 1 ELSE i - 1].price
      BY <2>1 DEF Inv, LevelsSorted, WorstIsLast
    <3> QED
      BY <3>1, LevelOf
  <2> DEFINE cx == [n \in Liquid |-> book[n].price * x[n]]
             cy == [n \in Liquid |-> book[n].price * y[n]]
  <2>8. \A n \in Liquid : cx[n] \in Int /\ cy[n] \in Int
    BY <2>4, <2>5
  <2>9. CostOf(x) = Total(cx, Liquid) /\ cost = Total(cy, Liquid)
    BY <2>6 DEF CostOf
  <2>10. worst * (filled - filled) = 0 /\ Total(cx, Liquid) \in Int
    <3> HIDE DEF cx
    <3> QED
      BY <2>3, <2>5, <2>7, <2>8, TotalInt
  <2>11. ASSUME NEW n \in Liquid
         PROVE  IF side = "BUY" THEN cy[n] - cx[n] <= worst * (y[n] - x[n])
                                ELSE cx[n] - cy[n] <= worst * (x[n] - y[n])
    <3> DEFINE p == book[n].price
               a == y[n]
               b == x[n]
    <3>1. /\ p \in Int /\ a \in Int /\ b \in Int /\ a - b \in Int /\ b - a \in Int
          /\ 0 <= b /\ b <= book[n].size
      BY <2>4, <2>5
    <3>2. cy[n] = p * a /\ cx[n] = p * b
      OBVIOUS
    <3>3. IF side = "BUY" THEN (p < worst => a = book[n].size) /\ (p > worst => a = 0)
                          ELSE (p > worst => a = book[n].size) /\ (p < worst => a = 0)
      BY <2>1, <2>2, GreedyFill
    <3> HIDE DEF p, a, b, cx, cy
    <3>4. p * (a - b) = p * a - p * b /\ p * (b - a) = p * b - p * a
      BY <3>1, Z3
    <3>5. CASE side = "BUY"
      <4>1. (p < worst => a - b >= 0) /\ (p > worst => a - b <= 0)
        BY <2>5, <3>1, <3>3, <3>5
      <4>2. p * (a - b) <= worst * (a - b)
        BY <2>7, <3>1, <4>1, GreedyStep
      <4> QED
        BY <3>2, <3>4, <3>5, <4>2 DEF a, b
    <3>6. CASE side # "BUY"
      <4>1. (p < worst => b - a >= 0) /\ (p > worst => b - a <= 0)
        BY <2>5, <3>1, <3>3, <3>6
      <4>2. p * (b - a) <= worst * (b - a)
        BY <2>7, <3>1, <4>1, GreedyStep
      <4> QED
        BY <3>2, <3>4, <3>6, <4>2 DEF a, b
    <3> QED
      BY <3>5, <3>6
  <2> HIDE DEF cx, cy
  <2>12. CASE side = "BUY"
    <3>1. \A n \in Liquid : cy[n] - cx[n] <= worst * (y[n] - x[n])
      BY <2>11, <2>12
    <3>2. Total(cy, Liquid) - Total(cx, Liquid)
             <= worst * (Total(y, Liquid) - Total(x, Liquid))
      BY <2>4, <2>5, <2>7, <2>8, <3>1, TotalCompare
    <3> QED
      BY <2>3, <2>4, <2>6, <2>9, <2>10, <2>12, <3>2
  <2>13. CASE side # "BUY"
    <3>1. \A n \in Liquid : cx[n] - cy[n] <= worst * (x[n] - y[n])
      BY <2>11, <2>13
    <3>2. Total(cx, Liquid) - Total(cy, Liquid)
             <= worst * (Total(x, Liquid) - Total(y, Liquid))
      BY <2>4, <2>5, <2>7, <2>8, <3>1, TotalCompare
    <3> QED
      BY <2>3, <2>4, <2>6, <2>9, <2>10, <2>13, <3>2
  <2> QED
    BY <2>12, <2>13
<1> QED
  BY <1>1, FillInvHolds, PTL
=============================================================================
