-------------------------- MODULE ClearingEstimate --------------------------
(***************************************************************************)
(* EstimateClearing and restingLevels (src/internal/marketdata/auction.go) *)
(* and the service method that fetches the book for them (service.go): the *)
(* read layer's one computation, a walk of the resting book that prices a  *)
(* marketable order.  The code computes with exact rationals; here prices  *)
(* and sizes are integers in some common unit, and the average price is    *)
(* kept as the fraction cost / filled.                                     *)
(***************************************************************************)
EXTENDS Integers, Sequences, FiniteSets, FiniteSetsExt

CONSTANTS
  Prices,    \* prices a level of the indexer's answer may carry
  Sizes,     \* sizes it may carry
  Wanted,    \* sizes a caller may ask about
  MaxLevels  \* bound: levels on one side of the book

ASSUME PricesAssumption == Prices \subseteq Int
ASSUME SizesAssumption == Sizes \subseteq Int
ASSUME WantedAssumption == Wanted \subseteq Int
ASSUME MaxLevelsAssumption == MaxLevels \in Nat

\* OrderbookPriceLevel: ok is FALSE when a number does not parse.
RawLevels == [price : Prices, size : Sizes, ok : BOOLEAN]
Books == UNION {[1 .. n -> RawLevels] : n \in 0 .. MaxLevels}
Sides == {"BUY", "SELL", "other"}

VARIABLES
  side, want, book,   \* the call: side, size, and the side of the book it crosses
  pc,                 \* where the computation stands
  levels,             \* restingLevels' result
  i,                  \* the next level of the walk
  remaining, cost, filled, worst

input == <<side, want, book>>
walk  == <<i, remaining, cost, filled, worst>>
vars  == <<input, pc, levels, walk>>

-----------------------------------------------------------------------------
Positive(l) == l.price > 0 /\ l.size > 0

\* Mutant of Better: the comparison of the other side.
BetterSwapped(sd, a, b) ==
  IF sd = "BUY" THEN a.price > b.price ELSE a.price < b.price

\* A taker on side sd consumes level a before level b.
Better(sd, a, b) == IF sd = "BUY" THEN a.price < b.price ELSE a.price > b.price

\* The ways to number the elements of a set of positions.
Numberings(P) ==
  {f \in [1 .. Cardinality(P) -> P] :
     \A m, n \in 1 .. Cardinality(P) : m # n => f[m] # f[n]}

\* The stable sort: better levels first, equal ones in the book's order.
InOrder(sd, bk, f) ==
  \A m, n \in DOMAIN f :
    m < n => \/ Better(sd, bk[f[m]], bk[f[n]])
             \/ ~Better(sd, bk[f[n]], bk[f[m]]) /\ f[m] < f[n]

-----------------------------------------------------------------------------
\* The size must be a positive decimal.
CheckSize ==
  /\ pc = "start"
  /\ pc' = IF want <= 0 THEN "error" ELSE "levels"
  /\ UNCHANGED <<input, levels, walk>>

\* The indexer does not answer, or no ticker was named.
NoBook ==
  /\ pc = "start"
  /\ pc' = "error"
  /\ UNCHANGED <<input, levels, walk>>

\* restingLevels refuses an unknown side and a level that does not parse.
BadLevels ==
  /\ pc = "levels"
  /\ side = "other" \/ \E n \in DOMAIN book : ~book[n].ok
  /\ pc' = "error"
  /\ UNCHANGED <<input, levels, walk>>

\* restingLevels drops what is not liquidity and sorts the rest.  An empty
\* result is refused; otherwise the walk starts at the touch.
RestingLevels ==
  /\ pc = "levels"
  /\ side # "other" /\ \A n \in DOMAIN book : book[n].ok
  /\ LET kept == {n \in DOMAIN book : Positive(book[n])} IN
     \E f \in Numberings(kept) :
       /\ InOrder(side, book, f)
       /\ levels' = [n \in 1 .. Cardinality(kept) |->
                       [price |-> book[f[n]].price, size |-> book[f[n]].size]]
       /\ IF kept = {}
            THEN pc' = "error" /\ UNCHANGED walk
            ELSE /\ pc' = "walk"
                 /\ i' = 1 /\ remaining' = want /\ cost' = 0 /\ filled' = 0
                 /\ worst' = levels'[1].price
  /\ UNCHANGED input

\* How much of a level the order consumes.
Take(lvl) == IF lvl.size > remaining THEN remaining ELSE lvl.size

\* One turn of the loop.
Consume ==
  /\ pc = "walk"
  /\ i <= Len(levels) /\ remaining > 0
  /\ LET lvl == levels[i]
         take == Take(lvl) IN
       /\ cost' = cost + lvl.price * take
       /\ filled' = filled + take
       /\ remaining' = remaining - take
       /\ worst' = lvl.price
  /\ i' = i + 1
  /\ UNCHANGED <<input, pc, levels>>

\* The loop ends: the size is filled or the book is exhausted.
Finish ==
  /\ pc = "walk"
  /\ i > Len(levels) \/ remaining <= 0
  /\ pc' = IF filled = 0 THEN "error" ELSE "done"
  /\ UNCHANGED <<input, levels, walk>>

Finished == pc \in {"done", "error"} /\ UNCHANGED vars

Touch == levels[1].price

\* Mutant of FullyFilled: any fill counts.
AnyFill == filled > 0

\* The result's FullyFilled.
FullyFilled == remaining <= 0

\* The result's slippage against the touch, times filled * touch / 10000.
Slippage == IF side = "SELL" THEN Touch * filled - cost ELSE cost - Touch * filled

-----------------------------------------------------------------------------
Init ==
  /\ side \in Sides /\ want \in Wanted /\ book \in Books
  /\ pc = "start" /\ levels = <<>>
  /\ i = 1 /\ remaining = 0 /\ cost = 0 /\ filled = 0 /\ worst = 0

Next == CheckSize \/ NoBook \/ BadLevels \/ RestingLevels \/ Consume \/ Finish \/ Finished

Spec == Init /\ [][Next]_vars

-----------------------------------------------------------------------------
\* The part of the book that is liquidity.
Liquid == {n \in DOMAIN book : Positive(book[n])}

\* The sum of f over S.
Total(f, S) == MapThenSumSet(LAMBDA n : f[n], S)

Depth == Total([n \in Liquid |-> book[n].size], Liquid)

\* Every way to buy (or sell) amount a from the liquid levels.
Fills(a) ==
  {x \in [Liquid -> 0 .. a] :
     /\ \A n \in Liquid : x[n] <= book[n].size
     /\ Total(x, Liquid) = a}

CostOf(x) == Total([n \in Liquid |-> book[n].price * x[n]], Liquid)

\* The fill is as large as the book allows and no larger than asked, and
\* FullyFilled says whether it is all of it (auction.go:94-110, 127).
FillIsExact ==
  pc = "done" =>
    /\ filled = IF Depth < want THEN Depth ELSE want
    /\ FullyFilled <=> Depth >= want

\* The estimate is the best fill of that size the book offers: no choice of
\* levels buys it for less or sells it for more, whatever order the indexer
\* listed them in (auction.go:74-132, 144-177).
FillIsBest ==
  pc = "done" =>
    \A x \in Fills(filled) :
      IF side = "BUY" THEN cost <= CostOf(x) ELSE cost >= CostOf(x)

\* Slippage never favours the taker: the average price lies between the touch
\* and the worst price (auction.go:94-120).
AverageBetweenTouchAndWorst ==
  pc = "done" =>
    /\ Slippage >= 0
    /\ IF side = "BUY" THEN cost <= worst * filled ELSE cost >= worst * filled
=============================================================================
