----------------------------- MODULE KitPricing -----------------------------
(***************************************************************************)
(* The money of a kit: its reference prices, and how a price is split over *)
(* its lines in whole paise.  Amounts are paise, quantities natural numbers *)
(* and weights multiples of a common unit.  The code divides floats: a     *)
(* quotient that comes out even may end up a hair below, and lose its last *)
(* paisa when it is rounded down; short is the set of the lines it happens *)
(* to, any of them.  Other quotients are too far from a whole number for   *)
(* the error of a float, while amounts times weights stay far below 2^53.  *)
(***************************************************************************)
EXTENDS Integers, Sequences, FiniteSets, SequencesExt

\* A line of a kit: [product: whether it is still there, qty, retail, cost].
kitTotals(lines) ==
    LET kept == SelectSeq(lines, LAMBDA l : l.product)
    IN  [productValue |-> FoldLeft(LAMBDA n, l : n + l.retail * l.qty, 0, kept),
         minPrice |-> FoldLeft(LAMBDA n, l : n + l.cost * l.qty, 0, kept)]

assertPriceAtLeast(price, min) == price < 0 \/ price >= min

weightSum(ws) == SumFunction(ws)

\* The weights, else the fallback, else equal shares.
pickWeights(ws, fallback) ==
    IF weightSum(ws) > 0 THEN ws
    ELSE IF weightSum(fallback) > 0 THEN fallback
    ELSE [i \in DOMAIN ws |-> 1]

\* n / q in floats, rounded down.
floored(n, q, isShort) == (n \div q) - (IF isShort /\ n > 0 /\ n % q = 0 THEN 1 ELSE 0)

\* Faulty variant: every line is rounded down.
allocateDown(total, weights, fallback, short) ==
    LET ws == pickWeights(weights, fallback)
    IN  [i \in DOMAIN ws |-> (total * ws[i]) \div weightSum(ws)]

\* Every line but the last is rounded down and the last takes the rest.
allocate(total, weights, fallback, short) ==
    LET ws == pickWeights(weights, fallback)
        share(i) == floored(total * ws[i], weightSum(ws), i \in short)
        others == weightSum([i \in 1 .. Len(ws) - 1 |-> share(i)])
    IN  [i \in DOMAIN ws |-> IF i = Len(ws) THEN total - others ELSE share(i)]

\* Half a unit rounds up, as Math.round does.
Rounded(n, q) == (2 * n + q) \div (2 * q)

\* Faulty variant: the last line takes the rest, divisible or not.
unitPricesLast(total, weights, qs, short) ==
    LET ws == pickWeights(weights, qs)
        unit(i) == ((total * ws[i]) \div weightSum(ws)) \div qs[i]
        rem == total - weightSum([i \in DOMAIN ws |-> unit(i) * qs[i]])
    IN  [i \in DOMAIN ws |-> IF i = Len(ws) THEN unit(i) + Rounded(rem, qs[i]) ELSE unit(i)]

\* Unit prices rounded down; the rest goes to the last line it divides into,
\* and only if there is none is it rounded into the last.
allocateUnitPrices(total, weights, qs, short) ==
    LET ws == pickWeights(weights, qs)
        unit(i) == floored(total * ws[i], weightSum(ws) * qs[i], i \in short)
        rem == total - weightSum([i \in DOMAIN ws |-> unit(i) * qs[i]])
        even == {i \in DOMAIN ws : rem % qs[i] = 0}
        target == IF even = {} THEN Len(ws) ELSE CHOOSE i \in even : \A j \in even : j <= i
    IN  [i \in DOMAIN ws |-> IF i = target THEN unit(i) + Rounded(rem, qs[i]) ELSE unit(i)]

\* Faulty variant: the best stocked item decides.
buildableFromBest(items) ==
    LET of(i) == items[i].stock \div items[i].qty
    IN  IF items = << >> THEN 0
        ELSE LET most == CHOOSE i \in DOMAIN items : \A j \in DOMAIN items : of(i) >= of(j)
             IN  IF of(most) < 0 THEN 0 ELSE of(most)

\* Kits that can be built from what is in stock: items are [stock, qty].
buildableKits(items) ==
    LET of(i) == items[i].stock \div items[i].qty
    IN  IF items = << >> THEN 0
        ELSE LET least == CHOOSE i \in DOMAIN items : \A j \in DOMAIN items : of(i) <= of(j)
             IN  IF of(least) < 0 THEN 0 ELSE of(least)

-----------------------------------------------------------------------------
\* A split adds up to the total in paise, gives nobody less than nothing, and
\* every line but the last no more than its share, and less by at most a paisa:
\* what the floats take from a line goes to the last one (allocate).
SplitIsExact(total, weights, fallback, short) ==
    LET parts == allocate(total, weights, fallback, short)
        ws == pickWeights(weights, fallback)
    IN  /\ Len(parts) = Len(weights) /\ weightSum(parts) = total
        /\ \A i \in DOMAIN parts :
             /\ parts[i] >= 0
             /\ i < Len(parts) =>
                   /\ parts[i] * weightSum(ws) <= total * ws[i]
                   /\ total * ws[i] <= (parts[i] + 1) * weightSum(ws)

\* Unit prices give back the total whenever some line has one unit, are off by
\* under a paisa per unit of the last line otherwise, and are never negative,
\* whichever lines the floats leave short (allocateUnitPrices).
UnitPricesFit(total, weights, qs, short) ==
    LET units == allocateUnitPrices(total, weights, qs, short)
        sum == weightSum([i \in DOMAIN units |-> units[i] * qs[i]])
    IN  /\ \A i \in DOMAIN units : units[i] >= 0
        /\ (\E i \in DOMAIN qs : qs[i] = 1) => sum = total
        /\ sum - total < qs[Len(qs)] /\ total - sum < qs[Len(qs)]

\* As many kits as the stock makes, and no more: every item has the units for
\* n kits, and some item has not for one more (buildableKits).
BuildableIsExact(items) ==
    LET n == buildableKits(items) IN
    /\ n > 0 => \A i \in DOMAIN items : items[i].stock >= n * items[i].qty
    /\ items # << >> => \E i \in DOMAIN items : items[i].stock < (n + 1) * items[i].qty
=============================================================================
