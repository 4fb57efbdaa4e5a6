---------------------------- MODULE StockHealth ----------------------------
(***************************************************************************)
(* What a tribe ships and how long its stock lasts: the counts of the last *)
(* 7 and 28 days, the weekly pace in hundredths of a unit, the levels and  *)
(* the quantity the restock form suggests.                                 *)
(***************************************************************************)
EXTENDS Integers, Sequences, Functions

LOW_FLOOR == 10
CRITICAL_FLOOR == 5
WINDOW_DAYS == 7
PACE_DAYS == 28
LEVEL_ORDER == [OUT |-> 0, CRITICAL |-> 1, LOW |-> 2, HEALTHY |-> 3]

Greater(a, b) == IF a > b THEN a ELSE b
CeilDiv(n, q) == -((-n) \div q)

\* Faulty variant: up to the low level, no further.
suggestLow(stock, pace, lowAt) == Greater(0, CeilDiv(Greater(4 * pace, 100 * lowAt) - 100 * stock, 100))

\* Faulty variant: no recent shipping sorts before the rest.
BeforeByDays(a, b) ==
    IF a.level # b.level THEN LEVEL_ORDER[a.level] < LEVEL_ORDER[b.level]
    ELSE a.daysLeft < b.daysLeft

\* In hundredths; never below this week's count.
weeklyPaceOf(shipped28d, thisWeek) ==
    Greater((100 * shipped28d * 7) \div PACE_DAYS, 100 * thisWeek)

\* Faulty variant: a day begun counts.
daysRounded(stock, pace) ==
    IF stock <= 0 THEN 0 ELSE IF pace <= 0 THEN -1 ELSE CeilDiv(stock * 700, pace)

\* Whole days the stock lasts; -1 stands for null, no recent shipping.
daysLeftOf(stock, pace) ==
    IF stock <= 0 THEN 0 ELSE IF pace <= 0 THEN -1 ELSE (stock * 700) \div pace

lowAtOf(pace) == Greater(LOW_FLOOR, CeilDiv(2 * pace, 100))
criticalAtOf(pace) == Greater(CRITICAL_FLOOR, CeilDiv(pace, 100))

levelOf(stock, lowAt, criticalAt) ==
    IF stock <= 0 THEN "OUT"
    ELSE IF stock <= criticalAt THEN "CRITICAL"
    ELSE IF stock <= lowAt THEN "LOW"
    ELSE "HEALTHY"

suggestedQtyOf(stock, pace, lowAt) ==
    Greater(0, CeilDiv(Greater(4 * pace, 200 * lowAt) - 100 * stock, 100))

stockHealth(stock, thisWeek, shipped28d) ==
    LET pace == weeklyPaceOf(shipped28d, thisWeek)
        lowAt == lowAtOf(pace)
        criticalAt == criticalAtOf(pace)
    IN  [weeklyPace |-> pace, daysLeft |-> daysLeftOf(stock, pace), lowAt |-> lowAt,
         criticalAt |-> criticalAt, level |-> levelOf(stock, lowAt, criticalAt),
         suggestedQty |-> suggestedQtyOf(stock, pace, lowAt)]

\* Most urgent first; no recent shipping last; then by name.
Before(a, b) ==
    IF a.level # b.level THEN LEVEL_ORDER[a.level] < LEVEL_ORDER[b.level]
    ELSE IF a.daysLeft # b.daysLeft
    THEN a.daysLeft # -1 /\ (b.daysLeft = -1 \/ a.daysLeft < b.daysLeft)
    ELSE a.name < b.name

\* Orders are [days: how long ago each of its dispatches was, qty]: in the
\* week if one of them was in it, and counted once however often dispatched.
InDays(order, n) == \E d \in order.days : d \in 0 .. n
splitDispatchCounts(orders) ==
    LET inPace == {i \in DOMAIN orders : InDays(orders[i], PACE_DAYS)}
        week == {i \in inPace : InDays(orders[i], WINDOW_DAYS)}
        units(S) == SumFunctionOnSet([i \in S |-> orders[i].qty], S)
    IN  [week |-> units(week), pace |-> units(inPace)]

-----------------------------------------------------------------------------
\* daysLeft is the number of whole days the stock lasts at the pace of the
\* week or of the four weeks, whichever is faster, and null only when neither
\* shipped (dispatch counts, weeklyPaceOf, daysLeftOf).
LastsAsSaid(stock, orders) ==
    LET counts == splitDispatchCounts(orders)
        days == stockHealth(stock, counts.week, counts.pace).daysLeft
        weekly(d) == d * counts.week <= WINDOW_DAYS * stock
        monthly(d) == d * counts.pace <= PACE_DAYS * stock
    IN  IF stock <= 0 THEN days = 0
        ELSE IF counts.pace = 0 THEN days = -1
        ELSE weekly(days) /\ monthly(days) /\ ~(weekly(days + 1) /\ monthly(days + 1))

\* The default brings stock above twice the low level and to four weeks, and
\* one unit less would not; a level's thresholds never cross (suggestedQtyOf).
SuggestionIsEnough(stock, orders) ==
    LET counts == splitDispatchCounts(orders)
        h == stockHealth(stock, counts.week, counts.pace)
        reaches(n) == n >= 2 * h.lowAt /\ n >= 4 * counts.week /\ n >= counts.pace
    IN  /\ h.criticalAt <= h.lowAt
        /\ reaches(stock + h.suggestedQty)
        /\ h.suggestedQty > 0 => ~reaches(stock + h.suggestedQty - 1)

\* Items are sorted most urgent first: what is out before what runs out, and
\* one of two different items always before the other (compareItems).
UrgencyIsAnOrder(a, b, c) ==
    /\ a # b => (Before(a, b) <=> ~Before(b, a))
    /\ Before(a, b) /\ Before(b, c) => Before(a, c)
=============================================================================
