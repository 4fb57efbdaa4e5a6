--------------------------- MODULE AnalyticsRange ---------------------------
(***************************************************************************)
(* The date range of the analytics dashboard and its buckets.  A date is a *)
(* day number, day 0 a Monday and the first of a month; an instant is a    *)
(* number of half hours, UTC.  The database groups by bucketStart; buckets *)
(* lists what the dashboard shows.                                         *)
(***************************************************************************)
EXTENDS Integers, Sequences, FiniteSets, SequencesExt

CONSTANTS
    MonthStarts,   \* the days a month begins on
    NoDate         \* a bound the query leaves out

ASSUME AnalyticsAssumption == MonthStarts \subseteq Int /\ NoDate \notin Int

HALF_HOURS == 48
IST_OFFSET == 11
DEFAULT_DAYS == 30
MAX_SPAN_DAYS == 400
DAY_MAX_SPAN == 45
WEEK_MAX_SPAN == 180

istToday(now) == (now + IST_OFFSET) \div HALF_HOURS

\* Faulty variant: a day begins at midnight UTC.
utcStart(d) == d * HALF_HOURS
istStart(d) == d * HALF_HOURS - IST_OFFSET

defaultGranularity(span) ==
    IF span <= DAY_MAX_SPAN THEN "day" ELSE IF span <= WEEK_MAX_SPAN THEN "week" ELSE "month"

\* The range of a query, or ok FALSE where it is refused.
resolveRange(from, to, now) ==
    LET last == IF to = NoDate THEN istToday(now) ELSE to
        first == IF from = NoDate THEN last - (DEFAULT_DAYS - 1) ELSE from
        span == last - first + 1
    IN  [ok |-> first <= last /\ span <= MAX_SPAN_DAYS, from |-> first, to |-> last,
         granularity |-> defaultGranularity(span), start |-> istStart(first), end |-> istStart(last + 1)]

bucketStart(d, g) ==
    CASE g = "day" -> d
      [] g = "week" -> d - (d % 7)
      [] g = "month" -> CHOOSE m \in MonthStarts :
                            m <= d /\ \A n \in MonthStarts : (n <= d => n <= m)

nextBucket(b, g) ==
    CASE g = "day" -> b + 1
      [] g = "week" -> b + 7
      [] g = "month" -> CHOOSE m \in MonthStarts : m > b /\ \A n \in MonthStarts : (n > b => m <= n)

\* Faulty variant: the list begins on the first day of the range.
bucketsFromHere(from, to, g) ==
    LET out[b \in Int] == IF b > to THEN << >> ELSE <<b>> \o out[nextBucket(b, g)]
    IN  out[from]

buckets(from, to, g) ==
    LET out[b \in Int] == IF b > to THEN << >> ELSE <<b>> \o out[nextBucket(b, g)]
    IN  out[bucketStart(from, g)]

-----------------------------------------------------------------------------
\* What the database grouped by lands in a bucket of the list, each bucket
\* holds a day of the range, and they are in order (buckets, bucketStart).
BucketsCoverRange(from, to, g) ==
    LET list == buckets(from, to, g)
        grouped == {bucketStart(d, g) : d \in from .. to}
    IN  /\ {list[i] : i \in DOMAIN list} = grouped
        /\ \A i \in 1 .. Len(list) - 1 : list[i] < list[i + 1]

\* An instant is in the range exactly when its day in India is, and today is in
\* the range a query without dates asks for (resolveRange).
RangeIsIndian(from, to, now) ==
    LET r == resolveRange(from, to, now) IN
    /\ r.ok => ((r.start <= now /\ now < r.end) <=> istToday(now) \in r.from .. r.to)
    /\ (from = NoDate /\ to = NoDate) => r.ok /\ r.start <= now /\ now < r.end
=============================================================================
