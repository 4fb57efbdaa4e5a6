---------------------------- MODULE ReportWindows ----------------------------
(***************************************************************************)
(* Which stretch of time a scheduled report covers.  Instants are counted  *)
(* from 1 January 1970 in any unit that divides the clock of India, which  *)
(* is OFFSET ahead.                                                        *)
(***************************************************************************)
EXTENDS Integers

CONSTANTS
    DAY,          \* a day, in units
    OFFSET,       \* how far India's clock is ahead
    CUTOFF_HOUR,  \* when the nightly digest is cut off
    CLOSING_HOUR, \* when the week closes
    WEEK, FRIDAY, \* days of a week, and the one it closes on
    EPOCH,        \* the weekday of day 0
    MORNING_HOUR, \* when reminders go out
    ANCHOR, EVERY \* reminders go out every so many days, counted from here

ASSUME WindowsAssumption ==
    /\ DAY \in Nat \ {0} /\ WEEK \in Nat \ {0} /\ EVERY \in Nat \ {0}
    /\ {OFFSET, CUTOFF_HOUR, CLOSING_HOUR, MORNING_HOUR} \subseteq 0 .. DAY - 1
    /\ {FRIDAY, EPOCH} \subseteq 0 .. WEEK - 1 /\ ANCHOR \in Int

istDay(now)  == (now + OFFSET) \div DAY
Hour(now)    == (now + OFFSET) % DAY
Weekday(now) == (istDay(now) + EPOCH) % WEEK

\* Faulty variant: the cut-off is taken on the server's own clock.
windowByServerClock(now) ==
    (now \div DAY) * DAY + CUTOFF_HOUR - (IF now % DAY >= CUTOFF_HOUR THEN 0 ELSE DAY)

\* The end of the digest's window: the latest 9 pm.
windowEndingAt(now) ==
    LET todayCutoff == istDay(now) * DAY + CUTOFF_HOUR
    IN  (IF Hour(now) >= CUTOFF_HOUR THEN todayCutoff ELSE todayCutoff - DAY) - OFFSET

\* The end of the weekly report's window: the latest Friday, 6 pm.
weeklyWindowEndingAt(now) ==
    LET since == (Weekday(now) - FRIDAY + WEEK) % WEEK
        cutoff == istDay(now) * DAY + CLOSING_HOUR - since * DAY
        early == since = 0 /\ Hour(now) < CLOSING_HOUR
    IN  (IF early THEN cutoff - WEEK * DAY ELSE cutoff) - OFFSET

isReminderDay(now) == (istDay(now) - ANCHOR) % EVERY = 0

-----------------------------------------------------------------------------
\* A window ends on the latest cut-off that is not in the future, whatever the
\* hour a job is run at; both reports, against a search of the calendar.
ClosesOnLatestCutoff(now) ==
    LET digest(t) == Hour(t) = CUTOFF_HOUR
        weekly(t) == Hour(t) = CLOSING_HOUR /\ Weekday(t) = FRIDAY
        latest(is(_)) == CHOOSE t \in now - WEEK * DAY .. now :
                            is(t) /\ \A u \in t + 1 .. now : ~is(u)
    IN  /\ windowEndingAt(now) = latest(digest)
        /\ weeklyWindowEndingAt(now) = latest(weekly)
=============================================================================
