----------------------------- MODULE ReportJobs -----------------------------
(***************************************************************************)
(* The scheduled WhatsApp reports: the nightly dispatch digest, the weekly *)
(* report and the approval reminder.  A job fires once per replica of the  *)
(* server, claims its window in job_runs, reads what happened in it and    *)
(* sends one message per tribe.  What happens is a status change that      *)
(* takes its timestamp when the request begins and is written later.       *)
(***************************************************************************)
EXTENDS ReportWindows, FiniteSets, Bags

CONSTANTS
    Events,       \* status changes to be reported
    KindOf,       \* KindOf[e]: what e changes an order to
    TribeOf,      \* TribeOf[e]: whose order it is
    Replicas,     \* firings of a job
    Schedules,    \* the jobs of this instance
    JobTime,      \* bound on the clock
    MaxDeaths     \* bound on the replicas that die in a job

Tribes == {TribeOf[e] : e \in Events}
Counted == [digest |-> {"DISPATCHED"}, weekly |-> {"DELIVERED", "RETURNED"}, reminder |-> {}]

ASSUME JobsAssumption ==
    /\ Schedules \subseteq DOMAIN Counted /\ JobTime \in Nat /\ MaxDeaths \in Nat
    /\ \A e \in Events : KindOf[e] \in {"DISPATCHED", "DELIVERED", "RETURNED"}

VARIABLES
    schedule,  \* the job followed: they share no row but their claims, kept by job
    now,
    stamp,     \* stamp[e]: the time e carries; -1 before it begins
    written,   \* written[e]: when e reached the database; -1: not yet
    job_runs,  \* the <<job, window end>> pairs that are claimed
    firing,    \* firing[r]: [pc, job, end, left: the tribes still to be told, found]
    told,      \* the messages sent: a bag of <<<<job, window end>>, tribe>>
    missed,    \* those logged as skipped or failed: a set of the same pairs
    reports,   \* reports[e]: messages that counted e
    closed,    \* the <<job, window end>> pairs whose run came to its end
    deaths

jobVars == <<schedule, now, stamp, written, job_runs, firing, told, missed, reports, closed, deaths>>

Windows == Schedules \X (-(WEEK * DAY) .. JobTime)
NotFiring == [pc |-> "idle", job |-> "digest", end |-> 0, left |-> {}, found |-> {}]

JobsTypeOK ==
    /\ schedule \in Schedules /\ now \in 0 .. JobTime
    /\ \A e \in Events : stamp[e] \in -1 .. now /\ written[e] \in -1 .. now
    /\ closed \subseteq job_runs /\ job_runs \subseteq Windows
    /\ \A r \in Replicas :
         /\ firing[r].pc \in {"idle", "claim", "read", "send"}
         /\ firing[r].left \subseteq Tribes
    /\ IsABag(told) /\ BagToSet(told) \subseteq Windows \X Tribes /\ missed \subseteq Windows \X Tribes
    /\ reports \in [Events -> Nat]

JobsInit ==
    /\ schedule \in Schedules
    /\ now = 0 /\ deaths = 0
    /\ stamp = [e \in Events |-> -1] /\ written = [e \in Events |-> -1]
    /\ job_runs = {} /\ closed = {}
    /\ firing = [r \in Replicas |-> NotFiring]
    /\ told = EmptyBag /\ missed = {}
    /\ reports = [e \in Events |-> 0]

WindowOf(j, t) ==
    CASE j = "digest" -> windowEndingAt(t)
      [] j = "weekly" -> weeklyWindowEndingAt(t)
      [] j = "reminder" -> (istDay(t) + 1) * DAY - OFFSET
Length(j) == IF j = "weekly" THEN WEEK * DAY ELSE DAY

\* The schedule: at its cut-off, or on a reminder day.
Due(j) ==
    CASE j = "digest" -> Hour(now) = CUTOFF_HOUR
      [] j = "weekly" -> Hour(now) = CLOSING_HOUR /\ Weekday(now) = FRIDAY
      [] j = "reminder" -> Hour(now) = MORNING_HOUR /\ isReminderDay(now)

-----------------------------------------------------------------------------
\* A status change begins, and is written.
Begin(e) ==
    /\ stamp[e] = -1
    /\ stamp' = [stamp EXCEPT ![e] = now]
    /\ UNCHANGED <<schedule, now, written, job_runs, firing, told, missed, reports, closed, deaths>>

WriteEvent(e) ==
    /\ stamp[e] # -1 /\ written[e] = -1
    /\ written' = [written EXCEPT ![e] = now]
    /\ UNCHANGED <<schedule, now, stamp, job_runs, firing, told, missed, reports, closed, deaths>>

Fire(r) ==
    /\ firing[r].pc = "idle"
    /\ Due(schedule) /\ WindowOf(schedule, now) <= JobTime
    /\ firing' = [firing EXCEPT ![r] =
          [NotFiring EXCEPT !.pc = "claim", !.job = schedule, !.end = WindowOf(schedule, now)]]
    /\ UNCHANGED <<schedule, now, stamp, written, job_runs, told, missed, reports, closed, deaths>>

Window(r) == <<firing[r].job, firing[r].end>>

\* Faulty variant: the window is not claimed.
RunAnyway(r) ==
    /\ firing[r].pc = "claim"
    /\ firing' = [firing EXCEPT ![r].pc = "read"]
    /\ UNCHANGED <<schedule, now, stamp, written, job_runs, told, missed, reports, closed, deaths>>

\* One firing of a window claims it, and the others skip it.
claimJobWindow(r) ==
    /\ firing[r].pc = "claim"
    /\ job_runs' = job_runs \cup {Window(r)}
    /\ firing' = [firing EXCEPT ![r] =
          IF Window(r) \in job_runs THEN NotFiring ELSE [@ EXCEPT !.pc = "read"]]
    /\ UNCHANGED <<schedule, now, stamp, written, told, missed, reports, closed, deaths>>

\* Faulty variant: a change on the cut-off counts on both sides of it.
BothEnds(e, q) ==
    /\ written[e] # -1 /\ KindOf[e] \in Counted[q.job]
    /\ stamp[e] \in q.end - Length(q.job) .. q.end

\* The changes a window counts: those written, stamped from its start on and
\* before its end.
InWindow(e, q) ==
    /\ written[e] # -1 /\ KindOf[e] \in Counted[q.job]
    /\ stamp[e] \in q.end - Length(q.job) .. q.end - 1

\* The tribes with something to report, and what; a reminder goes to every
\* tribe with a claim pending.
buildReports(r) ==
    LET q == firing[r]
        found == {e \in Events : InWindow(e, q)}
        whom == IF q.job = "reminder" THEN Tribes ELSE {TribeOf[e] : e \in found}
    IN  /\ q.pc = "read"
        /\ firing' = [firing EXCEPT ![r].pc = "send", ![r].left = whom, ![r].found = found]
        /\ UNCHANGED <<schedule, now, stamp, written, job_runs, told, missed, reports, closed, deaths>>

Told(r, t) ==
    /\ told' = told (+) SetToBag({<<Window(r), t>>})
    /\ reports' = [e \in Events |->
          IF e \in firing[r].found /\ TribeOf[e] = t THEN reports[e] + 1 ELSE reports[e]]

Missed(r, t) == missed' = missed \cup {<<Window(r), t>>}

\* Faulty variant: a failure ends the run.
SendOrStop(r, t) ==
    /\ firing[r].pc = "send" /\ t \in firing[r].left
    /\ \/ /\ Told(r, t) /\ firing' = [firing EXCEPT ![r].left = @ \ {t}]
          /\ UNCHANGED missed
       \/ Missed(r, t) /\ firing' = [firing EXCEPT ![r].left = {}] /\ UNCHANGED <<told, reports>>
    /\ UNCHANGED <<schedule, now, stamp, written, job_runs, closed, deaths>>

\* A tribe's message is sent; or it is skipped, for an owner without a phone, or
\* fails; or fails after it went out.  What went wrong is logged and nothing is
\* tried again: the run goes on, and the window stays claimed.
SendReport(r, t) ==
    /\ firing[r].pc = "send" /\ t \in firing[r].left
    /\ \/ Told(r, t) /\ (Missed(r, t) \/ UNCHANGED missed)
       \/ Missed(r, t) /\ UNCHANGED <<told, reports>>
    /\ firing' = [firing EXCEPT ![r].left = @ \ {t}]
    /\ UNCHANGED <<schedule, now, stamp, written, job_runs, closed, deaths>>

FinishRun(r) ==
    /\ firing[r].pc = "send" /\ firing[r].left = {}
    /\ closed' = closed \cup {Window(r)}
    /\ firing' = [firing EXCEPT ![r] = NotFiring]
    /\ UNCHANGED <<schedule, now, stamp, written, job_runs, told, missed, reports, deaths>>

\* The server goes down in the middle of a run: the window stays claimed.
Die(r) ==
    /\ firing[r].pc # "idle" /\ deaths < MaxDeaths
    /\ deaths' = deaths + 1
    /\ firing' = [firing EXCEPT ![r] = NotFiring]
    /\ UNCHANGED <<schedule, now, stamp, written, job_runs, told, missed, reports, closed>>

Pass ==
    /\ now < JobTime
    /\ now' = now + 1
    /\ UNCHANGED <<schedule, stamp, written, job_runs, firing, told, missed, reports, closed, deaths>>

JobsNext ==
    \/ \E e \in Events : Begin(e) \/ WriteEvent(e)
    \/ \E r \in Replicas :
         \/ Fire(r) \/ claimJobWindow(r) \/ buildReports(r) \/ FinishRun(r) \/ Die(r)
         \/ \E t \in Tribes : SendReport(r, t)
    \/ Pass

JobsSpec == JobsInit /\ [][JobsNext]_jobVars

-----------------------------------------------------------------------------
\* A tribe gets at most one message per window, however many replicas fire the
\* job or die in it and whichever sends fail (claimJobWindow, and run's catch,
\* which does not send again).
ToldOncePerWindow == \A x \in BagToSet(told) : told[x] = 1

\* What a window owes its tribes: a change it covers was in the tribe's message,
\* or that message is logged as skipped or failed.
SeenOrMissed(e, w) == reports[e] = 1 \/ <<w, TribeOf[e]>> \in missed
Covers(w, e) ==
    KindOf[e] \in Counted[w[1]] /\ stamp[e] \in w[2] - Length(w[1]) .. w[2] - 1
        /\ written[e] # -1

\* No status change is counted in two messages; and once the run of its window
\* ends, one that was written before the cut-off was counted, unless the message
\* of its own tribe is logged as skipped or failed: another tribe's failure, and
\* the replica that found the window claimed, take no change out.
CountedInOneWindow ==
    \A e \in Events :
        /\ reports[e] <= 1
        /\ \A w \in closed : Covers(w, e) /\ written[e] < w[2] => SeenOrMissed(e, w)

\* The same of every change that is written at all; it is not kept, because a
\* change may carry a time before the cut-off and be written after the run.
NothingUnreported ==
    \A e \in Events, w \in closed : Covers(w, e) => SeenOrMissed(e, w)

\* A window is told at most once, and a change is counted once or accounted for.
ReportedOnce == ToldOncePerWindow /\ CountedInOneWindow
=============================================================================
