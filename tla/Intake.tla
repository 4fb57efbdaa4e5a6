------------------------------- MODULE Intake -------------------------------
(***************************************************************************)
(* Requests that reach the admins: restock requests of the tribes and      *)
(* enquiries from the site, one service each, alike.  A request is unread  *)
(* while it is NEW and nobody opened it; handling it counts as opening it. *)
(***************************************************************************)
EXTENDS Integers, FiniteSets

CONSTANTS
    Letters,    \* requests
    Desks,      \* admins at work
    DeskTime,   \* bound on the clock
    Never,      \* seenAt before the first open
    OneDesk     \* values of oneDesk

ASSUME IntakeAssumption == DeskTime \in Nat /\ Never \notin 0 .. DeskTime /\ OneDesk \subseteq BOOLEAN

VARIABLES
    letter,    \* letter[q]: [status, seenAt]; status "none" before it is made
    desk,      \* desk[d]: [pc, letter, status, seen: whether seenAt was set when read]
    deskTime,
    firstSeen, \* firstSeen[q]: when it was first opened or handled
    oneDesk    \* whether a handling waits for what goes on

intakeVars == <<letter, desk, deskTime, firstSeen, oneDesk>>

AtRest == [pc |-> "idle", letter |-> Never, status |-> "none", seen |-> FALSE]

IntakeTypeOK ==
    /\ \A q \in Letters :
         /\ letter[q].status \in {"none", "NEW", "HANDLED"}
         /\ letter[q].seenAt \in 0 .. deskTime \cup {Never}
    /\ \A d \in Desks : desk[d].pc \in {"idle", "write"}
    /\ deskTime \in 0 .. DeskTime

IntakeInit ==
    /\ letter = [q \in Letters |-> [status |-> "none", seenAt |-> Never]]
    /\ desk = [d \in Desks |-> AtRest]
    /\ deskTime = 0
    /\ firstSeen = [q \in Letters |-> Never]
    /\ oneDesk \in OneDesk

Unread == {q \in Letters : letter[q].status = "NEW" /\ letter[q].seenAt = Never}
Turn(d) == desk[d].pc = "idle" /\ (oneDesk => \A e \in Desks : desk[e].pc = "idle")
Noticed(q) == firstSeen' = IF firstSeen[q] = Never THEN [firstSeen EXCEPT ![q] = deskTime] ELSE firstSeen

createRequest(q) ==
    /\ letter[q].status = "none"
    /\ letter' = [letter EXCEPT ![q].status = "NEW"]
    /\ UNCHANGED <<desk, deskTime, firstSeen, oneDesk>>

\* Faulty variant: the last open's time is kept.
MarkSeenAgain(d, q) ==
    /\ Turn(d) /\ letter[q].status # "none"
    /\ letter' = [letter EXCEPT ![q].seenAt = deskTime]
    /\ Noticed(q)
    /\ UNCHANGED <<desk, deskTime, oneDesk>>

\* Opening marks it read, in one conditional update.
markSeen(d, q) ==
    /\ Turn(d) /\ letter[q].status # "none"
    /\ letter' = IF letter[q].seenAt = Never THEN [letter EXCEPT ![q].seenAt = deskTime] ELSE letter
    /\ Noticed(q)
    /\ UNCHANGED <<desk, deskTime, oneDesk>>

\* Handling: the request is read, then what changed is set; a note alone
\* leaves the status.
BeginUpdate(d, q) ==
    /\ Turn(d) /\ letter[q].status # "none"
    /\ \E to \in {"none", "NEW", "HANDLED"} :
         desk' = [desk EXCEPT ![d] = [pc |-> "write", letter |-> q, status |-> to,
                                      seen |-> letter[q].seenAt # Never]]
    /\ UNCHANGED <<letter, deskTime, firstSeen, oneDesk>>

\* Faulty variant: handling a request leaves it unopened.
UpdateStatus(d) ==
    LET w == desk[d] IN
    /\ w.pc = "write"
    /\ letter' = [letter EXCEPT ![w.letter].status = IF w.status = "none" THEN @ ELSE w.status]
    /\ Noticed(w.letter)
    /\ desk' = [desk EXCEPT ![d] = AtRest]
    /\ UNCHANGED <<deskTime, oneDesk>>

WriteUpdate(d) ==
    LET w == desk[d] IN
    /\ w.pc = "write"
    /\ letter' = [letter EXCEPT ![w.letter] =
          [status |-> IF w.status = "none" THEN @.status ELSE w.status,
           seenAt |-> IF w.seen THEN @.seenAt ELSE deskTime]]
    /\ Noticed(w.letter)
    /\ desk' = [desk EXCEPT ![d] = AtRest]
    /\ UNCHANGED <<deskTime, oneDesk>>

DeskTick ==
    /\ deskTime < DeskTime /\ deskTime' = deskTime + 1
    /\ UNCHANGED <<letter, desk, firstSeen, oneDesk>>

IntakeNext ==
    \/ \E q \in Letters :
         createRequest(q) \/ \E d \in Desks : markSeen(d, q) \/ BeginUpdate(d, q)
    \/ \E d \in Desks : WriteUpdate(d)
    \/ DeskTick

IntakeSpec == IntakeInit /\ [][IntakeNext]_intakeVars

-----------------------------------------------------------------------------
\* "handling a request also counts as opening it": what was opened or handled
\* is never announced again, a status set back to NEW included (unread).
NotAnnouncedAgain == \A q \in Unread : firstSeen[q] = Never

\* "the first open's time is kept": it holds when a handling is not overtaken
\* by another request (markSeen, update).
FirstOpenKept ==
    oneDesk => \A q \in Letters : letter[q].seenAt = firstSeen[q]

\* The same when they overlap.
FirstOpenKeptAlways == \A q \in Letters : letter[q].seenAt = firstSeen[q]

\* An admin hears of a request once, and its first opening is kept.
SeenOnce == NotAnnouncedAgain /\ FirstOpenKept
=============================================================================
