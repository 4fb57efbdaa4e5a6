---------------------------- MODULE PostalEvents ----------------------------
(***************************************************************************)
(* What India Post tells us about one article, and what it does to the     *)
(* orders that carry its number.  Scans reach us through the webhook (late,*)
(* repeated, out of order or never), through the "Sync with India Post"    *)
(* button, which asks for all of them at once, and through the admin's     *)
(* "Mark delivered" list; people move the same orders on the board.        *)
(***************************************************************************)
EXTENDS Integers, FiniteSets, FiniteSetsExt

CONSTANTS
    Parcels,     \* orders that may carry the article's number
    Workers,     \* webhook deliveries, sync runs and bulk requests in flight
    Scans,       \* the scans of the article, the earliest first by .at
    Jobs,        \* the kinds of worker of this instance
    Alone,       \* whether workers come one at a time: a set of BOOLEANs
    MaxTouches,  \* bound on what people do
    NoParcel

\* A scan is its time, the words of its text the rules look for, whether a
\* reason for non-delivery came with it (webhook), and whether India Post marked
\* it as return to sender (tracking answer).
Words == {"return", "booked", "cancel", "delivered", "negated", "movement", "prebooking"}
ScanSet == [at: Nat \ {0}, words: SUBSET Words, reason: BOOLEAN, rts: BOOLEAN]

ASSUME PostalAssumption ==
    /\ Scans \subseteq ScanSet /\ IsFiniteSet(Scans)
    /\ \A s, t \in Scans : s.at = t.at => s = t
    /\ Jobs \subseteq {"hook", "sync", "bulk", "revert"}
    /\ Alone \subseteq BOOLEAN /\ MaxTouches \in Nat /\ NoParcel \notin Parcels \cup Workers

ON_SHELF == {"NEW", "PACKED"}
Open     == ON_SHELF \cup {"DISPATCHED"}
Status   == Open \cup {"DELIVERED", "RETURNED", "CANCELLED"}

-----------------------------------------------------------------------------
(***************************************************************************)
(* The rules that read a scan.                                             *)
(***************************************************************************)
milestoneOf(words, reason) ==
    IF "return" \in words THEN "RETURNED"
    ELSE IF "booked" \in words /\ "cancel" \notin words THEN "BOOKED"
    ELSE IF "delivered" \in words /\ "negated" \notin words /\ ~reason THEN "DELIVERED"
    ELSE "NONE"

\* Faulty variant: any record at all means India Post has the parcel.
AnyRecord(words) == words # {}

isMovementScan(words) ==
    /\ words # {} /\ words \cap {"cancel", "prebooking"} = {}
    /\ \/ milestoneOf(words, FALSE) # "NONE"
       \/ words \cap {"booked", "delivered", "negated", "movement"} # {}

\* What the webhook makes of one scan.
EventMilestone(s) ==
    IF milestoneOf(s.words, s.reason) # "NONE" THEN milestoneOf(s.words, s.reason)
    ELSE IF isMovementScan(s.words) THEN "BOOKED" ELSE "NONE"

\* What the sync makes of all of them, and of a delivery the answer confirms
\* outside its scans (del_status, delivery_confirmed_on).
milestoneFor(scans, confirmed) ==
    LET some(m) == \E s \in scans : milestoneOf(s.words, FALSE) = m
    IN  IF some("RETURNED") \/ \E s \in scans : s.rts THEN "RETURNED"
        ELSE IF some("DELIVERED") \/ confirmed THEN "DELIVERED"
        ELSE IF \E s \in scans : isMovementScan(s.words) THEN "BOOKED" ELSE "NONE"

-----------------------------------------------------------------------------
VARIABLES
    parcel,    \* parcel[o]: the order document, as far as this module goes
    happened,  \* the scans India Post has made
    worker,    \* worker[w]: where it stands
    overtaken, \* overtaken[w]: changes others made to its order meanwhile
    stamped,   \* stamped[o]: times of the scans recorded on o
    touches,   \* what people have begun
    alone

postalVars == <<parcel, happened, worker, overtaken, stamped, touches, alone>>

Times == {0} \cup {s.at : s \in Scans}
Milestone == {"NONE", "BOOKED", "DELIVERED", "RETURNED"}
\* .pending, .approved: a claim that waits for its approval, or has it.
ParcelDoc == [status: Status, pending: BOOLEAN, approved: BOOLEAN, deleted: BOOLEAN,
              carries: BOOLEAN, latest: Times, returned: BOOLEAN]
FreshParcel == [status |-> "NEW", pending |-> FALSE, approved |-> FALSE, deleted |-> FALSE,
                carries |-> FALSE, latest |-> 0, returned |-> FALSE]

\* What the workers select of an order.
Picture == [status: Status, pending: BOOLEAN, returned: BOOLEAN]
Selected(d) == [status |-> d.status, pending |-> d.pending, returned |-> d.returned]

Resting == [pc |-> "idle", job |-> "hook", order |-> NoParcel, doc |-> Selected(FreshParcel),
            at |-> 0, milestone |-> "NONE", todo |-> {}, read |-> "NEW", seen |-> 0,
            retried |-> FALSE]

PostalTypeOK ==
    /\ parcel \in [Parcels -> ParcelDoc]
    /\ happened \subseteq Scans
    /\ \A w \in Workers :
         LET q == worker[w]
         IN  /\ q.pc \in {"idle", "share", "track", "stamp", "apply", "write", "reread", "save"}
             /\ q.order \in Parcels \cup {NoParcel} /\ q.doc \in Picture
             /\ q.milestone \in Milestone
             /\ q.pc \in {"stamp", "apply", "write", "reread", "save"} => q.order # NoParcel
    /\ overtaken \in [Workers -> Nat]
    /\ \A o \in Parcels : stamped[o] \subseteq {s.at : s \in happened}

\* One order carries the number, on the shelf: one that needs no approval, waits
\* for it or has it.  Others may be given it later.
PostalInit ==
    /\ \E o \in Parcels, s \in ON_SHELF, p \in {"none", "pending", "approved"} :
         /\ p = "pending" => s = "NEW"
         /\ parcel = [[q \in Parcels |-> FreshParcel] EXCEPT
                ![o] = [FreshParcel EXCEPT !.status = s, !.carries = TRUE,
                           !.pending = (p = "pending"), !.approved = (p = "approved")]]
    /\ happened = {}
    /\ worker = [w \in Workers |-> Resting]
    /\ overtaken = [w \in Workers |-> 0]
    /\ stamped = [o \in Parcels |-> {}]
    /\ touches = 0
    /\ alone \in Alone

Carriers == {o \in Parcels : parcel[o].carries /\ ~parcel[o].deleted}

Starts(w, job) ==
    /\ job \in Jobs /\ worker[w].pc = "idle"
    /\ alone => \A v \in Workers : worker[v].pc = "idle"

\* A write to o by w (or by people, for w = NoParcel), as the others meet it; it
\* is the last w does to o.
Changes(w, o, d) ==
    /\ parcel' = [parcel EXCEPT ![o] = d]
    /\ overtaken' = [v \in Workers |->
          IF v = w THEN 0 ELSE IF worker[v].order = o THEN overtaken[v] + 1 ELSE overtaken[v]]

\* A sync takes up the next order of its list, as it read it; with no scan in
\* the answer there is none to record.
TakesUp(w, q, t) ==
    worker' = [worker EXCEPT ![w] =
        [q EXCEPT !.pc = IF q.at = 0 THEN "apply" ELSE "stamp",
                  !.order = t.order, !.doc = t.doc, !.todo = q.todo \ {t}]]

\* A worker is done with its order: a sync goes on to the next one.
Finished(w) ==
    \/ worker[w].todo = {} /\ worker' = [worker EXCEPT ![w] = Resting]
    \/ \E t \in worker[w].todo : TakesUp(w, worker[w], t)

\* It is done without having moved it.
LetGo(w) == Finished(w) /\ overtaken' = [overtaken EXCEPT ![w] = 0]

-----------------------------------------------------------------------------
\* A scan is made.
Scan ==
    /\ \E s \in Scans \ happened :
         /\ \A t \in Scans \ happened : s.at <= t.at
         /\ happened' = happened \cup {s}
    /\ UNCHANGED <<parcel, worker, overtaken, stamped, touches, alone>>

\* The webhook: one scan, for the one order that carries the number.
Receive(w) ==
    /\ Starts(w, "hook") /\ Cardinality(Carriers) = 1
    /\ \E s \in happened, o \in Carriers :
         worker' = [worker EXCEPT ![w] =
             [Resting EXCEPT !.pc = "stamp", !.order = o, !.doc = Selected(parcel[o]),
                             !.at = s.at, !.milestone = EventMilestone(s)]]
    /\ UNCHANGED <<parcel, happened, overtaken, stamped, touches, alone>>

\* The sync: the orders to look at, then the shared numbers, then the scans.
StartSync(w) ==
    /\ Starts(w, "sync")
    /\ LET found == {o \in Carriers : parcel[o].status \in {"PACKED", "DISPATCHED"}
                                       /\ ~parcel[o].pending}
       IN  /\ found # {}
           /\ worker' = [worker EXCEPT ![w] =
                 [Resting EXCEPT !.pc = "share", !.job = "sync",
                                 !.todo = {[order |-> o, doc |-> Selected(parcel[o])] : o \in found}]]
    /\ UNCHANGED <<parcel, happened, overtaken, stamped, touches, alone>>

FindShared(w) ==
    /\ worker[w].pc = "share"
    /\ worker' = [worker EXCEPT ![w] =
          IF Cardinality(Carriers) > 1 THEN Resting ELSE [worker[w] EXCEPT !.pc = "track"]]
    /\ UNCHANGED <<parcel, happened, overtaken, stamped, touches, alone>>

\* The tracking API answers, with the scans so far, if any, and the booking, or
\* could not be asked or knows nothing.
Track(w) ==
    LET q == worker[w]
        answered(confirmed) == [q EXCEPT !.at = Max({0} \cup {s.at : s \in happened}),
                                         !.milestone = milestoneFor(happened, confirmed)]
    IN  /\ q.pc = "track"
        /\ \/ \E confirmed \in BOOLEAN, t \in q.todo : TakesUp(w, answered(confirmed), t)
           \/ worker' = [worker EXCEPT ![w] = Resting]
        /\ UNCHANGED <<parcel, happened, overtaken, stamped, touches, alone>>

\* "Mark delivered": the preview, then updateStatus on each order found READY.
Preview(w) ==
    /\ Starts(w, "bulk") /\ Cardinality(Carriers) = 1
    /\ \E o \in Carriers :
         /\ parcel[o].status \in Open /\ ~parcel[o].pending
         /\ worker' = [worker EXCEPT ![w] =
               [Resting EXCEPT !.pc = "apply", !.job = "bulk", !.order = o,
                               !.doc = Selected(parcel[o]), !.milestone = "DELIVERED"]]
    /\ UNCHANGED <<parcel, happened, overtaken, stamped, touches, alone>>

-----------------------------------------------------------------------------
\* Faulty variant: whatever arrives last is the latest scan.
recordAnyScan(w) ==
    LET q == worker[w]
    IN  /\ q.pc = "stamp"
        /\ parcel' = [parcel EXCEPT ![q.order].latest = q.at]
        /\ stamped' = [stamped EXCEPT ![q.order] = @ \cup {q.at}]
        /\ worker' = [worker EXCEPT ![w].pc = "apply"]
        /\ UNCHANGED <<happened, overtaken, touches, alone>>

\* The latest scan only moves forward.
recordLatestScan(w) ==
    LET q == worker[w]
    IN  /\ q.pc = "stamp"
        /\ parcel' = IF parcel[q.order].latest <= q.at
                     THEN [parcel EXCEPT ![q.order].latest = q.at] ELSE parcel
        /\ stamped' = [stamped EXCEPT ![q.order] = @ \cup {q.at}]
        /\ worker' = [worker EXCEPT ![w].pc = "apply"]
        /\ UNCHANGED <<happened, overtaken, touches, alone>>

\* Faulty variant: a return reported before does not matter.
WantedWhateverReturned(d, milestone) ==
    CASE milestone = "BOOKED" /\ ~d.pending /\ d.status \in ON_SHELF -> "DISPATCHED"
      [] milestone = "DELIVERED" /\ ~d.pending /\ d.status \in Open -> "DELIVERED"
      [] milestone = "RETURNED" /\ ~d.returned -> "FLAG"
      [] OTHER -> "NOTHING"

\* What a milestone asks of an order that looks like d.
Wanted(d, milestone) ==
    CASE milestone = "BOOKED" /\ ~d.pending /\ d.status \in ON_SHELF -> "DISPATCHED"
      [] milestone = "DELIVERED" /\ ~d.returned /\ ~d.pending /\ d.status \in Open -> "DELIVERED"
      [] milestone = "RETURNED" /\ ~d.returned -> "FLAG"
      [] OTHER -> "NOTHING"

Goal(q) == IF q.job = "bulk" THEN "DELIVERED" ELSE Wanted(q.doc, q.milestone)

\* updateStatus may move an order that looks like d there (skipDispatch when
\* the goal is DELIVERED).
MayMove(d, goal) ==
    /\ ~d.deleted /\ ~d.pending
    /\ \/ goal = "DISPATCHED" /\ d.status \in Open
       \/ goal = "DELIVERED" /\ d.status \in Open

\* Nothing to do on the picture it read: the milestone is past, or not for it.
NothingToDo(w) ==
    LET q == worker[w]
    IN  /\ q.pc = "apply" /\ Goal(q) = "NOTHING"
        /\ LetGo(w)
        /\ UNCHANGED <<parcel, happened, stamped, touches, alone>>

FlagReturn(w) ==
    LET q == worker[w]
    IN  /\ q.pc = "apply" /\ Goal(q) = "FLAG"
        /\ parcel' = [parcel EXCEPT ![q.order].returned = TRUE]
        /\ LetGo(w)
        /\ UNCHANGED <<happened, stamped, touches, alone>>

\* updateStatus reads the order again and refuses a move it does not allow.
ReadForStatus(w) ==
    LET q == worker[w]
        d == parcel[q.order]
    IN  /\ q.pc = "apply" /\ Goal(q) \in Status
        /\ IF MayMove(d, Goal(q))
           THEN /\ worker' = [worker EXCEPT ![w].pc = "write", ![w].read = d.status,
                                            ![w].seen = overtaken[w]]
                /\ UNCHANGED overtaken
           ELSE LetGo(w)
        /\ UNCHANGED <<parcel, happened, stamped, touches, alone>>

Moved(w) ==
    LET q == worker[w]
    IN  /\ parcel[q.order].status = q.read /\ ~parcel[q.order].deleted
        /\ Changes(w, q.order, [parcel[q.order] EXCEPT !.status = Goal(q)])
        /\ Finished(w)

\* Faulty variant: an event that loses a race is logged and forgotten.
WriteOnce(w) ==
    LET q == worker[w]
    IN  /\ q.pc = "write"
        /\ \/ Moved(w)
           \/ /\ parcel[q.order].status # q.read \/ parcel[q.order].deleted
              /\ LetGo(w) /\ UNCHANGED parcel
        /\ UNCHANGED <<happened, stamped, touches, alone>>

\* Faulty variant: the write does not ask for the status it read.
WriteUnconditionally(w) ==
    LET q == worker[w]
    IN  /\ q.pc = "write"
        /\ Changes(w, q.order, [parcel[q.order] EXCEPT !.status = Goal(q)])
        /\ Finished(w)
        /\ UNCHANGED <<happened, stamped, touches, alone>>

\* The conditional write; on a conflict the webhook re-reads and tries once more.
WriteStatus(w) ==
    LET q == worker[w]
    IN  /\ q.pc = "write"
        /\ \/ Moved(w)
           \/ /\ parcel[q.order].status # q.read \/ parcel[q.order].deleted
              /\ IF q.job = "hook" /\ ~q.retried
                 THEN worker' = [worker EXCEPT ![w].pc = "reread"] /\ UNCHANGED overtaken
                 ELSE LetGo(w)
              /\ UNCHANGED parcel
        /\ UNCHANGED <<happened, stamped, touches, alone>>

Reread(w) ==
    LET q == worker[w]
    IN  /\ q.pc = "reread"
        /\ worker' = [worker EXCEPT ![w] = [q EXCEPT !.pc = "apply", !.retried = TRUE,
                                                    !.doc = Selected(parcel[q.order])]]
        /\ UNCHANGED <<parcel, happened, overtaken, stamped, touches, alone>>

-----------------------------------------------------------------------------
(***************************************************************************)
(* What people do to the same orders: conditional writes of their own, but *)
(* for revert-status, which saves what it made of an earlier read.         *)
(***************************************************************************)
BoardMoves == ({"NEW"} \X {"PACKED", "DISPATCHED", "CANCELLED"})
    \cup ({"PACKED"} \X {"DISPATCHED", "CANCELLED"})
    \cup {<<"DISPATCHED", "DELIVERED">>}
    \cup ({"DISPATCHED", "DELIVERED"} \X {"RETURNED"})

\* Cancelling a packed order takes the number off it; packing or dispatching
\* one may put the number on.  A claim is approved or rejected, an order deleted
\* or restored.
Edited(d) ==
    {[d EXCEPT !.status = m[2], !.carries = d.carries /\ m # <<"PACKED", "CANCELLED">>] :
        m \in {b \in BoardMoves : b[1] = d.status /\ ~d.deleted
                                  /\ (d.pending => b[2] \in {"CANCELLED", "RETURNED"})}}
    \cup {[d EXCEPT !.status = s, !.carries = TRUE] :
             s \in {t \in {"PACKED", "DISPATCHED"} :
                       d.status \in ON_SHELF /\ ~d.pending /\ ~d.deleted}}
    \cup {[d EXCEPT !.deleted = ~d.deleted,
                    !.carries = d.carries /\ (d.deleted \/ d.status # "PACKED")]}
    \cup (IF d.pending /\ ~d.deleted
          THEN {[d EXCEPT !.pending = FALSE, !.approved = TRUE],
                [d EXCEPT !.pending = FALSE, !.status = "CANCELLED"]}
          ELSE {})

Person(o) ==
    /\ touches < MaxTouches
    /\ touches' = touches + 1
    /\ \E d \in Edited(parcel[o]) : Changes(NoParcel, o, d)
    /\ UNCHANGED <<happened, worker, stamped, alone>>

\* revert-status reads the order: a packed one goes back to New, a New one
\* that was approved back to the approval queue.
StartRevert(w) ==
    /\ Starts(w, "revert") /\ touches < MaxTouches
    /\ \E o \in Parcels :
         /\ ~parcel[o].deleted
         /\ \/ parcel[o].status = "PACKED"
            \/ parcel[o].status = "NEW" /\ parcel[o].approved
         /\ worker' = [worker EXCEPT ![w] =
               [Resting EXCEPT !.pc = "save", !.job = "revert", !.order = o,
                               !.doc = Selected(parcel[o])]]
    /\ touches' = touches + 1
    /\ UNCHANGED <<parcel, happened, overtaken, stamped, alone>>

\* The save asks for nothing: it lands on whatever the order has become.
SaveRevert(w) ==
    LET q == worker[w]
        d == parcel[q.order]
    IN  /\ q.pc = "save"
        /\ Changes(w, q.order, IF q.doc.status = "PACKED" THEN [d EXCEPT !.status = "NEW"]
                               ELSE [d EXCEPT !.pending = TRUE, !.approved = FALSE])
        /\ worker' = [worker EXCEPT ![w] = Resting]
        /\ UNCHANGED <<happened, stamped, touches, alone>>

PostalNext ==
    \/ Scan
    \/ \E w \in Workers :
         \/ Receive(w) \/ StartSync(w) \/ FindShared(w) \/ Track(w) \/ Preview(w)
         \/ recordLatestScan(w) \/ NothingToDo(w) \/ FlagReturn(w)
         \/ ReadForStatus(w) \/ WriteStatus(w) \/ Reread(w)
         \/ StartRevert(w) \/ SaveRevert(w)
    \/ \E o \in Parcels : Person(o)

PostalSpec == PostalInit /\ [][PostalNext]_postalVars

-----------------------------------------------------------------------------
\* The scan shown on an order is the newest of those that reached it, in
\* whatever order they came (recordLatestScan's filter).
NewestScanKept ==
    \A o \in Parcels : parcel[o].latest = Max({0} \cup stamped[o])

Rank(s) == CASE s = "NEW" -> 0 [] s = "PACKED" -> 1 [] s = "DISPATCHED" -> 2 [] OTHER -> 3

\* India Post only moves a live order that is still on its way, forward, and
\* from the very status it was checked in.  An order that waits for approval is
\* moved only if its approval was withdrawn between that check and the write
\* (updateStatus asks the write for the status and for nothing else).
PostalMovesForward ==
    \A w \in Workers, o \in Parcels :
        worker[w].order = o /\ worker[w].pc = "write" /\ worker'[w].pc # "write"
            /\ parcel'[o].status # parcel[o].status =>
            /\ parcel[o].status \in Open /\ ~parcel[o].deleted
            /\ parcel[o].pending => overtaken[w] > worker[w].seen
            /\ Rank(parcel[o].status) < Rank(parcel'[o].status)

\* An order that looks like d shows a milestone, or has no use for it.
Settled(d, milestone) ==
    \/ d.pending \/ milestone = "NONE"
    \/ milestone = "BOOKED" /\ d.status \notin ON_SHELF
    \/ milestone = "DELIVERED" /\ (d.returned \/ d.status \notin Open)
    \/ milestone = "RETURNED" /\ d.returned

\* The event of a webhook shows on the order, or did when the webhook read it.
Reflected(w) ==
    LET q == worker[w]
        d == parcel'[q.order]
    IN  d.deleted \/ Settled(d, q.milestone) \/ Settled(q.doc, q.milestone)

\* One change made meanwhile never costs us an event: the webhook re-reads the
\* order and tries again (handle's ConflictException branch).
NoEventLost ==
    \A w \in Workers :
        worker[w].job = "hook" /\ worker[w].pc \in {"apply", "write"}
            /\ worker'[w].pc = "idle"
            => Reflected(w) \/ overtaken[w] >= 2

\* Return wins: once India Post has reported the parcel returned, a "delivered"
\* does not deliver the order, as long as reports are handled one at a time.
ReturnWins ==
    alone => \A w \in Workers, o \in Parcels :
        worker[w].job # "bulk" /\ worker[w].pc = "write" /\ worker'[w].pc = "idle"
            /\ parcel'[o].status = "DELIVERED" /\ parcel[o].status # "DELIVERED"
            => ~parcel[o].returned

\* An order is marked as dispatched for the customer only when India Post has
\* the parcel: a pickup request or a label is not enough.
DispatchedIsHandedOver ==
    \A o \in Parcels :
        parcel'[o].status = "DISPATCHED" /\ parcel[o].status # "DISPATCHED"
            /\ touches' = touches
            => \E s \in happened : s.words # {} /\ "prebooking" \notin s.words

\* What India Post reports is kept, obeyed in its order and never lost.
PostalObeyed ==
    [][/\ NewestScanKept' /\ PostalMovesForward /\ NoEventLost
       /\ ReturnWins /\ DispatchedIsHandedOver]_postalVars
=============================================================================
