--------------------------------- MODULE Otp ---------------------------------
(***************************************************************************)
(* One-time codes for one phone number.  A request stores a new code, then *)
(* sends it, and writes the earlier row back if the send throws, which it  *)
(* also does for a message that went out; a guess is spent before it is    *)
(* compared, and the right one consumes the code.                          *)
(* Requests and guesses interleave at every database call; time passes in  *)
(* ticks between any two of them.                                          *)
(***************************************************************************)
EXTENDS Integers, FiniteSets

CONSTANTS
    Senders,               \* requests for a code
    Guessers,              \* submissions of a code
    CODE_TTL, RESEND_COOLDOWN, HOUR, DAY,
    MAX_ATTEMPTS, MAX_SENDS_PER_HOUR, MAX_SENDS_PER_DAY,
    FirstEver,             \* whether the number may have no row yet
    MaxTime, MaxCodes      \* bounds on the clock and on the codes stored

ASSUME OtpAssumption ==
    /\ {CODE_TTL, RESEND_COOLDOWN, HOUR, DAY, MAX_ATTEMPTS, MAX_SENDS_PER_HOUR,
        MAX_SENDS_PER_DAY, MaxTime, MaxCodes} \subseteq Nat \ {0}
    /\ HOUR <= DAY /\ IsFiniteSet(Guessers)
    /\ FirstEver \subseteq BOOLEAN

\* Codes are numbered as they are stored; 0 is a guess that fits no code.
Wrong == 0
NoRow == [code |-> Wrong, expires |-> 0, lastSent |-> 0, attempts |-> 0,
          log |-> {}, verified |-> FALSE]

VARIABLES
    clock,
    row,       \* the row of the number
    sender,    \* sender[s]: [pc, seen: the row as read, at: when, code]
    guesser,   \* guesser[g]: [pc, guess, seen: the code of the row as it spent]
    drawn,     \* codes stored so far
    delivered, \* the codes whose send went through, each with the time of its request
    unreported,\* those that went out although their send threw
    compared,  \* compared[c]: guesses compared with code c
    proofs,    \* proofs[c]: proofs issued for code c
    failing    \* whether sends may fail; requests then come one at a time

otpVars == <<clock, row, sender, guesser, drawn, delivered, unreported, compared, proofs,
             failing>>

sent == <<delivered, unreported>>

CodeIds == 1 .. MaxCodes
Row == [code: {Wrong} \cup CodeIds, expires: Int, lastSent: Int,
        attempts: Nat, log: SUBSET (0 .. MaxTime), verified: BOOLEAN]

Sending == [pc: {"idle", "store", "send", "restore"}, seen: Row, at: 0 .. MaxTime,
            code: {Wrong} \cup CodeIds]
Guess == [pc: {"idle", "compare"}, guess: {Wrong} \cup CodeIds, seen: {Wrong} \cup CodeIds]

Message == [at: 0 .. MaxTime, code: CodeIds]

SenderDone  == [pc |-> "idle", seen |-> NoRow, at |-> 0, code |-> Wrong]
GuesserDone == [pc |-> "idle", guess |-> Wrong, seen |-> Wrong]

OtpTypeOK ==
    /\ clock \in 0 .. MaxTime /\ drawn \in 0 .. MaxCodes
    /\ row \in Row /\ failing \in BOOLEAN
    /\ sender \in [Senders -> Sending]
    /\ guesser \in [Guessers -> Guess]
    /\ delivered \subseteq Message /\ unreported \subseteq Message
    /\ compared \in [CodeIds -> Nat] /\ proofs \in [CodeIds -> Nat]

\* The number has a row from a day ago whose code has run out, or none.
OtpInit ==
    /\ clock = 0 /\ drawn = 0 /\ delivered = {} /\ unreported = {}
    /\ row \in {NoRow} \cup
               IF FALSE \in FirstEver THEN {[NoRow EXCEPT !.lastSent = - DAY]} ELSE {}
    /\ FirstEver = {FALSE} => row # NoRow
    /\ sender = [s \in Senders |-> SenderDone]
    /\ guesser = [g \in Guessers |-> GuesserDone]
    /\ compared = [c \in CodeIds |-> 0]
    /\ proofs = [c \in CodeIds |-> 0]
    /\ failing \in BOOLEAN

OtpRest ==
    /\ \A s \in Senders : sender[s].pc = "idle"
    /\ \A g \in Guessers : guesser[g].pc = "idle"
MayStart == failing => OtpRest

Within(log, span) == {t \in log : clock - t < span}

-----------------------------------------------------------------------------
(***************************************************************************)
(* request                                                                 *)
(***************************************************************************)

\* Faulty variant: the hourly cap is off by one.
UnderCapsByOne(r) ==
    /\ Cardinality(Within(r.log, HOUR)) <= MAX_SENDS_PER_HOUR
    /\ Cardinality(Within(r.log, DAY)) < MAX_SENDS_PER_DAY

UnderCaps(r) ==
    /\ Cardinality(Within(r.log, HOUR)) < MAX_SENDS_PER_HOUR
    /\ Cardinality(Within(r.log, DAY)) < MAX_SENDS_PER_DAY

ReadRow(s) ==
    /\ sender[s].pc = "idle" /\ MayStart
    /\ row = NoRow \/ clock - row.lastSent >= RESEND_COOLDOWN
    /\ UnderCaps(row)
    /\ sender' = [sender EXCEPT ![s] = [pc |-> "store", seen |-> row, at |-> clock,
                                        code |-> Wrong]]
    /\ UNCHANGED <<clock, row, guesser, drawn, sent, compared, proofs, failing>>

NewRow(q) == [code |-> drawn + 1, expires |-> q.at + CODE_TTL, lastSent |-> q.at,
              attempts |-> 0, log |-> {t \in q.seen.log : q.at - t < DAY} \cup {q.at},
              verified |-> FALSE]

Stored(s) ==
    /\ row' = NewRow(sender[s])
    /\ drawn' = drawn + 1
    /\ sender' = [sender EXCEPT ![s].pc = "send", ![s].code = drawn + 1]

\* Faulty variant: the row may have changed since it was read.
StoreAnyway(s) ==
    LET q == sender[s]
    IN  /\ q.pc = "store" /\ drawn < MaxCodes
        /\ Stored(s)
        /\ UNCHANGED <<clock, guesser, sent, compared, proofs, failing>>

\* Conditional on the lastSentAt it read; without a row it is an upsert, which
\* meets the unique index only if it runs inside another upsert.
StoreCode(s) ==
    LET q == sender[s]
    IN  /\ q.pc = "store"
        /\ \/ /\ drawn < MaxCodes
              /\ q.seen = NoRow \/ row.lastSent = q.seen.lastSent
              /\ Stored(s)
           \/ /\ q.seen # NoRow => row.lastSent # q.seen.lastSent
              /\ q.seen = NoRow => row # NoRow
              /\ sender' = [sender EXCEPT ![s] = SenderDone]
              /\ UNCHANGED <<row, drawn>>
        /\ UNCHANGED <<clock, guesser, sent, compared, proofs, failing>>

\* The send throws when Meta refuses the message, but also when its answer is
\* late or the rows of the message cannot be written after Meta took it.
SendCode(s) ==
    LET q == sender[s]
        message == [at |-> q.at, code |-> q.code]
        end(done, lost) == delivered' = delivered \cup done /\ unreported' = unreported \cup lost
    IN  /\ q.pc = "send"
        /\ \/ end({message}, {}) /\ sender' = [sender EXCEPT ![s] = SenderDone]
           \/ /\ failing
              /\ end({}, {}) \/ end({}, {message})
              /\ sender' = [sender EXCEPT ![s].pc = "restore"]
        /\ UNCHANGED <<clock, row, guesser, drawn, compared, proofs, failing>>

\* Faulty variant: the row of the code that never went out stays.
RestoreNothing(s) ==
    /\ sender[s].pc = "restore"
    /\ sender' = [sender EXCEPT ![s] = SenderDone]
    /\ UNCHANGED <<clock, row, guesser, drawn, sent, compared, proofs, failing>>

RestoreRow(s) ==
    LET q == sender[s]
    IN  /\ q.pc = "restore"
        /\ row' = IF row.lastSent = q.at THEN q.seen ELSE row
        /\ sender' = [sender EXCEPT ![s] = SenderDone]
        /\ UNCHANGED <<clock, guesser, drawn, sent, compared, proofs, failing>>

-----------------------------------------------------------------------------
(***************************************************************************)
(* verify                                                                  *)
(***************************************************************************)

\* Faulty variant: the attempt is counted when it has been compared.
CompareFirst(g, c) ==
    /\ guesser[g].pc = "idle" /\ MayStart
    /\ row.attempts < MAX_ATTEMPTS /\ row.expires > clock
    /\ guesser' = [guesser EXCEPT ![g] = [pc |-> "compare", guess |-> c, seen |-> row.code]]
    /\ UNCHANGED <<clock, row, sender, drawn, sent, compared, proofs, failing>>

SpendAttempt(g, c) ==
    /\ guesser[g].pc = "idle" /\ MayStart
    /\ row.attempts < MAX_ATTEMPTS /\ row.expires > clock
    /\ row' = [row EXCEPT !.attempts = @ + 1]
    /\ guesser' = [guesser EXCEPT ![g] = [pc |-> "compare", guess |-> c, seen |-> row.code]]
    /\ UNCHANGED <<clock, sender, drawn, sent, compared, proofs, failing>>

Compared(g) ==
    /\ guesser[g].pc = "compare"
    /\ compared' = [compared EXCEPT ![guesser[g].seen] = @ + 1]
    /\ guesser' = [guesser EXCEPT ![g] = GuesserDone]

Fits(g) == guesser[g].guess = guesser[g].seen

\* Faulty variant: the code is not marked as used.
KeepCode(g) ==
    /\ Compared(g)
    /\ proofs' = IF Fits(g) THEN [proofs EXCEPT ![guesser[g].seen] = @ + 1] ELSE proofs
    /\ UNCHANGED <<clock, row, sender, drawn, sent, failing>>

\* The right guess consumes the code if it is still this one, unused and alive.
CompareAndConsume(g) ==
    LET c == guesser[g].seen
        alive == row.code = c /\ ~row.verified /\ row.expires > clock
    IN  /\ Compared(g)
        /\ \/ /\ Fits(g) /\ alive
              /\ row' = [row EXCEPT !.verified = TRUE, !.expires = clock]
              /\ proofs' = [proofs EXCEPT ![c] = @ + 1]
           \/ ~(Fits(g) /\ alive) /\ UNCHANGED <<row, proofs>>
        /\ UNCHANGED <<clock, sender, drawn, sent, failing>>

Tick ==
    /\ clock < MaxTime
    /\ clock' = clock + 1
    /\ UNCHANGED <<row, sender, guesser, drawn, sent, compared, proofs, failing>>

Known == {d.code : d \in delivered \cup unreported}

OtpNext ==
    \/ \E s \in Senders : ReadRow(s) \/ StoreCode(s) \/ SendCode(s) \/ RestoreRow(s)
    \/ \E g \in Guessers, c \in {Wrong} \cup Known : SpendAttempt(g, c)
    \/ \E g \in Guessers : CompareAndConsume(g)
    \/ Tick

OtpSpec == OtpInit /\ [][OtpNext]_otpVars

-----------------------------------------------------------------------------
\* Of parallel guesses at one code at most MAX_ATTEMPTS are ever compared with
\* it, resends and undone sends included (verify spends before it compares).
GuessesBounded == \A c \in CodeIds : compared[c] <= MAX_ATTEMPTS

\* A code is worth one proof, however often and however fast the right code is
\* submitted (verify's conditional consume).
OneProofPerCode == \A c \in CodeIds : proofs[c] <= 1

\* Messages to one number keep the cooldown and the rolling caps, simultaneous
\* requests included (request's conditional write).  Of those that went out
\* although their send threw, each keeps them with all that were sent before it,
\* but none is counted afterwards.
SendsSpaced ==
    /\ \A d \in delivered :
          LET since(span) == {e \in delivered : e.at <= d.at /\ d.at - e.at < span}
          IN  /\ since(RESEND_COOLDOWN) = {d}
              /\ Cardinality(since(HOUR)) <= MAX_SENDS_PER_HOUR
              /\ Cardinality(since(DAY)) <= MAX_SENDS_PER_DAY
    /\ \A d \in unreported :
          LET before(span) == {e \in delivered : e.at < d.at /\ d.at - e.at < span}
          IN  /\ before(RESEND_COOLDOWN) = {}
              /\ Cardinality(before(HOUR)) < MAX_SENDS_PER_HOUR
              /\ Cardinality(before(DAY)) < MAX_SENDS_PER_DAY

\* Between requests the code that counts is the one asked for last of those
\* whose send went through: a send that throws leaves the earlier code alone
\* (restore), even if its own code reached the customer.
LatestCodeCounts ==
    OtpRest => \A d \in delivered :
        (\A e \in delivered : e.at <= d.at) => row.code = d.code

\* What a one-time code promises: few guesses, one proof, spaced messages, and
\* the code that counts is the one that was sent last.
CodesGuarded == GuessesBounded /\ OneProofPerCode /\ SendsSpaced /\ LatestCodeCounts
=============================================================================
