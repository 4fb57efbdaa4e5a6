--------------------------- MODULE MessagesProofs ---------------------------
(***************************************************************************)
(* Proofs about what arrives from outside and when it likes: the one-time  *)
(* codes, for any requests and guesses at a number, times to live and      *)
(* limits; the WhatsApp inbox, for any messages, customers, deliveries at  *)
(* once and restarts; and India Post's scans of an article, for any scans, *)
(* orders, deliveries of the webhook, syncs and bulk requests.  At the     *)
(* end: the types of all three, whichever of them the behaviour is about.  *)
(***************************************************************************)
EXTENDS MCMessages, SumProofs

-----------------------------------------------------------------------------
(***************************************************************************)
(* One-time codes: the inductive invariant.                                *)
(***************************************************************************)

\* The messages that went out, or may still go out.
Letter(q) == [at |-> q.at, code |-> q.code]
SentOut == delivered \cup {Letter(sender[s]) : s \in {x \in Senders : sender[x].pc = "send"}}

Since(S, d, span) == {e \in S : e.at <= d.at /\ d.at - e.at < span}

Spaced(S) ==
    \A d \in S : /\ Since(S, d, RESEND_COOLDOWN) = {d}
                 /\ Cardinality(Since(S, d, HOUR)) <= MAX_SENDS_PER_HOUR
                 /\ Cardinality(Since(S, d, DAY)) <= MAX_SENDS_PER_DAY

\* A row knows the messages of the day before its last one.
Logged(r, S) ==
    \A d \in S : d.at <= r.lastSent /\ (r.lastSent - d.at < DAY => d.at \in r.log)

Latest(r, S) == \A d \in S : (\A e \in S : e.at <= d.at) => r.code = d.code

\* Guesses at code c that have been spent and not compared.
Guessing(c) == {g \in Guessers : guesser[g].pc = "compare" /\ guesser[g].seen = c}

\* Every guess at the code of a row is one of the row's attempts.
Counted(r) ==
    /\ r.attempts <= MAX_ATTEMPTS
    /\ \A c \in CodeIds : compared[c] + Cardinality(Guessing(c)) <=
                            IF r.code = c THEN r.attempts ELSE MAX_ATTEMPTS

Unproved(r) == \A c \in CodeIds : proofs[c] <= 1 /\ (r.code = c /\ ~r.verified => proofs[c] = 0)

\* What the row is, and what a row is that may be written back.
Sound(r, S) ==
    /\ r # NoRow /\ r.code <= drawn /\ r.lastSent <= clock
    /\ r.code = Wrong => r.expires <= 0
    /\ Logged(r, S) /\ Counted(r) /\ Unproved(r)

\* A request about to store: if the row still has the time it read, it is the
\* row whose limits it checked.
Asks(q) ==
    /\ q.seen # NoRow /\ q.at - q.seen.lastSent >= RESEND_COOLDOWN
    /\ Cardinality({t \in q.seen.log : q.at - t < HOUR}) < MAX_SENDS_PER_HOUR
    /\ Cardinality({t \in q.seen.log : q.at - t < DAY}) < MAX_SENDS_PER_DAY
    /\ q.seen.lastSent <= row.lastSent
    /\ q.seen.lastSent = row.lastSent => q.seen.log = row.log
    /\ failing => row = q.seen

\* A request that may have to write back what it read.
Undoes(q) ==
    /\ row.lastSent = q.at
    /\ Sound(q.seen, delivered) /\ Latest(q.seen, delivered)

SenderFits(q) ==
    /\ q.at <= clock
    /\ q.pc = "store" => Asks(q)
    /\ q.pc = "send" => q.code \in 1 .. drawn
    /\ q.pc = "restore" => failing
    /\ q.pc \in {"send", "restore"} /\ failing => Undoes(q)

\* While sends may fail, whoever is under way is alone.
OneByOne ==
    failing =>
        /\ \A s, x \in Senders : sender[s].pc # "idle" /\ sender[x].pc # "idle" => s = x
        /\ \A g, h \in Guessers : guesser[g].pc # "idle" /\ guesser[h].pc # "idle" => g = h
        /\ \A s \in Senders, g \in Guessers : sender[s].pc = "idle" \/ guesser[g].pc = "idle"

\* Nobody has guessed a code that has not been drawn.
Undrawn ==
    /\ \A g \in Guessers : guesser[g].pc = "compare" => guesser[g].seen \in 1 .. drawn
    /\ \A c \in CodeIds : c > drawn => compared[c] = 0 /\ proofs[c] = 0

\* The messages that went out before u and count within span.
Before(u, span) == {e \in delivered : e.at < u.at /\ u.at - e.at < span}

\* A message that went out although its send threw was within the limits, and
\* whoever asks or is under way since is no earlier.
Unsure ==
    \A u \in unreported :
        /\ u.at <= clock /\ \A s \in Senders : sender[s].pc # "idle" => u.at <= sender[s].at
        /\ Before(u, RESEND_COOLDOWN) = {}
        /\ Cardinality(Before(u, HOUR)) < MAX_SENDS_PER_HOUR
        /\ Cardinality(Before(u, DAY)) < MAX_SENDS_PER_DAY

NoneRestores == \A s \in Senders : sender[s].pc # "restore"

OtpInv ==
    /\ OtpTypeOK /\ OneByOne /\ Undrawn
    /\ Spaced(SentOut) /\ Sound(row, SentOut)
    /\ NoneRestores => Latest(row, SentOut)
    /\ \A s \in Senders : SenderFits(sender[s])

-----------------------------------------------------------------------------
(***************************************************************************)
(* Sets of messages.                                                       *)
(***************************************************************************)
\* Messages that leave at different times are as few as the times they leave at.
LEMMA AsFewAsTimes ==
    ASSUME NEW S, NEW T, T \subseteq 0 .. MaxTime, \A d \in S : d.at \in T,
           \A d, e \in S : d.at = e.at => d = e
    PROVE  /\ IsFiniteSet(S) /\ Cardinality(S) \in Nat
           /\ IsFiniteSet(T) /\ Cardinality(T) \in Nat /\ Cardinality(S) <= Cardinality(T)
<1>1. MaxTime \in Nat
  BY OtpAssumption
<1>2. IsFiniteSet(T) /\ Cardinality(T) \in Nat
  <2>1. IsFiniteSet(0 .. MaxTime)
    BY <1>1, FS_Interval
  <2>2. IsFiniteSet(T)
    BY <2>1, FS_Subset
  <2> QED
    BY <2>2, FS_CardinalityType
<1> DEFINE f == [d \in S |-> d.at]
<1>3. f \in Injection(S, T)
  BY DEF Injection, IsInjective
<1> HIDE DEF f
<1>4. IsFiniteSet(S) /\ Cardinality(S) <= Cardinality(T)
  BY <1>2, <1>3, FS_Injection
<1> QED
  BY <1>2, <1>4, FS_CardinalityType

\* Spaced messages leave at different times.
LEMMA TimesDiffer ==
    ASSUME NEW S, S \subseteq Message, Spaced(S), NEW d \in S, NEW e \in S, d.at = e.at
    PROVE  d = e
<1>1. RESEND_COOLDOWN \in Nat \ {0} /\ d.at \in Int
  BY OtpAssumption DEF Message
<1>2. e \in Since(S, d, RESEND_COOLDOWN)
  BY <1>1 DEF Since
<1> QED
  BY <1>2 DEF Spaced

\* Fewer messages are spaced as well.
LEMMA FewerSpaced ==
    ASSUME NEW S, S \subseteq Message, Spaced(S), NEW R, R \subseteq S
    PROVE  Spaced(R)
<1>1. \A d, e \in S : d.at = e.at => d = e
  BY TimesDiffer
<1>2. ASSUME NEW d \in R, NEW span \in Nat
      PROVE  /\ Since(R, d, span) \subseteq Since(S, d, span)
             /\ Cardinality(Since(R, d, span)) \in Nat
             /\ Cardinality(Since(S, d, span)) \in Nat
             /\ Cardinality(Since(R, d, span)) <= Cardinality(Since(S, d, span))
  <2>1. Since(R, d, span) \subseteq Since(S, d, span)
    BY DEF Since
  <2>2. \A e \in Since(S, d, span) : e \in S /\ e.at \in 0 .. MaxTime
    BY DEF Since, Message
  <2>3. IsFiniteSet(Since(S, d, span))
    BY <2>2, <1>1, AsFewAsTimes
  <2> QED
    BY <2>1, <2>3, FS_Subset, FS_CardinalityType
<1>3. {RESEND_COOLDOWN, HOUR, DAY, MAX_SENDS_PER_HOUR, MAX_SENDS_PER_DAY} \subseteq Nat \ {0}
  BY OtpAssumption
<1>4. ASSUME NEW d \in R
      PROVE  Since(R, d, RESEND_COOLDOWN) = {d}
  <2>1. d.at \in Int
    BY DEF Message
  <2>2. d \in Since(R, d, RESEND_COOLDOWN)
    BY <2>1, <1>3 DEF Since
  <2> QED
    BY <2>2, <1>2, <1>3 DEF Spaced
<1>5. ASSUME NEW d \in R
      PROVE  /\ Cardinality(Since(R, d, HOUR)) <= MAX_SENDS_PER_HOUR
             /\ Cardinality(Since(R, d, DAY)) <= MAX_SENDS_PER_DAY
  BY <1>2, <1>3 DEF Spaced
<1> QED
  BY <1>4, <1>5 DEF Spaced

\* A message that leaves after all others, past the cooldown and while the times
\* on the log are below a cap, is within the cap.
LEMMA CapKept ==
    ASSUME NEW S, S \subseteq Message, \A d, e \in S : d.at = e.at => d = e,
           NEW m \in Message, \A d \in S : d.at < m.at,
           NEW span \in Nat \ {0}, NEW cap \in Nat,
           NEW log, log \subseteq 0 .. MaxTime,
           \A d \in S : m.at - d.at < span => d.at \in log,
           Cardinality({t \in log : m.at - t < span}) < cap
    PROVE  Cardinality(Since(S \cup {m}, m, span)) <= cap
<1> DEFINE R == {d \in S : m.at - d.at < span}
           T == {t \in log : m.at - t < span}
<1>1. m.at \in Int /\ \A d \in S : d.at \in Int
  BY DEF Message
<1>2. Since(S \cup {m}, m, span) = R \cup {m}
  BY <1>1 DEF Since
<1>3. m \notin R
  BY <1>1
<1>4. T \subseteq 0 .. MaxTime /\ (\A d \in R : d.at \in T) /\ \A d, e \in R : d.at = e.at => d = e
  OBVIOUS
<1> HIDE DEF R, T
<1>5. /\ IsFiniteSet(R) /\ Cardinality(R) \in Nat /\ Cardinality(T) \in Nat
      /\ Cardinality(R) <= Cardinality(T)
  BY <1>4, AsFewAsTimes
<1>6. Cardinality(R \cup {m}) = Cardinality(R) + 1
  BY <1>3, <1>5, FS_AddElement
<1>7. Cardinality(T) < cap
  BY DEF T
<1>8. Cardinality(Since(S \cup {m}, m, span)) = Cardinality(R) + 1
  BY <1>2, <1>6
<1> QED
  BY <1>5, <1>7, <1>8

\* A request that found the row within the limits adds a message within them.
LEMMA OneMoreSpaced ==
    ASSUME NEW S, S \subseteq Message, Spaced(S),
           NEW m \in Message, NEW last \in Int, NEW log, log \subseteq 0 .. MaxTime,
           \A d \in S : d.at <= last /\ (last - d.at < DAY => d.at \in log),
           m.at - last >= RESEND_COOLDOWN,
           Cardinality({t \in log : m.at - t < HOUR}) < MAX_SENDS_PER_HOUR,
           Cardinality({t \in log : m.at - t < DAY}) < MAX_SENDS_PER_DAY
    PROVE  Spaced(S \cup {m})
<1>1. /\ {RESEND_COOLDOWN, HOUR, DAY, MAX_SENDS_PER_HOUR, MAX_SENDS_PER_DAY} \subseteq Nat \ {0}
      /\ HOUR <= DAY
  BY OtpAssumption
<1>2. m.at \in Int /\ \A d \in S : d.at \in Int
  BY DEF Message
<1>3. \A d \in S : d.at < m.at /\ m.at - d.at >= RESEND_COOLDOWN
  BY <1>1, <1>2
<1>4. \A d, e \in S : d.at = e.at => d = e
  BY TimesDiffer
<1>5. \A d \in S : /\ m.at - d.at < HOUR => d.at \in log
                   /\ m.at - d.at < DAY => d.at \in log
  BY <1>1, <1>2, <1>3
<1>6. Cardinality(Since(S \cup {m}, m, HOUR)) <= MAX_SENDS_PER_HOUR
  BY <1>1, <1>3, <1>4, <1>5, CapKept
<1>7. Cardinality(Since(S \cup {m}, m, DAY)) <= MAX_SENDS_PER_DAY
  BY <1>1, <1>3, <1>4, <1>5, CapKept
<1>8. Since(S \cup {m}, m, RESEND_COOLDOWN) = {m}
  BY <1>1, <1>2, <1>3 DEF Since
<1>9. ASSUME NEW d \in S, NEW span
      PROVE  Since(S \cup {m}, d, span) = Since(S, d, span)
  BY <1>2, <1>3 DEF Since
<1> QED
  BY <1>6, <1>7, <1>8, <1>9 DEF Spaced

-----------------------------------------------------------------------------
(***************************************************************************)
(* What the invariant says, and that it holds at first.                    *)
(***************************************************************************)
LEMMA LimitsTyped ==
    /\ {CODE_TTL, RESEND_COOLDOWN, HOUR, DAY, MAX_ATTEMPTS, MAX_SENDS_PER_HOUR,
        MAX_SENDS_PER_DAY, MaxTime, MaxCodes} \subseteq Nat \ {0}
    /\ HOUR <= DAY
BY OtpAssumption

LEMMA SentTyped ==
    ASSUME OtpTypeOK, \A s \in Senders : sender[s].pc = "send" => sender[s].code \in CodeIds
    PROVE  SentOut \subseteq Message
BY DEF SentOut, Letter, Message, OtpTypeOK, Sending

LEMMA GuessingTyped == \A c : IsFiniteSet(Guessing(c)) /\ Cardinality(Guessing(c)) \in Nat
<1> SUFFICES ASSUME NEW c
             PROVE  IsFiniteSet(Guessing(c)) /\ Cardinality(Guessing(c)) \in Nat
  OBVIOUS
<1>1. Guessing(c) \subseteq Guessers /\ IsFiniteSet(Guessers)
  BY OtpAssumption DEF Guessing
<1> QED
  BY <1>1, FS_Subset, FS_CardinalityType

\* Every message sent is one that was stored.
LEMMA InvTypes ==
    ASSUME OtpInv
    PROVE  SentOut \subseteq Message
<1>1. OtpTypeOK /\ \A x \in Senders : SenderFits(sender[x])
  BY DEF OtpInv
<1>2. \A x \in Senders : sender[x].pc = "send" => sender[x].code \in CodeIds
  BY <1>1, LimitsTyped DEF SenderFits, CodeIds, OtpTypeOK
<1> QED
  BY <1>1, <1>2, SentTyped

\* The invariant says what the run checks.
LEMMA InvGuards == OtpInv /\ Unsure => CodesGuarded
<1> SUFFICES ASSUME OtpInv, Unsure
             PROVE  CodesGuarded
  OBVIOUS
<1> USE DEF OtpInv
<1>1. GuessesBounded
  <2> SUFFICES ASSUME NEW c \in CodeIds
               PROVE  compared[c] <= MAX_ATTEMPTS
    BY DEF GuessesBounded
  <2>1. compared[c] \in Nat /\ row.attempts \in Nat
    BY DEF OtpTypeOK, Row
  <2>2. /\ row.attempts <= MAX_ATTEMPTS
        /\ \/ compared[c] + Cardinality(Guessing(c)) <= row.attempts
           \/ compared[c] + Cardinality(Guessing(c)) <= MAX_ATTEMPTS
    BY DEF Sound, Counted
  <2> QED
    BY <2>1, <2>2, GuessingTyped, LimitsTyped
<1>2. OneProofPerCode
  BY DEF OneProofPerCode, Sound, Unproved
<1>3. SendsSpaced
  <2>1. delivered \subseteq SentOut
    BY DEF SentOut
  <2>2. Spaced(delivered)
    BY <2>1, InvTypes, FewerSpaced
  <2> QED
    BY <2>2 DEF Spaced, Since, SendsSpaced, Unsure, Before
<1>4. LatestCodeCounts
  <2> SUFFICES ASSUME OtpRest
               PROVE  \A d \in delivered :
                        (\A e \in delivered : e.at <= d.at) => row.code = d.code
    BY DEF LatestCodeCounts
  <2>1. SentOut = delivered
    BY DEF OtpRest, SentOut
  <2>2. NoneRestores
    BY DEF OtpRest, NoneRestores
  <2> QED
    BY <2>1, <2>2 DEF Latest
<1> QED
  BY <1>1, <1>2, <1>3, <1>4 DEF CodesGuarded

\* A number whose code of a day ago has run out.
LEMMA InitGuards ==
    ASSUME FirstEver = {FALSE}, OtpInit
    PROVE  OtpInv
<1>1. /\ clock = 0 /\ drawn = 0 /\ delivered = {} /\ unreported = {} /\ failing \in BOOLEAN
      /\ row = [NoRow EXCEPT !.lastSent = - DAY]
      /\ sender = [s \in Senders |-> SenderDone]
      /\ guesser = [g \in Guessers |-> GuesserDone]
      /\ compared = [c \in CodeIds |-> 0] /\ proofs = [c \in CodeIds |-> 0]
  BY DEF OtpInit
<1>2. /\ NoRow \in Row /\ NoRow.lastSent = 0 /\ NoRow.code = Wrong /\ NoRow.expires = 0
      /\ NoRow.attempts = 0
  BY DEF NoRow, Row
<1>3. /\ row \in Row /\ row.lastSent = - DAY /\ row.code = Wrong /\ row.expires = 0
      /\ row.attempts = 0
  <2>1. - DAY \in Int
    BY LimitsTyped
  <2>2. ASSUME NEW n \in Int
        PROVE  LET r == [NoRow EXCEPT !.lastSent = n]
               IN  r \in Row /\ r.lastSent = n /\ r.code = Wrong /\ r.expires = 0 /\ r.attempts = 0
    <3> DEFINE r == [NoRow EXCEPT !.lastSent = n]
    <3>1. r.lastSent = n /\ r.code = Wrong /\ r.expires = 0 /\ r.attempts = 0
      BY DEF NoRow
    <3>2. r \in Row
      BY <1>2 DEF Row
    <3> QED
      BY <3>1, <3>2
  <2>3. row = [NoRow EXCEPT !.lastSent = - DAY]
    BY <1>1
  <2> QED
    BY <2>1, <2>2, <2>3
<1>4. SenderDone \in Sending /\ SenderDone.pc = "idle" /\ SenderDone.at = 0
  BY <1>2, LimitsTyped DEF SenderDone, Sending
<1>5. GuesserDone \in Guess /\ GuesserDone.pc = "idle"
  BY DEF GuesserDone, Guess
<1>6. OtpTypeOK
  BY <1>1, <1>3, <1>4, <1>5, LimitsTyped DEF OtpTypeOK
<1>7. OneByOne /\ Undrawn /\ SentOut = {} /\ \A s \in Senders : SenderFits(sender[s])
  BY <1>1, <1>4, <1>5 DEF OneByOne, Undrawn, SentOut, SenderFits
<1>8. Spaced(SentOut) /\ Latest(row, SentOut) /\ Logged(row, SentOut)
  BY <1>7 DEF Spaced, Latest, Logged
<1>9. Counted(row) /\ Unproved(row)
  <2>1. \A c : Guessing(c) = {}
    BY <1>1, <1>5 DEF Guessing
  <2>2. \A c \in CodeIds : compared[c] + Cardinality(Guessing(c)) = 0
    BY <2>1, <1>1, FS_EmptySet
  <2> QED
    BY <2>2, <1>1, <1>3, LimitsTyped DEF Counted, Unproved
<1>10. Sound(row, SentOut)
  <2>1. row # NoRow
    BY <1>2, <1>3, LimitsTyped
  <2> QED
    BY <2>1, <1>1, <1>3, <1>8, <1>9, LimitsTyped DEF Sound, Wrong
<1> QED
  BY <1>6, <1>7, <1>8, <1>10 DEF OtpInv

-----------------------------------------------------------------------------
(***************************************************************************)
(* What a step leaves alone.                                               *)
(***************************************************************************)

\* A request that does not step: the row it read may since have been replaced.
LEMMA SenderStays ==
    ASSUME OtpInv, NEW x \in Senders, sender'[x] = sender[x], failing' = failing,
           clock' \in Int, clock' >= clock, drawn' \in Int, drawn' >= drawn,
           row'.lastSent \in Int,
           \/ row'.lastSent > row.lastSent
           \/ row'.lastSent = row.lastSent /\ row'.log = row.log,
           failing => \/ sender[x].pc = "idle"
                      \/ UNCHANGED <<row, delivered, drawn, compared, proofs, guesser>>
    PROVE  SenderFits(sender[x])'
<1> DEFINE q == sender[x]
<1>1. /\ SenderFits(q) /\ q.at \in Int /\ q.seen.lastSent \in Int /\ row.lastSent \in Int
      /\ clock \in Int /\ drawn \in Int /\ q.seen.code \in Int /\ q.code \in Int
      /\ q.pc \in {"idle", "store", "send", "restore"}
  BY SMTT(30) DEF OtpInv, OtpTypeOK, Sending, Row, Wrong, CodeIds
<1>2. q' = q
  OBVIOUS
<1> HIDE DEF q
<1>3. ASSUME q.pc = "store"
      PROVE  Asks(q)'
  <2>1. Asks(q)
    BY <1>1, <1>3 DEF SenderFits
  <2> QED
    BY <2>1, <1>1, <1>2, <1>3 DEF Asks, q
<1>4. ASSUME q.pc \in {"send", "restore"}, failing
      PROVE  Undoes(q)'
  <2>1. UNCHANGED <<row, delivered, drawn, compared, proofs, guesser>>
    BY <1>4 DEF q
  <2>2. Undoes(q)
    BY <1>1, <1>4 DEF SenderFits
  <2>3. \A c : Guessing(c)' = Guessing(c)
    BY <2>1 DEF Guessing
  <2>4. Sound(q.seen, delivered)'
    BY <2>1, <2>2, <2>3, <1>1, <1>2 DEF Undoes, Sound, Logged, Counted, Unproved
  <2> QED
    BY <2>1, <2>2, <2>4, <1>2 DEF Undoes, Latest
<1>5. SenderFits(q)'
  BY <1>1, <1>2, <1>3, <1>4 DEF SenderFits
<1> QED
  BY <1>5 DEF q

\* A step that touches neither the row nor the guesses, and sends nothing new.
LEMMA RowStays ==
    ASSUME OtpInv, UNCHANGED <<row, guesser, drawn, compared, proofs>>,
           clock' \in Int, clock' >= clock, SentOut' \subseteq SentOut
    PROVE  Undrawn' /\ Spaced(SentOut)' /\ Sound(row, SentOut)'
<1>1. Undrawn'
  BY DEF OtpInv, Undrawn
<1>2. Spaced(SentOut')
  BY InvTypes, FewerSpaced DEF OtpInv
<1>3. Spaced(SentOut)'
  BY <1>2 DEF Spaced, Since
<1>4. \A c : Guessing(c)' = Guessing(c)
  BY DEF Guessing
<1>5. row.lastSent \in Int /\ clock \in Int
  BY DEF OtpInv, OtpTypeOK, Row
<1>6. Sound(row, SentOut)'
  BY <1>4, <1>5 DEF OtpInv, Sound, Logged, Counted, Unproved
<1> QED
  BY <1>1, <1>3, <1>6

\* A guess leaves the requests and the messages alone.
LEMMA SendersStay ==
    ASSUME OtpInv, UNCHANGED <<clock, sender, delivered, drawn, failing>>,
           row'.lastSent = row.lastSent, row'.log = row.log, row'.code = row.code,
           failing => \A s \in Senders : sender[s].pc = "idle"
    PROVE  /\ SentOut' = SentOut /\ Spaced(SentOut)' /\ Logged(row, SentOut)'
           /\ NoneRestores' => Latest(row, SentOut)'
           /\ \A s \in Senders : SenderFits(sender[s])'
<1>1. SentOut' = SentOut
  BY DEF SentOut
<1>2. Spaced(SentOut)'
  BY <1>1 DEF OtpInv, Spaced, Since
<1>3. Logged(row, SentOut)'
  BY <1>1 DEF OtpInv, Sound, Logged
<1>4. NoneRestores' => Latest(row, SentOut)'
  BY <1>1 DEF OtpInv, Latest, NoneRestores
<1>5. clock \in Int /\ drawn \in Int /\ row.lastSent \in Int
  BY DEF OtpInv, OtpTypeOK, Row
<1>6. ASSUME NEW s \in Senders
      PROVE  SenderFits(sender[s])'
  BY <1>5, SenderStays
<1> QED
  BY <1>1, <1>2, <1>3, <1>4, <1>6

-----------------------------------------------------------------------------
(***************************************************************************)
(* The actions.                                                            *)
(***************************************************************************)

\* request reads the row and checks its limits.
LEMMA RowRead ==
    ASSUME OtpInv, NEW s \in Senders, ReadRow(s)
    PROVE  OtpInv'
<1>t. /\ OtpTypeOK /\ OneByOne /\ Undrawn /\ Spaced(SentOut) /\ Sound(row, SentOut)
      /\ NoneRestores => Latest(row, SentOut)
      /\ \A x \in Senders : SenderFits(sender[x])
  BY DEF OtpInv
<1>0. clock \in 0 .. MaxTime /\ drawn \in Int /\ row \in Row /\ row.lastSent \in Int
  BY <1>t DEF OtpTypeOK, Row
<1> DEFINE q == [pc |-> "store", seen |-> row, at |-> clock, code |-> Wrong]
<1>1. /\ sender[s].pc = "idle" /\ sender' = [sender EXCEPT ![s] = q] /\ (failing => OtpRest)
      /\ row = NoRow \/ clock - row.lastSent >= RESEND_COOLDOWN
      /\ UnderCaps(row)
      /\ UNCHANGED <<clock, row, guesser, drawn, delivered, unreported, compared, proofs, failing>>
  BY DEF ReadRow, MayStart, sent
<1>2. /\ q \in Sending /\ q.pc = "store" /\ q.seen = row /\ q.at = clock
  BY <1>0 DEF Sending
<1> HIDE DEF q
<1>3. /\ sender' \in [Senders -> Sending] /\ sender'[s] = q
      /\ \A x \in Senders \ {s} : sender'[x] = sender[x]
  BY <1>1, <1>2, <1>t DEF OtpTypeOK
<1>4. OtpTypeOK'
  BY <1>1, <1>3, <1>t DEF OtpTypeOK
<1>5. OneByOne'
  BY <1>1, <1>3 DEF OneByOne, OtpRest
<1>6. SentOut' = SentOut
  BY <1>1, <1>2, <1>3 DEF SentOut
<1>7. Undrawn' /\ Spaced(SentOut)' /\ Sound(row, SentOut)'
  BY <1>0, <1>1, <1>6, RowStays
<1>8. NoneRestores' => Latest(row, SentOut)'
  BY <1>1, <1>2, <1>3, <1>6, <1>t DEF NoneRestores, Latest
<1>9. ASSUME NEW x \in Senders
      PROVE  SenderFits(sender[x])'
  <2>1. CASE x = s
    <3>1. Asks(q)'
      <4>1. row # NoRow
        BY <1>t DEF Sound
      <4>2. row' = row /\ q' = q
        BY <1>1 DEF q
      <4>3. /\ Cardinality({t \in row.log : clock - t < HOUR}) < MAX_SENDS_PER_HOUR
            /\ Cardinality({t \in row.log : clock - t < DAY}) < MAX_SENDS_PER_DAY
        BY <1>1, Zenon DEF UnderCaps, Within
      <4>4. /\ Cardinality({t \in q.seen.log : q.at - t < HOUR}) < MAX_SENDS_PER_HOUR
            /\ Cardinality({t \in q.seen.log : q.at - t < DAY}) < MAX_SENDS_PER_DAY
        BY <4>3, <1>2
      <4>5. q.at - q.seen.lastSent >= RESEND_COOLDOWN
        BY <4>1, <1>1, <1>2
      <4> QED
        BY <4>1, <4>2, <4>4, <4>5, <1>0, <1>2 DEF Asks
    <3>2. SenderFits(q)'
      BY <3>1, <1>0, <1>1, <1>2 DEF SenderFits, q
    <3> QED
      BY <3>2, <2>1, <1>1, <1>3 DEF SenderFits, Asks, q
  <2>2. CASE x # s
    BY <2>2, <1>0, <1>1, <1>3, SenderStays
  <2> QED
    BY <2>1, <2>2
<1> QED
  BY <1>4, <1>5, <1>7, <1>8, <1>9 DEF OtpInv

\* A request that ends, or turns to its undoing, without having written.
LEMMA SenderEnds ==
    ASSUME OtpInv, NEW s \in Senders, NEW q \in Sending, sender' = [sender EXCEPT ![s] = q],
           sender[s].pc # "idle", q.pc \in {"idle", "restore"},
           UNCHANGED <<clock, row, guesser, drawn, compared, proofs, failing>>,
           delivered' \in SUBSET Message, delivered \subseteq delivered', SentOut' \subseteq SentOut,
           unreported' \in SUBSET Message,
           q.pc = "idle" => SentOut' = SentOut /\ sender[s].pc # "restore",
           failing => delivered' = delivered \/ q.pc = "idle",
           SenderFits(q)'
    PROVE  OtpInv'
<1>t. /\ OtpTypeOK /\ OneByOne /\ Undrawn /\ Spaced(SentOut) /\ Sound(row, SentOut)
      /\ NoneRestores => Latest(row, SentOut)
      /\ \A x \in Senders : SenderFits(sender[x])
  BY DEF OtpInv
<1>0. clock \in 0 .. MaxTime /\ drawn \in Int /\ row \in Row /\ row.lastSent \in Int
  BY <1>t DEF OtpTypeOK, Row
<1>1. /\ sender' \in [Senders -> Sending] /\ sender'[s] = q
      /\ \A x \in Senders \ {s} : sender'[x] = sender[x]
  BY <1>t DEF OtpTypeOK
<1>2. OtpTypeOK'
  BY <1>1, <1>t DEF OtpTypeOK, Message
<1>3. OneByOne'
  BY <1>1, <1>t DEF OneByOne
<1>4. Undrawn' /\ Spaced(SentOut)' /\ Sound(row, SentOut)'
  BY <1>0, RowStays
<1>5. ASSUME NoneRestores'
      PROVE  Latest(row, SentOut)'
  <2>1. q.pc = "idle" /\ NoneRestores
    BY <1>1, <1>5 DEF NoneRestores
  <2> QED
    BY <2>1, <1>t DEF Latest
<1>6. ASSUME NEW x \in Senders
      PROVE  SenderFits(sender[x])'
  <2>1. CASE x = s
    BY <2>1, <1>1 DEF SenderFits, Undoes, Asks, Sound, Latest, Logged, Counted, Unproved
  <2>2. CASE x # s
    <3>1. failing => sender[x].pc = "idle"
      BY <2>2, <1>t DEF OneByOne
    <3> QED
      BY <3>1, <2>2, <1>0, <1>1, SenderStays
  <2> QED
    BY <2>1, <2>2
<1> QED
  BY <1>2, <1>3, <1>4, <1>5, <1>6 DEF OtpInv

\* What a send comes to: it went through; or it threw, and the message may have
\* gone out all the same.
WhatIsSent(s) ==
    \/ /\ delivered' = delivered \cup {Letter(sender[s])} /\ unreported' = unreported
       /\ sender' = [sender EXCEPT ![s] = SenderDone]
    \/ /\ failing /\ delivered' = delivered
       /\ unreported' \in {unreported, unreported \cup {Letter(sender[s])}}
       /\ sender' = [sender EXCEPT ![s].pc = "restore"]

LEMMA SendingIs ==
    ASSUME NEW s \in Senders, SendCode(s)
    PROVE  WhatIsSent(s)
BY DEF SendCode, WhatIsSent, Letter

\* The message leaves, or the request turns to its undoing.
LEMMA CodeSent ==
    ASSUME OtpInv, NEW s \in Senders, SendCode(s)
    PROVE  OtpInv'
<1>t. /\ OtpTypeOK /\ OneByOne /\ \A x \in Senders : SenderFits(sender[x])
  BY DEF OtpInv
<1>0. /\ sender[s].pc = "send"
      /\ UNCHANGED <<clock, row, guesser, drawn, compared, proofs, failing>>
  BY DEF SendCode
<1>1. /\ sender[s] \in Sending /\ SenderFits(sender[s]) /\ SentOut \subseteq Message
      /\ clock \in 0 .. MaxTime /\ clock' = clock
  BY <1>0, <1>t, InvTypes DEF OtpTypeOK
<1>2. Letter(sender[s]) \in SentOut /\ delivered \subseteq SentOut
  BY <1>0 DEF SentOut
<1>w. WhatIsSent(s)
  BY SendingIs
<1>u. unreported' \in SUBSET Message
  BY <1>w, <1>1, <1>2, <1>t DEF WhatIsSent, OtpTypeOK
<1>3. CASE delivered' = delivered \cup {Letter(sender[s])}
           /\ sender' = [sender EXCEPT ![s] = SenderDone]
  <2>1. SenderDone \in Sending /\ SenderDone.pc = "idle" /\ SenderDone.at = 0
    BY LimitsTyped DEF SenderDone, Sending, NoRow, Row
  <2>2. delivered' = delivered \cup {Letter(sender[s])}
    BY <1>3
  <2>3. sender'[s] = SenderDone /\ \A x \in Senders \ {s} : sender'[x] = sender[x]
    BY <1>3, <1>t DEF OtpTypeOK
  <2>4. SentOut' = SentOut
    <3>1. ASSUME NEW m \in SentOut
          PROVE  m \in SentOut'
      <4>1. CASE m \in delivered \/ m = Letter(sender[s])
        BY <4>1, <2>2 DEF SentOut
      <4>2. CASE m \notin delivered /\ m # Letter(sender[s])
        <5>1. PICK x \in Senders : sender[x].pc = "send" /\ m = Letter(sender[x])
          BY <4>2 DEF SentOut
        <5>2. sender'[x] = sender[x]
          BY <4>2, <5>1, <2>3
        <5> QED
          BY <5>1, <5>2 DEF SentOut, Letter
      <4> QED
        BY <4>1, <4>2
    <3>2. ASSUME NEW m \in SentOut'
          PROVE  m \in SentOut
      <4>1. CASE m \in delivered'
        BY <4>1, <2>2, <1>2
      <4>2. CASE m \notin delivered'
        <5>1. PICK x \in Senders : sender'[x].pc = "send" /\ m = Letter(sender[x])'
          BY <4>2 DEF SentOut, Letter
        <5>2. sender'[x] = sender[x]
          BY <5>1, <2>1, <2>3
        <5> QED
          BY <5>1, <5>2 DEF SentOut, Letter
      <4> QED
        BY <4>1, <4>2
    <3> QED
      BY <3>1, <3>2
  <2>5. delivered' \in SUBSET Message /\ delivered \subseteq delivered'
    BY <2>2, <1>1, <1>2
  <2>6. SenderFits(SenderDone)'
    BY <2>1, <1>1 DEF SenderFits, SenderDone
  <2> HIDE DEF SenderDone
  <2> QED
    BY <2>1, <2>4, <2>5, <2>6, <1>0, <1>3, <1>u, SenderEnds
<1>4. CASE failing /\ sender' = [sender EXCEPT ![s].pc = "restore"] /\ UNCHANGED delivered
  <2>1. PICK q \in Sending : q = [sender[s] EXCEPT !.pc = "restore"]
    BY <1>1 DEF Sending
  <2>2. sender' = [sender EXCEPT ![s] = q] /\ delivered' = delivered /\ failing
    BY <2>1, <1>4
  <2>3. /\ q.pc = "restore" /\ q.at = sender[s].at /\ q.seen = sender[s].seen
        /\ q.seen.code \in Int /\ q.at \in Int
    BY <2>1, <1>1 DEF Sending, Row, Wrong, CodeIds
  <2>4. sender'[s] = q /\ \A x \in Senders \ {s} : sender'[x] = sender[x]
    BY <2>2, <1>t DEF OtpTypeOK
  <2>5. SentOut' \subseteq SentOut
    BY <2>2, <2>3, <2>4 DEF SentOut, Letter
  <2>6. delivered' \in SUBSET Message
    BY <1>1, <1>2, <2>2
  <2>7. SenderFits(q)'
    <3>1. Undoes(q) /\ q.at <= clock
      BY <2>2, <2>3, <1>0, <1>1 DEF SenderFits, Undoes
    <3>2. \A c : Guessing(c)' = Guessing(c)
      BY <1>0 DEF Guessing
    <3>3. Sound(q.seen, delivered)'
      BY <3>1, <3>2, <2>2, <1>0 DEF Undoes, Sound, Logged, Counted, Unproved
    <3>4. Undoes(q)'
      BY <3>1, <3>3, <2>2, <1>0 DEF Undoes, Latest
    <3> QED
      BY <3>1, <3>4, <2>2, <2>3, <1>0 DEF SenderFits
  <2> QED
    BY <2>2, <2>3, <2>5, <2>6, <2>7, <1>0, <1>u, SenderEnds
<1> QED
  BY <1>3, <1>4, <1>w DEF WhatIsSent

\* A failed send writes back the row it had read, which is sound and whose code
\* is the latest of those that went out.
LEMMA RowRestored ==
    ASSUME OtpInv, NEW s \in Senders, RestoreRow(s)
    PROVE  OtpInv'
<1>t. /\ OtpTypeOK /\ OneByOne /\ Undrawn /\ Spaced(SentOut)
      /\ \A x \in Senders : SenderFits(sender[x])
  BY DEF OtpInv
<1>0. clock \in 0 .. MaxTime /\ drawn \in Int
  BY <1>t DEF OtpTypeOK
<1>1. /\ sender[s].pc = "restore" /\ sender' = [sender EXCEPT ![s] = SenderDone]
      /\ row' = IF row.lastSent = sender[s].at THEN sender[s].seen ELSE row
      /\ UNCHANGED <<clock, guesser, drawn, delivered, unreported, compared, proofs, failing>>
  BY DEF RestoreRow, sent
<1>2. failing /\ Undoes(sender[s])
  BY <1>1, <1>t DEF SenderFits
<1>3. row' = sender[s].seen /\ sender[s].seen \in Row
  BY <1>1, <1>2, <1>t DEF Undoes, OtpTypeOK, Sending
<1>4. SenderDone \in Sending /\ SenderDone.pc = "idle" /\ SenderDone.at = 0
  BY LimitsTyped DEF SenderDone, Sending, NoRow, Row
<1>5. sender'[s] = SenderDone /\ \A x \in Senders : sender'[x].pc = "idle" /\ sender'[x].at <= clock
  BY <1>0, <1>1, <1>2, <1>4, <1>t DEF OneByOne, OtpTypeOK, SenderFits
<1>6. OtpTypeOK'
  BY <1>1, <1>3, <1>4, <1>t DEF OtpTypeOK
<1>7. OneByOne' /\ Undrawn'
  BY <1>1, <1>2, <1>5, <1>t DEF OneByOne, Undrawn
<1>8. SentOut' = delivered /\ SentOut = delivered
  <2>1. \A x \in Senders : sender[x].pc # "send"
    BY <1>1, <1>2, <1>t DEF OneByOne
  <2> QED
    BY <2>1, <1>1, <1>5 DEF SentOut
<1>9. Spaced(SentOut)'
  BY <1>8, <1>t DEF Spaced, Since
<1>10. Sound(row, SentOut)'
  <2>1. \A c : Guessing(c)' = Guessing(c)
    BY <1>1 DEF Guessing
  <2> QED
    BY <2>1, <1>1, <1>2, <1>3, <1>8 DEF Undoes, Sound, Logged, Counted, Unproved
<1>11. Latest(row, SentOut)'
  BY <1>2, <1>3, <1>8 DEF Undoes, Latest
<1>12. \A x \in Senders : SenderFits(sender[x])'
  BY <1>1, <1>5 DEF SenderFits
<1> QED
  BY <1>6, <1>7, <1>9, <1>10, <1>11, <1>12 DEF OtpInv

\* Time passes.
LEMMA TimePassed ==
    ASSUME OtpInv, Tick
    PROVE  OtpInv'
<1>t. /\ OtpTypeOK /\ OneByOne /\ (NoneRestores => Latest(row, SentOut))
  BY DEF OtpInv
<1>0. clock \in 0 .. MaxTime /\ drawn \in Int /\ row.lastSent \in Int
  BY <1>t DEF OtpTypeOK, Row
<1>1. /\ clock' = clock + 1 /\ clock' \in 0 .. MaxTime /\ clock' >= clock
      /\ UNCHANGED <<row, sender, guesser, drawn, delivered, unreported, compared, proofs, failing>>
  BY <1>0, LimitsTyped DEF Tick, sent
<1>2. SentOut' = SentOut
  BY <1>1 DEF SentOut
<1>3. OtpTypeOK' /\ OneByOne'
  BY <1>1, <1>t DEF OtpTypeOK, OneByOne
<1>4. Undrawn' /\ Spaced(SentOut)' /\ Sound(row, SentOut)'
  BY <1>1, <1>2, RowStays
<1>5. NoneRestores' => Latest(row, SentOut)'
  BY <1>1, <1>2, <1>t DEF NoneRestores, Latest
<1>6. \A x \in Senders : SenderFits(sender[x])'
  BY <1>0, <1>1, SenderStays
<1> QED
  BY <1>3, <1>4, <1>5, <1>6 DEF OtpInv

\* A new code takes the row: the row is still the one whose limits were checked.
LEMMA CodeTakesRow ==
    ASSUME OtpInv, NEW s \in Senders, sender[s].pc = "store", drawn < MaxCodes, Stored(s),
           row.lastSent = sender[s].seen.lastSent,
           UNCHANGED <<clock, guesser, delivered, unreported, compared, proofs, failing>>
    PROVE  OtpInv'
<1>t. /\ OtpTypeOK /\ OneByOne /\ Undrawn /\ Spaced(SentOut) /\ Sound(row, SentOut)
      /\ NoneRestores => Latest(row, SentOut)
      /\ \A x \in Senders : SenderFits(sender[x])
  BY DEF OtpInv
<1>0. /\ clock \in 0 .. MaxTime /\ drawn \in 0 .. MaxCodes /\ row \in Row /\ row.lastSent \in Int
      /\ row.log \subseteq 0 .. MaxTime /\ row.code \in Nat /\ row.attempts \in Nat
  BY <1>t DEF OtpTypeOK, Row, Wrong, CodeIds
<1>1. PICK q \in Sending : q = sender[s]
  BY <1>t DEF OtpTypeOK
<1>2. /\ q.pc = "store" /\ q.at \in 0 .. MaxTime /\ q.at <= clock /\ Asks(q)
      /\ q.seen.lastSent = row.lastSent /\ q.seen.log = row.log
  BY <1>1, <1>t DEF SenderFits, Asks, Sending
<1>3. PICK n \in CodeIds : n = drawn + 1
  BY <1>0, LimitsTyped DEF CodeIds
<1> DEFINE m == [at |-> q.at, code |-> n]
           z == [q EXCEPT !.pc = "send", !.code = n]
<1>4. m \in Message /\ m.at = q.at /\ m.code = n
  BY <1>2 DEF Message
<1>5. /\ row' = NewRow(q) /\ drawn' = n
      /\ sender' = [sender EXCEPT ![s] = z]
  BY <1>1, <1>3 DEF Stored
<1>6. /\ z \in Sending /\ z.pc = "send" /\ z.code = n /\ z.at = q.at /\ z.seen = q.seen
  BY DEF Sending
<1>7. /\ row' \in Row /\ row'.code = n /\ row'.lastSent = q.at /\ row'.attempts = 0
      /\ row'.log = {t \in row.log : q.at - t < DAY} \cup {q.at} /\ ~row'.verified
  <2>1. q.at + CODE_TTL \in Int /\ q.at \in Int
    BY <1>2, LimitsTyped
  <2>2. {t \in row.log : q.at - t < DAY} \cup {q.at} \in SUBSET (0 .. MaxTime)
    BY <1>0, <1>2
  <2> QED
    BY <2>1, <2>2, <1>0, <1>2, <1>3, <1>5 DEF NewRow, Row
<1> HIDE DEF z
<1>8. /\ sender' \in [Senders -> Sending] /\ sender'[s] = z
      /\ \A x \in Senders \ {s} : sender'[x] = sender[x]
  BY <1>5, <1>6, <1>t DEF OtpTypeOK
<1>9. OtpTypeOK'
  <2>1. drawn' \in 0 .. MaxCodes
    BY <1>3, <1>5, LimitsTyped DEF CodeIds
  <2>2. row' \in Row
    BY <1>7
  <2> QED
    BY <2>1, <2>2, <1>8, <1>t DEF OtpTypeOK
<1>10. OneByOne'
  BY <1>1, <1>2, <1>8, <1>t DEF OneByOne
<1>11. Undrawn'
  BY <1>0, <1>3, <1>5, <1>t DEF Undrawn, CodeIds, OtpTypeOK, Guess, Wrong
<1>12. SentOut' = SentOut \cup {m}
  BY <1>1, <1>2, <1>6, <1>8 DEF SentOut, Letter
<1>13. SentOut \subseteq Message /\ \A d \in SentOut : d.at \in Int
  BY InvTypes DEF Message
<1>14. /\ q.at \in Int /\ q.at - row.lastSent >= RESEND_COOLDOWN /\ q.at > row.lastSent
       /\ DAY \in Nat
  BY <1>0, <1>2, LimitsTyped DEF Asks
<1>15. \A d \in SentOut : d.at <= row.lastSent /\ (row.lastSent - d.at < DAY => d.at \in row.log)
  BY <1>t DEF Sound, Logged
<1> HIDE DEF m
<1>16. Spaced(SentOut)'
  <2>1. /\ Cardinality({t \in row.log : m.at - t < HOUR}) < MAX_SENDS_PER_HOUR
        /\ Cardinality({t \in row.log : m.at - t < DAY}) < MAX_SENDS_PER_DAY
    BY <1>2, <1>4, Zenon DEF Asks
  <2>2. Spaced(SentOut \cup {m})
    BY <2>1, <1>0, <1>4, <1>13, <1>14, <1>15, <1>t, OneMoreSpaced
  <2> QED
    BY <2>2, <1>12 DEF Spaced, Since
<1>17. Logged(row, SentOut)'
  <2>1. ASSUME NEW d \in SentOut
        PROVE  d.at <= q.at /\ (q.at - d.at < DAY => d.at \in row'.log)
    <3>1. d.at <= row.lastSent /\ (q.at - d.at < DAY => row.lastSent - d.at < DAY)
      BY <1>0, <1>13, <1>14, <1>15
    <3> QED
      BY <3>1, <1>0, <1>7, <1>13, <1>14, <1>15
  <2>2. m.at <= q.at /\ m.at \in row'.log
    BY <1>4, <1>7, <1>14
  <2> QED
    BY <2>1, <2>2, <1>7, <1>12 DEF Logged
<1>18. Latest(row, SentOut)'
  <2>1. \A d \in SentOut : ~(m.at <= d.at)
    BY <1>0, <1>4, <1>13, <1>14, <1>15
  <2> QED
    BY <2>1, <1>4, <1>7, <1>12 DEF Latest
<1>19. \A c : Guessing(c)' = Guessing(c)
  BY DEF Guessing
<1>20. Counted(row)'
  <2>1. ASSUME NEW c \in CodeIds
        PROVE  compared[c] + Cardinality(Guessing(c)) <= IF n = c THEN 0 ELSE MAX_ATTEMPTS
    <3>1. compared[c] \in Nat /\ Cardinality(Guessing(c)) \in Nat
      BY <1>t, GuessingTyped DEF OtpTypeOK
    <3>2. CASE n = c
      <4>1. c > drawn
        BY <3>2, <1>0, <1>3
      <4>2. compared[c] = 0 /\ Guessing(c) = {}
        BY <4>1, <1>0, <1>t DEF Undrawn, Guessing
      <4> QED
        BY <4>2, <3>2, FS_EmptySet
    <3>3. CASE n # c
      <4>1. /\ row.attempts <= MAX_ATTEMPTS
            /\ compared[c] + Cardinality(Guessing(c)) <=
                 IF row.code = c THEN row.attempts ELSE MAX_ATTEMPTS
        BY <1>t DEF Sound, Counted
      <4> QED
        BY <4>1, <3>1, <3>3, <1>0, LimitsTyped
    <3> QED
      BY <3>2, <3>3
  <2> QED
    BY <2>1, <1>7, <1>19, LimitsTyped DEF Counted
<1>21. Unproved(row)'
  <2>1. \A c \in CodeIds : proofs[c] <= 1
    BY <1>t DEF Sound, Unproved
  <2>2. proofs[n] = 0
    BY <1>0, <1>3, <1>t DEF Undrawn
  <2> QED
    BY <2>1, <2>2, <1>7 DEF Unproved
<1>22. Sound(row, SentOut)'
  <2>1. row' # NoRow /\ row'.code # Wrong
    BY <1>3, <1>7 DEF NoRow, Wrong, CodeIds
  <2> QED
    BY <2>1, <1>0, <1>2, <1>3, <1>5, <1>7, <1>17, <1>20, <1>21 DEF Sound
<1>23. ASSUME NEW x \in Senders
       PROVE  SenderFits(sender[x])'
  <2>1. CASE x = s
    <3>1. ASSUME failing
          PROVE  Undoes(z)'
      <4>1. /\ row = q.seen
            /\ \A y \in Senders : sender[y].pc # "send" /\ sender[y].pc # "restore"
        BY <3>1, <1>1, <1>2, <1>t DEF OneByOne, Asks
      <4>2. SentOut = delivered /\ NoneRestores
        BY <4>1 DEF SentOut, NoneRestores
      <4>3. Sound(q.seen, delivered) /\ Latest(q.seen, delivered) /\ q.seen.code \in Int
        BY <4>1, <4>2, <1>0, <1>t
      <4>4. Sound(q.seen, delivered)'
        BY <4>3, <1>0, <1>3, <1>5, <1>19 DEF Sound, Logged, Counted, Unproved
      <4>5. z.seen = q.seen /\ z.at = q.at /\ z' = z
        BY <1>6 DEF z
      <4> QED
        BY <4>3, <4>4, <4>5, <1>7 DEF Undoes, Latest, Sound, Logged, Counted, Unproved
    <3>2. SenderFits(z)'
      BY <3>1, <1>2, <1>3, <1>5, <1>6 DEF SenderFits, z, CodeIds
    <3> QED
      BY <3>2, <2>1, <1>8 DEF SenderFits, Undoes, Asks, Sound, Latest, Logged, Counted, Unproved, z
  <2>2. CASE x # s
    <3>1. failing => sender[x].pc = "idle"
      BY <2>2, <1>1, <1>2, <1>t DEF OneByOne
    <3>2. drawn' \in Int /\ drawn' >= drawn /\ clock' \in Int /\ clock' >= clock
      BY <1>0, <1>3, <1>5
    <3> QED
      BY <3>1, <3>2, <2>2, <1>7, <1>8, <1>14, SenderStays
  <2> QED
    BY <2>1, <2>2
<1> QED
  BY <1>9, <1>10, <1>11, <1>16, <1>18, <1>22, <1>23 DEF OtpInv

\* request stores its code, or finds that another has.
LEMMA CodeStored ==
    ASSUME OtpInv, NEW s \in Senders, StoreCode(s)
    PROVE  OtpInv'
<1>t. /\ OtpTypeOK /\ \A x \in Senders : SenderFits(sender[x])
  BY DEF OtpInv
<1>1. /\ sender[s].pc = "store"
      /\ UNCHANGED <<clock, guesser, delivered, unreported, compared, proofs, failing>>
  BY DEF StoreCode, sent
<1>2. sender[s].seen # NoRow
  BY <1>1, <1>t DEF SenderFits, Asks
<1>3. CASE drawn < MaxCodes /\ row.lastSent = sender[s].seen.lastSent /\ Stored(s)
  BY <1>1, <1>3, CodeTakesRow
<1>4. CASE sender' = [sender EXCEPT ![s] = SenderDone] /\ UNCHANGED <<row, drawn>>
  <2>1. SenderDone \in Sending /\ SenderDone.pc = "idle" /\ SenderDone.at = 0
    BY LimitsTyped DEF SenderDone, Sending, NoRow, Row
  <2>2. sender'[s] = SenderDone /\ \A x \in Senders \ {s} : sender'[x] = sender[x]
    BY <1>4, <1>t DEF OtpTypeOK
  <2>3. SentOut' = SentOut /\ delivered \subseteq SentOut
    BY <2>1, <2>2, <1>1 DEF SentOut
  <2>4. delivered' \in SUBSET Message
    BY <2>3, <1>1, InvTypes
  <2>5. SenderFits(SenderDone)'
    BY <2>1, <1>1, <1>t DEF SenderFits, SenderDone, OtpTypeOK
  <2> HIDE DEF SenderDone
  <2> QED
    BY <2>1, <2>3, <2>4, <2>5, <1>1, <1>4, <1>t, SenderEnds DEF OtpTypeOK
<1> QED
  BY <1>2, <1>3, <1>4 DEF StoreCode

\* verify spends an attempt of the row before it compares.
LEMMA AttemptSpent ==
    ASSUME OtpInv, NEW g \in Guessers, NEW c \in {Wrong} \cup Known, SpendAttempt(g, c)
    PROVE  OtpInv'
<1>t. /\ OtpTypeOK /\ OneByOne /\ Undrawn /\ Sound(row, SentOut)
  BY DEF OtpInv
<1>0. /\ clock \in 0 .. MaxTime /\ drawn \in 0 .. MaxCodes /\ row \in Row
      /\ row.attempts \in Nat /\ row.expires \in Int /\ row.code \in {Wrong} \cup CodeIds
  BY <1>t DEF OtpTypeOK, Row
<1>1. /\ guesser[g].pc = "idle" /\ (failing => OtpRest)
      /\ row.attempts < MAX_ATTEMPTS /\ row.expires > clock
      /\ row' = [row EXCEPT !.attempts = @ + 1]
      /\ guesser' = [guesser EXCEPT ![g] = [pc |-> "compare", guess |-> c, seen |-> row.code]]
      /\ UNCHANGED <<clock, sender, drawn, delivered, unreported, compared, proofs, failing>>
  BY DEF SpendAttempt, MayStart, sent
<1>2. /\ row' \in Row /\ row'.attempts = row.attempts + 1 /\ row'.code = row.code
      /\ row'.lastSent = row.lastSent /\ row'.log = row.log /\ row'.verified = row.verified
      /\ row'.expires = row.expires
  BY <1>0, <1>1 DEF Row
<1>3. row.code \in CodeIds /\ row.code \in 1 .. drawn
  BY <1>0, <1>1, <1>t DEF Sound, CodeIds, Wrong
<1>4. c \in {Wrong} \cup CodeIds
  BY <1>t DEF Known, OtpTypeOK, Message
<1>5. /\ guesser' \in [Guessers -> Guess] /\ guesser'[g].pc = "compare"
      /\ guesser'[g].seen = row.code /\ \A h \in Guessers \ {g} : guesser'[h] = guesser[h]
  BY <1>1, <1>3, <1>4, <1>t DEF OtpTypeOK, Guess
<1>6. OtpTypeOK'
  BY <1>1, <1>2, <1>5, <1>t DEF OtpTypeOK
<1>7. OneByOne' /\ Undrawn'
  BY <1>1, <1>3, <1>5, <1>t DEF OneByOne, OtpRest, Undrawn
<1>8. failing => \A s \in Senders : sender[s].pc = "idle"
  BY <1>1 DEF OtpRest
<1>9. /\ SentOut' = SentOut /\ Spaced(SentOut)' /\ Logged(row, SentOut)'
      /\ NoneRestores' => Latest(row, SentOut)'
      /\ \A s \in Senders : SenderFits(sender[s])'
  BY <1>1, <1>2, <1>8, SendersStay
<1>10. Counted(row)'
  <2>1. ASSUME NEW d \in CodeIds
        PROVE  compared[d] + Cardinality(Guessing(d)') <=
                 IF row.code = d THEN row.attempts + 1 ELSE MAX_ATTEMPTS
    <3>1. /\ compared[d] \in Nat /\ Cardinality(Guessing(d)) \in Nat /\ IsFiniteSet(Guessing(d))
          /\ compared[d] + Cardinality(Guessing(d)) <=
               IF row.code = d THEN row.attempts ELSE MAX_ATTEMPTS
      BY <1>t, GuessingTyped DEF OtpTypeOK, Sound, Counted
    <3>2. CASE d = row.code
      <4>1. Guessing(d)' = Guessing(d) \cup {g} /\ g \notin Guessing(d)
        BY <3>2, <1>1, <1>5 DEF Guessing
      <4>2. Cardinality(Guessing(d)') = Cardinality(Guessing(d)) + 1
        BY <4>1, <3>1, FS_AddElement
      <4> QED
        BY <4>2, <3>1, <3>2, <1>0
    <3>3. CASE d # row.code
      <4>1. Guessing(d)' = Guessing(d)
        BY <3>3, <1>1, <1>5 DEF Guessing
      <4> QED
        BY <4>1, <3>1, <3>3
    <3> QED
      BY <3>2, <3>3
  <2> QED
    BY <2>1, <1>0, <1>1, <1>2, LimitsTyped DEF Counted
<1>11. Unproved(row)'
  BY <1>1, <1>2, <1>t DEF Sound, Unproved
<1>12. Sound(row, SentOut)'
  <2>1. row' # NoRow
    BY <1>2, <1>3 DEF NoRow, CodeIds, Wrong
  <2> QED
    BY <2>1, <1>1, <1>2, <1>9, <1>10, <1>11, <1>t DEF Sound
<1> QED
  BY <1>6, <1>7, <1>9, <1>12 DEF OtpInv

\* verify compares, and the right guess consumes the code once.
LEMMA GuessCompared ==
    ASSUME OtpInv, NEW g \in Guessers, CompareAndConsume(g)
    PROVE  OtpInv'
<1>t. /\ OtpTypeOK /\ OneByOne /\ Undrawn /\ Sound(row, SentOut)
  BY DEF OtpInv
<1>0. /\ clock \in 0 .. MaxTime /\ drawn \in 0 .. MaxCodes /\ row \in Row
      /\ row.attempts \in Nat /\ row.verified \in BOOLEAN /\ row.code \in Int
  BY <1>t DEF OtpTypeOK, Row, CodeIds, Wrong
<1> DEFINE c == guesser[g].seen
<1>1. /\ guesser[g].pc = "compare" /\ compared' = [compared EXCEPT ![c] = @ + 1]
      /\ guesser' = [guesser EXCEPT ![g] = GuesserDone]
      /\ UNCHANGED <<clock, sender, drawn, delivered, unreported, failing>>
  BY DEF CompareAndConsume, Compared, sent
<1>2. \/ /\ row.code = c /\ ~row.verified
         /\ row' = [row EXCEPT !.verified = TRUE, !.expires = clock]
         /\ proofs' = [proofs EXCEPT ![c] = @ + 1]
      \/ UNCHANGED <<row, proofs>>
  BY DEF CompareAndConsume
<1>3. c \in 1 .. drawn /\ c \in CodeIds
  <2>1. c \in 1 .. drawn
    BY <1>1, <1>t DEF Undrawn
  <2> QED
    BY <2>1, <1>0, LimitsTyped DEF CodeIds
<1> HIDE DEF c
<1>4. /\ row' \in Row /\ row'.attempts = row.attempts /\ row'.code = row.code
      /\ row'.lastSent = row.lastSent /\ row'.log = row.log
      /\ row'.verified = row.verified \/ row'.verified
      /\ row'.expires = row.expires \/ row.code = c
  <2>1. CASE UNCHANGED row
    BY <2>1, <1>0
  <2>2. CASE row.code = c /\ row' = [row EXCEPT !.verified = TRUE, !.expires = clock]
    <3>1. clock \in Int
      BY <1>0
    <3> QED
      BY <3>1, <2>2, <1>0 DEF Row
  <2> QED
    BY <2>1, <2>2, <1>2
<1>5. GuesserDone \in Guess /\ GuesserDone.pc = "idle"
  BY DEF GuesserDone, Guess
<1>6. /\ guesser' \in [Guessers -> Guess] /\ guesser'[g].pc = "idle"
      /\ \A h \in Guessers \ {g} : guesser'[h] = guesser[h]
  BY <1>1, <1>5, <1>t DEF OtpTypeOK
<1>7. /\ compared' \in [CodeIds -> Nat] /\ compared'[c] = compared[c] + 1
      /\ \A d \in CodeIds \ {c} : compared'[d] = compared[d]
  BY <1>1, <1>3, <1>t DEF OtpTypeOK
<1>8. /\ proofs' \in [CodeIds -> Nat] /\ \A d \in CodeIds \ {c} : proofs'[d] = proofs[d]
      /\ \/ row.code = c /\ ~row.verified /\ row'.verified /\ proofs'[c] = proofs[c] + 1
         \/ row'.verified = row.verified /\ proofs'[c] = proofs[c]
  <2>1. CASE UNCHANGED <<row, proofs>>
    BY <2>1, <1>t DEF OtpTypeOK
  <2>2. CASE /\ row.code = c /\ ~row.verified
             /\ row' = [row EXCEPT !.verified = TRUE, !.expires = clock]
             /\ proofs' = [proofs EXCEPT ![c] = @ + 1]
    <3>1. row'.verified
      BY <2>2, <1>0 DEF Row
    <3>2. proofs \in [CodeIds -> Nat]
      BY <1>t DEF OtpTypeOK
    <3>3. /\ proofs' \in [CodeIds -> Nat] /\ \A d \in CodeIds \ {c} : proofs'[d] = proofs[d]
          /\ proofs'[c] = proofs[c] + 1
      BY <3>2, <2>2, <1>3
    <3> QED
      BY <3>1, <3>3, <2>2
  <2> QED
    BY <2>1, <2>2, <1>2
<1>9. OtpTypeOK'
  BY <1>1, <1>4, <1>6, <1>7, <1>8, <1>t DEF OtpTypeOK
<1>10. OneByOne' /\ Undrawn'
  <2>1. OneByOne'
    BY <1>1, <1>6, <1>t DEF OneByOne
  <2>2. \A d \in CodeIds : d > drawn => d # c
    BY <1>0, <1>3
  <2>3. Undrawn'
    BY <2>2, <1>1, <1>6, <1>7, <1>8, <1>t DEF Undrawn
  <2> QED
    BY <2>1, <2>3
<1>11. failing => \A s \in Senders : sender[s].pc = "idle"
  BY <1>1, <1>t DEF OneByOne
<1>12. /\ SentOut' = SentOut /\ Spaced(SentOut)' /\ Logged(row, SentOut)'
       /\ NoneRestores' => Latest(row, SentOut)'
       /\ \A s \in Senders : SenderFits(sender[s])'
  BY <1>1, <1>4, <1>11, SendersStay
<1>13. Counted(row)'
  <2>1. ASSUME NEW d \in CodeIds
        PROVE  compared'[d] + Cardinality(Guessing(d)') = compared[d] + Cardinality(Guessing(d))
    <3>1. compared[d] \in Nat /\ Cardinality(Guessing(d)) \in Nat /\ IsFiniteSet(Guessing(d))
      BY <1>t, GuessingTyped DEF OtpTypeOK
    <3>2. CASE d = c
      <4>1. Guessing(d)' = Guessing(d) \ {g} /\ g \in Guessing(d)
        BY <3>2, <1>1, <1>6 DEF Guessing, c
      <4>2. Cardinality(Guessing(d)') = Cardinality(Guessing(d)) - 1
        BY <4>1, <3>1, FS_RemoveElement
      <4> QED
        BY <4>2, <3>1, <3>2, <1>7
    <3>3. CASE d # c
      <4>1. Guessing(d)' = Guessing(d)
        BY <3>3, <1>1, <1>6 DEF Guessing, c
      <4> QED
        BY <4>1, <3>3, <1>7
    <3> QED
      BY <3>2, <3>3
  <2> QED
    BY <2>1, <1>4, <1>t DEF Sound, Counted
<1>14. Unproved(row)'
  <2>1. /\ \A d \in CodeIds : proofs[d] \in Nat /\ proofs[d] <= 1
        /\ \A d \in CodeIds : row.code = d /\ ~row.verified => proofs[d] = 0
    BY <1>t DEF Sound, Unproved, OtpTypeOK
  <2>2. proofs'[c] <= 1 /\ (row'.code = c /\ ~row'.verified => proofs'[c] = 0)
    BY <2>1, <1>3, <1>4, <1>8
  <2>3. \A d \in CodeIds \ {c} :
          proofs'[d] <= 1 /\ (row'.code = d /\ ~row'.verified => proofs'[d] = 0)
    BY <2>1, <1>4, <1>8
  <2> QED
    BY <2>2, <2>3 DEF Unproved
<1>15. Sound(row, SentOut)'
  <2>1. row' # NoRow
    <3>1. CASE UNCHANGED row
      BY <3>1, <1>t DEF Sound
    <3>2. CASE row.code = c
      BY <3>2, <1>3, <1>4 DEF NoRow, Wrong
    <3> QED
      BY <3>1, <3>2, <1>2
  <2>2. row'.code = Wrong => row'.expires <= 0
    BY <1>3, <1>4, <1>t DEF Sound, Wrong
  <2> QED
    BY <2>1, <2>2, <1>1, <1>4, <1>12, <1>13, <1>14, <1>t DEF Sound
<1> QED
  BY <1>9, <1>10, <1>12, <1>15 DEF OtpInv

-----------------------------------------------------------------------------
LEMMA NextGuards == OtpInv /\ [OtpNext]_otpVars => OtpInv'
<1> SUFFICES ASSUME OtpInv, [OtpNext]_otpVars
             PROVE  OtpInv'
  OBVIOUS
<1>1. CASE UNCHANGED otpVars
  <2>1. UNCHANGED <<clock, row, sender, guesser, drawn, delivered, unreported, compared, proofs,
                    failing>>
    BY <1>1 DEF otpVars
  <2>2. OtpTypeOK /\ OneByOne /\ (NoneRestores => Latest(row, SentOut))
    BY DEF OtpInv
  <2>3. clock \in Int /\ drawn \in Int /\ row.lastSent \in Int
    BY <2>2 DEF OtpTypeOK, Row
  <2>4. SentOut' = SentOut
    BY <2>1 DEF SentOut
  <2>5. OtpTypeOK' /\ OneByOne'
    BY <2>1, <2>2 DEF OtpTypeOK, OneByOne
  <2>6. Undrawn' /\ Spaced(SentOut)' /\ Sound(row, SentOut)'
    BY <2>1, <2>3, <2>4, RowStays
  <2>7. NoneRestores' => Latest(row, SentOut)'
    BY <2>1, <2>2, <2>4 DEF NoneRestores, Latest
  <2>8. \A x \in Senders : SenderFits(sender[x])'
    BY <2>1, <2>3, SenderStays
  <2> QED
    BY <2>5, <2>6, <2>7, <2>8 DEF OtpInv
<1>2. CASE \E s \in Senders : ReadRow(s) \/ StoreCode(s) \/ SendCode(s) \/ RestoreRow(s)
  BY <1>2, RowRead, CodeStored, CodeSent, RowRestored
<1>3. CASE \E g \in Guessers, c \in {Wrong} \cup Known : SpendAttempt(g, c)
  BY <1>3, AttemptSpent
<1>4. CASE \E g \in Guessers : CompareAndConsume(g)
  BY <1>4, GuessCompared
<1>5. CASE Tick
  BY <1>5, TimePassed
<1> QED
  BY <1>1, <1>2, <1>3, <1>4, <1>5 DEF OtpNext

\* A message about to leave is within the limits of those that left before it.
LEMMA LeavesInTime ==
    ASSUME OtpInv, NEW s \in Senders, sender[s].pc = "send"
    PROVE  LET u == Letter(sender[s])
           IN  /\ Before(u, RESEND_COOLDOWN) = {}
               /\ Cardinality(Before(u, HOUR)) < MAX_SENDS_PER_HOUR
               /\ Cardinality(Before(u, DAY)) < MAX_SENDS_PER_DAY
<1> DEFINE u == Letter(sender[s])
<1>1. SentOut \subseteq Message /\ Spaced(SentOut) /\ u \in SentOut /\ delivered \subseteq SentOut
  BY InvTypes DEF OtpInv, SentOut
<1> HIDE DEF u
<1>2. \A d, e \in SentOut : d.at = e.at => d = e
  BY <1>1, TimesDiffer
<1>3. \A e \in SentOut : e.at \in 0 .. MaxTime /\ e.at \in Int
  BY <1>1 DEF Message
<1>4. ASSUME NEW span \in Nat \ {0}
      PROVE  /\ Before(u, span) \subseteq Since(SentOut, u, span) \ {u}
             /\ Cardinality(Before(u, span)) \in Nat
             /\ Cardinality(Before(u, span)) < Cardinality(Since(SentOut, u, span))
             /\ Cardinality(Since(SentOut, u, span)) \in Nat
  <2> DEFINE S == Since(SentOut, u, span)
  <2>1. Before(u, span) \subseteq S \ {u}
    BY <1>1, <1>3 DEF Before, Since
  <2>2. u \in S /\ S \subseteq SentOut
    BY <1>1, <1>3 DEF Since
  <2> HIDE DEF S
  <2>3. \A e \in S : e.at \in 0 .. MaxTime
    BY <2>2, <1>3
  <2>4. \A d, e \in S : d.at = e.at => d = e
    BY <2>2, <1>2
  <2>5. IsFiniteSet(S) /\ Cardinality(S) \in Nat
    BY <2>3, <2>4, AsFewAsTimes
  <2>6. IsFiniteSet(S \ {u}) /\ Cardinality(S \ {u}) = Cardinality(S) - 1
    BY <2>2, <2>5, FS_RemoveElement
  <2>7. /\ Cardinality(Before(u, span)) <= Cardinality(S \ {u})
        /\ IsFiniteSet(Before(u, span))
    BY <2>1, <2>6, FS_Subset
  <2>8. Cardinality(Before(u, span)) \in Nat
    BY <2>7, FS_CardinalityType
  <2>9. Cardinality(Before(u, span)) < Cardinality(S)
    BY <2>5, <2>6, <2>7, <2>8
  <2> QED
    BY <2>1, <2>5, <2>8, <2>9 DEF S
<1>5. Before(u, RESEND_COOLDOWN) = {}
  BY <1>1, <1>4, LimitsTyped DEF Spaced
<1>6. ASSUME NEW span \in Nat \ {0}, NEW cap \in Nat, Cardinality(Since(SentOut, u, span)) <= cap
      PROVE  Cardinality(Before(u, span)) < cap
  BY <1>4, <1>6
<1>7. Cardinality(Before(u, HOUR)) < MAX_SENDS_PER_HOUR
  BY <1>1, <1>6, LimitsTyped DEF Spaced
<1>8. Cardinality(Before(u, DAY)) < MAX_SENDS_PER_DAY
  BY <1>1, <1>6, LimitsTyped DEF Spaced
<1> QED
  BY <1>5, <1>7, <1>8 DEF u

\* What was before a message stays before it while nothing earlier is sent.
LEMMA BeforeStays ==
    ASSUME NEW u, NEW more, delivered' = delivered \cup more, \A e \in more : ~(e.at < u.at)
    PROVE  \A span : Before(u, span)' = Before(u, span)
BY DEF Before

LEMMA UnsureStep == OtpInv /\ Unsure /\ [OtpNext]_otpVars => Unsure'
<1> SUFFICES ASSUME OtpInv, Unsure, [OtpNext]_otpVars
             PROVE  Unsure'
  OBVIOUS
<1>0. /\ clock \in Int /\ sender \in [Senders -> Sending] /\ OneByOne
      /\ unreported \subseteq Message /\ \A x \in Senders : SenderFits(sender[x])
  BY DEF OtpInv, OtpTypeOK
<1>1. \A u \in unreported : u.at \in Int
  BY <1>0 DEF Message
<1>2. SenderDone.pc = "idle"
  BY DEF SenderDone
\* Nothing is sent, and who starts starts now.
<1>3. ASSUME UNCHANGED sent, clock' \in Int, clock' >= clock,
             \A x \in Senders : \/ sender'[x].pc = "idle"
                                \/ sender'[x].at = clock
                                \/ sender'[x].at = sender[x].at /\ sender[x].pc # "idle"
      PROVE  Unsure'
  <2> SUFFICES ASSUME NEW u \in unreported
               PROVE  /\ u.at <= clock'
                      /\ \A x \in Senders : sender'[x].pc # "idle" => u.at <= sender'[x].at
                      /\ (Before(u, RESEND_COOLDOWN) = {})'
                      /\ (Cardinality(Before(u, HOUR)) < MAX_SENDS_PER_HOUR)'
                      /\ (Cardinality(Before(u, DAY)) < MAX_SENDS_PER_DAY)'
    BY <1>3 DEF Unsure, sent, Before
  <2>1. u.at <= clock /\ \A x \in Senders : sender[x].pc # "idle" => u.at <= sender[x].at
    BY DEF Unsure
  <2>2. u.at <= clock' /\ \A x \in Senders : sender'[x].pc # "idle" => u.at <= sender'[x].at
    BY <2>1, <1>0, <1>1, <1>3
  <2>3. \A span : Before(u, span)' = Before(u, span)
    BY <1>3 DEF Before, sent
  <2> QED
    BY <2>2, <2>3 DEF Unsure
<1>4. ASSUME NEW s \in Senders, ReadRow(s)
      PROVE  Unsure'
  <2>1. /\ UNCHANGED sent /\ clock' = clock
        /\ sender'[s].at = clock /\ \A x \in Senders \ {s} : sender'[x] = sender[x]
    BY <1>0, <1>4 DEF ReadRow
  <2> QED
    BY <2>1, <1>0, <1>3
<1>5. ASSUME NEW s \in Senders, StoreCode(s)
      PROVE  Unsure'
  <2>1. /\ UNCHANGED sent /\ clock' = clock /\ sender[s].pc # "idle"
        /\ \/ sender' = [sender EXCEPT ![s].pc = "send", ![s].code = drawn + 1]
           \/ sender' = [sender EXCEPT ![s] = SenderDone]
    BY <1>5 DEF StoreCode, Stored
  <2>2. /\ sender'[s].pc = "idle" \/ sender'[s].at = sender[s].at
        /\ \A x \in Senders \ {s} : sender'[x] = sender[x]
    BY <2>1, <1>0, <1>2 DEF Sending
  <2> QED
    BY <2>1, <2>2, <1>0, <1>3
<1>6. ASSUME NEW s \in Senders, RestoreRow(s)
      PROVE  Unsure'
  <2>1. /\ UNCHANGED sent /\ clock' = clock
        /\ sender'[s].pc = "idle" /\ \A x \in Senders \ {s} : sender'[x] = sender[x]
    BY <1>0, <1>2, <1>6 DEF RestoreRow
  <2> QED
    BY <2>1, <1>0, <1>3
<1>7. ASSUME NEW s \in Senders, SendCode(s)
      PROVE  Unsure'
  <2>0. /\ WhatIsSent(s) /\ sender[s].pc = "send" /\ clock' = clock
        /\ \A x \in Senders \ {s} : sender'[x] = sender[x]
    BY <1>0, <1>7, SendingIs DEF SendCode, WhatIsSent
  <2>1. /\ Letter(sender[s]).at = sender[s].at /\ sender[s].at <= clock
        /\ sender[s].at \in Int
    BY <1>0 DEF Letter, SenderFits, Sending
  <2>2. sender'[s].pc = "idle" \/ sender'[s].at = sender[s].at
    BY <2>0, <1>0, <1>2 DEF WhatIsSent, Sending
  <2>3. \E more \in SUBSET {Letter(sender[s])} : delivered' = delivered \cup more
    <3>1. delivered = delivered \cup {}
      OBVIOUS
    <3>2. {} \in SUBSET {Letter(sender[s])} /\ {Letter(sender[s])} \in SUBSET {Letter(sender[s])}
      OBVIOUS
    <3>3. delivered' = delivered \cup {} \/ delivered' = delivered \cup {Letter(sender[s])}
      BY <2>0, <3>1 DEF WhatIsSent
    <3> QED
      BY <3>2, <3>3, Zenon
  <2>4. ASSUME NEW u \in unreported
        PROVE  /\ u.at <= clock'
               /\ \A x \in Senders : sender'[x].pc # "idle" => u.at <= sender'[x].at
               /\ \A span : Before(u, span)' = Before(u, span)
    <3>1. u.at <= clock /\ \A x \in Senders : sender[x].pc # "idle" => u.at <= sender[x].at
      BY DEF Unsure
    <3>2. ~(Letter(sender[s]).at < u.at)
      BY <3>1, <2>0, <2>1, <1>1
    <3> QED
      BY <3>1, <3>2, <2>0, <2>2, <2>3, BeforeStays
  <2>5. CASE unreported' = unreported
    BY <2>4, <2>5 DEF Unsure
  <2>6. CASE unreported' = unreported \cup {Letter(sender[s])} /\ failing /\ delivered' = delivered
    <3>0. PICK u \in Message : u = Letter(sender[s])
      BY <2>0, <1>0, InvTypes DEF SentOut
    <3>1. /\ Before(u, RESEND_COOLDOWN) = {}
          /\ Cardinality(Before(u, HOUR)) < MAX_SENDS_PER_HOUR
          /\ Cardinality(Before(u, DAY)) < MAX_SENDS_PER_DAY
      BY <2>0, <3>0, LeavesInTime
    <3>2. \A x \in Senders \ {s} : sender'[x].pc = "idle"
      BY <2>0, <2>6, <1>0 DEF OneByOne
    <3>3. u.at <= clock' /\ \A x \in Senders : sender'[x].pc # "idle" => u.at <= sender'[x].at
      BY <3>0, <3>2, <2>0, <2>1, <2>2, <1>0
    <3>4. \A span : Before(u, span)' = Before(u, span)
      BY <2>6 DEF Before
    <3>5. \A v \in unreported' : v \in unreported \/ v = u
      BY <3>0, <2>6
    <3> QED
      BY <2>4, <2>6, <3>1, <3>3, <3>4, <3>5 DEF Unsure
  <2> QED
    BY <2>0, <2>5, <2>6 DEF WhatIsSent
<1>8. CASE \E g \in Guessers, c \in {Wrong} \cup Known : SpendAttempt(g, c)
  <2>1. UNCHANGED <<sent, clock, sender>>
    BY <1>8 DEF SpendAttempt
  <2> QED
    BY <2>1, <1>0, <1>3
<1>9. CASE \E g \in Guessers : CompareAndConsume(g)
  <2>1. UNCHANGED <<sent, clock, sender>>
    BY <1>9 DEF CompareAndConsume
  <2> QED
    BY <2>1, <1>0, <1>3
<1>10. CASE Tick
  <2>1. UNCHANGED <<sent, sender>> /\ clock' = clock + 1
    BY <1>10 DEF Tick
  <2> QED
    BY <2>1, <1>0, <1>3
<1>11. CASE UNCHANGED otpVars
  <2>1. UNCHANGED <<sent, clock, sender>>
    BY <1>11 DEF otpVars, sent
  <2> QED
    BY <2>1, <1>0, <1>3
<1> QED
  BY <1>4, <1>5, <1>6, <1>7, <1>8, <1>9, <1>10, <1>11 DEF OtpNext

\* A number that has had a code before: whatever the requests and guesses do at
\* the same time, guesses are bounded, a code is worth one proof, messages keep
\* their distance and the latest code counts; and where sends may throw, with
\* the message gone out or not, the same of requests that come one at a time
\* (whatsapp-otp.service request and verify).
THEOREM CodesAlwaysGuarded == FirstEver = {FALSE} => (OtpSpec => []CodesGuarded)
<1> SUFFICES ASSUME FirstEver = {FALSE}
             PROVE  OtpSpec => []CodesGuarded
  OBVIOUS
<1>1. OtpInit => OtpInv
  BY InitGuards
<1>2. OtpInv /\ [OtpNext]_otpVars => OtpInv'
  BY NextGuards
<1>3. OtpInit => Unsure
  BY DEF OtpInit, Unsure
<1>4. OtpInv /\ Unsure /\ [OtpNext]_otpVars => Unsure'
  BY UnsureStep
<1>5. OtpInv /\ Unsure => CodesGuarded
  BY InvGuards
<1> QED
  BY <1>1, <1>2, <1>3, <1>4, <1>5, PTL DEF OtpSpec

-----------------------------------------------------------------------------
(***************************************************************************)
(* The inbox: the inductive invariant.                                     *)
(***************************************************************************)
HookState == [todo: SUBSET Inbound, storing: SUBSET Inbound]
AckState == [pc: {"none", "claim", "send", "release"}, at: Nat \cup {Never}]
AgentState == [pc: {"idle", "reply", "template"}, to: Contacts \cup {AgentIdle.to}]

\* The badge.  A message is counted when the delivery that stored it updates
\* the conversation, and no two deliveries store the same message.
Badge ==
    /\ \A m \in Inbound : counted[m] = 0 \/ (counted[m] = 1 /\ m \in stored)
    /\ \A h \in Hooks : \A m \in hook[h].storing : m \in stored /\ counted[m] = 0
    /\ \A h \in Hooks : \A m, n \in hook[h].storing : m = n
    /\ \A h, g \in Hooks : \A m \in Inbound :
         m \in hook[h].storing /\ m \in hook[g].storing => h = g
    /\ \A m \in skipped : m \in stored /\ counted[m] = 0 /\ \A h \in Hooks : m \notin hook[h].storing
    /\ restarts = 0 => \A m \in stored \ skipped :
                         counted[m] = 1 \/ \E h \in Hooks : m \in hook[h].storing

\* The message the conversation shows as the latest was received.
LastKnown ==
    \A c \in Contacts : chat[c].lastInbound # Never =>
        \E m \in stored : From[m] = c /\ SentAt[m] = chat[c].lastInbound

Claiming(m) == ack[m].pc \in {"send", "release"}

\* The claims.  Only a counted message starts an acknowledgement; one message
\* per customer holds a claim, and the conversation shows it.
Claims ==
    /\ \A m \in Inbound : ack[m].pc # "none" => counted[m] = 1
    /\ \A m \in Inbound : Claiming(m) =>
         /\ ack[m].at \in Nat /\ ack[m].at <= now /\ now <= ack[m].at + WINDOW
         /\ chat[From[m]].ackSentAt = ack[m].at
    /\ \A m, n \in Inbound : Claiming(m) /\ Claiming(n) /\ From[m] = From[n] => m = n
    /\ \A m \in Inbound : \A x \in acked : Claiming(m) /\ x.to = From[m] => ack[m].at > x.at + WINDOW
    /\ \A x \in acked : now > x.at + WINDOW \/ chat[x.to].ackSentAt = x.at

InboxTyped ==
    /\ now \in 0 .. MaxChatTime /\ stored \subseteq Inbound /\ restarts \in Nat
    /\ counted \in [Inbound -> Nat]
    /\ chat \in [Contacts -> Chat] /\ hook \in [Hooks -> HookState]
    /\ ack \in [Inbound -> AckState] /\ agent \in [Agents -> AgentState]
    /\ acked \subseteq Acknowledgement /\ stray \subseteq Acknowledgement
    /\ skipped \subseteq Inbound

\* Acknowledgements whose send went through are a window apart.
AckedApart ==
    \A x, y \in acked : x.to = y.to /\ x # y => x.at - y.at > WINDOW \/ y.at - x.at > WINDOW

Acknowledged == Claims /\ AckedApart /\ ClaimMeansAck

InboxInv == InboxTyped /\ Badge /\ LastKnown /\ Acknowledged

LEMMA FromIsContact == \A m \in Inbound : From[m] \in Contacts
  BY DEF Contacts

LEMMA InboxInitInv == InboxInit => InboxInv
  <1> SUFFICES ASSUME InboxInit PROVE InboxInv
    OBVIOUS
  <1>1. InboxTyped
    BY InboxAssumption DEF InboxInit, InboxTyped, Chat, NoChat, HookState, HookIdle, AckState, AckNone,
       AgentState, AgentIdle, Acknowledgement, Never
  <1>2. Badge /\ LastKnown
    BY DEF InboxInit, Badge, LastKnown, HookIdle, NoChat
  <1>3. Acknowledged
    BY DEF InboxInit, Acknowledged, Claims, Claiming, AckedApart, ClaimMeansAck, AckNone, NoChat
  <1>4. QED
    BY <1>1, <1>2, <1>3 DEF InboxInv

-----------------------------------------------------------------------------
\* What each part of the invariant does not mind.
LEMMA BadgeFrame ==
  ASSUME Badge, UNCHANGED <<counted, stored, skipped, restarts>>,
         \A h \in Hooks : hook'[h].storing = hook[h].storing
  PROVE  Badge'
  BY DEF Badge

LEMMA LastFrame ==
  ASSUME LastKnown, stored \subseteq stored',
         \A c \in Contacts : chat'[c].lastInbound = chat[c].lastInbound
  PROVE  LastKnown'
  BY DEF LastKnown

LEMMA AcknowledgedFrame ==
  ASSUME Acknowledged, InboxTyped, UNCHANGED <<ack, acked, now, restarts>>,
         \A m \in Inbound : counted'[m] = counted[m],
         \A c \in Contacts : chat'[c].ackSentAt = chat[c].ackSentAt
  PROVE  Acknowledged'
  <1>1. Claims'
    BY FromIsContact DEF Acknowledged, Claims, Claiming, InboxTyped, Acknowledgement
  <1>2. AckedApart' /\ ClaimMeansAck'
    BY DEF Acknowledged, AckedApart, ClaimMeansAck
  <1>3. QED
    BY <1>1, <1>2 DEF Acknowledged

-----------------------------------------------------------------------------
(***************************************************************************)
(* The webhook.                                                            *)
(***************************************************************************)
LEMMA DeliverKeepsInv ==
  ASSUME InboxInv, NEW h \in Hooks, NEW batch \in SUBSET Inbound, Deliver(h, batch)
  PROVE  InboxInv'
  <1>1. InboxTyped'
    BY DEF InboxInv, InboxTyped, Deliver, HookState, losses
  <1>2. \A g \in Hooks : hook'[g].storing = hook[g].storing
    BY DEF InboxInv, InboxTyped, HookState, Deliver
  <1>3. UNCHANGED <<now, stored, counted, chat, ack, agent, acked, stray, skipped, restarts>>
    BY DEF Deliver, losses
  <1>4. QED
    BY <1>1, <1>2, <1>3, BadgeFrame, LastFrame, AcknowledgedFrame DEF InboxInv

LEMMA InsertKeepsInv ==
  ASSUME InboxInv, NEW h \in Hooks, NEW m \in Inbound, InsertMessage(h, m)
  PROVE  InboxInv'
  <1> DEFINE q == [todo |-> hook[h].todo \ {m}, storing |-> {m} \ stored]
  <1>a. ASSUME hook' = [hook EXCEPT ![h].todo = @ \ {m}], UNCHANGED stored
        PROVE  InboxInv'
    <2>1. UNCHANGED <<now, counted, chat, ack, agent, acked, stray, skipped, restarts>>
      BY DEF InsertMessage, losses
    <2>2. hook' \in [Hooks -> HookState] /\ \A g \in Hooks : hook'[g].storing = hook[g].storing
      BY <1>a DEF InboxInv, InboxTyped, HookState
    <2>3. InboxTyped'
      BY <1>a, <2>1, <2>2 DEF InboxInv, InboxTyped
    <2>4. QED
      BY <1>a, <2>1, <2>2, <2>3, BadgeFrame, LastFrame, AcknowledgedFrame DEF InboxInv
  <1>b. SUFFICES ASSUME hook' = [hook EXCEPT ![h] = q], stored' = stored \cup {m}
                 PROVE  InboxInv'
    BY <1>a DEF InsertMessage
  <1>1. /\ hook' = [hook EXCEPT ![h] = q] /\ q \in HookState /\ hook[h].storing = {}
        /\ stored' = stored \cup {m}
        /\ UNCHANGED <<now, counted, chat, ack, agent, acked, stray, skipped, restarts>>
    BY <1>b DEF InsertMessage, InboxInv, InboxTyped, HookState, losses
  <1>2. q.storing = {m} \ stored
    OBVIOUS
  <1> HIDE DEF q
  <1>3. hook' \in [Hooks -> HookState] /\ \A g \in Hooks : hook'[g] = IF g = h THEN q ELSE hook[g]
    BY <1>1 DEF InboxInv, InboxTyped
  <1>4. InboxTyped'
    BY <1>1, <1>3 DEF InboxInv, InboxTyped
  <1>5. \A g \in Hooks : hook'[g].storing = IF g = h THEN {m} \ stored ELSE hook[g].storing
    BY <1>2, <1>3
  <1>6. counted \in [Inbound -> Nat] /\ counted' = counted /\ restarts' = restarts
    BY <1>1 DEF InboxInv, InboxTyped
  <1>7. Badge'
    <2>1. \A n \in Inbound : counted'[n] = 0 \/ (counted'[n] = 1 /\ n \in stored')
      BY <1>1, <1>6 DEF InboxInv, Badge
    <2>2. \A g \in Hooks : \A n \in hook'[g].storing : n \in stored' /\ counted'[n] = 0
      BY <1>1, <1>5, <1>6 DEF InboxInv, Badge
    <2>3. \A g \in Hooks : \A n, o \in hook'[g].storing : n = o
      BY <1>5 DEF InboxInv, Badge
    <2>4. \A g, f \in Hooks : \A n \in Inbound :
            n \in hook'[g].storing /\ n \in hook'[f].storing => g = f
      BY <1>5 DEF InboxInv, Badge
    <2>5. restarts' = 0 => \A n \in stored' \ skipped' :
                             counted'[n] = 1 \/ \E g \in Hooks : n \in hook'[g].storing
      <3> SUFFICES ASSUME restarts = 0, NEW n \in stored', n \notin skipped, counted[n] # 1
                   PROVE  \E g \in Hooks : n \in hook'[g].storing
        BY <1>1, <1>6
      <3>1. CASE n \in stored
        <4>1. PICK g \in Hooks : n \in hook[g].storing
          BY <3>1 DEF InboxInv, Badge
        <4>2. QED
          BY <1>1, <1>5, <4>1
      <3>2. CASE n \notin stored
        BY <1>1, <1>5, <3>2
      <3>3. QED
        BY <3>1, <3>2
    <2>6. \A n \in skipped' : n \in stored' /\ counted'[n] = 0 /\ \A g \in Hooks : n \notin hook'[g].storing
      BY <1>1, <1>5 DEF InboxInv, Badge
    <2>7. QED
      BY <2>1, <2>2, <2>3, <2>4, <2>5, <2>6 DEF Badge
  <1>8. LastKnown' /\ Acknowledged'
    BY <1>1, LastFrame, AcknowledgedFrame DEF InboxInv
  <1>9. QED
    BY <1>4, <1>7, <1>8 DEF InboxInv

LEMMA UpdateChatKeepsInv ==
  ASSUME InboxInv, NEW h \in Hooks, UpdateChat(h)
  PROVE  InboxInv'
  <1>1. PICK m \in hook[h].storing :
          /\ chat' = [chat EXCEPT ![From[m]].exists = TRUE, ![From[m]].lastInbound = SentAt[m],
                                ![From[m]].unread = @ + 1]
          /\ counted' = [counted EXCEPT ![m] = @ + 1]
          /\ hook' = [hook EXCEPT ![h].storing = {}]
          /\ ack' = [ack EXCEPT ![m].pc = "claim"]
          /\ UNCHANGED <<now, stored, agent, acked, stray, skipped, restarts>>
    BY DEF UpdateChat, losses
  <1>2. m \in Inbound /\ m \in stored /\ counted[m] = 0 /\ From[m] \in Contacts /\ SentAt[m] \in Nat
    BY FromIsContact, InboxAssumption DEF InboxInv, InboxTyped, Badge, HookState
  <1>3. /\ counted' \in [Inbound -> Nat]
        /\ \A n \in Inbound : counted'[n] = IF n = m THEN 1 ELSE counted[n]
    BY <1>1, <1>2 DEF InboxInv, InboxTyped
  <1>4. /\ chat' \in [Contacts -> Chat]
        /\ \A c \in Contacts : /\ chat'[c].ackSentAt = chat[c].ackSentAt
                               /\ chat'[c].lastInbound = IF c = From[m] THEN SentAt[m]
                                                         ELSE chat[c].lastInbound
    <2> DEFINE p == [chat[From[m]] EXCEPT !.exists = TRUE, !.lastInbound = SentAt[m], !.unread = @ + 1]
    <2>1. chat[From[m]] \in Chat
      BY <1>2 DEF InboxInv, InboxTyped
    <2>2. chat' = [chat EXCEPT ![From[m]] = p]
      BY <1>1
    <2>4. chat[From[m]].unread + 1 \in Nat
      BY <2>1 DEF Chat
    <2>5. p \in Chat /\ p.ackSentAt = chat[From[m]].ackSentAt /\ p.lastInbound = SentAt[m]
      BY <1>2, <2>1, <2>4 DEF Chat
    <2> HIDE DEF p
    <2>3. QED
      BY <1>2, <2>1, <2>2, <2>5 DEF InboxInv, InboxTyped
  <1>5. /\ hook' \in [Hooks -> HookState]
        /\ \A g \in Hooks : hook'[g].storing = IF g = h THEN {} ELSE hook[g].storing
    BY <1>1 DEF InboxInv, InboxTyped, HookState
  <1>6. /\ ack' \in [Inbound -> AckState]
        /\ \A n \in Inbound : n # m => ack'[n] = ack[n]
        /\ ack'[m].pc = "claim"
    BY <1>1, <1>2 DEF InboxInv, InboxTyped, AckState
  <1>7. InboxTyped'
    BY <1>1, <1>3, <1>4, <1>5, <1>6 DEF InboxInv, InboxTyped
  <1>8. Badge'
    <2>1. \A n \in Inbound : counted'[n] = 0 \/ (counted'[n] = 1 /\ n \in stored')
      BY <1>1, <1>2, <1>3 DEF InboxInv, Badge
    <2>2. \A g \in Hooks : \A n \in hook'[g].storing : n \in stored' /\ counted'[n] = 0
      <3>1. \A g \in Hooks : m \notin hook'[g].storing
        BY <1>2, <1>5 DEF InboxInv, Badge
      <3>2. \A g \in Hooks : hook'[g].storing \subseteq Inbound
        BY <1>5 DEF HookState
      <3>3. QED
        BY <1>1, <1>3, <1>5, <3>1, <3>2 DEF InboxInv, Badge
    <2>3. /\ \A g \in Hooks : \A n, o \in hook'[g].storing : n = o
          /\ \A g, f \in Hooks : \A n \in Inbound :
               n \in hook'[g].storing /\ n \in hook'[f].storing => g = f
      BY <1>5 DEF InboxInv, Badge
    <2>4. restarts' = 0 => \A n \in stored' \ skipped' :
                             counted'[n] = 1 \/ \E g \in Hooks : n \in hook'[g].storing
      <3> SUFFICES ASSUME restarts = 0, NEW n \in stored \ skipped, n # m, counted[n] # 1
                   PROVE  \E g \in Hooks : n \in hook'[g].storing
        BY <1>1, <1>2, <1>3 DEF InboxInv, InboxTyped
      <3>1. PICK g \in Hooks : n \in hook[g].storing
        BY DEF InboxInv, Badge
      <3>2. g # h
        BY <1>1, <3>1 DEF InboxInv, Badge
      <3>3. QED
        BY <1>5, <3>1, <3>2
    <2>5. \A n \in skipped' : n \in stored' /\ counted'[n] = 0 /\ \A g \in Hooks : n \notin hook'[g].storing
      <3>1. m \notin skipped /\ skipped \subseteq Inbound
        BY <1>1 DEF InboxInv, InboxTyped, Badge
      <3>2. QED
        BY <1>1, <1>3, <1>5, <3>1 DEF InboxInv, Badge
    <2>6. QED
      BY <2>1, <2>2, <2>3, <2>4, <2>5 DEF Badge
  <1>9. LastKnown'
    BY <1>1, <1>2, <1>4 DEF InboxInv, LastKnown
  <1>10. ack[m].pc = "none"
    BY <1>2 DEF InboxInv, Acknowledged, Claims
  <1>11. \A n \in Inbound : (Claiming(n)' <=> Claiming(n)) /\ (Claiming(n) => ack'[n] = ack[n])
    BY <1>2, <1>6, <1>10 DEF Claiming
  <1>12. Claims'
    <2>1. \A n \in Inbound : ack'[n].pc # "none" => counted'[n] = 1
      BY <1>3, <1>6 DEF InboxInv, Acknowledged, Claims
    <2>2. \A n \in Inbound : Claiming(n)' =>
            /\ ack'[n].at \in Nat /\ ack'[n].at <= now' /\ now' <= ack'[n].at + WINDOW
            /\ chat'[From[n]].ackSentAt = ack'[n].at
      BY <1>1, <1>4, <1>11, FromIsContact DEF InboxInv, Acknowledged, Claims
    <2>3. /\ \A n, o \in Inbound : Claiming(n)' /\ Claiming(o)' /\ From[n] = From[o] => n = o
          /\ \A n \in Inbound : \A x \in acked' :
               Claiming(n)' /\ x.to = From[n] => ack'[n].at > x.at + WINDOW
      BY <1>1, <1>11 DEF InboxInv, Acknowledged, Claims
    <2>4. \A x \in acked' : now' > x.at + WINDOW \/ chat'[x.to].ackSentAt = x.at
      BY <1>1, <1>4 DEF InboxInv, InboxTyped, Acknowledgement, Acknowledged, Claims
    <2>5. QED
      BY <2>1, <2>2, <2>3, <2>4 DEF Claims, Claiming
  <1>13. AckedApart' /\ ClaimMeansAck'
    BY <1>1, <1>4, <1>11 DEF InboxInv, Acknowledged, AckedApart, ClaimMeansAck, Claiming
  <1>14. QED
    BY <1>7, <1>8, <1>9, <1>12, <1>13 DEF InboxInv, Acknowledged

\* A message whose conversation could not be written is skipped.
LEMMA ChatFailsKeepsInv ==
  ASSUME InboxInv, NEW h \in Hooks, ChatFails(h)
  PROVE  InboxInv'
  <1>1. /\ skipped' = skipped \cup hook[h].storing /\ hook' = [hook EXCEPT ![h].storing = {}]
        /\ UNCHANGED <<now, stored, counted, chat, ack, agent, acked, stray, restarts>>
    BY DEF ChatFails
  <1>2. /\ hook' \in [Hooks -> HookState] /\ hook[h].storing \subseteq Inbound
        /\ \A g \in Hooks : hook'[g].storing = IF g = h THEN {} ELSE hook[g].storing
    BY <1>1 DEF InboxInv, InboxTyped, HookState
  <1>3. InboxTyped'
    BY <1>1, <1>2 DEF InboxInv, InboxTyped
  <1>4. Badge'
    <2>1. \A n \in skipped' : n \in stored /\ counted[n] = 0 /\ \A g \in Hooks : n \notin hook'[g].storing
      <3>1. ASSUME NEW n \in hook[h].storing
            PROVE  n \in stored /\ counted[n] = 0 /\ \A g \in Hooks : n \notin hook'[g].storing
        BY <1>2 DEF InboxInv, Badge
      <3>2. QED
        BY <1>1, <1>2, <3>1 DEF InboxInv, Badge
    <2>2. restarts = 0 => \A n \in stored \ skipped' :
                            counted[n] = 1 \/ \E g \in Hooks : n \in hook'[g].storing
      <3> SUFFICES ASSUME restarts = 0, NEW n \in stored \ skipped, n \notin hook[h].storing, counted[n] # 1
                   PROVE  \E g \in Hooks : n \in hook'[g].storing
        BY <1>1
      <3>1. PICK g \in Hooks : n \in hook[g].storing
        BY DEF InboxInv, Badge
      <3>2. QED
        BY <1>2, <3>1
    <2>3. QED
      BY <1>1, <1>2, <2>1, <2>2 DEF InboxInv, Badge
  <1>5. LastKnown' /\ Acknowledged'
    BY <1>1, LastFrame, AcknowledgedFrame DEF InboxInv
  <1>6. QED
    BY <1>3, <1>4, <1>5 DEF InboxInv
-----------------------------------------------------------------------------
(***************************************************************************)
(* The acknowledgement.                                                    *)
(***************************************************************************)

\* The acknowledgement of m goes on as q, and nobody else's does.
LEMMA AckTyped ==
  ASSUME InboxTyped, NEW m \in Inbound, NEW q \in AckState, ack' = [ack EXCEPT ![m] = q]
  PROVE  /\ ack' \in [Inbound -> AckState]
         /\ \A n \in Inbound : ack'[n] = IF n = m THEN q ELSE ack[n]
  BY DEF InboxTyped

LEMMA NoneIsAck == AckNone \in AckState /\ AckNone.pc = "none"
  BY DEF AckNone, AckState, Never

\* An acknowledgement that holds no claim ends.
LEMMA DropKeepsAck ==
  ASSUME InboxInv, NEW m \in Inbound, ~Claiming(m), ack' = [ack EXCEPT ![m] = AckNone],
         UNCHANGED <<now, counted, chat, acked, restarts>>
  PROVE  Acknowledged'
  <1>1. \A n \in Inbound : ack'[n] = IF n = m THEN AckNone ELSE ack[n]
    BY AckTyped, NoneIsAck DEF InboxInv
  <1>2. \A n \in Inbound : (Claiming(n)' <=> Claiming(n)) /\ (Claiming(n) => ack'[n] = ack[n])
    BY <1>1, NoneIsAck DEF Claiming
  <1>3. \A n \in Inbound : ack'[n].pc # "none" => ack[n].pc # "none"
    BY <1>1, NoneIsAck
  <1>4. Claims'
    BY <1>2, <1>3 DEF InboxInv, Acknowledged, Claims
  <1>5. AckedApart' /\ ClaimMeansAck'
    BY <1>2 DEF InboxInv, Acknowledged, AckedApart, ClaimMeansAck, Claiming
  <1>6. QED
    BY <1>4, <1>5 DEF Acknowledged

LEMMA SkipKeepsInv ==
  ASSUME InboxInv, NEW m \in Inbound, SkipAck(m)
  PROVE  InboxInv'
  <1>1. /\ ~Claiming(m) /\ ack' = [ack EXCEPT ![m] = AckNone]
        /\ UNCHANGED <<now, stored, counted, chat, hook, agent, acked, stray, skipped, restarts>>
    BY DEF SkipAck, Claiming, losses
  <1>2. InboxTyped'
    BY <1>1, AckTyped, NoneIsAck DEF InboxInv, InboxTyped
  <1>3. QED
    BY <1>1, <1>2, BadgeFrame, LastFrame, DropKeepsAck DEF InboxInv

\* While nobody claims, the acknowledgements that went out are past: the next
\* one may follow.
LEMMA UnclaimedIsOver ==
  ASSUME InboxInv, NEW c \in Contacts, Unclaimed(c)
  PROVE  /\ \A x \in acked : x.to = c => now > x.at + WINDOW
         /\ \A n \in Inbound : Claiming(n) => From[n] # c
  <1>1. chat[c].ackSentAt \in Nat \cup {-1} /\ now \in Nat /\ WINDOW \in Nat
    BY InboxAssumption DEF InboxInv, InboxTyped, Chat, Never
  <1>2. \A x \in acked : x.to = c => now > x.at + WINDOW
    <2> SUFFICES ASSUME NEW x \in acked, x.to = c, chat[c].ackSentAt = x.at
                 PROVE  now > x.at + WINDOW
      BY DEF InboxInv, Acknowledged, Claims
    <2>1. x.at \in Nat
      BY DEF InboxInv, InboxTyped, Acknowledgement
    <2>2. QED
      BY <1>1, <2>1 DEF Unclaimed, Never
  <1>3. ASSUME NEW n \in Inbound, Claiming(n), From[n] = c PROVE FALSE
    <2>1. ack[n].at \in Nat /\ now <= ack[n].at + WINDOW /\ chat[c].ackSentAt = ack[n].at
      BY <1>3 DEF InboxInv, Acknowledged, Claims
    <2>2. QED
      BY <1>1, <2>1 DEF Unclaimed, Never
  <1>4. QED
    BY <1>2, <1>3

LEMMA ClaimKeepsInv ==
  ASSUME InboxInv, NEW m \in Inbound, ClaimAck(m)
  PROVE  InboxInv'
  <1>1. ack[m].pc = "claim" /\ UNCHANGED <<now, stored, counted, hook, agent, acked, stray, skipped, restarts>>
    BY DEF ClaimAck, losses
  <1>2. CASE ack' = [ack EXCEPT ![m] = AckNone] /\ UNCHANGED chat
    <2>1. InboxTyped'
      BY <1>1, <1>2, AckTyped, NoneIsAck DEF InboxInv, InboxTyped
    <2>2. QED
      BY <1>1, <1>2, <2>1, BadgeFrame, LastFrame, DropKeepsAck DEF InboxInv, Claiming
  <1>3. ASSUME Unclaimed(From[m]), chat' = [chat EXCEPT ![From[m]].ackSentAt = now],
               ack' = [ack EXCEPT ![m] = [pc |-> "send", at |-> now]]
        PROVE  InboxInv'
    <2> DEFINE q == [pc |-> "send", at |-> now]
    <2>1. now \in Nat /\ now \in 0 .. MaxChatTime /\ WINDOW \in Nat /\ From[m] \in Contacts
      BY FromIsContact, InboxAssumption DEF InboxInv, InboxTyped
    <2>2. q \in AckState /\ q.pc = "send" /\ q.at = now
      BY <2>1 DEF AckState
    <2> HIDE DEF q
    <2>3. /\ ack' \in [Inbound -> AckState]
          /\ \A n \in Inbound : ack'[n] = IF n = m THEN q ELSE ack[n]
      BY <1>3, <2>2, AckTyped DEF InboxInv, q
    <2>4. /\ chat' \in [Contacts -> Chat]
          /\ \A c \in Contacts : /\ chat'[c].lastInbound = chat[c].lastInbound
                                 /\ chat'[c].ackSentAt = IF c = From[m] THEN now
                                                         ELSE chat[c].ackSentAt
      BY <1>3, <2>1 DEF InboxInv, InboxTyped, Chat
    <2>5. InboxTyped'
      BY <1>1, <2>3, <2>4 DEF InboxInv, InboxTyped
    <2>6. \A n \in Inbound : Claiming(n)' <=> n = m \/ Claiming(n)
      BY <2>2, <2>3 DEF Claiming
    <2>7. /\ \A x \in acked : x.to = From[m] => now > x.at + WINDOW
          /\ \A n \in Inbound : Claiming(n) => From[n] # From[m]
      BY <1>3, <2>1, UnclaimedIsOver
    <2>8. Claims'
      <3>1. \A n \in Inbound : ack'[n].pc # "none" => counted'[n] = 1
        BY <1>1, <2>3 DEF InboxInv, Acknowledged, Claims
      <3>2. ASSUME NEW n \in Inbound, Claiming(n)'
            PROVE  /\ ack'[n].at \in Nat /\ ack'[n].at <= now' /\ now' <= ack'[n].at + WINDOW
                   /\ chat'[From[n]].ackSentAt = ack'[n].at
        <4>1. CASE n = m
          BY <1>1, <2>1, <2>2, <2>3, <2>4, <4>1
        <4>2. CASE n # m
          BY <1>1, <2>3, <2>4, <2>6, <2>7, <3>2, <4>2, FromIsContact DEF InboxInv, Acknowledged, Claims
        <4>3. QED
          BY <4>1, <4>2
      <3>3. \A n, o \in Inbound : Claiming(n)' /\ Claiming(o)' /\ From[n] = From[o] => n = o
        BY <2>6, <2>7 DEF InboxInv, Acknowledged, Claims
      <3>4. \A n \in Inbound : \A x \in acked' :
              Claiming(n)' /\ x.to = From[n] => ack'[n].at > x.at + WINDOW
        BY <1>1, <2>2, <2>3, <2>6, <2>7 DEF InboxInv, Acknowledged, Claims
      <3>5. \A x \in acked' : now' > x.at + WINDOW \/ chat'[x.to].ackSentAt = x.at
        BY <1>1, <2>4, <2>7 DEF InboxInv, InboxTyped, Acknowledgement, Acknowledged, Claims
      <3>6. QED
        BY <3>1, <3>2, <3>3, <3>4, <3>5 DEF Claims, Claiming
    <2>9. AckedApart'
      BY <1>1 DEF InboxInv, Acknowledged, AckedApart
    <2>10. ClaimMeansAck'
      <3> SUFFICES ASSUME restarts = 0, NEW c \in Contacts, c # From[m]
                   PROVE  \/ chat'[c].ackSentAt = Never
                          \/ \E x \in acked' : x.to = c /\ x.at = chat'[c].ackSentAt
                          \/ \E n \in Inbound : From[n] = c /\ ack'[n].pc \in {"send", "release"}
        BY <1>1, <2>2, <2>3 DEF ClaimMeansAck
      <3>1. QED
        BY <1>1, <2>3, <2>4 DEF InboxInv, Acknowledged, ClaimMeansAck
    <2>11. Badge' /\ LastKnown'
      BY <1>1, <2>4, BadgeFrame, LastFrame DEF InboxInv
    <2>12. QED
      BY <2>5, <2>8, <2>9, <2>10, <2>11 DEF InboxInv, Acknowledged
  <1>4. QED
    BY <1>2, <1>3 DEF ClaimAck

LEMMA SendAckKeepsInv ==
  ASSUME InboxInv, NEW m \in Inbound, SendAck(m)
  PROVE  InboxInv'
  <1>1. /\ ack[m].pc = "send" /\ Claiming(m)
        /\ UNCHANGED <<now, stored, counted, chat, hook, agent, skipped, restarts>>
    BY DEF SendAck, Claiming
  <1>2. /\ From[m] \in Contacts /\ ack[m] \in AckState /\ ack[m].at \in Nat
        /\ now \in Nat /\ WINDOW \in Nat /\ chat[From[m]].ackSentAt = ack[m].at
    BY <1>1, FromIsContact, InboxAssumption
    DEF InboxInv, InboxTyped, Acknowledged, Claims
  <1>3. Badge' /\ LastKnown'
    BY <1>1, BadgeFrame, LastFrame DEF InboxInv
  <1>s. stray' \subseteq Acknowledgement
    BY <1>2 DEF SendAck, Acknowledgement, InboxInv, InboxTyped
  <1>4. ASSUME ack' = [ack EXCEPT ![m].pc = "release"], UNCHANGED acked
        PROVE  InboxInv'
    <2>1. [ack[m] EXCEPT !.pc = "release"] \in AckState
      BY <1>2 DEF AckState
    <2>2. /\ ack' \in [Inbound -> AckState]
          /\ \A n \in Inbound : /\ ack'[n].at = ack[n].at
                                /\ ack'[n].pc = IF n = m THEN "release" ELSE ack[n].pc
      BY <1>4, <2>1 DEF InboxInv, InboxTyped, AckState
    <2>3. InboxTyped'
      BY <1>1, <1>4, <1>s, <2>2 DEF InboxInv, InboxTyped
    <2>4. \A n \in Inbound : Claiming(n)' <=> Claiming(n)
      BY <1>1, <2>2 DEF Claiming
    <2>5. Claims'
      BY <1>1, <1>4, <2>2, <2>4 DEF InboxInv, Acknowledged, Claims
    <2>6. AckedApart' /\ ClaimMeansAck'
      BY <1>1, <1>4, <2>4 DEF InboxInv, Acknowledged, AckedApart, ClaimMeansAck, Claiming
    <2>7. QED
      BY <1>3, <2>3, <2>5, <2>6 DEF InboxInv, Acknowledged
  <1>5. ASSUME acked' = acked \cup {[to |-> From[m], at |-> ack[m].at, by |-> m]},
               ack' = [ack EXCEPT ![m] = AckNone]
        PROVE  InboxInv'
    <2> DEFINE a == [to |-> From[m], at |-> ack[m].at, by |-> m]
    <2>1. a \in Acknowledgement /\ a.to = From[m] /\ a.at = ack[m].at
      BY <1>2 DEF Acknowledgement
    <2>2. acked' = acked \cup {a}
      BY <1>5
    <2> HIDE DEF a
    <2>3. /\ ack' \in [Inbound -> AckState]
          /\ \A n \in Inbound : ack'[n] = IF n = m THEN AckNone ELSE ack[n]
      BY <1>5, AckTyped, NoneIsAck DEF InboxInv
    <2>4. InboxTyped'
      BY <1>1, <1>s, <2>1, <2>2, <2>3 DEF InboxInv, InboxTyped
    <2>5. \A n \in Inbound : Claiming(n)' <=> Claiming(n) /\ n # m
      BY <2>3, NoneIsAck DEF Claiming
    <2>6. \A n \in Inbound : Claiming(n) /\ From[n] = From[m] => n = m
      BY <1>1 DEF InboxInv, Acknowledged, Claims
    <2>7. Claims'
      <3>1. \A n \in Inbound : ack'[n].pc # "none" => counted'[n] = 1
        BY <1>1, <2>3, NoneIsAck DEF InboxInv, Acknowledged, Claims
      <3>2. /\ \A n \in Inbound : Claiming(n)' =>
                 /\ ack'[n].at \in Nat /\ ack'[n].at <= now' /\ now' <= ack'[n].at + WINDOW
                 /\ chat'[From[n]].ackSentAt = ack'[n].at
            /\ \A n, o \in Inbound : Claiming(n)' /\ Claiming(o)' /\ From[n] = From[o] => n = o
        BY <1>1, <2>3, <2>5 DEF InboxInv, Acknowledged, Claims
      <3>3. \A n \in Inbound : \A x \in acked' :
              Claiming(n)' /\ x.to = From[n] => ack'[n].at > x.at + WINDOW
        BY <2>1, <2>2, <2>3, <2>5, <2>6 DEF InboxInv, Acknowledged, Claims
      <3>4. \A x \in acked' : now' > x.at + WINDOW \/ chat'[x.to].ackSentAt = x.at
        BY <1>1, <1>2, <2>1, <2>2 DEF InboxInv, Acknowledged, Claims
      <3>5. QED
        BY <3>1, <3>2, <3>3, <3>4 DEF Claims, Claiming
    <2>8. AckedApart'
      <3>1. \A x \in acked : x.to = a.to => a.at - x.at > WINDOW
        BY <1>1, <1>2, <2>1 DEF InboxInv, InboxTyped, Acknowledgement, Acknowledged, Claims
      <3>2. QED
        BY <2>2, <3>1 DEF InboxInv, Acknowledged, AckedApart
    <2>9. ClaimMeansAck'
      <3> SUFFICES ASSUME restarts = 0, NEW c \in Contacts, chat[c].ackSentAt # Never
                   PROVE  \/ \E x \in acked' : x.to = c /\ x.at = chat[c].ackSentAt
                          \/ \E n \in Inbound : From[n] = c /\ ack'[n].pc \in {"send", "release"}
        BY <1>1 DEF ClaimMeansAck
      <3>1. CASE c = From[m]
        BY <1>2, <2>1, <2>2, <3>1
      <3>2. CASE c # From[m]
        BY <2>2, <2>3, <3>2 DEF InboxInv, Acknowledged, ClaimMeansAck
      <3>3. QED
        BY <3>1, <3>2
    <2>10. QED
      BY <1>3, <2>4, <2>7, <2>8, <2>9 DEF InboxInv, Acknowledged
  <1>6. QED
    BY <1>4, <1>5 DEF SendAck

LEMMA ReleaseKeepsInv ==
  ASSUME InboxInv, NEW m \in Inbound, ReleaseAck(m)
  PROVE  InboxInv'
  <1>1. /\ Claiming(m) /\ chat' = [chat EXCEPT ![From[m]].ackSentAt = Never]
        /\ ack' = [ack EXCEPT ![m] = AckNone]
        /\ UNCHANGED <<now, stored, counted, hook, agent, acked, stray, skipped, restarts>>
    BY DEF ReleaseAck, Claiming, losses
  <1>2. /\ From[m] \in Contacts /\ ack[m].at \in Nat /\ now \in Nat /\ WINDOW \in Nat
        /\ ack[m].at <= now /\ chat[From[m]].ackSentAt = ack[m].at
    BY <1>1, FromIsContact, InboxAssumption
    DEF InboxInv, InboxTyped, Acknowledged, Claims
  <1>3. /\ ack' \in [Inbound -> AckState]
        /\ \A n \in Inbound : ack'[n] = IF n = m THEN AckNone ELSE ack[n]
    BY <1>1, AckTyped, NoneIsAck DEF InboxInv
  <1>4. /\ chat' \in [Contacts -> Chat]
        /\ \A c \in Contacts : /\ chat'[c].lastInbound = chat[c].lastInbound
                               /\ chat'[c].ackSentAt = IF c = From[m] THEN Never
                                                       ELSE chat[c].ackSentAt
    BY <1>1, <1>2 DEF InboxInv, InboxTyped, Chat, Never
  <1>5. InboxTyped'
    BY <1>1, <1>3, <1>4 DEF InboxInv, InboxTyped
  <1>6. \A n \in Inbound : Claiming(n)' <=> Claiming(n) /\ n # m
    BY <1>3, NoneIsAck DEF Claiming
  <1>7. \A n \in Inbound : Claiming(n) /\ From[n] = From[m] => n = m
    BY <1>1 DEF InboxInv, Acknowledged, Claims
  <1>8. Claims'
    <2>1. \A n \in Inbound : ack'[n].pc # "none" => counted'[n] = 1
      BY <1>1, <1>3, NoneIsAck DEF InboxInv, Acknowledged, Claims
    <2>2. \A n \in Inbound : Claiming(n)' =>
            /\ ack'[n].at \in Nat /\ ack'[n].at <= now' /\ now' <= ack'[n].at + WINDOW
            /\ chat'[From[n]].ackSentAt = ack'[n].at
      BY <1>1, <1>3, <1>4, <1>6, <1>7, FromIsContact DEF InboxInv, Acknowledged, Claims
    <2>3. \A n, o \in Inbound : Claiming(n)' /\ Claiming(o)' /\ From[n] = From[o] => n = o
      BY <1>6 DEF InboxInv, Acknowledged, Claims
    <2>4. \A n \in Inbound : \A x \in acked' :
            Claiming(n)' /\ x.to = From[n] => ack'[n].at > x.at + WINDOW
      BY <1>1, <1>3, <1>6 DEF InboxInv, Acknowledged, Claims
    <2>5. \A x \in acked' : now' > x.at + WINDOW \/ chat'[x.to].ackSentAt = x.at
      <3> SUFFICES ASSUME NEW x \in acked, ~(now > x.at + WINDOW)
                   PROVE  chat'[x.to].ackSentAt = x.at
        BY <1>1
      <3>1. x.to \in Contacts /\ x.at \in Nat /\ chat[x.to].ackSentAt = x.at
        BY DEF InboxInv, InboxTyped, Acknowledgement, Acknowledged, Claims
      <3>2. x.to # From[m]
        BY <1>1, <1>2, <3>1 DEF InboxInv, Acknowledged, Claims
      <3>3. QED
        BY <1>4, <3>1, <3>2
    <2>6. QED
      BY <2>1, <2>2, <2>3, <2>4, <2>5 DEF Claims, Claiming
  <1>9. AckedApart'
    BY <1>1 DEF InboxInv, Acknowledged, AckedApart
  <1>10. ClaimMeansAck'
    <2> SUFFICES ASSUME restarts = 0, NEW c \in Contacts, c # From[m], chat[c].ackSentAt # Never
                 PROVE  \/ \E x \in acked : x.to = c /\ x.at = chat[c].ackSentAt
                        \/ \E n \in Inbound : From[n] = c /\ ack'[n].pc \in {"send", "release"}
      BY <1>1, <1>4 DEF ClaimMeansAck
    <2>1. QED
      BY <1>3 DEF InboxInv, Acknowledged, ClaimMeansAck
  <1>11. Badge' /\ LastKnown'
    BY <1>1, <1>4, BadgeFrame, LastFrame DEF InboxInv
  <1>12. QED
    BY <1>5, <1>8, <1>9, <1>10, <1>11 DEF InboxInv, Acknowledged
-----------------------------------------------------------------------------
(***************************************************************************)
(* The admins, a restart, and time.                                        *)
(***************************************************************************)

\* Sending and reading leave alone when the customer wrote and was answered.
LEMMA TalkKeepsInv ==
  ASSUME InboxInv, chat' \in [Contacts -> Chat], agent' \in [Agents -> AgentState],
         \A c \in Contacts : /\ chat'[c].lastInbound = chat[c].lastInbound
                             /\ chat'[c].ackSentAt = chat[c].ackSentAt,
         UNCHANGED <<now, stored, counted, hook, ack, acked, stray, skipped, restarts>>
  PROVE  InboxInv'
  <1>1. InboxTyped'
    BY DEF InboxInv, InboxTyped
  <1>2. QED
    BY <1>1, BadgeFrame, LastFrame, AcknowledgedFrame DEF InboxInv

LEMMA StartKeepsInv ==
  ASSUME InboxInv, NEW a \in Agents, NEW c \in Contacts, StartReply(a, c) \/ StartTemplate(a, c)
  PROVE  InboxInv'
  <1>1. PICK q \in {[pc |-> "reply", to |-> c], [pc |-> "template", to |-> c]} :
          agent' = [agent EXCEPT ![a] = q]
    BY DEF StartReply, StartTemplate, losses
  <1>2. q \in AgentState
    BY DEF AgentState
  <1>3. agent' \in [Agents -> AgentState]
    BY <1>1, <1>2 DEF InboxInv, InboxTyped
  <1>4. UNCHANGED <<now, stored, counted, chat, hook, ack, acked, stray, skipped, restarts>>
    BY DEF StartReply, StartTemplate, losses
  <1>5. QED
    BY <1>3, <1>4, TalkKeepsInv DEF InboxInv, InboxTyped

LEMMA SentKeepsInv ==
  ASSUME InboxInv, NEW a \in Agents, Sent(a)
  PROVE  InboxInv'
  <1>1. AgentIdle \in AgentState
    BY DEF AgentIdle, AgentState
  <1>2. agent' \in [Agents -> AgentState]
    BY <1>1 DEF Sent, InboxInv, InboxTyped
  <1>3. /\ chat' \in [Contacts -> Chat]
        /\ \A c \in Contacts : /\ chat'[c].lastInbound = chat[c].lastInbound
                               /\ chat'[c].ackSentAt = chat[c].ackSentAt
    <2>1. \A q \in Chat : /\ [q EXCEPT !.exists = TRUE] \in Chat
                          /\ [q EXCEPT !.exists = TRUE].lastInbound = q.lastInbound
                          /\ [q EXCEPT !.exists = TRUE].ackSentAt = q.ackSentAt
      BY DEF Chat
    <2>2. chat \in [Contacts -> Chat]
      BY DEF InboxInv, InboxTyped
    <2>3. CASE chat' = [chat EXCEPT ![agent[a].to].exists = TRUE]
      <3>1. \A c \in Contacts : chat'[c] = IF c = agent[a].to THEN [chat[c] EXCEPT !.exists = TRUE]
                                           ELSE chat[c]
        BY <2>2, <2>3
      <3>2. QED
        BY <2>1, <2>2, <2>3, <3>1
    <2>4. QED
      BY <2>2, <2>3 DEF Sent
  <1>4. UNCHANGED <<now, stored, counted, hook, ack, acked, stray, skipped, restarts>>
    BY DEF Sent, losses
  <1>5. QED
    BY <1>2, <1>3, <1>4, TalkKeepsInv

LEMMA MarkReadKeepsInv ==
  ASSUME InboxInv, NEW c \in Contacts, MarkRead(c)
  PROVE  InboxInv'
  <1>1. /\ chat' \in [Contacts -> Chat]
        /\ \A d \in Contacts : /\ chat'[d].lastInbound = chat[d].lastInbound
                               /\ chat'[d].ackSentAt = chat[d].ackSentAt
    BY DEF MarkRead, InboxInv, InboxTyped, Chat
  <1>2. UNCHANGED <<now, stored, counted, hook, ack, agent, acked, stray, skipped, restarts>>
    BY DEF MarkRead, losses
  <1>3. QED
    BY <1>1, <1>2, TalkKeepsInv DEF InboxInv, InboxTyped

LEMMA RestartKeepsInv ==
  ASSUME InboxInv, Restart
  PROVE  InboxInv'
  <1>1. /\ hook' = [h \in Hooks |-> HookIdle] /\ ack' = [m \in Inbound |-> AckNone]
        /\ agent' = [a \in Agents |-> AgentIdle] /\ restarts' = restarts + 1
        /\ UNCHANGED <<now, stored, counted, chat, acked, stray, skipped>>
    BY DEF Restart, losses
  <1>2. restarts \in Nat /\ restarts' # 0 /\ restarts' \in Nat
    BY <1>1 DEF InboxInv, InboxTyped
  <1>3. HookIdle \in HookState /\ HookIdle.storing = {} /\ AgentIdle \in AgentState
    BY DEF HookIdle, HookState, AgentIdle, AgentState
  <1>4. InboxTyped'
    BY <1>1, <1>2, <1>3, NoneIsAck DEF InboxInv, InboxTyped
  <1>5. Badge'
    BY <1>1, <1>2, <1>3 DEF InboxInv, Badge
  <1>6. LastKnown'
    BY <1>1, LastFrame DEF InboxInv
  <1>7. Acknowledged'
    BY <1>1, <1>2, NoneIsAck
    DEF InboxInv, Acknowledged, Claims, Claiming, AckedApart, ClaimMeansAck
  <1>8. QED
    BY <1>4, <1>5, <1>6, <1>7 DEF InboxInv

\* Time passes only while the calls to Meta are young, so a claim outlives its
\* call by a window.
LEMMA PassTimeKeepsInv ==
  ASSUME InboxInv, PassTime
  PROVE  InboxInv'
  <1>1. now' = now + 1 /\ UNCHANGED <<stored, counted, chat, hook, ack, agent, acked, stray, skipped, restarts>>
    BY DEF PassTime, losses
  <1>2. now \in Nat /\ WINDOW \in Nat /\ now' \in 0 .. MaxChatTime
    BY <1>1, InboxAssumption DEF PassTime, InboxInv, InboxTyped
  <1>3. InboxTyped'
    BY <1>1, <1>2 DEF InboxInv, InboxTyped
  <1>4. Badge' /\ LastKnown'
    BY <1>1, BadgeFrame, LastFrame DEF InboxInv
  <1>5. Claims'
    <2>1. \A m \in Inbound : Claiming(m) => now - ack[m].at < WINDOW
      BY DEF PassTime, Claiming
    <2>2. ASSUME NEW m \in Inbound, Claiming(m)
          PROVE  ack[m].at \in Nat /\ ack[m].at <= now' /\ now' <= ack[m].at + WINDOW
      BY <1>1, <1>2, <2>1, <2>2 DEF InboxInv, Acknowledged, Claims
    <2>3. \A x \in acked : now > x.at + WINDOW => now' > x.at + WINDOW
      BY <1>1, <1>2 DEF InboxInv, InboxTyped, Acknowledgement
    <2>4. QED
      BY <1>1, <2>2, <2>3 DEF InboxInv, Acknowledged, Claims, Claiming
  <1>6. AckedApart' /\ ClaimMeansAck'
    BY <1>1 DEF InboxInv, Acknowledged, AckedApart, ClaimMeansAck
  <1>7. QED
    BY <1>3, <1>4, <1>5, <1>6 DEF InboxInv, Acknowledged

LEMMA InboxStepInv == InboxInv /\ [InboxNext]_inboxVars => InboxInv'
  <1> SUFFICES ASSUME InboxInv, [InboxNext]_inboxVars PROVE InboxInv'
    OBVIOUS
  <1>1. ASSUME NEW h \in Hooks,
               \/ \E batch \in SUBSET Inbound : Deliver(h, batch)
               \/ \E m \in Inbound : InsertMessage(h, m)
               \/ UpdateChat(h) \/ ChatFails(h)
        PROVE  InboxInv'
    BY <1>1, DeliverKeepsInv, InsertKeepsInv, UpdateChatKeepsInv, ChatFailsKeepsInv
  <1>2. ASSUME NEW m \in Inbound, SkipAck(m) \/ ClaimAck(m) \/ SendAck(m) \/ ReleaseAck(m)
        PROVE  InboxInv'
    BY <1>2, SkipKeepsInv, ClaimKeepsInv, SendAckKeepsInv, ReleaseKeepsInv
  <1>3. ASSUME NEW a \in Agents, \/ \E c \in Contacts : StartReply(a, c) \/ StartTemplate(a, c)
                                 \/ Sent(a)
        PROVE  InboxInv'
    BY <1>3, StartKeepsInv, SentKeepsInv
  <1>4. ASSUME NEW c \in Contacts, MarkRead(c) PROVE InboxInv'
    BY <1>4, MarkReadKeepsInv
  <1>5. CASE Restart \/ PassTime
    BY <1>5, RestartKeepsInv, PassTimeKeepsInv
  <1>6. CASE UNCHANGED inboxVars
    <2>1. UNCHANGED <<now, stored, counted, chat, hook, ack, agent, acked, stray, skipped, restarts>>
      BY <1>6 DEF inboxVars, losses
    <2>2. QED
      BY <2>1, TalkKeepsInv DEF InboxInv, InboxTyped
  <1>7. QED
    BY <1>1, <1>2, <1>3, <1>4, <1>5, <1>6 DEF InboxNext

-----------------------------------------------------------------------------
(***************************************************************************)
(* Acknowledgements that went out although their send threw.               *)
(***************************************************************************)

\* Whoever claims since is later, and none of them follows within a window an
\* acknowledgement whose send went through.
Strays ==
    \A y \in stray :
        /\ y.at <= now
        /\ \A m \in Inbound : Claiming(m) /\ From[m] = y.to => y.at <= ack[m].at
        /\ \A x \in acked : x.to = y.to /\ x.at < y.at => y.at - x.at > WINDOW

LEMMA StraysStep == InboxInv /\ Strays /\ [InboxNext]_inboxVars => Strays'
  <1> SUFFICES ASSUME InboxInv, Strays, [InboxNext]_inboxVars PROVE Strays'
    OBVIOUS
  <1>0. /\ now \in Int /\ WINDOW \in Int /\ ack \in [Inbound -> AckState]
        /\ acked \subseteq Acknowledgement /\ stray \subseteq Acknowledgement
        /\ \A m \in Inbound : Claiming(m) => ack[m].at \in Nat
    BY InboxAssumption DEF InboxInv, InboxTyped, Acknowledged, Claims
  \* Nothing is sent, and who claims claims now.
  <1>1. ASSUME UNCHANGED <<acked, stray>>, now' \in Int, now' >= now,
               \A m \in Inbound : Claiming(m)' => \/ Claiming(m) /\ ack'[m].at = ack[m].at
                                                  \/ ack'[m].at = now
        PROVE  Strays'
    <2> SUFFICES ASSUME NEW y \in stray
                 PROVE  /\ y.at <= now'
                        /\ \A m \in Inbound : Claiming(m)' /\ From[m] = y.to => y.at <= ack'[m].at
                        /\ \A x \in acked : x.to = y.to /\ x.at < y.at => y.at - x.at > WINDOW
      BY <1>1 DEF Strays, Claiming
    <2>1. y.at \in Int /\ y.at <= now
      BY <1>0 DEF Acknowledgement, Strays
    <2>2. QED
      BY <2>1, <1>0, <1>1 DEF Strays
  <1>2. ASSUME NEW h \in Hooks,
               \/ \E batch \in SUBSET Inbound : Deliver(h, batch)
               \/ \E m \in Inbound : InsertMessage(h, m)
               \/ ChatFails(h)
        PROVE  Strays'
    <2>1. UNCHANGED <<acked, stray, now, ack>>
      BY <1>2 DEF Deliver, InsertMessage, ChatFails, losses
    <2>2. QED
      BY <2>1, <1>0, <1>1 DEF Claiming
  <1>3. ASSUME NEW h \in Hooks, UpdateChat(h)
        PROVE  Strays'
    <2>1. PICK m \in hook[h].storing : ack' = [ack EXCEPT ![m].pc = "claim"]
      BY <1>3 DEF UpdateChat
    <2>2. UNCHANGED <<acked, stray, now>>
      BY <1>3 DEF UpdateChat, losses
    <2>3. \A n \in Inbound : Claiming(n)' => Claiming(n) /\ ack'[n].at = ack[n].at
      BY <2>1, <1>0 DEF Claiming, AckState
    <2>4. QED
      BY <2>2, <2>3, <1>0, <1>1
  <1>4. ASSUME NEW m \in Inbound, SkipAck(m) \/ ReleaseAck(m) \/ ClaimAck(m)
        PROVE  Strays'
    <2>1. \E q \in AckState : ack' = [ack EXCEPT ![m] = q] /\ (q.pc = "none" \/ q.at = now)
      <3>1. now \in Nat
        BY InboxAssumption DEF InboxInv, InboxTyped
      <3>2. [pc |-> "send", at |-> now] \in AckState
        BY <3>1 DEF AckState
      <3>3. QED
        BY <1>4, <3>2, NoneIsAck DEF SkipAck, ReleaseAck, ClaimAck
    <2>2. UNCHANGED <<acked, stray, now>>
      BY <1>4 DEF SkipAck, ReleaseAck, ClaimAck, losses
    <2>3. \A n \in Inbound : Claiming(n)' => \/ Claiming(n) /\ ack'[n].at = ack[n].at
                                             \/ ack'[n].at = now
      BY <2>1, <1>0 DEF Claiming, AckState
    <2>4. QED
      BY <2>2, <2>3, <1>0, <1>1
  <1>5. ASSUME NEW m \in Inbound, SendAck(m)
        PROVE  Strays'
    <2>1. PICK q \in Acknowledgement : q = [to |-> From[m], at |-> ack[m].at, by |-> m]
      BY <1>0, <1>5, FromIsContact DEF SendAck, Claiming, Acknowledgement
    <2>2. /\ q.to = From[m] /\ q.at = ack[m].at /\ q.at \in Int /\ Claiming(m) /\ now' = now
          /\ \/ /\ acked' = acked \cup {q} /\ ack' = [ack EXCEPT ![m] = AckNone]
                /\ stray' = stray
             \/ /\ stray' \in {stray, stray \cup {q}} /\ ack' = [ack EXCEPT ![m].pc = "release"]
                /\ acked' = acked
      BY <2>1, <1>5 DEF SendAck, Claiming, Acknowledgement, losses
    <2>3. /\ q.at <= now
          /\ \A n \in Inbound : Claiming(n) /\ From[n] = q.to => n = m
          /\ \A x \in acked : x.to = q.to => q.at - x.at > WINDOW
      BY <2>2, <1>0 DEF InboxInv, Acknowledged, Claims, Acknowledgement
    <2>4. \A n \in Inbound : Claiming(n)' => Claiming(n) /\ ack'[n].at = ack[n].at
      BY <2>2, <1>0, NoneIsAck DEF Claiming, AckState
    <2>5. ASSUME NEW y \in stray
          PROVE  /\ y.at <= now
                 /\ \A n \in Inbound : Claiming(n)' /\ From[n] = y.to => y.at <= ack'[n].at
                 /\ \A x \in acked' : x.to = y.to /\ x.at < y.at => y.at - x.at > WINDOW
      <3>1. /\ y.at <= now
            /\ \A n \in Inbound : Claiming(n)' /\ From[n] = y.to => y.at <= ack'[n].at
        BY <2>4 DEF Strays
      <3>2. q.to = y.to => ~(q.at < y.at)
        <4>1. y.at \in Int
          BY <1>0 DEF Acknowledgement
        <4>2. From[m] = y.to => y.at <= ack[m].at
          BY <2>2 DEF Strays
        <4>3. QED
          BY <2>2, <4>1, <4>2
      <3>3. ASSUME NEW x \in acked', x.to = y.to, x.at < y.at
            PROVE  y.at - x.at > WINDOW
        <4>1. x \in acked \/ x = q
          BY <2>2
        <4>2. QED
          BY <4>1, <3>2, <3>3 DEF Strays
      <3>4. QED
        BY <3>1, <3>3
    <2>6. CASE stray' = stray
      BY <2>2, <2>5, <2>6 DEF Strays, Claiming
    <2>7. CASE stray' = stray \cup {q} /\ acked' = acked
      <3>1. /\ q.at <= now'
            /\ \A n \in Inbound : Claiming(n)' /\ From[n] = q.to => q.at <= ack'[n].at
            /\ \A x \in acked' : x.to = q.to /\ x.at < q.at => q.at - x.at > WINDOW
        BY <2>2, <2>3, <2>4, <2>7
      <3>2. QED
        BY <2>2, <2>5, <2>7, <3>1 DEF Strays, Claiming
    <2>8. QED
      BY <2>2, <2>6, <2>7
  <1>6. CASE \/ \E a \in Agents : \/ \E c \in Contacts : StartReply(a, c) \/ StartTemplate(a, c)
                                  \/ Sent(a)
             \/ \E c \in Contacts : MarkRead(c)
    <2>1. UNCHANGED <<acked, stray, now, ack>>
      BY <1>6 DEF StartReply, StartTemplate, Sent, MarkRead, losses
    <2>2. QED
      BY <2>1, <1>0, <1>1 DEF Claiming
  <1>7. CASE Restart
    <2>1. UNCHANGED <<acked, stray, now>> /\ \A m \in Inbound : ~Claiming(m)'
      BY <1>7, NoneIsAck DEF Restart, losses, Claiming
    <2>2. QED
      BY <2>1, <1>0, <1>1
  <1>8. CASE PassTime
    <2>1. UNCHANGED <<acked, stray, ack>> /\ now' = now + 1
      BY <1>8 DEF PassTime, losses
    <2>2. QED
      BY <2>1, <1>0, <1>1 DEF Claiming
  <1>9. CASE UNCHANGED inboxVars
    <2>1. UNCHANGED <<acked, stray, now, ack>>
      BY <1>9 DEF inboxVars
    <2>2. QED
      BY <2>1, <1>0, <1>1 DEF Claiming
  <1>10. QED
    BY <1>2, <1>3, <1>4, <1>5, <1>6, <1>7, <1>8, <1>9 DEF InboxNext

-----------------------------------------------------------------------------
\* A message is counted once and acknowledged once per window, and a claim
\* stands for an acknowledgement: for any messages, customers, deliveries at
\* once, restarts, failing writes and sends that throw; a stored message whose
\* conversation could not be written is never counted, and one more
\* acknowledgement may follow one that went out although its send threw
\* (storeMessage, sendAcknowledgementIfFirst).
THEOREM EveryoneHeardOnce == InboxSpec => []HeardOnce
  <1>1. InboxInv /\ Strays => HeardOnce
    <2> SUFFICES ASSUME InboxInv, Strays PROVE HeardOnce
      OBVIOUS
    <2>1. CountedOnce
      BY DEF InboxInv, InboxTyped, Badge, CountedOnce, HooksRest, HookIdle
    <2>2. AckOncePerWindow
      BY DEF InboxInv, Acknowledged, AckedApart, Strays, AckOncePerWindow
    <2>3. QED
      BY <2>1, <2>2 DEF InboxInv, Acknowledged, HeardOnce
  <1>2. InboxInit => Strays
    BY DEF InboxInit, Strays
  <1>3. QED
    BY InboxInitInv, InboxStepInv, StraysStep, <1>1, <1>2, PTL DEF InboxSpec

\* Only StartReply begins a reply, inside the window of the message that the
\* conversation shows, which was stored.
LEMMA RepliesStayInWindow ==
  ASSUME InboxInv, [InboxNext]_inboxVars, NEW a \in Agents, agent'[a].pc = "reply", agent[a].pc # "reply"
  PROVE  \E m \in stored : From[m] = agent'[a].to /\ now - SentAt[m] < WINDOW
  <1>1. agent \in [Agents -> AgentState]
    BY DEF InboxInv, InboxTyped
  <1>2. agent' # agent
    OBVIOUS
  <1>3. \/ \E b \in Agents : (\E c \in Contacts : StartReply(b, c) \/ StartTemplate(b, c)) \/ Sent(b)
        \/ Restart
    <2>1. \A h \in Hooks : \A batch \in SUBSET Inbound : Deliver(h, batch) => agent' = agent
      BY DEF Deliver
    <2>2. \A h \in Hooks : UpdateChat(h) \/ ChatFails(h) => agent' = agent
      BY DEF UpdateChat, ChatFails
    <2>3. \A h \in Hooks : \A m \in Inbound : InsertMessage(h, m) => agent' = agent
      BY DEF InsertMessage
    <2>4. \A m \in Inbound : SkipAck(m) \/ ClaimAck(m) \/ SendAck(m) \/ ReleaseAck(m) => agent' = agent
      BY DEF SkipAck, ClaimAck, SendAck, ReleaseAck
    <2>5. (\A c \in Contacts : MarkRead(c) => agent' = agent) /\ (PassTime => agent' = agent)
      BY DEF MarkRead, PassTime
    <2>6. UNCHANGED inboxVars => agent' = agent
      BY DEF inboxVars
    <2>7. QED
      BY <1>2, <2>1, <2>2, <2>3, <2>4, <2>5, <2>6 DEF InboxNext
  <1>4. AgentIdle.pc = "idle"
    BY DEF AgentIdle
  <1>5. PICK b \in Agents, c \in Contacts : StartReply(b, c) \/ StartTemplate(b, c)
    BY <1>1, <1>3, <1>4 DEF Sent, Restart
  <1>6. StartReply(b, c) /\ b = a
    BY <1>1, <1>5 DEF StartReply, StartTemplate
  <1>7. agent'[a].to = c /\ chat[c].lastInbound # Never /\ now - chat[c].lastInbound < WINDOW
    BY <1>1, <1>6 DEF StartReply, WindowOpen
  <1>8. QED
    BY <1>7 DEF InboxInv, LastKnown

\* A free-form message starts only while the customer's window is open,
\* whatever arrived late or out of order (replyTo, isWindowOpen).
THEOREM RepliesAlwaysInWindow == InboxSpec => RepliesInWindow
  <1>1. InboxInv /\ [InboxNext]_inboxVars =>
          [\A a \in Agents : agent'[a].pc = "reply" /\ agent[a].pc # "reply" =>
             \E m \in stored : From[m] = agent'[a].to /\ now - SentAt[m] < WINDOW]_inboxVars
    BY RepliesStayInWindow
  <1>2. QED
    BY InboxInitInv, InboxStepInv, <1>1, PTL DEF InboxSpec, RepliesInWindow

-----------------------------------------------------------------------------
(***************************************************************************)
(* Postal events: the inductive invariant.  A worker counts what others     *)
(* changed on its order since it took it up: while the count is the one it *)
(* had at its check, the order is as it was checked, and a write of the    *)
(* webhook that was refused has been overtaken (EventFits).                *)
(***************************************************************************)

\* Working on an order.
Busy == {"stamp", "apply", "write", "reread"}
Entry == [order: Parcels, doc: Picture]
WorkerState ==
    [pc: {"idle", "share", "track", "save"} \cup Busy, job: {"hook", "sync", "bulk", "revert"},
     order: Parcels \cup {NoParcel}, doc: Picture, at: Times, milestone: Milestone,
     todo: SUBSET Entry, read: Status, seen: Nat, retried: BOOLEAN]

\* What a worker may think of its order, which looks like d and was changed n
\* times by others since the worker took it up.
EventFits(q, d, n) ==
    /\ q.order \in Parcels
    /\ q.pc = "write" =>
         /\ Goal(q) \in {"DISPATCHED", "DELIVERED"} /\ q.read \in Open /\ n >= q.seen
         /\ n = q.seen => d.status = q.read /\ ~d.pending /\ ~d.deleted
    /\ q.job = "hook" =>
         /\ q.todo = {}
         /\ q.retried \/ q.pc = "reread" => n >= 1
         /\ q.pc = "write" /\ q.retried => q.seen >= 1

\* No scan says both that the parcel is booked and that it is still to be
\* handed over.
PlainScans == \A s \in Scans : "prebooking" \in s.words => milestoneOf(s.words, s.reason) # "BOOKED"
Handed(S) == \E s \in S : s.words # {} /\ "prebooking" \notin s.words

MayHold(q, n, p, S) ==
    /\ q.pc \in Busy => EventFits(q, p[q.order], n)
    /\ q.pc \in {"idle", "save"} => q.todo = {}
    /\ q.pc = "save" => q.order \in Parcels
    /\ q.pc \in {"share", "track"} => q.job = "sync"
    /\ PlainScans /\ q.milestone = "BOOKED" => Handed(S)

\* A worker that is alone knows which of its orders were reported returned.
Fresh(q, p) ==
    /\ q.pc \in Busy => p[q.order].returned = q.doc.returned
    /\ \A t \in q.todo : p[t.order].returned = t.doc.returned /\ (q.pc \in Busy => t.order # q.order)
    /\ \A t, u \in q.todo : t.order = u.order => t = u

Single ==
    /\ \A v, w \in Workers : worker[v].pc # "idle" /\ worker[w].pc # "idle" => v = w
    /\ \A w \in Workers : Fresh(worker[w], parcel)

\* Apart from q's own, no order was reported returned between p and r.
OthersAsBefore(q, p, r) == \A o \in Parcels : o # q.order => r[o].returned = p[o].returned

\* What the moves ask of an order is the same in d and e.
SameToMove(d, e) == e.status = d.status /\ e.pending = d.pending /\ e.deleted = d.deleted

IsNewest(m, T) == m \in {0} \cup T /\ \A t \in T : t <= m

PostalTyped ==
    /\ parcel \in [Parcels -> ParcelDoc] /\ happened \subseteq Scans
    /\ worker \in [Workers -> WorkerState] /\ overtaken \in [Workers -> Nat]
    /\ stamped \in [Parcels -> SUBSET Times] /\ alone \in BOOLEAN

PostalInv ==
    /\ PostalTyped
    /\ \A w \in Workers : MayHold(worker[w], overtaken[w], parcel, happened)
    /\ alone => Single
    /\ \A o \in Parcels : IsNewest(parcel[o].latest, stamped[o])
-----------------------------------------------------------------------------
(***************************************************************************)
(* The latest of a finite set of times.                                    *)
(***************************************************************************)
LEMMA MaxIsMax ==
  ASSUME NEW S, S \subseteq Int, NEW m \in S, \A y \in S : y <= m
  PROVE  Max(S) = m
  <1>1. Max(S) \in S /\ \A y \in S : Max(S) >= y
    BY DEF Max
  <1>2. Max(S) \in Int /\ m \in Int /\ Max(S) <= m /\ Max(S) >= m
    BY <1>1
  <1>3. QED
    BY <1>2

LEMMA HasMax ==
  ASSUME NEW S, S \subseteq Int, IsFiniteSet(S), S # {}
  PROVE  Max(S) \in S
  BY HasGreatest, MaxIsMax

LEMMA TimesAreNumbers ==
  ASSUME NEW S, S \subseteq Scans
  PROVE  /\ {s.at : s \in S} \subseteq Times /\ Times \subseteq Nat /\ IsFiniteSet({s.at : s \in S})
         /\ S # {} => Max({s.at : s \in S}) \in Times
  <1>1. Times \subseteq Nat /\ {s.at : s \in S} \subseteq Times
    BY PostalAssumption DEF Times, ScanSet
  <1>2. IsFiniteSet({s.at : s \in S})
    <2>1. IsFiniteSet(S)
      BY PostalAssumption, FS_Subset
    <2> DEFINE T == {s.at : s \in S}
               f == [s \in S |-> s.at]
    <2>2. f \in Surjection(S, T)
      BY DEF Surjection
    <2> HIDE DEF f, T
    <2>3. IsFiniteSet(T)
      BY <2>1, <2>2, FS_Surjection
    <2>4. T = {s.at : s \in S}
      BY DEF T
    <2>5. QED
      BY <2>3, <2>4
  <1> DEFINE T == {s.at : s \in S}
  <1>3. S # {} => T # {}
    OBVIOUS
  <1>4. T \subseteq Int
    <2>1. Times \subseteq Int
      BY <1>1
    <2>2. T \subseteq Times
      BY <1>1
    <2> HIDE DEF T
    <2>3. QED
      BY <2>1, <2>2
  <1>5. IsFiniteSet(T) /\ T \subseteq Times
    BY <1>1, <1>2
  <1> HIDE DEF T
  <1>6. T # {} => Max(T) \in T
    BY <1>4, <1>5, HasMax
  <1>7. S # {} => Max(T) \in Times
    BY <1>3, <1>5, <1>6
  <1>8. T = {s.at : s \in S}
    BY DEF T
  <1>9. QED
    BY <1>1, <1>2, <1>7, <1>8

\* The time a tracking answer is stamped with: 0 if it has no scan.
LEMMA AnswerTime ==
  ASSUME NEW S, S \subseteq Scans
  PROVE  LET m == Max({0} \cup {s.at : s \in S})
         IN  m \in Times /\ (m # 0 => m \in {s.at : s \in S})
  <1> DEFINE T == {s.at : s \in S}
             U == {0} \cup T
  <1>1. T \subseteq Times /\ Times \subseteq Nat /\ IsFiniteSet(T)
    BY TimesAreNumbers
  <1> HIDE DEF T
  <1>2. U \subseteq Int
    BY <1>1
  <1>3. IsFiniteSet(U)
    BY <1>1, FS_AddElement
  <1>4. U # {} /\ U \subseteq Times
    BY <1>1 DEF Times
  <1>5. Max(U) \in U
    BY <1>2, <1>3, <1>4, HasMax
  <1>6. Max(U) \in Times /\ (Max(U) # 0 => Max(U) \in T)
    BY <1>4, <1>5
  <1>7. QED
    BY <1>6 DEF T

-----------------------------------------------------------------------------
(***************************************************************************)
(* What every step leaves true.                                            *)
(***************************************************************************)
\* The order changed, and whoever did not change it counts it.
LEMMA FitsOn ==
  ASSUME NEW q \in WorkerState, NEW d, NEW e, NEW n \in Nat, NEW k \in Nat, EventFits(q, d, n),
         k >= n, SameToMove(d, e) \/ k >= n + 1
  PROVE  EventFits(q, e, k)
  <1>0. q.seen \in Nat
    BY DEF WorkerState
  <1>1. q.order \in Parcels
    BY DEF EventFits
  <1>2. ASSUME q.pc = "write"
        PROVE  /\ Goal(q) \in {"DISPATCHED", "DELIVERED"} /\ q.read \in Open /\ k >= q.seen
               /\ k = q.seen => e.status = q.read /\ ~e.pending /\ ~e.deleted
    <2>1. /\ Goal(q) \in {"DISPATCHED", "DELIVERED"} /\ q.read \in Open /\ n >= q.seen
          /\ n = q.seen => d.status = q.read /\ ~d.pending /\ ~d.deleted
      BY <1>2 DEF EventFits
    <2>2. k = q.seen => n = q.seen /\ SameToMove(d, e)
      BY <1>0, <2>1
    <2>3. k >= q.seen
      BY <1>0, <2>1
    <2>4. QED
      BY <2>1, <2>2, <2>3 DEF SameToMove
  <1>3. ASSUME q.job = "hook"
        PROVE  /\ q.todo = {} /\ (q.retried \/ q.pc = "reread" => k >= 1)
               /\ q.pc = "write" /\ q.retried => q.seen >= 1
    <2>1. /\ q.todo = {} /\ (q.retried \/ q.pc = "reread" => n >= 1)
          /\ q.pc = "write" /\ q.retried => q.seen >= 1
      BY <1>3 DEF EventFits
    <2>2. n >= 1 => k >= 1
      OBVIOUS
    <2>3. QED
      BY <2>1, <2>2
  <1>4. QED
    BY <1>1, <1>2, <1>3 DEF EventFits

LEMMA HoldsOn ==
  ASSUME NEW q \in WorkerState, NEW p, NEW r, NEW n \in Nat, NEW k \in Nat, NEW S, NEW T,
         S \subseteq T, MayHold(q, n, p, S), k >= n,
         q.order \in Parcels => SameToMove(p[q.order], r[q.order]) \/ k >= n + 1
  PROVE  MayHold(q, k, r, T)
  <1>1. q.pc \in Busy => EventFits(q, r[q.order], k)
    <2> SUFFICES ASSUME q.pc \in Busy PROVE EventFits(q, r[q.order], k)
      OBVIOUS
    <2>1. EventFits(q, p[q.order], n) /\ q.order \in Parcels
      BY DEF MayHold, EventFits
    <2>2. QED
      BY <2>1, FitsOn
  <1>2. PlainScans /\ q.milestone = "BOOKED" => Handed(T)
    BY DEF MayHold, Handed
  <1>3. QED
    BY <1>1, <1>2 DEF MayHold

\* One worker, w, goes on, or none does, and every other worker counts a change
\* to its order.
LEMMA StepKeepsInv ==
  ASSUME PostalInv, NEW w,
         parcel' \in [Parcels -> ParcelDoc],
         overtaken' \in [Workers -> Nat],
         \A v \in Workers : v # w => overtaken'[v] >= overtaken[v],
         \A v \in Workers : v # w /\ worker[v].order \in Parcels =>
             \/ SameToMove(parcel[worker[v].order], parcel'[worker[v].order])
             \/ overtaken'[v] >= overtaken[v] + 1,
         worker' \in [Workers -> WorkerState], \A v \in Workers : v # w => worker'[v] = worker[v],
         w \in Workers => MayHold(worker'[w], overtaken'[w], parcel', happened'),
         happened \subseteq happened', happened' \subseteq Scans, alone' = alone, alone => Single',
         stamped' \in [Parcels -> SUBSET Times],
         \A o \in Parcels : IsNewest(parcel'[o].latest, stamped'[o])
  PROVE  PostalInv'
  <1>1. PostalTyped'
    BY DEF PostalInv, PostalTyped
  <1>2. ASSUME NEW v \in Workers
        PROVE  MayHold(worker'[v], overtaken'[v], parcel', happened')
    <2>1. CASE v = w
      BY <2>1
    <2>2. CASE v # w
      <3>1. /\ worker[v] \in WorkerState /\ overtaken[v] \in Nat /\ overtaken'[v] \in Nat
            /\ MayHold(worker[v], overtaken[v], parcel, happened)
        BY DEF PostalInv, PostalTyped
      <3>2. MayHold(worker[v], overtaken'[v], parcel', happened')
        <4>1. overtaken'[v] >= overtaken[v]
          BY <2>2
        <4>2. worker[v].order \in Parcels =>
                  \/ SameToMove(parcel[worker[v].order], parcel'[worker[v].order])
                  \/ overtaken'[v] >= overtaken[v] + 1
          BY <2>2
        <4>3. QED
          BY <3>1, <4>1, <4>2, HoldsOn
      <3>3. QED
        BY <2>2, <3>2
    <2>3. QED
      BY <2>1, <2>2
  <1>3. QED
    BY <1>1, <1>2 DEF PostalInv

\* While workers come one at a time, w goes on as r and may finish; who is
\* elsewhere keeps what it knows.
LEMMA SingleStays ==
  ASSUME PostalInv, alone, NEW w \in Workers, NEW r \in WorkerState,
         worker' = [worker EXCEPT ![w] = r],
         worker[w].pc # "idle" \/ \A v \in Workers : worker[v].pc = "idle",
         Fresh(r, parcel')
  PROVE  Single'
  <1>1. worker' \in [Workers -> WorkerState] /\ \A v \in Workers : worker'[v] = IF v = w THEN r ELSE worker[v]
    BY DEF PostalInv, PostalTyped
  <1>2. \A v \in Workers : v # w => worker[v].pc = "idle"
    BY DEF PostalInv, Single
  <1>3. \A v, u \in Workers : worker'[v].pc # "idle" /\ worker'[u].pc # "idle" => v = u
    BY <1>1, <1>2
  <1>4. ASSUME NEW v \in Workers PROVE Fresh(worker'[v], parcel')
    <2>1. CASE v = w
      BY <1>1, <2>1
    <2>2. CASE v # w
      <3>1. worker[v].pc = "idle" /\ worker[v].todo = {} /\ worker'[v] = worker[v]
        BY <1>1, <1>2, <2>2 DEF PostalInv, MayHold
      <3>2. QED
        BY <3>1 DEF Fresh, Busy
    <2>3. QED
      BY <2>1, <2>2
  <1>5. QED
    BY <1>3, <1>4 DEF Single

\* A worker goes on as r, and nothing else happens.
LEMMA GoesOn ==
  ASSUME PostalInv, NEW w \in Workers, NEW r \in WorkerState, NEW n \in Nat,
         worker' = [worker EXCEPT ![w] = r], overtaken' = [overtaken EXCEPT ![w] = n],
         UNCHANGED <<parcel, happened, stamped, alone>>,
         MayHold(r, n, parcel, happened),
         alone => /\ worker[w].pc # "idle" \/ \A v \in Workers : worker[v].pc = "idle"
                  /\ Fresh(r, parcel)
  PROVE  PostalInv'
  <1>1. /\ worker' \in [Workers -> WorkerState] /\ worker'[w] = r
        /\ overtaken' \in [Workers -> Nat] /\ overtaken'[w] = n
        /\ \A v \in Workers : v # w => worker'[v] = worker[v] /\ overtaken'[v] = overtaken[v]
    BY DEF PostalInv, PostalTyped
  <1>2. alone => Single'
    BY SingleStays
  <1>3. /\ parcel \in [Parcels -> ParcelDoc] /\ happened \subseteq Scans
        /\ stamped \in [Parcels -> SUBSET Times]
        /\ \A o \in Parcels : IsNewest(parcel[o].latest, stamped[o])
        /\ overtaken \in [Workers -> Nat]
    BY DEF PostalInv, PostalTyped
  <1>4. \A v \in Workers : v # w => overtaken'[v] >= overtaken[v]
    BY <1>1, <1>3
  <1>5. \A o \in Parcels : SameToMove(parcel[o], parcel'[o])
    BY DEF SameToMove
  <1>6. QED
    BY <1>1, <1>2, <1>3, <1>4, <1>5, StepKeepsInv

LEMMA RestHolds ==
  ASSUME NEW n, NEW p, NEW S
  PROVE  Resting \in WorkerState /\ Resting.pc = "idle" /\ MayHold(Resting, n, p, S) /\ Fresh(Resting, p)
  <1>1. Resting \in WorkerState
    BY DEF Resting, WorkerState, Selected, Picture, FreshParcel, Status, Open, ON_SHELF, Times, Milestone
  <1>2. Resting.pc = "idle" /\ Resting.todo = {} /\ Resting.milestone = "NONE"
    BY DEF Resting
  <1>3. QED
    BY <1>1, <1>2 DEF MayHold, Fresh, Busy

\* A worker that is done with its order rests, or a sync takes up the next one,
\* whatever happened to the orders since, to p.
LEMMA FinishedGoesOn ==
  ASSUME PostalInv, NEW w \in Workers, worker[w].pc \in Busy, Finished(w),
         NEW n \in Nat, NEW p \in [Parcels -> ParcelDoc]
  PROVE  \E r \in WorkerState :
            /\ worker' = [worker EXCEPT ![w] = r] /\ MayHold(r, n, p, happened)
            /\ alone /\ OthersAsBefore(worker[w], parcel, p) => Fresh(r, p)
  <1> DEFINE q == worker[w]
  <1>0. /\ q \in WorkerState /\ MayHold(q, overtaken[w], parcel, happened)
        /\ alone => Fresh(q, parcel)
    BY DEF PostalInv, PostalTyped, Single
  <1>1. CASE q.todo = {} /\ worker' = [worker EXCEPT ![w] = Resting]
    BY <1>1, RestHolds
  <1>2. ASSUME NEW t \in q.todo, TakesUp(w, q, t)
        PROVE  \E r \in WorkerState :
            /\ worker' = [worker EXCEPT ![w] = r] /\ MayHold(r, n, p, happened)
            /\ alone /\ OthersAsBefore(worker[w], parcel, p) => Fresh(r, p)
    <2> DEFINE r == [q EXCEPT !.pc = IF q.at = 0 THEN "apply" ELSE "stamp",
                              !.order = t.order, !.doc = t.doc, !.todo = q.todo \ {t}]
    <2>1. t \in Entry /\ t.order \in Parcels /\ t.doc \in Picture /\ q.todo \subseteq Entry
      BY <1>0, <1>2 DEF WorkerState, Entry
    <2>2. /\ r \in WorkerState /\ r.pc \in {"apply", "stamp"} /\ r.order = t.order /\ r.doc = t.doc
          /\ r.todo = q.todo \ {t} /\ r.job = q.job /\ r.milestone = q.milestone
      BY <1>0, <2>1 DEF WorkerState, Busy
    <2>3. worker' = [worker EXCEPT ![w] = r]
      BY <1>2 DEF TakesUp
    <2> HIDE DEF r
    <2>4. q.job # "hook"
      BY <1>0, <1>2 DEF MayHold, EventFits
    <2>5. \A u \in q.todo : u.order \in Parcels
      BY <2>1 DEF Entry
    <2>6. EventFits(r, p[r.order], n)
      BY <2>1, <2>2, <2>4 DEF EventFits
    <2>7. MayHold(r, n, p, happened)
      BY <1>0, <2>2, <2>6 DEF MayHold
    <2>8. ASSUME alone, OthersAsBefore(q, parcel, p)
          PROVE  Fresh(r, p)
      <3>1. /\ \A u \in q.todo : parcel[u.order].returned = u.doc.returned /\ u.order # q.order
            /\ \A u, v \in q.todo : u.order = v.order => u = v
        BY <1>0, <2>8 DEF Fresh
      <3>2. \A u \in q.todo : p[u.order].returned = u.doc.returned
        BY <2>5, <2>8, <3>1 DEF OthersAsBefore
      <3>3. QED
        BY <1>2, <2>2, <3>1, <3>2 DEF Fresh
    <2>9. QED
      BY <2>2, <2>3, <2>7, <2>8
  <1>3. QED
    BY <1>1, <1>2 DEF Finished

\* A worker lets go of its order, which stays as it is.
LEMMA LetGoKeeps ==
  ASSUME PostalInv, NEW w \in Workers, worker[w].pc \in Busy, LetGo(w),
         UNCHANGED <<parcel, happened, stamped, alone>>
  PROVE  PostalInv'
  <1>1. Finished(w) /\ overtaken' = [overtaken EXCEPT ![w] = 0] /\ 0 \in Nat
    BY DEF LetGo
  <1>2. parcel \in [Parcels -> ParcelDoc] /\ OthersAsBefore(worker[w], parcel, parcel)
    BY DEF PostalInv, PostalTyped, OthersAsBefore
  <1>3. PICK r \in WorkerState :
            /\ worker' = [worker EXCEPT ![w] = r] /\ MayHold(r, 0, parcel, happened)
            /\ alone => Fresh(r, parcel)
    BY <1>1, <1>2, FinishedGoesOn
  <1>4. worker[w].pc # "idle"
    BY DEF Busy
  <1>5. QED
    BY <1>1, <1>3, <1>4, GoesOn

-----------------------------------------------------------------------------
(***************************************************************************)
(* The rules that read scans.                                              *)
(***************************************************************************)
LEMMA EventHandedOver ==
  ASSUME NEW s \in happened, happened \subseteq Scans
  PROVE  /\ EventMilestone(s) \in Milestone
         /\ PlainScans /\ EventMilestone(s) = "BOOKED" => Handed(happened)
  <1>1. milestoneOf(s.words, s.reason) \in Milestone
    BY DEF milestoneOf, Milestone
  <1>2. EventMilestone(s) \in Milestone
    BY <1>1 DEF EventMilestone, Milestone
  <1>3. ASSUME PlainScans, EventMilestone(s) = "BOOKED"
        PROVE  s.words # {} /\ "prebooking" \notin s.words
    <2>1. CASE milestoneOf(s.words, s.reason) = "BOOKED"
      <3>1. "booked" \in s.words
        BY <2>1 DEF milestoneOf
      <3>2. QED
        BY <1>3, <2>1, <3>1 DEF PlainScans
    <2>2. CASE milestoneOf(s.words, s.reason) # "BOOKED"
      <3>1. isMovementScan(s.words)
        BY <1>3, <2>2 DEF EventMilestone
      <3>2. QED
        BY <3>1 DEF isMovementScan
    <2>3. QED
      BY <2>1, <2>2
  <1>4. QED
    BY <1>2, <1>3 DEF Handed

LEMMA AnswerHandedOver ==
  ASSUME NEW S, NEW c
  PROVE  milestoneFor(S, c) \in Milestone /\ (milestoneFor(S, c) = "BOOKED" => Handed(S))
  <1>1. milestoneFor(S, c) \in Milestone
    BY DEF milestoneFor, Milestone
  <1>2. ASSUME milestoneFor(S, c) = "BOOKED" PROVE Handed(S)
    <2>1. PICK s \in S : isMovementScan(s.words)
      BY <1>2 DEF milestoneFor
    <2>2. s.words # {} /\ "prebooking" \notin s.words
      BY <2>1 DEF isMovementScan
    <2>3. QED
      BY <2>2 DEF Handed
  <1>3. QED
    BY <1>1, <1>2

-----------------------------------------------------------------------------
(***************************************************************************)
(* Every action keeps the invariant.                                       *)
(***************************************************************************)
LEMMA PostalStarts == PostalInit => PostalInv
  <1> SUFFICES ASSUME PostalInit PROVE PostalInv
    OBVIOUS
  <1>1. PICK o \in Parcels, s \in ON_SHELF, p \in {"none", "pending", "approved"} :
          parcel = [[q \in Parcels |-> FreshParcel] EXCEPT
                       ![o] = [FreshParcel EXCEPT !.status = s, !.carries = TRUE,
                                  !.pending = (p = "pending"), !.approved = (p = "approved")]]
    BY DEF PostalInit
  <1>2. \A q \in Parcels : parcel[q] \in ParcelDoc /\ parcel[q].latest = 0
    BY <1>1 DEF FreshParcel, ParcelDoc, Status, Open, ON_SHELF, Times
  <1>3. parcel \in [Parcels -> ParcelDoc]
    BY <1>1, <1>2
  <1>4. /\ happened \subseteq Scans /\ stamped \in [Parcels -> SUBSET Times]
        /\ \A q \in Parcels : stamped[q] = {}
    BY DEF PostalInit
  <1>b. overtaken \in [Workers -> Nat]
    <2>1. overtaken = [w \in Workers |-> 0]
      BY Zenon DEF PostalInit
    <2>2. QED
      BY <2>1
  <1>a. alone \in BOOLEAN
    BY PostalAssumption, Zenon DEF PostalInit
  <1>5. /\ worker \in [Workers -> WorkerState]
        /\ \A w \in Workers : worker[w] = Resting
    BY RestHolds DEF PostalInit
  <1>6. \A w \in Workers : MayHold(worker[w], overtaken[w], parcel, happened)
    BY <1>5, RestHolds
  <1>7. Single
    BY <1>5, RestHolds DEF Single
  <1>8. \A q \in Parcels : IsNewest(parcel[q].latest, stamped[q])
    BY <1>2, <1>4 DEF IsNewest
  <1>9. QED
    BY <1>3, <1>4, <1>a, <1>b, <1>5, <1>6, <1>7, <1>8 DEF PostalInv, PostalTyped

LEMMA ScanKeeps == ASSUME PostalInv, Scan PROVE PostalInv'
  <1>1. happened \subseteq happened' /\ happened' \subseteq Scans
    BY DEF Scan, PostalInv, PostalTyped
  <1>2. Single => Single'
    BY DEF Scan, Single
  <1>3. NoParcel \notin Workers
    BY PostalAssumption
  <1>4. /\ UNCHANGED <<parcel, worker, overtaken, stamped, alone>>
        /\ parcel \in [Parcels -> ParcelDoc] /\ overtaken \in [Workers -> Nat]
        /\ worker \in [Workers -> WorkerState] /\ stamped \in [Parcels -> SUBSET Times]
        /\ \A o \in Parcels : IsNewest(parcel[o].latest, stamped[o])
        /\ alone => Single
    BY DEF Scan, PostalInv, PostalTyped
  <1>5. /\ \A v \in Workers : overtaken'[v] >= overtaken[v]
        /\ \A o \in Parcels : SameToMove(parcel[o], parcel'[o])
    BY <1>4 DEF SameToMove
  <1>6. QED
    BY <1>1, <1>2, <1>3, <1>4, <1>5, StepKeepsInv

LEMMA FreshStays ==
  ASSUME NEW q \in WorkerState, NEW n, NEW p, NEW r, NEW S, MayHold(q, n, p, S), Fresh(q, p),
         \A o \in Parcels : r[o].returned = p[o].returned
  PROVE  Fresh(q, r)
  <1>1. q.pc \in Busy => q.order \in Parcels
    BY DEF MayHold, EventFits
  <1>2. \A t \in q.todo : t.order \in Parcels
    BY DEF WorkerState, Entry
  <1>3. QED
    BY <1>1, <1>2 DEF Fresh

LEMMA EditsKeep ==
  ASSUME NEW d \in ParcelDoc, NEW e \in Edited(d)
  PROVE  e \in ParcelDoc /\ e.latest = d.latest /\ e.returned = d.returned
  <1>1. ASSUME NEW m \in BoardMoves,
               e = [d EXCEPT !.status = m[2], !.carries = d.carries /\ m # <<"PACKED", "CANCELLED">>]
        PROVE  e \in ParcelDoc /\ e.latest = d.latest /\ e.returned = d.returned
    <2>1. m[2] \in Status
      BY DEF BoardMoves, Status, Open, ON_SHELF
    <2>2. QED
      BY <1>1, <2>1 DEF ParcelDoc
  <1>2. ASSUME NEW s \in {"PACKED", "DISPATCHED"}, e = [d EXCEPT !.status = s, !.carries = TRUE]
        PROVE  e \in ParcelDoc /\ e.latest = d.latest /\ e.returned = d.returned
    BY <1>2 DEF ParcelDoc, Status, Open, ON_SHELF
  <1>3. CASE e = [d EXCEPT !.deleted = ~d.deleted,
                           !.carries = d.carries /\ (d.deleted \/ d.status # "PACKED")]
    BY <1>3 DEF ParcelDoc
  <1>4. CASE \/ e = [d EXCEPT !.pending = FALSE, !.approved = TRUE]
             \/ e = [d EXCEPT !.pending = FALSE, !.status = "CANCELLED"]
    BY <1>4 DEF ParcelDoc, Status
  <1>5. QED
    BY <1>1, <1>2, <1>3, <1>4 DEF Edited

\* What a worker knows, and that nobody touched it, when it goes on.
LEMMA InHand ==
  ASSUME PostalInv, NEW w \in Workers
  PROVE  /\ worker \in [Workers -> WorkerState] /\ worker[w] \in WorkerState
         /\ overtaken[w] \in Nat /\ overtaken = [overtaken EXCEPT ![w] = overtaken[w]]
         /\ MayHold(worker[w], overtaken[w], parcel, happened)
         /\ alone => Fresh(worker[w], parcel)
  BY DEF PostalInv, PostalTyped, Single

LEMMA SelectedIsPicture ==
  ASSUME PostalInv, NEW o \in Parcels
  PROVE  Selected(parcel[o]) \in Picture
  BY DEF PostalInv, PostalTyped, Selected, Picture, ParcelDoc

\* Somebody, w or people, changes one order to d, and w goes on as r.
LEMMA ChangeKeeps ==
  ASSUME PostalInv, NEW w, NEW o \in Parcels, NEW d \in ParcelDoc, Changes(w, o, d),
         d.latest = parcel[o].latest, d.returned = parcel[o].returned,
         UNCHANGED <<happened, stamped, alone>>,
         \/ w \notin Workers /\ UNCHANGED worker
         \/ /\ w \in Workers /\ worker[w].pc # "idle"
            /\ \E r \in WorkerState :
                  /\ worker' = [worker EXCEPT ![w] = r] /\ MayHold(r, 0, parcel', happened)
                  /\ alone => Fresh(r, parcel')
  PROVE  PostalInv'
  <1>1. /\ parcel \in [Parcels -> ParcelDoc] /\ overtaken \in [Workers -> Nat]
        /\ worker \in [Workers -> WorkerState] /\ stamped \in [Parcels -> SUBSET Times]
        /\ happened \subseteq Scans /\ (alone => Single)
        /\ \A q \in Parcels : IsNewest(parcel[q].latest, stamped[q])
    BY DEF PostalInv, PostalTyped
  <1>2. /\ parcel' \in [Parcels -> ParcelDoc]
        /\ \A q \in Parcels : parcel'[q] = IF q = o THEN d ELSE parcel[q]
    BY <1>1 DEF Changes
  <1>3. \A q \in Parcels : /\ IsNewest(parcel'[q].latest, stamped'[q])
                            /\ parcel'[q].returned = parcel[q].returned
    BY <1>1, <1>2
  <1>4. /\ overtaken' \in [Workers -> Nat]
        /\ w \in Workers => overtaken'[w] = 0
        /\ \A v \in Workers : v # w => overtaken'[v] >= overtaken[v]
        /\ \A v \in Workers : v # w /\ worker[v].order = o => overtaken'[v] >= overtaken[v] + 1
    BY <1>1 DEF Changes
  <1>5. \A v \in Workers : v # w /\ worker[v].order \in Parcels =>
          \/ SameToMove(parcel[worker[v].order], parcel'[worker[v].order])
          \/ overtaken'[v] >= overtaken[v] + 1
    BY <1>2, <1>4 DEF SameToMove
  <1>6. CASE w \notin Workers /\ UNCHANGED worker
    <2>1. ASSUME alone PROVE Single'
      <3>1. \A v \in Workers : Fresh(worker[v], parcel')
        BY <1>1, <1>3, <2>1, FreshStays DEF PostalInv, Single
      <3>2. QED
        BY <1>1, <1>6, <2>1, <3>1 DEF Single
    <2>2. QED
      BY <1>1, <1>2, <1>3, <1>4, <1>5, <1>6, <2>1, StepKeepsInv
  <1>7. ASSUME w \in Workers, worker[w].pc # "idle", NEW r \in WorkerState,
               worker' = [worker EXCEPT ![w] = r], MayHold(r, 0, parcel', happened),
               alone => Fresh(r, parcel')
        PROVE  PostalInv'
    <2>1. alone => Single'
      BY <1>7, SingleStays
    <2>2. /\ worker' \in [Workers -> WorkerState] /\ worker'[w] = r
          /\ \A v \in Workers : v # w => worker'[v] = worker[v]
      BY <1>1, <1>7
    <2>3. MayHold(worker'[w], overtaken'[w], parcel', happened')
      BY <1>4, <1>7, <2>2
    <2>4. QED
      BY <1>1, <1>2, <1>3, <1>4, <1>5, <2>1, <2>2, <2>3, StepKeepsInv
  <1>8. QED
    BY <1>6, <1>7

LEMMA PersonKeeps == ASSUME PostalInv, NEW o \in Parcels, Person(o) PROVE PostalInv'
  <1>1. PICK d \in Edited(parcel[o]) : Changes(NoParcel, o, d)
    BY DEF Person
  <1>2. parcel[o] \in ParcelDoc /\ UNCHANGED <<happened, worker, stamped, alone>>
    BY DEF Person, PostalInv, PostalTyped
  <1>3. d \in ParcelDoc /\ d.latest = parcel[o].latest /\ d.returned = parcel[o].returned
    BY <1>2, EditsKeep
  <1>4. NoParcel \notin Workers
    BY PostalAssumption
  <1>5. QED
    BY <1>1, <1>2, <1>3, <1>4, ChangeKeeps

LEMMA StartRevertKeeps == ASSUME PostalInv, NEW w \in Workers, StartRevert(w) PROVE PostalInv'
  <1>1. PICK o \in Parcels :
          worker' = [worker EXCEPT ![w] =
               [Resting EXCEPT !.pc = "save", !.job = "revert", !.order = o, !.doc = Selected(parcel[o])]]
    BY DEF StartRevert
  <1> DEFINE r == [Resting EXCEPT !.pc = "save", !.job = "revert", !.order = o, !.doc = Selected(parcel[o])]
  <1>2. Selected(parcel[o]) \in Picture
    BY SelectedIsPicture
  <1>3. /\ r \in WorkerState /\ r.pc = "save" /\ r.order = o /\ r.todo = {} /\ r.milestone = "NONE"
    BY <1>2, RestHolds DEF WorkerState, Busy, Resting
  <1>4. worker' = [worker EXCEPT ![w] = r]
    BY <1>1
  <1> HIDE DEF r
  <1>5. MayHold(r, overtaken[w], parcel, happened) /\ Fresh(r, parcel)
    BY <1>3 DEF MayHold, Fresh, Busy
  <1>6. /\ overtaken' = [overtaken EXCEPT ![w] = overtaken[w]] /\ UNCHANGED <<parcel, happened, stamped, alone>>
        /\ alone => worker[w].pc # "idle" \/ \A v \in Workers : worker[v].pc = "idle"
        /\ overtaken[w] \in Nat
    BY InHand DEF StartRevert, Starts
  <1>7. QED
    BY <1>3, <1>4, <1>5, <1>6, GoesOn

LEMMA SaveRevertKeeps == ASSUME PostalInv, NEW w \in Workers, SaveRevert(w) PROVE PostalInv'
  <1> DEFINE q == worker[w]
             d == parcel[q.order]
             e == IF q.doc.status = "PACKED" THEN [d EXCEPT !.status = "NEW"]
                  ELSE [d EXCEPT !.pending = TRUE, !.approved = FALSE]
  <1>1. /\ q.pc = "save" /\ Changes(w, q.order, e) /\ worker' = [worker EXCEPT ![w] = Resting]
        /\ UNCHANGED <<happened, stamped, alone>>
    BY DEF SaveRevert
  <1>2. q.order \in Parcels
    BY <1>1, InHand DEF MayHold
  <1>3. d \in ParcelDoc
    BY <1>2 DEF PostalInv, PostalTyped
  <1>4. e \in ParcelDoc /\ e.latest = d.latest /\ e.returned = d.returned
    BY <1>3 DEF ParcelDoc, Status, Open, ON_SHELF
  <1> HIDE DEF e
  <1>5. /\ Resting \in WorkerState /\ MayHold(Resting, 0, parcel', happened)
        /\ Fresh(Resting, parcel')
    BY RestHolds
  <1>6. QED
    BY <1>1, <1>2, <1>4, <1>5, ChangeKeeps

LEMMA ReceiveKeeps == ASSUME PostalInv, NEW w \in Workers, Receive(w) PROVE PostalInv'
  <1>1. PICK s \in happened, o \in Carriers :
          worker' = [worker EXCEPT ![w] =
             [Resting EXCEPT !.pc = "stamp", !.order = o, !.doc = Selected(parcel[o]),
                             !.at = s.at, !.milestone = EventMilestone(s)]]
    BY DEF Receive
  <1> DEFINE r == [Resting EXCEPT !.pc = "stamp", !.order = o, !.doc = Selected(parcel[o]),
                                  !.at = s.at, !.milestone = EventMilestone(s)]
  <1>2. /\ o \in Parcels /\ parcel[o] \in ParcelDoc /\ happened \subseteq Scans /\ s \in Scans
        /\ s.at \in Times
    BY DEF Carriers, PostalInv, PostalTyped, Times
  <1>3. EventMilestone(s) \in Milestone /\ (PlainScans /\ EventMilestone(s) = "BOOKED" => Handed(happened))
    BY <1>2, EventHandedOver
  <1>4. /\ r \in WorkerState /\ r.pc = "stamp" /\ r.job = "hook" /\ r.order = o /\ r.doc = Selected(parcel[o])
        /\ r.todo = {} /\ ~r.retried /\ r.milestone = EventMilestone(s)
    BY <1>2, <1>3, RestHolds, SelectedIsPicture DEF WorkerState, Busy, Resting
  <1>5. worker' = [worker EXCEPT ![w] = r]
    BY <1>1
  <1> HIDE DEF r
  <1>6. EventFits(r, parcel[r.order], overtaken[w])
    BY <1>2, <1>4 DEF EventFits
  <1>7. MayHold(r, overtaken[w], parcel, happened)
    BY <1>3, <1>4, <1>6 DEF MayHold
  <1>8. Fresh(r, parcel)
    BY <1>4 DEF Fresh, Selected
  <1>9. /\ overtaken' = [overtaken EXCEPT ![w] = overtaken[w]] /\ UNCHANGED <<parcel, happened, stamped, alone>>
        /\ alone => worker[w].pc # "idle" \/ \A v \in Workers : worker[v].pc = "idle"
        /\ overtaken[w] \in Nat
    BY InHand DEF Receive, Starts
  <1>10. QED
    BY <1>4, <1>5, <1>7, <1>8, <1>9, GoesOn

LEMMA PreviewKeeps == ASSUME PostalInv, NEW w \in Workers, Preview(w) PROVE PostalInv'
  <1>1. PICK o \in Carriers :
          worker' = [worker EXCEPT ![w] =
               [Resting EXCEPT !.pc = "apply", !.job = "bulk", !.order = o,
                               !.doc = Selected(parcel[o]), !.milestone = "DELIVERED"]]
    BY DEF Preview
  <1> DEFINE r == [Resting EXCEPT !.pc = "apply", !.job = "bulk", !.order = o,
                                  !.doc = Selected(parcel[o]), !.milestone = "DELIVERED"]
  <1>2. o \in Parcels /\ parcel[o] \in ParcelDoc
    BY DEF Carriers, PostalInv, PostalTyped
  <1>4. /\ r \in WorkerState /\ r.pc = "apply" /\ r.job = "bulk" /\ r.order = o /\ r.doc = Selected(parcel[o])
        /\ r.todo = {} /\ r.milestone = "DELIVERED"
    BY <1>2, RestHolds, SelectedIsPicture DEF WorkerState, Busy, Resting, Milestone
  <1>5. worker' = [worker EXCEPT ![w] = r]
    BY <1>1
  <1> HIDE DEF r
  <1>6. EventFits(r, parcel[r.order], overtaken[w])
    BY <1>2, <1>4 DEF EventFits
  <1>7. MayHold(r, overtaken[w], parcel, happened)
    BY <1>4, <1>6 DEF MayHold
  <1>8. Fresh(r, parcel)
    BY <1>4 DEF Fresh, Selected
  <1>9. /\ overtaken' = [overtaken EXCEPT ![w] = overtaken[w]] /\ UNCHANGED <<parcel, happened, stamped, alone>>
        /\ alone => worker[w].pc # "idle" \/ \A v \in Workers : worker[v].pc = "idle"
        /\ overtaken[w] \in Nat
    BY InHand DEF Preview, Starts
  <1>10. QED
    BY <1>4, <1>5, <1>7, <1>8, <1>9, GoesOn

LEMMA StartSyncKeeps == ASSUME PostalInv, NEW w \in Workers, StartSync(w) PROVE PostalInv'
  <1> DEFINE found == {o \in Carriers : parcel[o].status \in {"PACKED", "DISPATCHED"} /\ ~parcel[o].pending}
             list == {[order |-> o, doc |-> Selected(parcel[o])] : o \in found}
             r == [Resting EXCEPT !.pc = "share", !.job = "sync", !.todo = list]
  <1>1. worker' = [worker EXCEPT ![w] = r]
    BY DEF StartSync
  <1>2. \A t \in list : t \in Entry /\ t.doc = Selected(parcel[t.order])
    <2> SUFFICES ASSUME NEW o \in found PROVE [order |-> o, doc |-> Selected(parcel[o])] \in Entry
      OBVIOUS
    <2>1. o \in Parcels /\ Selected(parcel[o]) \in Picture
      BY SelectedIsPicture DEF Carriers
    <2>2. QED
      BY <2>1 DEF Entry
  <1>3. \A t, u \in list : t.order = u.order => t = u
    OBVIOUS
  <1> HIDE DEF list
  <1>4. /\ r \in WorkerState /\ r.pc = "share" /\ r.job = "sync" /\ r.todo = list /\ r.milestone = "NONE"
    BY <1>2, RestHolds DEF WorkerState, Resting
  <1> HIDE DEF r
  <1>5. MayHold(r, overtaken[w], parcel, happened)
    BY <1>2, <1>4 DEF MayHold, Busy
  <1>6. Fresh(r, parcel)
    <2>1. ASSUME NEW t \in r.todo PROVE parcel[t.order].returned = t.doc.returned
      <3>1. t.doc = Selected(parcel[t.order])
        BY <1>2, <1>4
      <3>2. Selected(parcel[t.order]).returned = parcel[t.order].returned
        BY DEF Selected
      <3>3. QED
        BY <3>1, <3>2
    <2>2. QED
      BY <1>3, <1>4, <2>1 DEF Fresh, Busy
  <1>7. /\ overtaken' = [overtaken EXCEPT ![w] = overtaken[w]] /\ UNCHANGED <<parcel, happened, stamped, alone>>
        /\ alone => worker[w].pc # "idle" \/ \A v \in Workers : worker[v].pc = "idle"
        /\ overtaken[w] \in Nat
    BY InHand DEF StartSync, Starts
  <1>8. QED
    BY <1>1, <1>4, <1>5, <1>6, <1>7, GoesOn

LEMMA FindSharedKeeps == ASSUME PostalInv, NEW w \in Workers, FindShared(w) PROVE PostalInv'
  <1> DEFINE q == worker[w]
             r == IF Cardinality(Carriers) > 1 THEN Resting ELSE [q EXCEPT !.pc = "track"]
  <1>1. /\ q \in WorkerState /\ MayHold(q, overtaken[w], parcel, happened) /\ q.pc = "share"
        /\ overtaken' = [overtaken EXCEPT ![w] = overtaken[w]] /\ overtaken[w] \in Nat
        /\ UNCHANGED <<parcel, happened, stamped, alone>> /\ worker' = [worker EXCEPT ![w] = r]
        /\ alone => Fresh(q, parcel)
    BY InHand DEF FindShared
  <1>2. CASE r = Resting
    BY <1>1, <1>2, RestHolds, GoesOn
  <1>3. CASE r = [q EXCEPT !.pc = "track"]
    <2> HIDE DEF r
    <2>1. /\ r \in WorkerState /\ r.pc = "track" /\ r.job = q.job /\ r.todo = q.todo /\ r.order = q.order
          /\ r.milestone = q.milestone
      BY <1>1, <1>3 DEF WorkerState
    <2>2. MayHold(r, overtaken[w], parcel, happened) /\ (alone => Fresh(r, parcel))
      BY <1>1, <2>1 DEF MayHold, Fresh, Busy
    <2>3. QED
      BY <1>1, <2>1, <2>2, GoesOn
  <1>4. QED
    BY <1>2, <1>3

LEMMA TrackKeeps == ASSUME PostalInv, NEW w \in Workers, Track(w) PROVE PostalInv'
  <1> DEFINE q == worker[w]
             answered(c) == [q EXCEPT !.at = Max({0} \cup {s.at : s \in happened}), !.milestone = milestoneFor(happened, c)]
  <1>1. /\ q \in WorkerState /\ MayHold(q, overtaken[w], parcel, happened) /\ q.pc = "track"
        /\ overtaken' = [overtaken EXCEPT ![w] = overtaken[w]] /\ overtaken[w] \in Nat
        /\ UNCHANGED <<parcel, happened, stamped, alone>>
        /\ alone => Fresh(q, parcel)
    BY InHand DEF Track
  <1>2. CASE worker' = [worker EXCEPT ![w] = Resting]
    BY <1>1, <1>2, RestHolds, GoesOn
  <1>3. ASSUME NEW c \in BOOLEAN, NEW t \in q.todo, TakesUp(w, answered(c), t)
        PROVE  PostalInv'
    <2> DEFINE a == answered(c)
               r == [a EXCEPT !.pc = IF a.at = 0 THEN "apply" ELSE "stamp",
                              !.order = t.order, !.doc = t.doc, !.todo = a.todo \ {t}]
    <2>1. /\ t \in Entry /\ t.order \in Parcels /\ t.doc \in Picture /\ q.todo \subseteq Entry
          /\ q.job = "sync"
      BY <1>1 DEF WorkerState, Entry, MayHold
    <2>2. Max({0} \cup {s.at : s \in happened}) \in Times
      BY AnswerTime DEF PostalInv, PostalTyped
    <2>3. milestoneFor(happened, c) \in Milestone /\ (milestoneFor(happened, c) = "BOOKED" => Handed(happened))
      BY AnswerHandedOver
    <2>4. /\ a \in WorkerState /\ a.todo = q.todo /\ a.job = q.job
          /\ a.milestone = milestoneFor(happened, c)
      BY <1>1, <2>2, <2>3 DEF WorkerState
    <2>6. worker' = [worker EXCEPT ![w] = r]
      BY <1>3 DEF TakesUp
    <2> HIDE DEF a
    <2>5. /\ r \in WorkerState /\ r.pc \in {"apply", "stamp"} /\ r.job = "sync" /\ r.order = t.order
          /\ r.doc = t.doc /\ r.todo = q.todo \ {t} /\ r.milestone = milestoneFor(happened, c)
      BY <2>1, <2>4 DEF WorkerState, Busy
    <2> HIDE DEF r
    <2>7. EventFits(r, parcel[r.order], overtaken[w])
      BY <2>1, <2>5 DEF EventFits
    <2>8. MayHold(r, overtaken[w], parcel, happened)
      BY <1>1, <2>3, <2>5, <2>7 DEF MayHold
    <2>9. alone => Fresh(r, parcel)
      BY <1>1, <2>5 DEF Fresh
    <2>10. QED
      BY <1>1, <2>5, <2>6, <2>8, <2>9, GoesOn
  <1>4. QED
    BY <1>2, <1>3 DEF Track

LEMMA NothingToDoKeeps == ASSUME PostalInv, NEW w \in Workers, NothingToDo(w) PROVE PostalInv'
  BY LetGoKeeps DEF NothingToDo, Busy

LEMMA RecordKeeps == ASSUME PostalInv, NEW w \in Workers, recordLatestScan(w) PROVE PostalInv'
  <1> DEFINE q == worker[w]
             r == [q EXCEPT !.pc = "apply"]
  <1>1. /\ q \in WorkerState /\ MayHold(q, overtaken[w], parcel, happened) /\ q.pc = "stamp"
        /\ overtaken[w] \in Nat /\ (alone => Fresh(q, parcel))
    BY InHand DEF recordLatestScan
  <1>2. q.order \in Parcels /\ q.at \in Times /\ EventFits(q, parcel[q.order], overtaken[w])
    BY <1>1 DEF MayHold, EventFits, Busy, WorkerState
  <1>3. /\ parcel \in [Parcels -> ParcelDoc] /\ overtaken \in [Workers -> Nat]
        /\ worker \in [Workers -> WorkerState] /\ stamped \in [Parcels -> SUBSET Times]
        /\ happened \subseteq Scans /\ Times \subseteq Nat
        /\ \A o \in Parcels : IsNewest(parcel[o].latest, stamped[o])
    BY TimesAreNumbers DEF PostalInv, PostalTyped
  <1>4. /\ parcel' = IF parcel[q.order].latest <= q.at
                     THEN [parcel EXCEPT ![q.order].latest = q.at] ELSE parcel
        /\ stamped' = [stamped EXCEPT ![q.order] = @ \cup {q.at}]
        /\ worker' = [worker EXCEPT ![w].pc = "apply"]
        /\ UNCHANGED <<happened, overtaken, alone>>
    BY DEF recordLatestScan
  <1>5. /\ r \in WorkerState /\ r.pc = "apply" /\ r.job = q.job /\ r.order = q.order /\ r.doc = q.doc
        /\ r.todo = q.todo /\ r.milestone = q.milestone /\ r.retried = q.retried /\ r.seen = q.seen
        /\ worker' = [worker EXCEPT ![w] = r]
    BY <1>1, <1>3, <1>4 DEF WorkerState, Busy
  <1> DEFINE e == IF parcel[q.order].latest <= q.at THEN [parcel[q.order] EXCEPT !.latest = q.at]
                  ELSE parcel[q.order]
  <1>6. parcel[q.order] \in ParcelDoc /\ parcel[q.order].latest \in Times
    BY <1>2, <1>3 DEF ParcelDoc
  <1>7. /\ e \in ParcelDoc /\ e.status = parcel[q.order].status /\ e.returned = parcel[q.order].returned
        /\ e.deleted = parcel[q.order].deleted /\ e.pending = parcel[q.order].pending
        /\ e.latest = IF parcel[q.order].latest <= q.at THEN q.at ELSE parcel[q.order].latest
    BY <1>2, <1>6 DEF ParcelDoc
  <1>8. /\ parcel' \in [Parcels -> ParcelDoc]
        /\ \A o \in Parcels : parcel'[o] = IF o = q.order THEN e ELSE parcel[o]
    BY <1>2, <1>3, <1>4, <1>7
  <1> HIDE DEF r, e, q
  <1>9. \A o \in Parcels : SameToMove(parcel[o], parcel'[o])
    BY <1>7, <1>8 DEF SameToMove
  <1>10. /\ stamped' \in [Parcels -> SUBSET Times]
         /\ \A o \in Parcels : stamped'[o] = IF o = q.order THEN stamped[o] \cup {q.at} ELSE stamped[o]
    BY <1>2, <1>3, <1>4
  <1>11. ASSUME NEW o \in Parcels PROVE IsNewest(parcel'[o].latest, stamped'[o])
    <2>1. CASE o # q.order
      BY <1>3, <1>8, <1>10, <2>1
    <2>2. CASE o = q.order
      <3> DEFINE m == parcel[o].latest
                 k == e.latest
                 T == stamped[o]
                 U == stamped'[o]
      <3>1. m \in Int /\ q.at \in Int /\ T \subseteq Times
        <4>1. m \in Times /\ q.at \in Times /\ stamped[o] \in SUBSET Times
          BY <1>2, <1>3, <1>6, <2>2
        <4>2. m \in Nat /\ q.at \in Nat
          BY <1>3, <4>1
        <4>3. QED
          BY <4>1, <4>2
      <3>2. m \in {0} \cup T /\ \A t \in T : t <= m
        BY <1>3 DEF IsNewest
      <3>3. k = (IF m <= q.at THEN q.at ELSE m) /\ U = T \cup {q.at}
        BY <1>7, <1>10, <2>2
      <3>4. \A t \in T : t \in Int
        BY <1>3, <3>1
      <3>5. parcel'[o].latest = k
        BY <1>8, <2>2
      <3> HIDE DEF m, k, T, U
      <3>6. k \in {0} \cup U /\ \A t \in U : t <= k
        BY <3>1, <3>2, <3>3, <3>4
      <3>7. QED
        BY <3>5, <3>6 DEF IsNewest, U
    <2>3. QED
      BY <2>1, <2>2
  <1>12. EventFits(r, parcel'[r.order], overtaken[w])
    <2>1. EventFits(q, parcel'[q.order], overtaken[w])
      BY <1>1, <1>2, <1>9, FitsOn
    <2>2. QED
      BY <1>1, <1>5, <2>1 DEF EventFits
  <1>13. MayHold(r, overtaken[w], parcel', happened)
    <2>1. /\ happened \subseteq happened /\ overtaken[w] >= overtaken[w]
          /\ SameToMove(parcel[q.order], parcel'[q.order])
      BY <1>1, <1>2, <1>9
    <2>a. MayHold(q, overtaken[w], parcel', happened)
      BY <1>1, <2>1, HoldsOn
    <2>2. QED
      BY <1>1, <1>5, <1>12, <2>a DEF MayHold, Busy
  <1>14. alone => Single'
    <2> SUFFICES ASSUME alone PROVE Single'
      OBVIOUS
    <2>1. Fresh(q, parcel')
      BY <1>1, <1>7, <1>8, FreshStays
    <2>2. Fresh(r, parcel') /\ q.pc # "idle"
      BY <1>1, <1>5, <2>1 DEF Fresh, Busy
    <2>3. QED
      BY <1>5, <2>2, SingleStays DEF q
  <1>15. /\ worker' \in [Workers -> WorkerState] /\ worker'[w] = r
         /\ \A v \in Workers : v # w => worker'[v] = worker[v]
    BY <1>3, <1>5
  <1>17. /\ \A v \in Workers : overtaken'[v] >= overtaken[v]
         /\ overtaken' \in [Workers -> Nat] /\ happened \subseteq happened' /\ happened' \subseteq Scans
         /\ overtaken'[w] = overtaken[w] /\ happened' = happened
    BY <1>3, <1>4
  <1>18. MayHold(worker'[w], overtaken'[w], parcel', happened') /\ alone' = alone
    BY <1>4, <1>13, <1>15, <1>17
  <1>19. \A v \in Workers : v # w /\ worker[v].order \in Parcels =>
             SameToMove(parcel[worker[v].order], parcel'[worker[v].order])
    BY <1>9
  <1>20. QED
    BY <1>8, <1>10, <1>11, <1>14, <1>15, <1>17, <1>18, <1>19, StepKeepsInv

LEMMA FlagKeeps == ASSUME PostalInv, NEW w \in Workers, FlagReturn(w) PROVE PostalInv'
  <1> DEFINE q == worker[w]
             e == [parcel[q.order] EXCEPT !.returned = TRUE]
  <1>1. /\ q \in WorkerState /\ MayHold(q, overtaken[w], parcel, happened) /\ q.pc = "apply"
        /\ overtaken[w] \in Nat /\ (alone => Fresh(q, parcel)) /\ q.order \in Parcels
    BY InHand DEF FlagReturn, MayHold, EventFits, Busy
  <1>2. /\ parcel \in [Parcels -> ParcelDoc] /\ overtaken \in [Workers -> Nat]
        /\ worker \in [Workers -> WorkerState] /\ stamped \in [Parcels -> SUBSET Times]
        /\ happened \subseteq Scans
        /\ \A o \in Parcels : IsNewest(parcel[o].latest, stamped[o])
    BY DEF PostalInv, PostalTyped
  <1>3. /\ parcel' = [parcel EXCEPT ![q.order].returned = TRUE] /\ Finished(w)
        /\ overtaken' = [overtaken EXCEPT ![w] = 0] /\ UNCHANGED <<happened, stamped, alone>>
    BY DEF FlagReturn, LetGo
  <1>4. /\ e \in ParcelDoc /\ SameToMove(parcel[q.order], e)
        /\ e.latest = parcel[q.order].latest
    BY <1>1, <1>2 DEF ParcelDoc, SameToMove
  <1>5. /\ parcel' \in [Parcels -> ParcelDoc]
        /\ \A o \in Parcels : parcel'[o] = IF o = q.order THEN e ELSE parcel[o]
    BY <1>1, <1>2, <1>3, <1>4
  <1> HIDE DEF e
  <1>6. \A o \in Parcels : /\ SameToMove(parcel[o], parcel'[o])
                            /\ IsNewest(parcel'[o].latest, stamped'[o])
    BY <1>2, <1>3, <1>4, <1>5 DEF SameToMove
  <1>7. OthersAsBefore(q, parcel, parcel')
    BY <1>5 DEF OthersAsBefore
  <1>8. PICK r \in WorkerState :
            /\ worker' = [worker EXCEPT ![w] = r] /\ MayHold(r, 0, parcel', happened)
            /\ alone => Fresh(r, parcel')
    <2>1. worker[w].pc \in Busy /\ 0 \in Nat
      BY <1>1 DEF Busy
    <2>2. \E r \in WorkerState :
            /\ worker' = [worker EXCEPT ![w] = r] /\ MayHold(r, 0, parcel', happened)
            /\ alone /\ OthersAsBefore(worker[w], parcel, parcel') => Fresh(r, parcel')
      BY <1>3, <1>5, <2>1, FinishedGoesOn
    <2>3. QED
      BY <1>7, <2>2
  <1>9. alone => Single'
    BY <1>1, <1>8, SingleStays
  <1>10. /\ worker' \in [Workers -> WorkerState] /\ worker'[w] = r
         /\ \A v \in Workers : v # w => worker'[v] = worker[v]
    BY <1>2, <1>8
  <1>11. /\ \A v \in Workers : v # w => overtaken'[v] >= overtaken[v]
         /\ overtaken' \in [Workers -> Nat] /\ happened \subseteq happened' /\ happened' \subseteq Scans
         /\ overtaken'[w] = 0 /\ happened' = happened /\ alone' = alone
         /\ stamped' \in [Parcels -> SUBSET Times]
    BY <1>2, <1>3
  <1>12. MayHold(worker'[w], overtaken'[w], parcel', happened')
    BY <1>8, <1>10, <1>11
  <1>13. \A v \in Workers : v # w /\ worker[v].order \in Parcels =>
             SameToMove(parcel[worker[v].order], parcel'[worker[v].order])
    BY <1>6
  <1>14. QED
    BY <1>5, <1>6, <1>9, <1>10, <1>11, <1>12, <1>13, StepKeepsInv

LEMMA RereadKeeps == ASSUME PostalInv, NEW w \in Workers, Reread(w) PROVE PostalInv'
  <1> DEFINE q == worker[w]
             r == [q EXCEPT !.pc = "apply", !.doc = Selected(parcel[q.order]), !.retried = TRUE]
  <1>1. /\ q \in WorkerState /\ MayHold(q, overtaken[w], parcel, happened) /\ q.pc = "reread"
        /\ overtaken[w] \in Nat /\ (alone => Fresh(q, parcel))
        /\ overtaken' = [overtaken EXCEPT ![w] = overtaken[w]] /\ worker' = [worker EXCEPT ![w] = r]
        /\ UNCHANGED <<parcel, happened, stamped, alone>>
    BY InHand DEF Reread
  <1>2. q.order \in Parcels /\ EventFits(q, parcel[q.order], overtaken[w])
    BY <1>1 DEF MayHold, EventFits, Busy
  <1>3. /\ r \in WorkerState /\ r.pc = "apply" /\ r.job = q.job /\ r.order = q.order
        /\ r.doc = Selected(parcel[q.order]) /\ r.todo = q.todo /\ r.milestone = q.milestone
    BY <1>1, <1>2, SelectedIsPicture DEF WorkerState, Busy
  <1> HIDE DEF r
  <1>4. EventFits(r, parcel[r.order], overtaken[w])
    BY <1>1, <1>2, <1>3 DEF EventFits
  <1>5. MayHold(r, overtaken[w], parcel, happened)
    BY <1>1, <1>3, <1>4 DEF MayHold
  <1>6. alone => Fresh(r, parcel)
    BY <1>1, <1>3 DEF Fresh, Busy, Selected
  <1>7. QED
    BY <1>1, <1>3, <1>5, <1>6, GoesOn

\* What updateStatus may be asked for.
LEMMA GoalsAre ==
  ASSUME NEW q
  PROVE  /\ Goal(q) \in Status => Goal(q) \in {"DISPATCHED", "DELIVERED"}
         /\ Goal(q) \in {"DISPATCHED", "DELIVERED", "FLAG", "NOTHING"}
  BY DEF Goal, Wanted, Status, Open, ON_SHELF

LEMMA ReadKeeps == ASSUME PostalInv, NEW w \in Workers, ReadForStatus(w) PROVE PostalInv'
  <1> DEFINE q == worker[w]
             d == parcel[q.order]
             r == [q EXCEPT !.pc = "write", !.read = d.status, !.seen = overtaken[w]]
  <1>1. /\ q \in WorkerState /\ MayHold(q, overtaken[w], parcel, happened) /\ q.pc = "apply"
        /\ overtaken[w] \in Nat /\ (alone => Fresh(q, parcel)) /\ q.pc \in Busy
        /\ Goal(q) \in Status
        /\ UNCHANGED <<parcel, happened, stamped, alone>>
    BY InHand DEF ReadForStatus, Busy
  <1>2. CASE LetGo(w)
    BY <1>1, <1>2, LetGoKeeps
  <1>3. ASSUME MayMove(d, Goal(q)), UNCHANGED overtaken,
               worker' = [worker EXCEPT ![w].pc = "write", ![w].read = d.status, ![w].seen = overtaken[w]]
        PROVE  PostalInv'
    <2>1. q.order \in Parcels /\ d \in ParcelDoc /\ EventFits(q, d, overtaken[w])
      BY <1>1 DEF MayHold, EventFits, PostalInv, PostalTyped
    <2>2. Goal(q) \in {"DISPATCHED", "DELIVERED"} /\ d.status \in Open /\ d.status \in Status /\ ~d.pending /\ ~d.deleted
      BY <1>1, <1>3, <2>1, GoalsAre DEF MayMove, ParcelDoc
    <2>3. /\ r \in WorkerState /\ r.pc = "write" /\ r.job = q.job /\ r.order = q.order /\ r.doc = q.doc
          /\ r.todo = q.todo /\ r.milestone = q.milestone /\ r.retried = q.retried /\ r.read = d.status
          /\ r.seen = overtaken[w]
      BY <1>1, <2>2 DEF WorkerState, Busy
    <2>4. worker' = [worker EXCEPT ![w] = r]
      BY <1>3, InHand
    <2>5. Goal(r) = Goal(q)
      BY <2>3 DEF Goal
    <2>b. overtaken' = [overtaken EXCEPT ![w] = overtaken[w]]
      BY <1>3, InHand
    <2> HIDE DEF r, q, d
    <2>6. parcel[r.order] = d
      BY <2>3 DEF d
    <2>7. EventFits(r, d, overtaken[w])
      BY <1>1, <2>1, <2>2, <2>3, <2>5 DEF EventFits
    <2>8. MayHold(r, overtaken[w], parcel, happened)
      BY <1>1, <2>3, <2>6, <2>7 DEF MayHold
    <2>9. (alone => Fresh(r, parcel)) /\ worker[w].pc # "idle"
      BY <1>1, <2>3 DEF Fresh, Busy, q
    <2>10. QED
      BY <1>1, <2>3, <2>4, <2>b, <2>8, <2>9, GoesOn
  <1>4. QED
    BY <1>2, <1>3 DEF ReadForStatus

\* A move that went through.
LEMMA MoveMade ==
  ASSUME PostalInv, NEW w \in Workers, worker[w].pc = "write", Moved(w)
  PROVE  LET q == worker[w]
         IN  /\ q.order \in Parcels /\ Goal(q) \in {"DISPATCHED", "DELIVERED"}
             /\ parcel[q.order].status \in Open /\ ~parcel[q.order].deleted
             /\ parcel[q.order].pending => overtaken[w] > q.seen
             /\ parcel' \in [Parcels -> ParcelDoc]
             /\ \A o \in Parcels : parcel'[o] =
                   IF o = q.order THEN [parcel[q.order] EXCEPT !.status = Goal(q)] ELSE parcel[o]
             /\ parcel'[q.order].status = Goal(q)
  <1> DEFINE q == worker[w]
  <1>1. EventFits(q, parcel[q.order], overtaken[w])
    BY InHand DEF MayHold, Busy
  <1>2. /\ q.order \in Parcels /\ Goal(q) \in {"DISPATCHED", "DELIVERED"} /\ q.read \in Open
        /\ overtaken[w] >= q.seen /\ (overtaken[w] = q.seen => ~parcel[q.order].pending)
        /\ overtaken[w] \in Nat /\ q.seen \in Nat
    BY <1>1, InHand DEF EventFits, WorkerState
  <1>a. parcel[q.order].pending => overtaken[w] > q.seen
    BY <1>2
  <1>3. parcel \in [Parcels -> ParcelDoc] /\ parcel[q.order] \in ParcelDoc
    BY <1>2 DEF PostalInv, PostalTyped
  <1> HIDE DEF q
  <1> DEFINE e == [parcel[q.order] EXCEPT !.status = Goal(q)]
  <1>4. /\ parcel[q.order].status = q.read /\ ~parcel[q.order].deleted
        /\ parcel' = [parcel EXCEPT ![q.order] = e]
    BY DEF Moved, Changes, q
  <1>5. e \in ParcelDoc /\ e.status = Goal(q)
    BY <1>2, <1>3 DEF ParcelDoc, Status, Open, ON_SHELF
  <1>6. /\ parcel' \in [Parcels -> ParcelDoc]
        /\ \A o \in Parcels : parcel'[o] = IF o = q.order THEN e ELSE parcel[o]
    BY <1>2, <1>3, <1>4, <1>5
  <1>7. parcel'[q.order].status = Goal(q)
    BY <1>2, <1>5, <1>6
  <1>8. QED
    BY <1>2, <1>a, <1>4, <1>6, <1>7 DEF q

LEMMA MoveKeeps ==
  ASSUME PostalInv, NEW w \in Workers, worker[w].pc = "write", Moved(w),
         UNCHANGED <<happened, stamped, alone>>
  PROVE  PostalInv'
  <1> DEFINE q == worker[w]
             d == parcel[q.order]
             e == [d EXCEPT !.status = Goal(q)]
  <1>1. /\ Changes(w, q.order, e) /\ Finished(w) /\ q.pc \in Busy /\ q.pc # "idle"
    BY DEF Moved, Busy
  <1>2. /\ q.order \in Parcels /\ Goal(q) \in {"DISPATCHED", "DELIVERED"}
        /\ parcel' \in [Parcels -> ParcelDoc]
        /\ \A o \in Parcels : parcel'[o] = IF o = q.order THEN e ELSE parcel[o]
    BY MoveMade
  <1>3. d \in ParcelDoc
    BY <1>2 DEF PostalInv, PostalTyped
  <1>4. e \in ParcelDoc /\ e.latest = d.latest /\ e.returned = d.returned
    BY <1>2, <1>3 DEF ParcelDoc, Status, Open
  <1>5. OthersAsBefore(q, parcel, parcel') /\ 0 \in Nat
    BY <1>2 DEF OthersAsBefore
  <1>6. \E r \in WorkerState :
            /\ worker' = [worker EXCEPT ![w] = r] /\ MayHold(r, 0, parcel', happened)
            /\ alone => Fresh(r, parcel')
    <2> HIDE DEF e, d
    <2>1. \E r \in WorkerState :
            /\ worker' = [worker EXCEPT ![w] = r] /\ MayHold(r, 0, parcel', happened)
            /\ alone /\ OthersAsBefore(worker[w], parcel, parcel') => Fresh(r, parcel')
      BY <1>1, <1>2, <1>5, FinishedGoesOn
    <2>2. QED
      BY <1>5, <2>1
  <1> HIDE DEF e
  <1>7. QED
    BY <1>1, <1>2, <1>4, <1>6, ChangeKeeps

LEMMA WriteKeeps == ASSUME PostalInv, NEW w \in Workers, WriteStatus(w) PROVE PostalInv'
  <1> DEFINE q == worker[w]
             d == parcel[q.order]
  <1>1. CASE Moved(w)
    BY <1>1, MoveKeeps DEF WriteStatus
  <1>2. ASSUME d.status # q.read \/ d.deleted, UNCHANGED parcel,
               IF q.job = "hook" /\ ~q.retried
               THEN worker' = [worker EXCEPT ![w].pc = "reread"] /\ UNCHANGED overtaken ELSE LetGo(w)
        PROVE  PostalInv'
    <2>1. /\ q \in WorkerState /\ MayHold(q, overtaken[w], parcel, happened) /\ q.pc = "write"
          /\ overtaken[w] \in Nat /\ (alone => Fresh(q, parcel)) /\ q.pc \in Busy
          /\ UNCHANGED <<parcel, happened, stamped, alone>>
      BY <1>2, InHand DEF WriteStatus, Busy
    <2>2. CASE LetGo(w)
      BY <2>1, <2>2, LetGoKeeps
    <2>3. ASSUME q.job = "hook", ~q.retried, worker' = [worker EXCEPT ![w].pc = "reread"],
                 UNCHANGED overtaken
          PROVE  PostalInv'
      <3> DEFINE r == [q EXCEPT !.pc = "reread"]
      <3>1. /\ r \in WorkerState /\ r.pc = "reread" /\ r.job = q.job /\ r.order = q.order /\ r.doc = q.doc
            /\ r.todo = q.todo /\ r.milestone = q.milestone
        BY <2>1 DEF WorkerState, Busy
      <3>2. worker' = [worker EXCEPT ![w] = r] /\ overtaken' = [overtaken EXCEPT ![w] = overtaken[w]]
        BY <2>3, InHand
      <3>3. EventFits(q, d, overtaken[w])
        BY <2>1 DEF MayHold
      <3> HIDE DEF r
      <3>4. overtaken[w] >= 1
        <4>1. overtaken[w] # q.seen /\ overtaken[w] >= q.seen
          BY <1>2, <2>1, <3>3 DEF EventFits
        <4>2. q.seen \in Nat
          BY <2>1 DEF WorkerState
        <4>3. QED
          BY <2>1, <4>1, <4>2
      <3>5. EventFits(r, parcel[r.order], overtaken[w])
        BY <3>1, <3>3, <3>4 DEF EventFits
      <3>6. MayHold(r, overtaken[w], parcel, happened) /\ (alone => Fresh(r, parcel))
        BY <2>1, <3>1, <3>5 DEF MayHold, Fresh, Busy
      <3>7. QED
        BY <2>1, <3>1, <3>2, <3>6, GoesOn
    <2>4. QED
      BY <1>2, <2>2, <2>3
  <1>3. QED
    BY <1>1, <1>2 DEF WriteStatus

LEMMA PostalStepKeepsInv == PostalInv /\ [PostalNext]_postalVars => PostalInv'
  <1> SUFFICES ASSUME PostalInv, [PostalNext]_postalVars PROVE PostalInv'
    OBVIOUS
  <1>1. CASE UNCHANGED postalVars
    BY <1>1 DEF postalVars, PostalInv, PostalTyped, Single
  <1>2. CASE Scan
    BY <1>2, ScanKeeps
  <1>3. ASSUME NEW w \in Workers, \/ Receive(w) \/ StartSync(w) \/ FindShared(w) \/ Track(w)
                                  \/ Preview(w) \/ StartRevert(w) \/ SaveRevert(w)
        PROVE  PostalInv'
    BY <1>3, ReceiveKeeps, StartSyncKeeps, FindSharedKeeps, TrackKeeps, PreviewKeeps,
       StartRevertKeeps, SaveRevertKeeps
  <1>4. ASSUME NEW w \in Workers, \/ recordLatestScan(w) \/ NothingToDo(w) \/ FlagReturn(w)
                                  \/ ReadForStatus(w) \/ WriteStatus(w) \/ Reread(w)
        PROVE  PostalInv'
    BY <1>4, RecordKeeps, NothingToDoKeeps, FlagKeeps, ReadKeeps, WriteKeeps, RereadKeeps
  <1>5. ASSUME NEW o \in Parcels, Person(o) PROVE PostalInv'
    BY <1>5, PersonKeeps
  <1>6. QED
    BY <1>1, <1>2, <1>3, <1>4, <1>5 DEF PostalNext

-----------------------------------------------------------------------------
(***************************************************************************)
(* What no step does.                                                      *)
(***************************************************************************)
LEMMA NewestByInv == PostalInv => NewestScanKept
  <1> SUFFICES ASSUME PostalInv, NEW o \in Parcels
               PROVE  parcel[o].latest = Max({0} \cup stamped[o])
    BY DEF NewestScanKept
  <1> DEFINE m == parcel[o].latest
             S == {0} \cup stamped[o]
  <1>1. stamped[o] \subseteq Times /\ m \in Times
    BY DEF PostalInv, PostalTyped, ParcelDoc
  <1>2. Times \subseteq Nat
    BY TimesAreNumbers
  <1>3. m \in S /\ \A t \in stamped[o] : t <= m
    BY DEF PostalInv, IsNewest
  <1>4. S \subseteq Int /\ \A t \in S : t <= m
    <2>1. S \subseteq Nat /\ m \in Nat
      <3> DEFINE T == stamped[o]
      <3>1. \A t \in T : t \in Times
        BY <1>1
      <3>2. \A t \in Times : t \in Nat
        BY <1>2
      <3>3. S = {0} \cup T /\ m \in Times
        BY <1>1
      <3> HIDE DEF S, T, m
      <3>4. QED
        BY <3>1, <3>2, <3>3
    <2>2. 0 <= m
      BY <2>1
    <2>3. \A t \in S : t <= m
      BY <1>3, <2>2
    <2>4. QED
      BY <2>1, <2>3
  <1> HIDE DEF m, S
  <1>5. Max(S) = m
    BY <1>3, <1>4, MaxIsMax
  <1>6. QED
    BY <1>5 DEF m, S

\* Who goes on, and who changes a status.
LEMMA WhoActs ==
  ASSUME PostalInv, [PostalNext]_postalVars
  PROVE  /\ \A w \in Workers :
              (worker[w].pc = "apply" /\ worker'[w].pc = "idle")
                \/ (worker[w].pc = "write" /\ worker'[w].pc # "write")
              => \/ worker[w].pc = "apply" /\ (NothingToDo(w) \/ FlagReturn(w) \/ ReadForStatus(w))
                 \/ worker[w].pc = "write" /\ WriteStatus(w)
         /\ \/ \E w \in Workers : worker[w].pc = "write" /\ Moved(w) /\ WriteStatus(w)
            \/ touches' # touches
            \/ \E w \in Workers : worker[w].pc = "save" /\ SaveRevert(w)
            \/ \A o \in Parcels : parcel'[o].status = parcel[o].status
  <1> DEFINE Idles(v) == \/ worker[v].pc = "apply" /\ worker'[v].pc = "idle"
                         \/ worker[v].pc = "write" /\ worker'[v].pc # "write"
             Same == \A o \in Parcels : parcel'[o].status = parcel[o].status
  <1>1. worker \in [Workers -> WorkerState] /\ parcel \in [Parcels -> ParcelDoc]
    BY DEF PostalInv, PostalTyped
  <1>2. CASE UNCHANGED postalVars \/ Scan
    BY <1>2 DEF postalVars, Scan
  <1>3. ASSUME NEW o \in Parcels, Person(o)
        PROVE  touches' # touches /\ UNCHANGED worker
    <2>1. touches' = touches + 1 /\ touches < MaxTouches /\ UNCHANGED worker
      BY <1>3 DEF Person
    <2>2. QED
      BY <2>1, PostalAssumption
  <1>4. ASSUME NEW w \in Workers, Receive(w) \/ StartSync(w) \/ FindShared(w) \/ Track(w) \/ Preview(w) \/ Reread(w)
                                  \/ StartRevert(w)
        PROVE  Same /\ \A v \in Workers : ~Idles(v)
    <2>1. parcel' = parcel /\ worker[w].pc \notin {"apply", "write"}
      BY <1>4 DEF Receive, StartSync, FindShared, Track, Preview, Reread, Starts, StartRevert
    <2>2. \E r : worker' = [worker EXCEPT ![w] = r]
      BY <1>4 DEF Receive, StartSync, FindShared, Track, Preview, Reread, TakesUp, StartRevert
    <2>3. QED
      BY <1>1, <2>1, <2>2
  <1>5. ASSUME NEW w \in Workers, NothingToDo(w) \/ FlagReturn(w) \/ ReadForStatus(w)
        PROVE  Same /\ \A v \in Workers : Idles(v) => v = w /\ worker[w].pc = "apply"
    <2>1. worker[w].pc = "apply" /\ worker[w] \in WorkerState
      BY <1>1, <1>5 DEF NothingToDo, FlagReturn, ReadForStatus
    <2>2. \E r : worker' = [worker EXCEPT ![w] = r]
      <3>1. CASE Finished(w)
        BY <3>1 DEF Finished, TakesUp
      <3>2. CASE worker' = [worker EXCEPT ![w].pc = "write", ![w].read = parcel[worker[w].order].status,
                                          ![w].seen = overtaken[w]]
        BY <1>1, <3>2
      <3>3. QED
        BY <1>5, <3>1, <3>2 DEF NothingToDo, FlagReturn, ReadForStatus, LetGo
    <2>3. Same
      <3>1. CASE parcel' = parcel
        BY <3>1
      <3>2. CASE parcel' = [parcel EXCEPT ![worker[w].order].returned = TRUE]
        BY <1>1, <3>2 DEF ParcelDoc
      <3>3. QED
        BY <1>5, <3>1, <3>2 DEF NothingToDo, FlagReturn, ReadForStatus
    <2>4. QED
      BY <1>1, <2>1, <2>2, <2>3
  <1>6. ASSUME NEW w \in Workers, recordLatestScan(w)
        PROVE  Same /\ \A v \in Workers : ~Idles(v)
    BY <1>1, <1>6 DEF recordLatestScan, ParcelDoc
  <1>7. ASSUME NEW w \in Workers, WriteStatus(w)
        PROVE  /\ worker[w].pc = "write" /\ (Moved(w) \/ Same)
               /\ \A v \in Workers : Idles(v) => v = w
    <2>1. worker[w].pc = "write" /\ (Moved(w) \/ UNCHANGED parcel)
      BY <1>7 DEF WriteStatus
    <2>2. \E r : worker' = [worker EXCEPT ![w] = r]
      <3>1. CASE Finished(w)
        BY <3>1 DEF Finished, TakesUp
      <3>2. CASE worker' = [worker EXCEPT ![w].pc = "reread"]
        BY <1>1, <3>2
      <3>3. QED
        BY <1>7, <3>1, <3>2 DEF WriteStatus, Moved, LetGo
    <2>3. QED
      BY <1>1, <2>1, <2>2
  <1>a. ASSUME NEW w \in Workers, SaveRevert(w)
        PROVE  worker[w].pc = "save" /\ \A v \in Workers : ~Idles(v)
    BY <1>1, <1>a DEF SaveRevert
  <1>8. QED
    <2>1. CASE \E w \in Workers : \/ recordLatestScan(w) \/ Receive(w) \/ StartSync(w) \/ FindShared(w)
                                  \/ Track(w) \/ Preview(w) \/ Reread(w) \/ StartRevert(w)
      BY <2>1, <1>4, <1>6
    <2>2. CASE \E w \in Workers : NothingToDo(w) \/ FlagReturn(w) \/ ReadForStatus(w)
      BY <2>2, <1>5
    <2>3. CASE \E w \in Workers : WriteStatus(w)
      BY <2>3, <1>7
    <2>4. CASE \E o \in Parcels : Person(o)
      BY <2>4, <1>3
    <2>5. CASE \E w \in Workers : SaveRevert(w)
      BY <2>5, <1>a
    <2>6. QED
      BY <1>2, <2>1, <2>2, <2>3, <2>4, <2>5 DEF PostalNext

LEMMA MovesForward == PostalInv /\ [PostalNext]_postalVars => PostalMovesForward
  <1> SUFFICES ASSUME PostalInv, [PostalNext]_postalVars, NEW w \in Workers, NEW o \in Parcels,
                      worker[w].order = o, worker[w].pc = "write", worker'[w].pc # "write",
                      parcel'[o].status # parcel[o].status
               PROVE  /\ parcel[o].status \in Open /\ ~parcel[o].deleted
                      /\ parcel[o].pending => overtaken[w] > worker[w].seen
                      /\ Rank(parcel[o].status) < Rank(parcel'[o].status)
    BY DEF PostalMovesForward
  <1>1. Moved(w)
    <2>1. WriteStatus(w)
      BY WhoActs
    <2>2. QED
      BY <2>1 DEF WriteStatus
  <1>2. /\ parcel'[o].status \in {"DISPATCHED", "DELIVERED"}
        /\ parcel[o].status \in Open /\ ~parcel[o].deleted
        /\ parcel[o].pending => overtaken[w] > worker[w].seen
    BY <1>1, MoveMade
  <1>3. QED
    BY <1>2 DEF Rank, Open, ON_SHELF

LEMMA ReturnsWin == PostalInv /\ [PostalNext]_postalVars => ReturnWins
  <1> SUFFICES ASSUME PostalInv, [PostalNext]_postalVars, alone, NEW w \in Workers, NEW o \in Parcels,
                      worker[w].job # "bulk", worker[w].pc = "write", worker'[w].pc = "idle",
                      parcel'[o].status = "DELIVERED", parcel[o].status # "DELIVERED"
               PROVE  ~parcel[o].returned
    BY DEF ReturnWins
  <1>1. WriteStatus(w)
    BY WhoActs
  <1>2. Moved(w)
    BY <1>1 DEF WriteStatus
  <1>3. o = worker[w].order /\ Goal(worker[w]) = "DELIVERED"
    BY <1>2, MoveMade
  <1>4. ~worker[w].doc.returned
    BY <1>3 DEF Goal, Wanted
  <1>5. parcel[o].returned = worker[w].doc.returned
    BY <1>3 DEF PostalInv, Single, Fresh, Busy
  <1>6. QED
    BY <1>4, <1>5

LEMMA HandedFirst == PlainScans /\ PostalInv /\ [PostalNext]_postalVars => DispatchedIsHandedOver
  <1> SUFFICES ASSUME PlainScans, PostalInv, [PostalNext]_postalVars, NEW o \in Parcels,
                      parcel'[o].status = "DISPATCHED", parcel[o].status # "DISPATCHED", touches' = touches
               PROVE  Handed(happened)
    BY DEF DispatchedIsHandedOver, Handed
  <1>1. PICK w \in Workers : worker[w].pc = "write" /\ Moved(w)
    <2>1. ASSUME NEW w \in Workers, worker[w].pc = "save", SaveRevert(w)
          PROVE  FALSE
      <3>1. worker[w].order \in Parcels /\ parcel \in [Parcels -> ParcelDoc]
        BY <2>1, InHand DEF MayHold, PostalInv, PostalTyped
      <3>2. parcel'[o].status \in {"NEW", parcel[o].status}
        BY <2>1, <3>1 DEF SaveRevert, Changes, ParcelDoc
      <3>3. QED
        BY <3>2
    <2>2. QED
      BY <2>1, WhoActs
  <1>2. Goal(worker[w]) = "DISPATCHED"
    BY <1>1, MoveMade
  <1>3. worker[w].milestone = "BOOKED"
    BY <1>2 DEF Goal, Wanted
  <1>4. QED
    BY <1>3, InHand DEF MayHold

LEMMA EventsStay == PostalInv /\ [PostalNext]_postalVars => NoEventLost
  <1> SUFFICES ASSUME PostalInv, [PostalNext]_postalVars, NEW w \in Workers, worker[w].job = "hook",
                      worker[w].pc \in {"apply", "write"}, worker'[w].pc = "idle"
               PROVE  Reflected(w) \/ overtaken[w] >= 2
    BY DEF NoEventLost
  <1> DEFINE q == worker[w]
             d == parcel[q.order]
             k == parcel'[q.order]
  <1>1. /\ q \in WorkerState /\ EventFits(q, d, overtaken[w]) /\ overtaken[w] \in Nat
        /\ q.order \in Parcels /\ d \in ParcelDoc /\ q.milestone \in Milestone /\ q.seen \in Nat
    BY InHand DEF MayHold, EventFits, Busy, PostalInv, PostalTyped, WorkerState
  <1>2. CASE NothingToDo(w)
    <2>1. Wanted(q.doc, q.milestone) = "NOTHING"
      BY <1>2 DEF NothingToDo, Goal
    <2>2. Settled(q.doc, q.milestone)
      BY <1>1, <2>1 DEF Wanted, Milestone, Settled
    <2>3. QED
      BY <2>2 DEF Reflected
  <1>3. CASE FlagReturn(w)
    <2>1. Wanted(q.doc, q.milestone) = "FLAG" /\ k.returned
      BY <1>1, <1>3 DEF FlagReturn, Goal, PostalInv, PostalTyped, ParcelDoc
    <2>2. q.milestone = "RETURNED"
      BY <2>1 DEF Wanted
    <2>3. Reflected(w)
      BY <2>1, <2>2 DEF Reflected, Settled
    <2>4. QED
      BY <2>3
  <1>4. ASSUME Goal(q) = "DISPATCHED" \/ Goal(q) = "DELIVERED"
        PROVE  \/ q.milestone = "BOOKED" /\ Goal(q) = "DISPATCHED"
               \/ q.milestone = "DELIVERED" /\ Goal(q) = "DELIVERED"
    BY <1>4 DEF Goal, Wanted
  <1>5. CASE ReadForStatus(w)
    <2>1. ~MayMove(d, Goal(q)) /\ Goal(q) \in Status /\ k = d
      <3>1. worker' # [worker EXCEPT ![w].pc = "write", ![w].read = d.status, ![w].seen = overtaken[w]]
        BY InHand DEF WorkerState
      <3>2. QED
        BY <1>5, <3>1 DEF ReadForStatus
    <2>2. Goal(q) \in {"DISPATCHED", "DELIVERED"}
      BY <2>1, GoalsAre
    <2>3. d.deleted \/ d.pending \/ d.status \notin Open
      BY <2>1, <2>2 DEF MayMove
    <2>4. Reflected(w)
      BY <1>4, <2>1, <2>2, <2>3 DEF Reflected, Settled, Open, ON_SHELF
    <2>5. QED
      BY <2>4
  <1>6. CASE WriteStatus(w) /\ q.pc = "write"
    <2>1. CASE Moved(w)
      <3>1. Goal(q) \in {"DISPATCHED", "DELIVERED"} /\ k.status = Goal(q)
        BY <1>6, <2>1, MoveMade
      <3>2. Reflected(w)
        BY <1>4, <3>1 DEF Reflected, Settled, Open, ON_SHELF
      <3>3. QED
        BY <3>2
    <2>2. ASSUME d.status # q.read \/ d.deleted, UNCHANGED parcel,
                 q.job = "hook" /\ ~q.retried => worker' = [worker EXCEPT ![w].pc = "reread"]
          PROVE  Reflected(w) \/ overtaken[w] >= 2
      <3>1. q.retried
        <4>1. worker' # [worker EXCEPT ![w].pc = "reread"]
          BY InHand DEF WorkerState
        <4>2. QED
          BY <2>2, <4>1
      <3>2. overtaken[w] # q.seen /\ overtaken[w] >= q.seen /\ q.seen >= 1
        BY <1>1, <1>6, <2>2, <3>1 DEF EventFits
      <3>3. overtaken[w] >= 2
        BY <1>1, <3>2
      <3>4. QED
        BY <3>3
    <2>3. QED
      BY <1>6, <2>1, <2>2 DEF WriteStatus
  <1>7. QED
    BY <1>2, <1>3, <1>5, <1>6, WhoActs

-----------------------------------------------------------------------------
LEMMA PostalInvAlways == PostalSpec => []PostalInv
  BY PostalStarts, PostalStepKeepsInv, PTL DEF PostalSpec

\* In whatever order scans, syncs and people come, the newest scan is shown
\* (recordLatestScan), India Post only moves an order that is on its way, and
\* forward (updateStatus), the webhook loses no event to one change made
\* meanwhile (handle), and a return reported before keeps a later "delivered"
\* from delivering the order (apply).
THEOREM PostalKept ==
  PostalSpec => [][NewestScanKept' /\ PostalMovesForward /\ NoEventLost /\ ReturnWins]_postalVars
  <1>1. PostalInv' => NewestScanKept'
    BY NewestByInv, PTL
  <1>2. PostalInv /\ PostalInv' /\ [PostalNext]_postalVars
          => [NewestScanKept' /\ PostalMovesForward /\ NoEventLost /\ ReturnWins]_postalVars
    BY <1>1, MovesForward, EventsStay, ReturnsWin
  <1>3. QED
    BY <1>2, PostalInvAlways, PTL DEF PostalSpec

\* The same, and no order is dispatched before India Post has the parcel: while
\* no scan's text is at once about a booking and about the time before it, which
\* milestoneOf, asked first, takes for a booking.
THEOREM PostalAlwaysObeyed == PlainScans => (PostalSpec => PostalObeyed)
  <1> SUFFICES ASSUME PlainScans PROVE PostalSpec => PostalObeyed
    OBVIOUS
  <1>1. PostalInv /\ [PostalNext]_postalVars => [DispatchedIsHandedOver]_postalVars
    BY HandedFirst
  <1>2. PostalSpec => [][DispatchedIsHandedOver]_postalVars
    BY <1>1, PostalInvAlways, PTL DEF PostalSpec
  <1>3. QED
    BY <1>2, PostalKept, PTL DEF PostalObeyed

-----------------------------------------------------------------------------
(***************************************************************************)
(* No order is stamped with a scan that was not made: a worker that has    *)
(* its answer, and may still stamp an order with it, has the time of one,  *)
(* or of none.                                                             *)
(***************************************************************************)
Made == {s.at : s \in happened}
Answered(q) == q.pc = "stamp" \/ (q.pc \in Busy /\ q.todo # {} /\ q.at # 0)

StampsMade ==
    /\ \A o \in Parcels : stamped[o] \subseteq Made
    /\ \A w \in Workers : Answered(worker[w]) => worker[w].at \in Made

LEMMA FinishedStamps ==
  ASSUME PostalInv, StampsMade, NEW w \in Workers, worker[w].pc \in Busy, Finished(w),
         NEW v \in Workers, Answered(worker'[v])
  PROVE  worker'[v].at \in Made
  <1> DEFINE q == worker[w]
  <1>0. worker \in [Workers -> WorkerState] /\ q \in WorkerState
    BY InHand
  <1>1. CASE worker' = [worker EXCEPT ![w] = Resting]
    <2>1. ~Answered(Resting)
      BY DEF Answered, Resting, Busy
    <2>2. QED
      BY <1>0, <1>1, <2>1 DEF StampsMade
  <1>2. ASSUME NEW t \in q.todo, TakesUp(w, q, t)
        PROVE  worker'[v].at \in Made
    <2>1. q.at # 0 => q.at \in Made
      BY <1>2 DEF StampsMade, Answered
    <2>2. CASE v = w
      <3>1. worker'[w].at = q.at /\ (q.at = 0 => worker'[w].pc = "apply")
        BY <1>0, <1>2 DEF TakesUp, WorkerState
      <3>2. q.at # 0
        BY <2>2, <3>1 DEF Answered
      <3>3. QED
        BY <2>1, <2>2, <3>1, <3>2
    <2>3. CASE v # w
      <3>1. worker'[v] = worker[v]
        BY <1>0, <1>2, <2>3 DEF TakesUp
      <3>2. QED
        BY <3>1 DEF StampsMade
    <2>4. QED
      BY <2>2, <2>3
  <1>3. QED
    BY <1>1, <1>2 DEF Finished

\* A worker goes on as r, no order is stamped.
LEMMA StampsStay ==
  ASSUME PostalInv, StampsMade, NEW w \in Workers, NEW r, worker' = [worker EXCEPT ![w] = r],
         Answered(r) => r.at \in Made, UNCHANGED <<stamped, happened>>
  PROVE  StampsMade'
  <1>1. worker \in [Workers -> WorkerState] /\ Made' = Made
    BY InHand DEF Made
  <1>2. ASSUME NEW v \in Workers, Answered(worker'[v]) PROVE worker'[v].at \in Made
    BY <1>1, <1>2 DEF StampsMade
  <1>3. QED
    BY <1>1, <1>2 DEF StampsMade

LEMMA TrackStamps == ASSUME PostalInv, StampsMade, NEW w \in Workers, Track(w) PROVE StampsMade'
  <1> DEFINE q == worker[w]
             answered(c) == [q EXCEPT !.at = Max({0} \cup {s.at : s \in happened}), !.milestone = milestoneFor(happened, c)]
  <1>0. q \in WorkerState /\ UNCHANGED <<stamped, happened>>
    BY InHand DEF Track
  <1>1. CASE worker' = [worker EXCEPT ![w] = Resting]
    <2>1. ~Answered(Resting)
      BY DEF Answered, Resting, Busy
    <2>2. QED
      BY <1>0, <1>1, <2>1, StampsStay
  <1>2. ASSUME NEW c \in BOOLEAN, NEW t \in q.todo, TakesUp(w, answered(c), t)
        PROVE  StampsMade'
    <2> DEFINE a == answered(c)
               r == [a EXCEPT !.pc = IF a.at = 0 THEN "apply" ELSE "stamp",
                              !.order = t.order, !.doc = t.doc, !.todo = a.todo \ {t}]
    <2>1. worker' = [worker EXCEPT ![w] = r]
      BY <1>2 DEF TakesUp
    <2>2. r.at = Max({0} \cup Made) /\ (r.at = 0 => r.pc = "apply")
      BY <1>0 DEF WorkerState, Made
    <2>3. Max({0} \cup Made) # 0 => Max({0} \cup Made) \in Made
      BY AnswerTime DEF PostalInv, PostalTyped, Made
    <2> HIDE DEF r
    <2>4. Answered(r) => r.at \in Made
      BY <2>2, <2>3 DEF Answered
    <2>5. QED
      BY <1>0, <2>1, <2>4, StampsStay
  <1>3. QED
    BY <1>1, <1>2 DEF Track

LEMMA StampsStep ==
  ASSUME PostalInv, StampsMade, [PostalNext]_postalVars
  PROVE  StampsMade'
  <1>0. worker \in [Workers -> WorkerState] /\ stamped \in [Parcels -> SUBSET Times]
    BY DEF PostalInv, PostalTyped
  <1>1. CASE UNCHANGED postalVars
    BY <1>1 DEF postalVars, StampsMade, Made
  <1>2. CASE Scan
    <2>1. Made \subseteq Made' /\ UNCHANGED <<worker, stamped>>
      BY <1>2 DEF Scan, Made
    <2>2. QED
      BY <2>1 DEF StampsMade
  <1>3. ASSUME NEW o \in Parcels, Person(o) PROVE StampsMade'
    BY <1>3 DEF Person, StampsMade, Made
  <1>4. ASSUME NEW w \in Workers, Receive(w) PROVE StampsMade'
    <2>1. PICK s \in happened, o \in Carriers :
            worker' = [worker EXCEPT ![w] =
                [Resting EXCEPT !.pc = "stamp", !.order = o, !.doc = Selected(parcel[o]),
                                !.at = s.at, !.milestone = EventMilestone(s)]]
      BY <1>4 DEF Receive
    <2> DEFINE r == [Resting EXCEPT !.pc = "stamp", !.order = o, !.doc = Selected(parcel[o]),
                                    !.at = s.at, !.milestone = EventMilestone(s)]
    <2>2. r.at \in Made
      BY DEF Resting, Made
    <2> HIDE DEF r
    <2>3. worker' = [worker EXCEPT ![w] = r] /\ UNCHANGED <<stamped, happened>>
      BY <1>4, <2>1 DEF Receive, r
    <2>4. QED
      BY <2>2, <2>3, StampsStay
  <1>5. ASSUME NEW w \in Workers, \/ StartSync(w) \/ FindShared(w) \/ Preview(w)
                                  \/ StartRevert(w) \/ SaveRevert(w)
        PROVE  StampsMade'
    <2>1. \E r : worker' = [worker EXCEPT ![w] = r] /\ ~Answered(r)
      <3>1. CASE StartSync(w)
        <4>1. PICK found : worker' = [worker EXCEPT ![w] = [Resting EXCEPT !.pc = "share", !.job = "sync", !.todo = found]]
          BY <3>1 DEF StartSync
        <4>2. ~Answered([Resting EXCEPT !.pc = "share", !.job = "sync", !.todo = found])
          BY DEF Answered, Resting, Busy
        <4>3. QED
          BY <4>1, <4>2
      <3>2. CASE FindShared(w)
        <4>1. worker[w] \in WorkerState
          BY <1>0
        <4>2. ~Answered([worker[w] EXCEPT !.pc = "track"]) /\ ~Answered(Resting)
          BY <4>1 DEF Answered, Resting, Busy, WorkerState
        <4>3. QED
          BY <3>2, <4>2 DEF FindShared
      <3>3. CASE Preview(w)
        <4>1. PICK o \in Carriers :
                worker' = [worker EXCEPT ![w] =
                    [Resting EXCEPT !.pc = "apply", !.job = "bulk", !.order = o,
                                    !.doc = Selected(parcel[o]), !.milestone = "DELIVERED"]]
          BY <3>3 DEF Preview
        <4>2. ~Answered([Resting EXCEPT !.pc = "apply", !.job = "bulk", !.order = o,
                                        !.doc = Selected(parcel[o]), !.milestone = "DELIVERED"])
          BY DEF Answered, Resting, Busy
        <4>3. QED
          BY <4>1, <4>2
      <3>4. CASE StartRevert(w)
        <4>1. PICK o \in Parcels :
                worker' = [worker EXCEPT ![w] =
                    [Resting EXCEPT !.pc = "save", !.job = "revert", !.order = o,
                                    !.doc = Selected(parcel[o])]]
          BY <3>4 DEF StartRevert
        <4>2. ~Answered([Resting EXCEPT !.pc = "save", !.job = "revert", !.order = o,
                                        !.doc = Selected(parcel[o])])
          BY DEF Answered, Resting, Busy
        <4>3. QED
          BY <4>1, <4>2
      <3>5. CASE SaveRevert(w)
        <4>1. ~Answered(Resting)
          BY DEF Answered, Resting, Busy
        <4>2. QED
          BY <3>5, <4>1 DEF SaveRevert
      <3>6. QED
        BY <1>5, <3>1, <3>2, <3>3, <3>4, <3>5
    <2>2. UNCHANGED <<stamped, happened>>
      BY <1>5 DEF StartSync, FindShared, Preview, StartRevert, SaveRevert
    <2>3. QED
      BY <2>1, <2>2, StampsStay
  <1>6. ASSUME NEW w \in Workers, recordLatestScan(w) PROVE StampsMade'
    <2>1. /\ worker[w].at \in Made /\ Made' = Made
          /\ stamped' = [stamped EXCEPT ![worker[w].order] = @ \cup {worker[w].at}]
          /\ worker' = [worker EXCEPT ![w].pc = "apply"]
      BY <1>6 DEF recordLatestScan, StampsMade, Answered, Made
    <2>2. \A o \in Parcels : stamped'[o] \subseteq Made
      BY <1>0, <2>1 DEF StampsMade
    <2>3. ASSUME NEW v \in Workers, Answered(worker'[v]) PROVE worker'[v].at \in Made
      <3>1. v # w => worker'[v] = worker[v]
        BY <1>0, <2>1
      <3>2. worker'[w].at = worker[w].at
        BY <1>0, <2>1 DEF WorkerState
      <3>3. QED
        BY <2>1, <2>3, <3>1, <3>2 DEF StampsMade
    <2>4. QED
      BY <2>1, <2>2, <2>3 DEF StampsMade
  <1>7. ASSUME NEW w \in Workers, worker[w].pc \in Busy, Finished(w), UNCHANGED <<stamped, happened>>
        PROVE  StampsMade'
    <2>1. Made' = Made
      BY <1>7 DEF Made
    <2>2. QED
      BY <1>7, <2>1, FinishedStamps DEF StampsMade
  <1>8. ASSUME NEW w \in Workers, NEW r, worker' = [worker EXCEPT ![w] = r],
               UNCHANGED <<stamped, happened>>,
               worker[w].pc \in Busy, r.todo = worker[w].todo, r.at = worker[w].at,
               r.pc # "stamp"
        PROVE  StampsMade'
    <2>1. Answered(r) => r.at \in Made
      BY <1>8 DEF Answered, StampsMade
    <2>2. QED
      BY <1>8, <2>1, StampsStay
  <1>9. ASSUME NEW w \in Workers, NothingToDo(w) \/ FlagReturn(w) \/ ReadForStatus(w)
                                   \/ WriteStatus(w) \/ Reread(w)
        PROVE  StampsMade'
    <2> DEFINE q == worker[w]
    <2>1. worker[w].pc \in Busy /\ UNCHANGED <<stamped, happened>> /\ q \in WorkerState
      BY <1>0, <1>9 DEF NothingToDo, FlagReturn, ReadForStatus, WriteStatus, Reread, Busy
    <2>2. \/ Finished(w)
          \/ worker' = [worker EXCEPT ![w] = [q EXCEPT !.pc = "write", !.read = parcel[q.order].status, !.seen = overtaken[w]]]
          \/ worker' = [worker EXCEPT ![w] = [q EXCEPT !.pc = "reread"]]
          \/ worker' = [worker EXCEPT ![w] = [q EXCEPT !.pc = "apply", !.doc = Selected(parcel[q.order]),
                                                      !.retried = TRUE]]
      <3>1. CASE NothingToDo(w)
        BY <3>1 DEF NothingToDo, LetGo
      <3>2. CASE FlagReturn(w)
        BY <3>2 DEF FlagReturn, LetGo
      <3>3. CASE ReadForStatus(w)
        BY <1>0, <3>3 DEF ReadForStatus, LetGo
      <3>4. CASE WriteStatus(w)
        BY <1>0, <3>4 DEF WriteStatus, Moved, LetGo
      <3>5. CASE Reread(w)
        BY <3>5 DEF Reread
      <3>6. QED
        BY <1>9, <3>1, <3>2, <3>3, <3>4, <3>5
    <2>3. CASE Finished(w)
      BY <1>7, <2>1, <2>3
    <2>4. ASSUME NEW r, worker' = [worker EXCEPT ![w] = r],
                 r.todo = q.todo /\ r.at = q.at /\ r.pc # "stamp"
          PROVE  StampsMade'
      BY <1>8, <2>1, <2>4
    <2>5. /\ LET r == [q EXCEPT !.pc = "write", !.read = parcel[q.order].status, !.seen = overtaken[w]]
             IN  r.todo = q.todo /\ r.at = q.at /\ r.pc # "stamp"
          /\ LET r == [q EXCEPT !.pc = "reread"]
             IN  r.todo = q.todo /\ r.at = q.at /\ r.pc # "stamp"
          /\ LET r == [q EXCEPT !.pc = "apply", !.doc = Selected(parcel[q.order]), !.retried = TRUE]
             IN  r.todo = q.todo /\ r.at = q.at /\ r.pc # "stamp"
      BY <2>1 DEF WorkerState
    <2>6. QED
      BY <2>2, <2>3, <2>4, <2>5
  <1>10. QED
    BY <1>1, <1>2, <1>3, <1>4, <1>5, <1>6, <1>9, TrackStamps DEF PostalNext

-----------------------------------------------------------------------------
(***************************************************************************)
(* The three together.                                                     *)
(***************************************************************************)
MessagesInv == OtpInv /\ InboxInv /\ PostalInv /\ StampsMade

LEMMA MessagesTyped == MessagesInv => MessagesTypeOK
  <1> SUFFICES ASSUME MessagesInv PROVE MessagesTypeOK
    OBVIOUS
  <1>1. OtpTypeOK
    BY DEF MessagesInv, OtpInv
  <1>2. InboxTypeOK
    <2>1. AgentIdle.to \in Contacts
      <3>1. Contacts # {}
        BY InboxAssumption DEF Contacts
      <3>2. AgentIdle.to = CHOOSE c \in Contacts : TRUE
        BY DEF AgentIdle
      <3>3. QED
        BY <3>1, <3>2
    <2>2. Contacts \cup {AgentIdle.to} = Contacts
      BY <2>1
    <2>3. QED
      BY <2>2 DEF MessagesInv, InboxInv, InboxTyped, InboxTypeOK, HookState, AckState, AgentState, Acknowledgement
  <1>3. PostalTypeOK
    <2>1. PostalInv /\ PostalTyped
      BY DEF MessagesInv, PostalInv
    <2>2. \A o \in Parcels : stamped[o] \subseteq {s.at : s \in happened}
      BY DEF MessagesInv, StampsMade, Made
    <2>3. ASSUME NEW w \in Workers
          PROVE  /\ worker[w].pc \in {"idle", "share", "track", "stamp", "apply", "write", "reread", "save"}
                 /\ worker[w].order \in Parcels \cup {NoParcel} /\ worker[w].doc \in Picture
                 /\ worker[w].milestone \in Milestone
                 /\ worker[w].pc \in {"stamp", "apply", "write", "reread", "save"} => worker[w].order # NoParcel
      <3>1. worker[w] \in WorkerState /\ MayHold(worker[w], overtaken[w], parcel, happened)
        BY <2>1, InHand
      <3>2. worker[w].pc \in Busy \cup {"save"} => worker[w].order # NoParcel
        BY <3>1, PostalAssumption DEF MayHold, EventFits
      <3>3. QED
        BY <3>1, <3>2 DEF WorkerState, Busy
    <2>4. QED
      BY <2>1, <2>2, <2>3 DEF PostalTyped, PostalTypeOK
  <1>4. QED
    BY <1>1, <1>2, <1>3 DEF MessagesTypeOK

\* Codes, inbox and postal events keep their types, for a number that has had a
\* code before; no order is stamped with a scan that was not made.
THEOREM MessagesTypeCorrect ==
  ASSUME FirstEver = {FALSE}
  PROVE  Spec => []MessagesTypeOK
  <1>1. Init => MessagesInv
    <2> SUFFICES ASSUME Init PROVE MessagesInv
      OBVIOUS
    <2>1. OtpInv /\ InboxInv /\ PostalInv
      BY InitGuards, InboxInitInv, PostalStarts DEF Init
    <2>2. StampsMade
      BY DEF Init, PostalInit, StampsMade, Answered, Resting, Busy, Made
    <2>3. QED
      BY <2>1, <2>2 DEF MessagesInv
  <1>2. MessagesInv /\ [Next]_partVars => MessagesInv'
    <2> SUFFICES ASSUME MessagesInv, [Next]_partVars PROVE MessagesInv'
      OBVIOUS
    <2>1. [OtpNext]_otpVars /\ [InboxNext]_inboxVars /\ [PostalNext]_postalVars
      <3>1. CASE UNCHANGED partVars
        BY <3>1 DEF partVars
      <3>2. CASE Next
        BY <3>2 DEF Next
      <3>3. QED
        BY <3>1, <3>2
    <2>2. OtpInv' /\ InboxInv'
      BY <2>1, NextGuards, InboxStepInv DEF MessagesInv
    <2>3. PostalInv' /\ StampsMade'
      BY <2>1, PostalStepKeepsInv, StampsStep DEF MessagesInv
    <2>4. QED
      BY <2>2, <2>3 DEF MessagesInv
  <1>3. QED
    BY <1>1, <1>2, MessagesTyped, PTL DEF Spec
=============================================================================
