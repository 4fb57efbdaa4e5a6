--------------------------- MODULE ServicesProofs ---------------------------
(***************************************************************************)
(* Proofs about the services: the token shared by the calls to India Post, *)
(* for any number of calls at once, tokens and refusals; the requests that *)
(* reach the admins, for any number of requests and admins; the types of   *)
(* both, whichever of them the behaviour is about; and the calculations,   *)
(* each for every input its callers may give it.                           *)
(***************************************************************************)
EXTENDS MCServices, SumProofs, TLAPS

(***************************************************************************)
(* The client of India Post's API.                                         *)
(***************************************************************************)
CallState == [pc: {"idle", "login", "retry", "send"}, with: 0 .. MaxTokens,
              refused: 0 .. MaxTokens, force: BOOLEAN]

\* What one call may hold: tokens that were issued, never one it was refused
\* with while it sends, and the cache has dropped that one for good.
CallFits(q, t, n) ==
    /\ q.with <= n /\ q.refused <= n
    /\ q.refused # 0 => t # q.refused
    /\ q.pc = "send" => q.with # 0 /\ q.with # q.refused

\* The strengthening: the flag counts the logins, and every call fits the cache
\* and the tokens issued so far.
ApiInv ==
    /\ ApiTypeOK
    /\ inFlight => logins = 1
    /\ ~inFlight => logins = 0
    /\ token <= issued
    /\ \A c \in Calls : CallFits(call[c], token, issued)

-----------------------------------------------------------------------------
\* One call goes on as q; the cache, the tokens and everybody else stay.
\* Then the flag must still say whether someone waits for a login.
LEMMA AccessKeepsInv ==
  ASSUME ApiInv, MaxTokens \in Nat, NEW c \in Calls, NEW q \in CallState, NEW t \in {0, token},
         call[c].pc # "login",
         CallFits([q EXCEPT !.pc = "idle"], t, issued),
         q.force \/ t = token,
         accessToken(c, q), token' = t, UNCHANGED <<valid, issued>>, lapsed' \in BOOLEAN
  PROVE  ApiInv'
  <1>1. t \in 0 .. MaxTokens /\ t <= issued /\ issued \in 0 .. MaxTokens
    BY DEF ApiInv, ApiTypeOK
  <1>2. \A d \in Calls : CallFits(call[d], t, issued)
    BY DEF ApiInv, CallFits, ApiTypeOK
  <1>3. CASE ~q.force /\ token # 0 /\ ~lapsed
    <2> DEFINE p == [q EXCEPT !.pc = "send", !.with = token]
    <2>1. p \in CallState /\ p.pc = "send"
      BY DEF CallState, ApiInv, ApiTypeOK
    <2>2. call' = [call EXCEPT ![c] = p] /\ inFlight' = inFlight /\ logins' = logins
      BY <1>3 DEF accessToken
    <2>3. CallFits(p, t, issued)
      BY <1>1, <1>3 DEF CallFits, CallState, ApiInv, ApiTypeOK
    <2> HIDE DEF p
    <2>4. call' \in [Calls -> CallState]
      BY <2>1, <2>2 DEF ApiInv, ApiTypeOK, CallState
    <2>5. (\E d \in Calls : call'[d].pc = "login") <=> (\E d \in Calls : call[d].pc = "login")
      BY <2>1, <2>2 DEF ApiInv, ApiTypeOK
    <2>6. \A d \in Calls : CallFits(call'[d], token', issued')
      BY <1>2, <2>2, <2>3 DEF ApiInv, ApiTypeOK
    <2>7. QED
      BY <1>1, <2>2, <2>4, <2>5, <2>6 DEF ApiInv, ApiTypeOK, CallState
  <1>4. CASE ~(~q.force /\ token # 0 /\ ~lapsed)
    <2> DEFINE p == [q EXCEPT !.pc = "login"]
    <2>1. p \in CallState /\ p.pc = "login"
      BY DEF CallState
    <2>2. /\ call' = [call EXCEPT ![c] = p] /\ inFlight' = TRUE
          /\ logins' = IF inFlight THEN logins ELSE logins + 1
      BY <1>4 DEF accessToken
    <2>3. CallFits(p, t, issued)
      BY DEF CallFits, CallState
    <2> HIDE DEF p
    <2>4. call' \in [Calls -> CallState]
      BY <2>1, <2>2 DEF ApiInv, ApiTypeOK, CallState
    <2>5. \E d \in Calls : call'[d].pc = "login"
      BY <2>1, <2>2 DEF ApiInv, ApiTypeOK
    <2>6. \A d \in Calls : CallFits(call'[d], token', issued')
      BY <1>2, <2>2, <2>3 DEF ApiInv, ApiTypeOK
    <2>7. inFlight' /\ logins' = 1
      BY <2>2 DEF ApiInv, ApiTypeOK
    <2>8. QED
      BY <1>1, <2>2, <2>4, <2>5, <2>6, <2>7 DEF ApiInv, ApiTypeOK, CallState
  <1>5. QED
    BY <1>3, <1>4

\* The login is over: every call that waited goes on as w says, the flag falls.
LEMMA AnswerKeepsInv ==
  ASSUME ApiInv, NEW w \in [Calls -> CallState],
         call' = [c \in Calls |-> IF call[c].pc = "login" THEN w[c] ELSE call[c]],
         inFlight' = FALSE, logins' = logins - 1, logins > 0,
         token' \in 0 .. MaxTokens, issued' \in 0 .. MaxTokens, issued' >= issued,
         token' <= issued', valid' \subseteq TokenIds, lapsed' \in BOOLEAN,
         \A c \in Calls : w[c].pc # "login",
         \A c \in Calls : call[c].pc = "login" => CallFits(w[c], token', issued'),
         \A c \in Calls : CallFits(call[c], token', issued')
  PROVE  ApiInv'
  <1>1. call' \in [Calls -> CallState]
    BY DEF ApiInv, ApiTypeOK, CallState
  <1>2. \A c \in Calls : call'[c].pc # "login"
    OBVIOUS
  <1>3. \A c \in Calls : CallFits(call'[c], token', issued')
    OBVIOUS
  <1>4. logins' = 0
    BY DEF ApiInv, ApiTypeOK
  <1>5. QED
    BY <1>1, <1>2, <1>3, <1>4 DEF ApiInv, ApiTypeOK, CallState

-----------------------------------------------------------------------------
LEMMA ApiInitInv == ApiInit => ApiInv
  <1> SUFFICES ASSUME ApiInit PROVE ApiInv
    OBVIOUS
  <1>1. CallRest \in CallState /\ CallRest.pc = "idle" /\ CallFits(CallRest, 0, 0)
    BY ApiAssumption DEF CallRest, CallState, CallFits
  <1>2. call \in [Calls -> CallState] /\ \A c \in Calls : call[c] = CallRest
    BY <1>1 DEF ApiInit
  <1>3. ApiTypeOK
    <2>1. ~inFlight /\ inFlight \in BOOLEAN /\ lapsed \in BOOLEAN
      BY DEF ApiInit
    <2>2. \A c \in Calls : call[c].pc # "login"
      BY <1>1, <1>2
    <2>3. token \in 0 .. MaxTokens /\ issued \in 0 .. MaxTokens /\ valid \subseteq TokenIds
      BY ApiAssumption DEF ApiInit
    <2>4. QED
      BY <1>2, <2>1, <2>2, <2>3 DEF ApiTypeOK, CallState
  <1>4. QED
    BY <1>1, <1>2, <1>3 DEF ApiInit, ApiInv

LEMMA RequestKeepsInv ==
  ASSUME ApiInv, NEW c \in Calls, Request(c)
  PROVE  ApiInv'
  <1>1. CallRest \in CallState /\ CallFits([CallRest EXCEPT !.pc = "idle"], token, issued)
    BY ApiAssumption DEF CallRest, CallState, CallFits, ApiInv, ApiTypeOK
  <1>2. QED
    BY <1>1, AccessKeepsInv, ApiAssumption DEF Request, ApiInv, ApiTypeOK

LEMMA RequestAgainKeepsInv ==
  ASSUME ApiInv, NEW c \in Calls, RequestAgain(c)
  PROVE  ApiInv'
  <1> DEFINE q == [call[c] EXCEPT !.force = FALSE]
  <1>1. q \in CallState
    BY DEF ApiInv, ApiTypeOK, CallState
  <1>2. CallFits([q EXCEPT !.pc = "idle"], token, issued)
    <2>1. CallFits(call[c], token, issued) /\ call[c] \in CallState
      BY DEF ApiInv, ApiTypeOK, CallState
    <2>2. QED
      BY <2>1 DEF CallFits, CallState
  <1>3. call[c].pc # "login" /\ accessToken(c, q)
    BY DEF RequestAgain
  <1>4. UNCHANGED <<token, lapsed, valid, issued>>
    BY DEF RequestAgain
  <1> HIDE DEF q
  <1>5. QED
    BY <1>1, <1>2, <1>3, <1>4, AccessKeepsInv, ApiAssumption DEF ApiInv, ApiTypeOK

LEMMA RefusedKeepsInv ==
  ASSUME ApiInv, NEW c \in Calls, Refused(c)
  PROVE  ApiInv'
  <1> DEFINE q == [call[c] EXCEPT !.refused = call[c].with, !.force = TRUE]
  <1>0. call[c] \in CallState /\ CallFits(call[c], token, issued) /\ call[c].pc = "send"
    BY DEF ApiInv, ApiTypeOK, CallState, Refused
  <1>1. q \in CallState /\ q.force
    BY <1>0 DEF CallState
  <1>2. CallFits([q EXCEPT !.pc = "idle"], 0, issued)
    BY <1>0 DEF CallFits, CallState
  <1>3. call[c].pc # "login" /\ accessToken(c, q) /\ token' = 0 /\ UNCHANGED <<lapsed, valid, issued>>
    BY DEF Refused
  <1> HIDE DEF q
  <1>4. QED
    BY <1>1, <1>2, <1>3, AccessKeepsInv, ApiAssumption DEF ApiInv, ApiTypeOK

LEMMA SentKeepsInv ==
  ASSUME ApiInv, NEW c \in Calls, Sent(c)
  PROVE  ApiInv'
  <1>1. CallRest \in CallState /\ CallFits(CallRest, token, issued) /\ CallRest.pc # "login"
    BY ApiAssumption DEF CallRest, CallState, CallFits, ApiInv, ApiTypeOK
  <1>2. /\ call' = [call EXCEPT ![c] = CallRest] /\ call[c].pc # "login"
        /\ UNCHANGED <<token, lapsed, inFlight, logins, valid, issued>>
    BY DEF Sent
  <1>3. call' \in [Calls -> CallState]
    BY <1>1, <1>2 DEF ApiInv, ApiTypeOK, CallState
  <1>4. (\E d \in Calls : call'[d].pc = "login") <=> (\E d \in Calls : call[d].pc = "login")
    BY <1>1, <1>2 DEF ApiInv, ApiTypeOK
  <1>5. \A d \in Calls : CallFits(call'[d], token', issued')
    BY <1>1, <1>2 DEF ApiInv, ApiTypeOK
  <1>6. QED
    BY <1>2, <1>3, <1>4, <1>5 DEF ApiInv, ApiTypeOK, CallState

LEMMA LoggedInKeepsInv ==
  ASSUME ApiInv, LoggedIn
  PROVE  ApiInv'
  <1> DEFINE on(q) == IF q.force THEN [q EXCEPT !.pc = "retry"]
                      ELSE [q EXCEPT !.pc = "send", !.with = issued + 1]
             w == [c \in Calls |-> on(call[c])]
  <1>1. /\ call \in [Calls -> CallState] /\ issued \in Nat /\ token \in Nat /\ MaxTokens \in Nat
        /\ issued + 1 \in 1 .. MaxTokens
    <2>1. call \in [Calls -> CallState] /\ issued \in 0 .. MaxTokens /\ token \in 0 .. MaxTokens
      BY DEF ApiInv, ApiTypeOK, CallState
    <2>2. issued < MaxTokens
      BY DEF LoggedIn
    <2>3. QED
      BY <2>1, <2>2, ApiAssumption
  <1>2. w \in [Calls -> CallState] /\ \A c \in Calls : w[c].pc # "login"
    <2>1. ASSUME NEW q \in CallState
          PROVE  on(q) \in CallState /\ on(q).pc # "login"
      <3>1. CASE q.force
        <4>1. on(q) = [q EXCEPT !.pc = "retry"]
          BY <3>1
        <4>2. QED
          BY <2>1, <4>1 DEF CallState
      <3>2. CASE ~q.force
        <4>1. on(q) = [q EXCEPT !.pc = "send", !.with = issued + 1]
          BY <3>2
        <4>2. issued + 1 \in 0 .. MaxTokens
          BY <1>1
        <4> HIDE DEF on
        <4>3. QED
          BY <2>1, <4>1, <4>2 DEF CallState
      <3>3. QED
        BY <3>1, <3>2
    <2> HIDE DEF on
    <2>2. QED
      BY <1>1, <2>1
  <1>3. \A c \in Calls : CallFits(call[c], issued + 1, issued + 1)
    BY <1>1 DEF ApiInv, CallFits, CallState
  <1>4. \A c \in Calls : call[c].pc = "login" => CallFits(w[c], issued + 1, issued + 1)
    <2> SUFFICES ASSUME NEW c \in Calls, call[c].pc = "login"
                 PROVE  CallFits(w[c], issued + 1, issued + 1)
      OBVIOUS
    <2>1. call[c] \in CallState /\ CallFits(call[c], token, issued)
      BY <1>1 DEF ApiInv
    <2>2. CASE call[c].force
      <3>1. w[c] = [call[c] EXCEPT !.pc = "retry"]
        BY <2>2
      <3>2. QED
        BY <1>1, <2>1, <3>1 DEF CallFits, CallState
    <2>3. CASE ~call[c].force
      <3>1. w[c] = [call[c] EXCEPT !.pc = "send", !.with = issued + 1]
        BY <2>3
      <3>2. QED
        BY <1>1, <2>1, <3>1 DEF CallFits, CallState
    <2>4. QED
      BY <2>2, <2>3
  <1>5. call' = [c \in Calls |-> IF call[c].pc = "login" THEN w[c] ELSE call[c]]
    BY DEF LoggedIn
  <1>6. /\ issued' = issued + 1 /\ token' = issued + 1 /\ valid' \subseteq TokenIds
        /\ lapsed' \in BOOLEAN /\ inFlight' = FALSE /\ logins' = logins - 1 /\ logins > 0
    BY <1>1 DEF LoggedIn, ApiInv, ApiTypeOK, TokenIds
  <1> HIDE DEF w, on
  <1>7. /\ token' \in 0 .. MaxTokens /\ issued' \in 0 .. MaxTokens
        /\ issued' >= issued /\ token' <= issued'
    BY <1>1, <1>6
  <1>8. /\ \A c \in Calls : call[c].pc = "login" => CallFits(w[c], token', issued')
        /\ \A c \in Calls : CallFits(call[c], token', issued')
    BY <1>3, <1>4, <1>6
  <1>9. QED
    BY <1>2, <1>5, <1>6, <1>7, <1>8, AnswerKeepsInv

LEMMA RestFits ==
  ASSUME NEW t, NEW n \in 0 .. MaxTokens
  PROVE  CallFits(CallRest, t, n)
  BY ApiAssumption DEF CallRest, CallFits

LEMMA LoginFailedKeepsInv ==
  ASSUME ApiInv, LoginFailed
  PROVE  ApiInv'
  <1> DEFINE w == [c \in Calls |-> CallRest]
  <1>1. w \in [Calls -> CallState] /\ \A c \in Calls : w[c].pc # "login"
    BY ApiAssumption DEF CallRest, CallState
  <1>2. \A c \in Calls : CallFits(w[c], token, issued)
    BY RestFits DEF ApiInv, ApiTypeOK
  <1>3. call' = [c \in Calls |-> IF call[c].pc = "login" THEN w[c] ELSE call[c]]
    BY DEF LoginFailed
  <1>4. /\ UNCHANGED <<token, lapsed, valid, issued>>
        /\ inFlight' = FALSE /\ logins' = logins - 1 /\ logins > 0
    BY DEF LoginFailed
  <1> HIDE DEF w
  <1>5. token \in 0 .. MaxTokens /\ issued \in 0 .. MaxTokens /\ token <= issued
        /\ valid \subseteq TokenIds /\ lapsed \in BOOLEAN
        /\ \A c \in Calls : CallFits(call[c], token, issued)
    BY DEF ApiInv, ApiTypeOK
  <1>6. token' = token /\ issued' = issued /\ lapsed' = lapsed /\ valid' = valid
    BY <1>4
  <1>7. issued' >= issued /\ token' <= issued'
    BY <1>5, <1>6
  <1>8. \A c \in Calls : CallFits(w[c], token', issued') /\ CallFits(call[c], token', issued')
    BY <1>2, <1>5, <1>6
  <1>9. QED
    BY <1>1, <1>3, <1>4, <1>5, <1>6, <1>7, <1>8, AnswerKeepsInv

LEMMA ApiStepInv == ApiInv /\ [ApiNext]_apiVars => ApiInv'
  <1> SUFFICES ASSUME ApiInv, [ApiNext]_apiVars PROVE ApiInv'
    OBVIOUS
  <1>1. ASSUME NEW c \in Calls, Request(c) \/ RequestAgain(c) \/ Sent(c) \/ Refused(c)
        PROVE  ApiInv'
    BY <1>1, RequestKeepsInv, RequestAgainKeepsInv, SentKeepsInv, RefusedKeepsInv
  <1>2. CASE LoggedIn \/ LoginFailed
    BY <1>2, LoggedInKeepsInv, LoginFailedKeepsInv
  <1>3. CASE Expire
    BY <1>3 DEF Expire, ApiInv, ApiTypeOK
  <1>4. CASE Lapse
    BY <1>4 DEF Lapse, ApiInv, ApiTypeOK
  <1>5. CASE UNCHANGED apiVars
    BY <1>5 DEF apiVars, ApiInv, ApiTypeOK
  <1>6. QED
    BY <1>1, <1>2, <1>3, <1>4, <1>5 DEF ApiNext

-----------------------------------------------------------------------------
\* One login at a time, and no retry with the token it was refused with, for
\* any number of calls, tokens and refusals (accessToken, request).
THEOREM TokenSharedAlways == ApiSpec => []TokenShared
  <1>1. ApiInv => TokenShared
    <2>1. ApiInv => logins <= 1
      BY DEF ApiInv
    <2>2. ApiInv => RetryUsesAnotherToken
      BY DEF ApiInv, CallFits, RetryUsesAnotherToken
    <2>3. QED
      BY <2>1, <2>2 DEF TokenShared, OneLoginAtATime
  <1>2. QED
    BY ApiInitInv, ApiStepInv, <1>1, PTL DEF ApiSpec

\* The flag is up exactly while some call waits for a login, and every token
\* held was issued (the `finally' that clears loginInFlight).
THEOREM ApiTypeCorrect == ApiSpec => []ApiTypeOK
  <1>1. ApiInv => ApiTypeOK
    BY DEF ApiInv
  <1>2. QED
    BY ApiInitInv, ApiStepInv, <1>1, PTL DEF ApiSpec

-----------------------------------------------------------------------------
(***************************************************************************)
(* The admins' requests.                                                   *)
(***************************************************************************)
Statuses == {"none", "NEW", "HANDLED"}

DeskState == [pc: {"idle", "write"}, letter: Letters \cup {Never}, status: Statuses, seen: BOOLEAN]

\* What an admin at work may hold of the requests ls: a request whose opening
\* it saw has been opened for good.
DeskFits(w, ls) ==
    /\ w.pc = "write" => w.letter \in Letters
    /\ w.pc = "write" /\ w.seen => ls[w.letter].seenAt # Never

\* The strengthening: whatever was noticed has an opening time, which is the
\* first one, and what an admin read of it still stands, while handlings wait
\* for each other.
IntakeInv ==
    /\ deskTime \in 0 .. DeskTime
    /\ letter \in [Letters -> [status: Statuses, seenAt: 0 .. deskTime \cup {Never}]]
    /\ firstSeen \in [Letters -> 0 .. deskTime \cup {Never}]
    /\ desk \in [Desks -> DeskState] /\ \A d \in Desks : DeskFits(desk[d], letter)
    /\ \A q \in Letters : firstSeen[q] # Never => letter[q].seenAt # Never
    /\ oneDesk =>
         /\ \A q \in Letters : letter[q].seenAt = firstSeen[q]
         /\ \A d, e \in Desks : desk[d].pc = "write" /\ desk[e].pc = "write" => d = e
         /\ \A d \in Desks : desk[d].pc = "write" =>
                desk[d].seen = (letter[desk[d].letter].seenAt # Never)

LEMMA IntakeInitInv == IntakeInit => IntakeInv
  <1> SUFFICES ASSUME IntakeInit PROVE IntakeInv
    OBVIOUS
  <1>1. AtRest \in DeskState /\ DeskFits(AtRest, letter) /\ AtRest.pc = "idle"
    BY DEF DeskState, DeskFits, AtRest, Statuses
  <1>2. desk = [d \in Desks |-> AtRest] /\ deskTime = 0 /\ 0 \in 0 .. DeskTime
    BY IntakeAssumption DEF IntakeInit
  <1>3. /\ letter = [q \in Letters |-> [status |-> "none", seenAt |-> Never]]
        /\ firstSeen = [q \in Letters |-> Never]
    BY DEF IntakeInit
  <1>4. QED
    BY <1>1, <1>2, <1>3 DEF IntakeInv, Statuses

\* A request is made: no opening time changes.
LEMMA CreateKeepsInv ==
  ASSUME IntakeInv, NEW q \in Letters, createRequest(q)
  PROVE  IntakeInv'
  <1> DEFINE p == [letter[q] EXCEPT !.status = "NEW"]
  <1>1. /\ letter[q] \in [status: Statuses, seenAt: 0 .. deskTime \cup {Never}]
        /\ letter' = [letter EXCEPT ![q] = p]
    BY DEF IntakeInv, createRequest
  <1>2. p \in [status: Statuses, seenAt: 0 .. deskTime \cup {Never}] /\ p.seenAt = letter[q].seenAt
    BY <1>1 DEF Statuses
  <1> HIDE DEF p
  <1>3. \A x \in Letters : letter'[x].seenAt = letter[x].seenAt
    BY <1>1, <1>2 DEF IntakeInv
  <1>4. /\ letter' \in [Letters -> [status: Statuses, seenAt: 0 .. deskTime \cup {Never}]]
        /\ UNCHANGED <<desk, deskTime, firstSeen, oneDesk>>
    BY <1>1, <1>2 DEF IntakeInv, createRequest
  <1>5. \A d \in Desks : DeskFits(desk'[d], letter')
    BY <1>3, <1>4 DEF IntakeInv, DeskFits
  <1>6. \A d \in Desks : desk[d].pc = "write" => desk[d].letter \in Letters
    BY DEF IntakeInv, DeskFits
  <1>7. QED
    BY <1>3, <1>4, <1>5, <1>6 DEF IntakeInv

\* q is noticed at deskTime: its opening time is then set, and stays if it was.
LEMMA NoticedKeepsInv ==
  ASSUME IntakeInv, NEW q \in Letters, Noticed(q),
         NEW p \in [status: Statuses, seenAt: 0 .. deskTime],
         letter' = [letter EXCEPT ![q] = p],
         oneDesk => p.seenAt = IF letter[q].seenAt = Never THEN deskTime ELSE letter[q].seenAt,
         desk' \in [Desks -> DeskState],
         \A d \in Desks : desk'[d] = AtRest \/ desk'[d] = desk[d],
         oneDesk => \A d \in Desks : desk'[d].pc = "idle",
         UNCHANGED <<deskTime, oneDesk>>
  PROVE  IntakeInv'
  <1>1. deskTime \in 0 .. DeskTime /\ deskTime # Never /\ p.seenAt # Never
    BY IntakeAssumption DEF IntakeInv
  <1>2. \A x \in Letters : letter'[x] = IF x = q THEN p ELSE letter[x]
    BY DEF IntakeInv
  <1>3. \A x \in Letters : firstSeen'[x] = IF x = q /\ firstSeen[q] = Never THEN deskTime ELSE firstSeen[x]
    BY DEF IntakeInv, Noticed
  <1>4. letter' \in [Letters -> [status: Statuses, seenAt: 0 .. deskTime' \cup {Never}]]
    BY DEF IntakeInv
  <1>5. firstSeen' \in [Letters -> 0 .. deskTime' \cup {Never}]
    BY <1>1 DEF IntakeInv, Noticed
  <1>6. \A d \in Desks : DeskFits(desk'[d], letter')
    <2>1. DeskFits(AtRest, letter')
      BY DEF DeskFits, AtRest, Statuses
    <2>2. \A d \in Desks : DeskFits(desk[d], letter')
      BY <1>1, <1>2 DEF IntakeInv, DeskFits
    <2>3. QED
      BY <2>1, <2>2
  <1>7. \A x \in Letters : firstSeen'[x] # Never => letter'[x].seenAt # Never
    BY <1>1, <1>2, <1>3 DEF IntakeInv
  <1>8. oneDesk => \A x \in Letters : letter'[x].seenAt = firstSeen'[x]
    BY <1>1, <1>2, <1>3 DEF IntakeInv
  <1>9. QED
    BY <1>1, <1>4, <1>5, <1>6, <1>7, <1>8 DEF IntakeInv

LEMMA MarkSeenKeepsInv ==
  ASSUME IntakeInv, NEW d \in Desks, NEW q \in Letters, markSeen(d, q)
  PROVE  IntakeInv'
  <1> DEFINE p == IF letter[q].seenAt = Never THEN [letter[q] EXCEPT !.seenAt = deskTime] ELSE letter[q]
  <1>1. /\ letter[q] \in [status: Statuses, seenAt: 0 .. deskTime \cup {Never}]
        /\ deskTime \in 0 .. DeskTime /\ deskTime \in 0 .. deskTime
    BY IntakeAssumption DEF IntakeInv
  <1>2. p \in [status: Statuses, seenAt: 0 .. deskTime]
    BY <1>1
  <1>3. letter' = [letter EXCEPT ![q] = p]
    BY DEF IntakeInv, markSeen
  <1>4. p.seenAt = IF letter[q].seenAt = Never THEN deskTime ELSE letter[q].seenAt
    BY <1>1
  <1> HIDE DEF p
  <1>5. /\ UNCHANGED <<desk, deskTime, oneDesk>> /\ Noticed(q)
        /\ oneDesk => \A e \in Desks : desk[e].pc = "idle"
    BY DEF markSeen, Turn
  <1>6. desk' \in [Desks -> DeskState]
    BY <1>5 DEF IntakeInv
  <1>7. QED
    BY <1>2, <1>3, <1>4, <1>5, <1>6, NoticedKeepsInv
LEMMA BeginUpdateKeepsInv ==
  ASSUME IntakeInv, NEW d \in Desks, NEW q \in Letters, BeginUpdate(d, q)
  PROVE  IntakeInv'
  <1>1. PICK to \in Statuses :
          desk' = [desk EXCEPT ![d] = [pc |-> "write", letter |-> q, status |-> to,
                                       seen |-> letter[q].seenAt # Never]]
    BY DEF BeginUpdate, Statuses
  <1> DEFINE w == [pc |-> "write", letter |-> q, status |-> to, seen |-> letter[q].seenAt # Never]
  <1>2. /\ w \in DeskState /\ w.pc = "write" /\ w.letter = q
        /\ w.seen = (letter[q].seenAt # Never) /\ DeskFits(w, letter)
    BY DEF DeskState, DeskFits
  <1>3. desk' = [desk EXCEPT ![d] = w]
    BY <1>1
  <1> HIDE DEF w
  <1>4. /\ UNCHANGED <<letter, deskTime, firstSeen, oneDesk>>
        /\ oneDesk => \A e \in Desks : desk[e].pc = "idle"
    BY DEF BeginUpdate, Turn
  <1>5. desk' \in [Desks -> DeskState] /\ \A e \in Desks : desk'[e] = IF e = d THEN w ELSE desk[e]
    BY <1>2, <1>3 DEF IntakeInv
  <1>6. \A e \in Desks : DeskFits(desk'[e], letter')
    BY <1>2, <1>4, <1>5 DEF IntakeInv
  <1>7. oneDesk =>
          /\ \A e, f \in Desks : desk'[e].pc = "write" /\ desk'[f].pc = "write" => e = f
          /\ \A e \in Desks : desk'[e].pc = "write" =>
                 desk'[e].seen = (letter'[desk'[e].letter].seenAt # Never)
    BY <1>2, <1>4, <1>5
  <1>8. QED
    BY <1>4, <1>5, <1>6, <1>7 DEF IntakeInv

LEMMA WriteUpdateKeepsInv ==
  ASSUME IntakeInv, NEW d \in Desks, WriteUpdate(d)
  PROVE  IntakeInv'
  <1> DEFINE w == desk[d]
             q == w.letter
             p == [status |-> IF w.status = "none" THEN letter[q].status ELSE w.status,
                   seenAt |-> IF w.seen THEN letter[q].seenAt ELSE deskTime]
  <1>1. /\ w \in DeskState /\ w.pc = "write" /\ q \in Letters
        /\ w.seen => letter[q].seenAt # Never
        /\ oneDesk => w.seen = (letter[q].seenAt # Never)
    BY DEF IntakeInv, DeskFits, WriteUpdate
  <1>2. /\ letter[q] \in [status: Statuses, seenAt: 0 .. deskTime \cup {Never}]
        /\ deskTime \in 0 .. DeskTime /\ deskTime \in 0 .. deskTime
    BY <1>1 DEF IntakeInv
  <1>3. p \in [status: Statuses, seenAt: 0 .. deskTime]
    BY <1>1, <1>2 DEF DeskState, Statuses
  <1>4. oneDesk => p.seenAt = IF letter[q].seenAt = Never THEN deskTime ELSE letter[q].seenAt
    BY <1>1
  <1>5. letter' = [letter EXCEPT ![q] = p]
    BY <1>1 DEF IntakeInv, WriteUpdate
  <1> HIDE DEF p
  <1>6. /\ desk' = [desk EXCEPT ![d] = AtRest] /\ Noticed(q) /\ UNCHANGED <<deskTime, oneDesk>>
    BY DEF WriteUpdate
  <1>7. AtRest \in DeskState /\ AtRest.pc = "idle"
    BY DEF AtRest, DeskState, Statuses
  <1>8. desk' \in [Desks -> DeskState] /\ \A e \in Desks : desk'[e] = IF e = d THEN AtRest ELSE desk[e]
    BY <1>6, <1>7 DEF IntakeInv
  <1>9. oneDesk => \A e \in Desks : desk'[e].pc = "idle"
    BY <1>1, <1>7, <1>8 DEF IntakeInv, DeskState
  <1> HIDE DEF w
  <1>10. QED
    BY <1>1, <1>3, <1>4, <1>5, <1>6, <1>8, <1>9, NoticedKeepsInv

LEMMA IntakeStepInv == IntakeInv /\ [IntakeNext]_intakeVars => IntakeInv'
  <1> SUFFICES ASSUME IntakeInv, [IntakeNext]_intakeVars PROVE IntakeInv'
    OBVIOUS
  <1>1. ASSUME NEW d \in Desks, NEW q \in Letters, markSeen(d, q) \/ BeginUpdate(d, q)
        PROVE  IntakeInv'
    BY <1>1, MarkSeenKeepsInv, BeginUpdateKeepsInv
  <1>2. ASSUME NEW q \in Letters, createRequest(q) PROVE IntakeInv'
    BY <1>2, CreateKeepsInv
  <1>3. ASSUME NEW d \in Desks, WriteUpdate(d) PROVE IntakeInv'
    BY <1>3, WriteUpdateKeepsInv
  <1>4. CASE DeskTick
    <2>1. deskTime' \in 0 .. DeskTime /\ 0 .. deskTime \subseteq 0 .. deskTime'
      BY <1>4, IntakeAssumption DEF DeskTick, IntakeInv
    <2>2. UNCHANGED <<letter, desk, firstSeen, oneDesk>>
      BY <1>4 DEF DeskTick
    <2>3. /\ letter' \in [Letters -> [status: Statuses, seenAt: 0 .. deskTime' \cup {Never}]]
          /\ firstSeen' \in [Letters -> 0 .. deskTime' \cup {Never}]
      BY <2>1, <2>2 DEF IntakeInv
    <2>4. \A d \in Desks : DeskFits(desk'[d], letter')
      BY <2>2 DEF IntakeInv
    <2>5. QED
      BY <2>1, <2>2, <2>3, <2>4 DEF IntakeInv
  <1>5. CASE UNCHANGED intakeVars
    BY <1>5 DEF intakeVars, IntakeInv
  <1>6. QED
    BY <1>1, <1>2, <1>3, <1>4, <1>5 DEF IntakeNext

\* An admin hears of a request once, and its first opening is kept while
\* handlings wait for each other, for any number of requests and admins
\* (markSeen, update).
THEOREM RequestsSeenOnce == IntakeSpec => []SeenOnce
  <1>1. IntakeInv => SeenOnce
    BY DEF IntakeInv, SeenOnce, NotAnnouncedAgain, FirstOpenKept, Unread
  <1>2. QED
    BY IntakeInitInv, IntakeStepInv, <1>1, PTL DEF IntakeSpec

\* The requests and the admins at work keep their types.
THEOREM IntakeTypeCorrect == IntakeSpec => []IntakeTypeOK
  <1>1. IntakeInv => IntakeTypeOK
    BY DEF IntakeInv, IntakeTypeOK, DeskState, Statuses
  <1>2. QED
    BY IntakeInitInv, IntakeStepInv, <1>1, PTL DEF IntakeSpec

(***************************************************************************)
(* Both together                                                           *)
(***************************************************************************)
\* The variables of the services keep their types.
THEOREM ServicesTypeCorrect == Spec => []ServicesTypeOK
  <1> DEFINE BothInv == ApiInv /\ IntakeInv
  <1>1. Init => BothInv
    BY ApiInitInv, IntakeInitInv DEF Init
  <1>2. BothInv /\ [Next]_partVars => BothInv'
    <2> SUFFICES ASSUME BothInv, [Next]_partVars
                 PROVE  BothInv'
      OBVIOUS
    <2>1. [ApiNext]_apiVars /\ [IntakeNext]_intakeVars
      BY DEF Next, partVars
    <2> QED
      BY <2>1, ApiStepInv, IntakeStepInv
  <1>3. BothInv => ServicesTypeOK
    BY DEF ApiInv, IntakeInv, IntakeTypeOK, DeskState, Statuses, ServicesTypeOK
  <1>4. QED
    BY <1>1, <1>2, <1>3, PTL DEF Spec

(***************************************************************************)
(* Arithmetic, and sequences as functions.                                 *)
(***************************************************************************)
\* A multiple grows with what it is a multiple of.
LEMMA Upward ==
    \A a \in Nat : \A b, c \in Int : b <= c => a * b <= a * c
  OBVIOUS

\* What has the smaller multiple is smaller.
LEMMA UpwardStrict ==
    \A a \in Nat : \A b, c \in Int : a * b < a * c => b < c
  OBVIOUS

\* Division rounds down.
LEMMA DivFloor ==
    ASSUME NEW n \in Int, NEW q \in Nat \ {0}
    PROVE  /\ n \div q \in Int /\ n % q \in 0 .. q - 1
           /\ n = q * (n \div q) + (n % q)
           /\ q * (n \div q) <= n /\ n < q * (n \div q) + q
<1> DEFINE d == n \div q
           r == n % q
           p == q * d
<1>1. d \in Int /\ r \in 0 .. q - 1
  OBVIOUS
<1>2. n = p + r
  OBVIOUS
<1> HIDE DEF d, r
<1>3. p \in Int
  BY <1>1, Spread
<1> HIDE DEF p
<1>4. p <= n /\ n < p + q
  BY <1>1, <1>2, <1>3
<1>5. /\ d \in Int /\ r \in 0 .. q - 1 /\ n = q * d + r
      /\ q * d <= n /\ n < q * d + q
  BY <1>1, <1>2, <1>4, Zenon DEF p
<1> QED
  BY <1>5 DEF d, r

\* A number is its quotient and its remainder in one way only.
LEMMA DivIs ==
    ASSUME NEW n \in Int, NEW q \in Nat \ {0}, NEW a \in Int, NEW r \in 0 .. q - 1, n = q * a + r
    PROVE  n \div q = a /\ n % q = r
  OBVIOUS

\* The quotient is the greatest number whose multiple is not above.
LEMMA DivMost ==
    ASSUME NEW n \in Int, NEW q \in Nat \ {0}, NEW d \in Int
    PROVE  d <= n \div q <=> q * d <= n
<1> DEFINE k == n \div q
<1>1. k \in Int /\ q * k <= n /\ n < q * k + q
  BY DivFloor
<1> HIDE DEF k
<1>2. q * k \in Int /\ q * d \in Int /\ q * (k + 1) = q * k + q
  BY <1>1, Spread
<1>3. d <= k => q * d <= q * k
  BY <1>1, Upward
<1>4. d > k => q * (k + 1) <= q * d
  BY <1>1, Upward
<1>5. d <= k => q * d <= n
  BY <1>1, <1>2, <1>3
<1>6. d > k => q * d > n
  BY <1>1, <1>2, <1>4
<1> QED
  BY <1>1, <1>5, <1>6 DEF k

\* A sequence is a function on finitely many positions.
LEMMA SeqIs ==
    ASSUME NEW S, NEW s \in Seq(S)
    PROVE  /\ Len(s) \in Nat /\ DOMAIN s = 1 .. Len(s) /\ IsFiniteSet(DOMAIN s)
           /\ \A i \in DOMAIN s : s[i] \in S
<1>1. Len(s) \in Nat /\ DOMAIN s = 1 .. Len(s) /\ \A i \in 1 .. Len(s) : s[i] \in S
  OBVIOUS
<1>2. IsFiniteSet(1 .. Len(s))
  BY <1>1, FS_Interval
<1> QED
  BY <1>1, <1>2

\* A sequence of length 0 is the empty one.
LEMMA SeqEmpty == ASSUME NEW S, NEW s \in Seq(S), Len(s) = 0 PROVE s = << >>
  OBVIOUS

\* Of finitely many things with numbers, one has the least.
LEMMA HasLeast ==
    ASSUME NEW S, IsFiniteSet(S), S # {}, NEW v, \A x \in S : v[x] \in Int
    PROVE  \E m \in S : \A y \in S : v[m] <= v[y]
<1> DEFINE R == {p \in S \X S : v[p[1]] < v[p[2]]}
<1>1. \A x, y \in S : <<x, y>> \in R <=> v[x] < v[y]
  OBVIOUS
<1>2. \A x \in S : <<x, x>> \notin R
  BY <1>1
<1>3. \A x, y, z \in S : <<x, y>> \in R /\ <<y, z>> \in R => <<x, z>> \in R
  BY <1>1
<1> HIDE DEF R
<1>4. \E x \in S : \A y \in S : <<y, x>> \notin R
  BY <1>2, <1>3, HasTop, Zenon
<1>5. PICK x \in S : \A y \in S : ~(v[y] < v[x])
  BY <1>1, <1>4
<1> QED
  BY <1>5

-----------------------------------------------------------------------------
(***************************************************************************)
(* Kits that can be built.                                                 *)
(***************************************************************************)
\* For every list of items, whatever is in stock (a stock may have gone below
\* nothing): every item has the units for the kits that are said to be buildable,
\* and some item has not for one more (tribe-kits.service, buildableKits).
THEOREM KitsAlwaysBuildable ==
    ASSUME NEW items \in Seq([stock : Int, qty : Nat \ {0}])
    PROVE  BuildableIsExact(items)
<1> DEFINE D == DOMAIN items
           of(i) == items[i].stock \div items[i].qty
           n == buildableKits(items)
<1>1. D = 1 .. Len(items) /\ Len(items) \in Nat /\ IsFiniteSet(D)
  BY SeqIs
<1>2. \A i \in D : /\ items[i].stock \in Int /\ items[i].qty \in Nat \ {0}
                   /\ of(i) \in Int
                   /\ \A k \in Int : k <= of(i) <=> items[i].qty * k <= items[i].stock
  <2> SUFFICES ASSUME NEW i \in D
               PROVE  /\ items[i].stock \in Int /\ items[i].qty \in Nat \ {0}
                      /\ of(i) \in Int
                      /\ \A k \in Int : k <= of(i) <=> items[i].qty * k <= items[i].stock
    OBVIOUS
  <2>1. items[i] \in [stock : Int, qty : Nat \ {0}]
    BY SeqIs
  <2>2. items[i].stock \in Int /\ items[i].qty \in Nat \ {0}
    BY <2>1
  <2>3. \A k \in Int : k <= of(i) <=> items[i].qty * k <= items[i].stock
    BY <2>2, DivMost
  <2> QED
    BY <2>2, <2>3, DivFloor
<1>3. CASE items = << >>
  <2>1. n = 0
    BY <1>3 DEF buildableKits
  <2> QED
    BY <1>3, <2>1 DEF BuildableIsExact
<1>4. CASE items # << >>
  <2> HIDE DEF of
  <2>1. D # {}
    <3>1. Len(items) = 0 => items = << >>
      BY SeqEmpty, Zenon
    <3>2. Len(items) # 0
      BY <1>4, <3>1
    <3>3. 1 \in 1 .. Len(items)
      BY <1>1, <3>2
    <3> QED
      BY <1>1, <3>3
  <2>2. PICK m \in D : \A j \in D : of(m) <= of(j)
    <3> DEFINE v == [i \in D |-> of(i)]
    <3>1. \A i \in D : v[i] = of(i) /\ v[i] \in Int
      BY <1>2
    <3> HIDE DEF v
    <3>2. \E m \in D : \A j \in D : v[m] <= v[j]
      BY <1>1, <2>1, <3>1, HasLeast
    <3> QED
      BY <3>1, <3>2
  <2> DEFINE least == CHOOSE i \in D : \A j \in D : of(i) <= of(j)
  <2>3. least \in D /\ \A j \in D : of(least) <= of(j)
    BY <2>2
  <2>4. n = (IF of(least) < 0 THEN 0 ELSE of(least))
    BY <1>4 DEF buildableKits, of
  <2> HIDE DEF least, n
  <2>5. n \in Nat /\ ~(n + 1 <= of(least)) /\ n + 1 \in Int
    BY <1>2, <2>3, <2>4
  <2>6. items[least].stock < (n + 1) * items[least].qty
    <3>1. ~(items[least].qty * (n + 1) <= items[least].stock)
      BY <1>2, <2>3, <2>5
    <3>2. items[least].qty \in Int /\ items[least].stock \in Int
      BY <1>2, <2>3
    <3> HIDE DEF D
    <3>3. items[least].qty * (n + 1) \in Int /\ items[least].qty * (n + 1) = (n + 1) * items[least].qty
      BY <2>5, <3>2, Spread
    <3> QED
      BY <3>1, <3>2, <3>3
  <2>7. ASSUME n > 0, NEW i \in D
        PROVE  items[i].stock >= n * items[i].qty
    <3>1. n <= of(i)
      BY <1>2, <2>3, <2>4, <2>7
    <3>2. items[i].qty * n <= items[i].stock
      BY <1>2, <2>5, <3>1
    <3>3. items[i].qty \in Int /\ items[i].stock \in Int /\ n \in Int
      BY <1>2, <2>5
    <3>4. items[i].qty * n \in Int /\ items[i].qty * n = n * items[i].qty
      BY <3>3, Spread
    <3> QED
      BY <3>2, <3>3, <3>4
  <2> QED
    BY <2>3, <2>6, <2>7 DEF BuildableIsExact, n
<1> QED
  BY <1>3, <1>4

-----------------------------------------------------------------------------
(***************************************************************************)
(* What ships and how long a stock lasts.                                  *)
(***************************************************************************)
\* An order as the counts see it: how long ago its dispatches were, and its units.
Dispatched == [days : SUBSET Nat, qty : Nat]

\* The counts are natural numbers, and the week is part of the four weeks.
LEMMA DispatchCounts ==
    ASSUME NEW orders \in Seq(Dispatched)
    PROVE  /\ splitDispatchCounts(orders).week \in Nat
           /\ splitDispatchCounts(orders).pace \in Nat
           /\ splitDispatchCounts(orders).week <= splitDispatchCounts(orders).pace
<1> DEFINE P == {i \in DOMAIN orders : InDays(orders[i], PACE_DAYS)}
           W == {i \in P : InDays(orders[i], WINDOW_DAYS)}
           q == [i \in P |-> orders[i].qty]
           v == [i \in W |-> orders[i].qty]
<1>1. IsFiniteSet(P) /\ IsFiniteSet(W) /\ W \subseteq P
  <2>1. DOMAIN orders = 1 .. Len(orders) /\ Len(orders) \in Nat
    OBVIOUS
  <2>2. IsFiniteSet(DOMAIN orders)
    BY <2>1, FS_Interval
  <2> QED
    BY <2>2, FS_Subset
<1>2. /\ \A i \in P : q[i] \in Nat
      /\ \A i \in W : v[i] \in Nat /\ v[i] = q[i]
  <2>1. \A i \in DOMAIN orders : orders[i] \in Dispatched
    BY SeqIs
  <2>2. \A i \in DOMAIN orders : orders[i].qty \in Nat
    BY <2>1 DEF Dispatched
  <2> QED
    BY <2>2
<1>3. /\ splitDispatchCounts(orders).week = SumFunctionOnSet(v, W)
      /\ splitDispatchCounts(orders).pace = SumFunctionOnSet(q, P)
  BY DEF splitDispatchCounts
<1> HIDE DEF P, W, q, v
<1>4. SumFunctionOnSet(v, W) = SumFunctionOnSet(q, W)
  BY <1>1, <1>2, SumSame
<1>5. SumFunctionOnSet(q, W) <= SumFunctionOnSet(q, P)
  BY <1>1, <1>2, SumGrows
<1>6. SumFunctionOnSet(v, W) \in Nat /\ SumFunctionOnSet(q, P) \in Nat
  BY <1>1, <1>2, SumType
<1> QED
  BY <1>3, <1>4, <1>5, <1>6

\* Division rounded up.
LEMMA CeilIs ==
    ASSUME NEW n \in Int
    PROVE  CeilDiv(n, 100) \in Int /\ 100 * CeilDiv(n, 100) >= n /\ 100 * (CeilDiv(n, 100) - 1) < n
  BY DEF CeilDiv

\* Hundredths of four times the weekly pace: the month's count, or four of this
\* week's where that is more.
LEMMA PaceIs ==
    ASSUME NEW p \in Nat, NEW w \in Nat
    PROVE  /\ weeklyPaceOf(p, w) \in Nat
           /\ weeklyPaceOf(p, w) = IF 25 * p > 100 * w THEN 25 * p ELSE 100 * w
  BY DEF weeklyPaceOf, Greater, PACE_DAYS

\* For every stock and every list of dispatched orders: the days a stock is said to
\* last are the whole days it lasts at the pace of the week or of the four weeks,
\* whichever is faster, and null exactly when there is stock and nothing was
\* shipped (dispatch-counts, weeklyPaceOf, daysLeftOf).
THEOREM StockLastsAlways ==
    ASSUME NEW stock \in Int, NEW orders \in Seq(Dispatched)
    PROVE  LastsAsSaid(stock, orders)
<1> DEFINE w == splitDispatchCounts(orders).week
           p == splitDispatchCounts(orders).pace
           pace == weeklyPaceOf(p, w)
           days == daysLeftOf(stock, pace)
<1>1. w \in Nat /\ p \in Nat /\ w <= p
  BY DispatchCounts
<1>2. pace \in Nat /\ pace = IF 25 * p > 100 * w THEN 25 * p ELSE 100 * w
  BY <1>1, PaceIs
<1>3. stockHealth(stock, w, p).daysLeft = days
  BY DEF stockHealth
<1> HIDE DEF w, p, pace
<1>4. CASE stock <= 0
  BY <1>3, <1>4 DEF LastsAsSaid, daysLeftOf, w, p
<1>5. CASE stock > 0 /\ p = 0
  <2>1. pace = 0
    BY <1>1, <1>2, <1>5
  <2>2. days = -1
    BY <1>5, <2>1 DEF daysLeftOf
  <2> HIDE DEF days
  <2> QED
    BY <1>3, <1>5, <2>2 DEF LastsAsSaid, w, p
<1>6. CASE stock > 0 /\ p > 0
  <2>1. pace > 0 /\ pace \in Nat \ {0}
    BY <1>1, <1>2, <1>6
  <2>2. days = (stock * 700) \div pace
    BY <1>6, <2>1 DEF daysLeftOf
  <2> HIDE DEF days
  <2>3. days \in Int /\ \A d \in Int : d <= days <=> pace * d <= stock * 700
    <3>1. stock * 700 \in Int
      OBVIOUS
    <3>2. \A d \in Int : d <= (stock * 700) \div pace <=> pace * d <= stock * 700
      BY <2>1, <3>1, DivMost
    <3> QED
      BY <2>1, <2>2, <3>1, <3>2, DivFloor
  <2>4. ASSUME NEW d \in Int, d >= 0
        PROVE  pace * d <= stock * 700 <=> d * w <= 7 * stock /\ d * p <= 28 * stock
    <3> DEFINE a == d * w
               b == d * p
    <3>1. a \in Int /\ b \in Int
      BY <1>1, <2>4, Spread
    <3>2. pace * d = IF 25 * p > 100 * w THEN 25 * b ELSE 100 * a
      BY <1>1, <1>2, <2>4
    <3>3. 25 * p > 100 * w => 4 * a <= b
      <4> SUFFICES ASSUME 4 * w <= p
                   PROVE  4 * a <= b
        BY <1>1
      <4>1. d * (4 * w) <= d * p
        BY <1>1, <2>4, Upward
      <4>2. d * (4 * w) = 4 * (d * w)
        BY <1>1, <2>4
      <4> QED
        BY <4>1, <4>2
    <3>4. ~(25 * p > 100 * w) => b <= 4 * a
      <4> SUFFICES ASSUME p <= 4 * w
                   PROVE  b <= 4 * a
        BY <1>1
      <4>1. d * p <= d * (4 * w)
        BY <1>1, <2>4, Upward
      <4>2. d * (4 * w) = 4 * (d * w)
        BY <1>1, <2>4
      <4> QED
        BY <4>1, <4>2
    <3> HIDE DEF a, b
    <3>5. pace * d <= stock * 700 <=> a <= 7 * stock /\ b <= 28 * stock
      BY <3>1, <3>2, <3>3, <3>4
    <3> QED
      BY <3>5 DEF a, b
  <2>5. days >= 0
    <3>1. pace * 0 = 0
      BY <2>1
    <3> QED
      BY <1>6, <2>3, <3>1
  <2>6. days <= days /\ ~(days + 1 <= days)
    BY <2>3
  <2>7. pace * days <= stock * 700 /\ ~(pace * (days + 1) <= stock * 700)
    BY <2>3, <2>6
  <2>8. days * w <= 7 * stock /\ days * p <= 28 * stock
    BY <2>3, <2>4, <2>5, <2>7
  <2>9. ~((days + 1) * w <= 7 * stock /\ (days + 1) * p <= 28 * stock)
    <3> DEFINE d == days + 1
    <3>1. d \in Int /\ d >= 0 /\ ~(pace * d <= stock * 700)
      BY <2>3, <2>5, <2>7
    <3> HIDE DEF d
    <3>2. ~(d * w <= 7 * stock /\ d * p <= 28 * stock)
      BY <2>4, <3>1
    <3> QED
      BY <3>2 DEF d
  <2>10. stock > 0 /\ p # 0
    BY <1>1, <1>6
  <2>11. ~(stock <= 0)
    BY <1>6
  <2> QED
    BY <1>3, <2>8, <2>9, <2>10, <2>11 DEF LastsAsSaid, WINDOW_DAYS, PACE_DAYS, w, p
<1> QED
  BY <1>1, <1>4, <1>5, <1>6

\* For every stock and every list of dispatched orders: the quantity the restock
\* form suggests reaches twice the low level and four weeks of shipping, one unit
\* less would not, and critical is never above low (restock-math).
THEOREM SuggestionsAlwaysEnough ==
    ASSUME NEW stock \in Int, NEW orders \in Seq(Dispatched)
    PROVE  SuggestionIsEnough(stock, orders)
<1> DEFINE w == splitDispatchCounts(orders).week
           p == splitDispatchCounts(orders).pace
           pace == weeklyPaceOf(p, w)
           low == lowAtOf(pace)
           crit == criticalAtOf(pace)
           more == suggestedQtyOf(stock, pace, low)
<1>1. w \in Nat /\ p \in Nat /\ w <= p
  BY DispatchCounts
<1>2. pace \in Nat /\ pace = IF 25 * p > 100 * w THEN 25 * p ELSE 100 * w
  BY <1>1, PaceIs
<1>3. /\ stockHealth(stock, w, p).lowAt = low
      /\ stockHealth(stock, w, p).criticalAt = crit
      /\ stockHealth(stock, w, p).suggestedQty = more
  BY DEF stockHealth
<1> HIDE DEF w, p, pace
<1>4. low \in Int /\ crit \in Int /\ crit <= low
  <2> DEFINE pace2 == 2 * pace
             a == CeilDiv(pace2, 100)
             b == CeilDiv(pace, 100)
  <2>0. pace \in Int /\ pace2 \in Int
    BY <1>2
  <2> HIDE DEF pace2
  <2>1. a \in Int /\ 100 * a >= pace2
    BY <2>0, CeilIs
  <2>2. b \in Int /\ 100 * (b - 1) < pace
    BY <2>0, CeilIs
  <2> HIDE DEF a, b
  <2>3. low = Greater(LOW_FLOOR, a) /\ crit = Greater(CRITICAL_FLOOR, b)
    BY DEF lowAtOf, criticalAtOf, a, b, pace2
  <2> HIDE DEF low, crit
  <2> QED
    BY <1>2, <2>1, <2>2, <2>3 DEF Greater, LOW_FLOOR, CRITICAL_FLOOR, pace2
<1> HIDE DEF low, crit
<1>5. /\ more \in Nat
      /\ 100 * (stock + more) >= 4 * pace /\ 100 * (stock + more) >= 200 * low
      /\ more > 0 => \/ 100 * (stock + more - 1) < 4 * pace
                     \/ 100 * (stock + more - 1) < 200 * low
  <2> DEFINE goal == Greater(4 * pace, 200 * low)
             n == goal - 100 * stock
             c == CeilDiv(n, 100)
  <2>1. /\ goal \in Int /\ goal >= 4 * pace /\ goal >= 200 * low
        /\ goal = 4 * pace \/ goal = 200 * low
    BY <1>2, <1>4 DEF Greater
  <2> HIDE DEF goal
  <2>2. n \in Int
    BY <2>1
  <2>3. n + 100 * stock = goal
    BY <2>1
  <2>4. more = Greater(0, c)
    BY DEF suggestedQtyOf, goal
  <2> HIDE DEF n, more
  <2>5. c \in Int /\ 100 * c >= n /\ 100 * (c - 1) < n
    BY <2>2, CeilIs
  <2> HIDE DEF c
  <2>6. more = IF 0 > c THEN 0 ELSE c
    BY <2>4 DEF Greater
  <2> QED
    BY <1>2, <1>4, <2>1, <2>2, <2>3, <2>5, <2>6
<1> HIDE DEF more
<1> DEFINE reaches(n) == n >= 2 * low /\ n >= 4 * w /\ n >= p
<1>6. reaches(stock + more) /\ (more > 0 => ~reaches(stock + more - 1))
  BY <1>1, <1>2, <1>4, <1>5
<1> QED
  BY <1>3, <1>4, <1>6 DEF SuggestionIsEnough, w, p

-----------------------------------------------------------------------------
(***************************************************************************)
(* The windows of the reports.                                             *)
(***************************************************************************)
\* An instant is its day and its hour in India, and no other instant is.
LEMMA ClockReads ==
    ASSUME NEW t \in Int
    PROVE  /\ istDay(t) \in Int /\ Hour(t) \in 0 .. DAY - 1
           /\ DAY * istDay(t) \in Int /\ t + OFFSET = DAY * istDay(t) + Hour(t)
<1>1. t + OFFSET \in Int /\ DAY \in Nat \ {0}
  BY WindowsAssumption
<1>2. istDay(t) \in Int /\ Hour(t) \in 0 .. DAY - 1 /\ t + OFFSET = DAY * istDay(t) + Hour(t)
  BY <1>1, DivFloor DEF istDay, Hour
<1> QED
  BY <1>1, <1>2, Spread

\* The instant of a day and an hour in India reads as them.
LEMMA ClockSet ==
    ASSUME NEW d \in Int, NEW h \in 0 .. DAY - 1, NEW t \in Int, t + OFFSET = DAY * d + h
    PROVE  istDay(t) = d /\ Hour(t) = h
<1>1. t + OFFSET \in Int /\ DAY \in Nat \ {0}
  BY WindowsAssumption
<1> QED
  BY <1>1, DivIs DEF istDay, Hour

\* Days in order are a day or more apart.
LEMMA DaysApart ==
    ASSUME NEW a \in Int, NEW b \in Int, a < b
    PROVE  DAY * a \in Int /\ DAY * b \in Int /\ DAY * a + DAY <= DAY * b
<1>1. DAY \in Nat /\ a + 1 <= b /\ a + 1 \in Int
  BY WindowsAssumption
<1>2. DAY * (a + 1) <= DAY * b
  BY <1>1, Upward
<1>3. DAY * (a + 1) = DAY * a + DAY /\ DAY * a \in Int /\ DAY * b \in Int
  BY <1>1, Spread
<1> QED
  BY <1>2, <1>3

\* The digest's window ends at 9 pm within the last week, and no 9 pm is later.
LEMMA DigestClosesOnLatest ==
    ASSUME NEW now \in Int
    PROVE  /\ windowEndingAt(now) \in now - WEEK * DAY .. now
           /\ Hour(windowEndingAt(now)) = CUTOFF_HOUR
           /\ \A u \in windowEndingAt(now) + 1 .. now : Hour(u) # CUTOFF_HOUR
<1> DEFINE d == istDay(now)
           h == Hour(now)
           k == IF h >= CUTOFF_HOUR THEN d ELSE d - 1
           e == windowEndingAt(now)
           C == CUTOFF_HOUR
<1>1. /\ DAY \in Nat \ {0} /\ WEEK \in Nat \ {0} /\ OFFSET \in Int /\ C \in 0 .. DAY - 1
  BY WindowsAssumption
<1>2. d \in Int /\ h \in 0 .. DAY - 1 /\ DAY * d \in Int /\ now + OFFSET = DAY * d + h
  BY ClockReads
<1>3. d * DAY = DAY * d /\ DAY * (d - 1) = DAY * d - DAY
  BY <1>1, <1>2, Spread
<1>4. k \in Int /\ DAY * k \in Int /\ e \in Int /\ e + OFFSET = DAY * k + C
  <2>1. CASE h >= C
    BY <1>1, <1>2, <1>3, <2>1 DEF windowEndingAt
  <2>2. CASE ~(h >= C)
    BY <1>1, <1>2, <1>3, <2>2 DEF windowEndingAt
  <2> QED
    BY <2>1, <2>2
<1>5. Hour(e) = C
  BY <1>1, <1>4, ClockSet
<1>6. DAY * WEEK \in Int /\ DAY <= DAY * WEEK /\ WEEK * DAY = DAY * WEEK
  <2>1. DAY * 1 <= DAY * WEEK
    BY <1>1, Upward
  <2> QED
    BY <1>1, <2>1, Spread
<1>7. DAY * k = IF h >= C THEN DAY * d ELSE DAY * d - DAY
  BY <1>3
<1>8. e \in now - WEEK * DAY .. now
  <2> HIDE DEF d, h, k, e, C
  <2> QED
    BY <1>1, <1>2, <1>4, <1>6, <1>7
<1>9. ASSUME NEW u \in e + 1 .. now, Hour(u) = C
      PROVE  FALSE
  <2> DEFINE j == istDay(u)
  <2>1. u \in Int /\ e < u /\ u <= now
    BY <1>4, <1>9
  <2>2. j \in Int /\ DAY * j \in Int /\ u + OFFSET = DAY * j + C
    BY <1>9, <2>1, ClockReads
  <2> HIDE DEF d, h, k, e, C, j
  <2>3. DAY * k < DAY * j /\ DAY * j + C <= DAY * d + h
    BY <1>1, <1>2, <1>4, <2>1, <2>2
  <2>4. k < j
    BY <1>1, <1>4, <2>2, <2>3, UpwardStrict
  <2>5. DAY * k + DAY <= DAY * j
    BY <1>4, <2>2, <2>4, DaysApart
  <2> QED
    BY <1>1, <1>2, <1>4, <1>7, <2>2, <2>3, <2>5
<1> QED
  BY <1>5, <1>8, <1>9

\* The weekly window ends on a Friday at 6 pm within the last week, and none is later.
LEMMA WeeklyClosesOnLatest ==
    ASSUME NEW now \in Int
    PROVE  /\ weeklyWindowEndingAt(now) \in now - WEEK * DAY .. now
           /\ Hour(weeklyWindowEndingAt(now)) = CLOSING_HOUR
           /\ Weekday(weeklyWindowEndingAt(now)) = FRIDAY
           /\ \A u \in weeklyWindowEndingAt(now) + 1 .. now :
                 ~(Hour(u) = CLOSING_HOUR /\ Weekday(u) = FRIDAY)
<1> DEFINE d == istDay(now)
           h == Hour(now)
           C == CLOSING_HOUR
           wd == Weekday(now)
           a == (d + EPOCH) \div WEEK
           since == (wd - FRIDAY + WEEK) % WEEK
           early == since = 0 /\ h < C
           k == IF early THEN d - WEEK ELSE d - since
           e == weeklyWindowEndingAt(now)
<1>1. /\ DAY \in Nat \ {0} /\ WEEK \in Nat \ {0} /\ OFFSET \in Int /\ C \in 0 .. DAY - 1
      /\ FRIDAY \in 0 .. WEEK - 1 /\ EPOCH \in Int
  BY WindowsAssumption
<1>2. d \in Int /\ h \in 0 .. DAY - 1 /\ DAY * d \in Int /\ now + OFFSET = DAY * d + h
  BY ClockReads
<1> HIDE DEF d, h, C
<1>3. /\ wd \in 0 .. WEEK - 1 /\ a \in Int /\ WEEK * a \in Int
      /\ d + EPOCH = WEEK * a + wd
  <2>1. d + EPOCH \in Int
    BY <1>1, <1>2
  <2>2. wd = (d + EPOCH) % WEEK
    BY DEF Weekday, d
  <2> HIDE DEF wd
  <2>3. a \in Int /\ (d + EPOCH) % WEEK \in 0 .. WEEK - 1 /\ d + EPOCH = WEEK * a + ((d + EPOCH) % WEEK)
    BY <1>1, <2>1, DivFloor
  <2> HIDE DEF a
  <2> QED
    BY <1>1, <2>2, <2>3, Spread
<1> HIDE DEF wd, a
<1>4. since = IF wd >= FRIDAY THEN wd - FRIDAY ELSE wd - FRIDAY + WEEK
  <2>1. CASE wd >= FRIDAY
    <3>1. wd - FRIDAY + WEEK = WEEK * 1 + (wd - FRIDAY) /\ wd - FRIDAY \in 0 .. WEEK - 1
      BY <1>1, <1>3, <2>1, Spread
    <3> DEFINE x == wd - FRIDAY + WEEK
               r == wd - FRIDAY
    <3>2. x \in Int /\ since = x % WEEK
      BY <1>1, <1>3
    <3>3. x = WEEK * 1 + r /\ r \in 0 .. WEEK - 1
      BY <3>1
    <3> HIDE DEF x, r, since
    <3>4. since = r
      BY <1>1, <3>2, <3>3, DivIs
    <3> QED
      BY <2>1, <3>4 DEF r
  <2>2. CASE ~(wd >= FRIDAY)
    <3>1. wd - FRIDAY + WEEK = WEEK * 0 + (wd - FRIDAY + WEEK) /\ wd - FRIDAY + WEEK \in 0 .. WEEK - 1
      BY <1>1, <1>3, <2>2
    <3>2. wd - FRIDAY + WEEK \in Int
      BY <1>1, <1>3
    <3> QED
      BY <1>1, <2>2, <3>1, <3>2, DivIs
  <2> QED
    BY <2>1, <2>2
<1> HIDE DEF since
<1>5. since \in 0 .. WEEK - 1
  BY <1>1, <1>3, <1>4
<1>6. k \in Int /\ DAY * k \in Int /\ e \in Int /\ e + OFFSET = DAY * k + C
  <2>1. /\ d * DAY = DAY * d /\ since * DAY = DAY * since /\ DAY * since \in Int
        /\ DAY * (d - since) = DAY * d - DAY * since
        /\ WEEK * DAY = DAY * WEEK /\ DAY * WEEK \in Int
        /\ DAY * (d - WEEK) = DAY * d - DAY * WEEK
    BY <1>1, <1>2, <1>5, Spread
  <2>2. e = (IF early THEN (d * DAY + C - since * DAY) - WEEK * DAY ELSE d * DAY + C - since * DAY) - OFFSET
    BY DEF weeklyWindowEndingAt, d, h, C, since, wd
  <2> HIDE DEF e
  <2>3. CASE early
    <3>1. k = d - WEEK /\ since = 0
      BY <2>3
    <3>2. since * DAY = 0
      BY <1>1, <3>1
    <3> QED
      BY <1>1, <1>2, <2>1, <2>2, <2>3, <3>1, <3>2
  <2>4. CASE ~early
    <3>1. k = d - since
      BY <2>4
    <3> HIDE DEF early
    <3> QED
      BY <1>1, <1>2, <1>5, <2>1, <2>2, <2>4, <3>1
  <2> QED
    BY <2>3, <2>4
<1>7. istDay(e) = k /\ Hour(e) = C
  BY <1>1, <1>6, ClockSet
<1> DEFINE b == IF early THEN a - 1 ELSE IF wd >= FRIDAY THEN a ELSE a - 1
<1>8. b \in Int /\ WEEK * b \in Int /\ k + EPOCH = WEEK * b + FRIDAY
  <2>1. WEEK * (a - 1) = WEEK * a - WEEK
    BY <1>1, <1>3, Spread
  <2>2. CASE early
    <3>1. k = d - WEEK /\ since = 0 /\ b = a - 1
      BY <2>2
    <3> QED
      BY <1>1, <1>2, <1>3, <1>4, <2>1, <3>1
  <2>3. CASE ~early
    <3>1. k = d - since /\ b = IF wd >= FRIDAY THEN a ELSE a - 1
      BY <2>3
    <3> QED
      BY <1>1, <1>2, <1>3, <1>4, <2>1, <3>1
  <2> QED
    BY <2>2, <2>3
<1>9. Weekday(e) = FRIDAY
  <2>1. k + EPOCH \in Int
    BY <1>1, <1>6
  <2> HIDE DEF k, b, e
  <2>2. (k + EPOCH) % WEEK = FRIDAY
    BY <1>1, <1>8, <2>1, DivIs
  <2> QED
    BY <1>7, <2>2 DEF Weekday
<1>10. k <= d /\ (early => k = d - WEEK) /\ (~early => k = d - since /\ (since # 0 \/ C <= h))
  <2>1. CASE early
    BY <1>1, <1>2, <2>1
  <2>2. CASE ~early
    BY <1>1, <1>2, <1>5, <2>2
  <2> QED
    BY <2>1, <2>2
<1> HIDE DEF e, k, b
<1>11. e \in now - WEEK * DAY .. now
  <2>1. /\ DAY * WEEK \in Int /\ WEEK * DAY = DAY * WEEK /\ DAY * (d - WEEK) = DAY * d - DAY * WEEK
        /\ d - WEEK \in Int
    BY <1>1, <1>2, Spread
  <2>2. CASE early
    <3>1. DAY * k = DAY * d - DAY * WEEK /\ h < C
      BY <1>10, <2>1, <2>2
    <3>2. DAY <= DAY * WEEK
      <4>1. DAY * 1 <= DAY * WEEK
        BY <1>1, Upward
      <4> QED
        BY <1>1, <4>1, Spread
    <3> QED
      BY <1>1, <1>2, <1>6, <2>1, <3>1, <3>2
  <2>3. CASE ~early
    <3>1. d - WEEK < k
      BY <1>1, <1>2, <1>5, <1>10, <2>3
    <3>2. DAY * (d - WEEK) + DAY <= DAY * k
      BY <1>6, <2>1, <3>1, DaysApart
    <3>3. k = d => C <= h
      BY <1>2, <1>5, <1>10, <2>3
    <3>4. k < d => DAY * k + DAY <= DAY * d
      BY <1>2, <1>6, DaysApart
    <3>5. k = d => DAY * k = DAY * d
      OBVIOUS
    <3> QED
      BY <1>1, <1>2, <1>6, <1>10, <2>1, <3>2, <3>3, <3>4, <3>5
  <2> QED
    BY <2>2, <2>3
<1>12. ASSUME NEW u \in e + 1 .. now, Hour(u) = C, Weekday(u) = FRIDAY
      PROVE  FALSE
  <2> DEFINE j == istDay(u)
             c == (j + EPOCH) \div WEEK
  <2>1. u \in Int /\ e < u /\ u <= now
    BY <1>6, <1>12
  <2>2. j \in Int /\ DAY * j \in Int /\ u + OFFSET = DAY * j + C
    BY <1>12, <2>1, ClockReads
  <2>3. c \in Int /\ WEEK * c \in Int /\ j + EPOCH = WEEK * c + FRIDAY
    <3>1. j + EPOCH \in Int
      BY <1>1, <2>2
    <3>2. (j + EPOCH) % WEEK = FRIDAY
      BY <1>12 DEF Weekday
    <3> HIDE DEF j
    <3>3. c \in Int /\ j + EPOCH = WEEK * c + ((j + EPOCH) % WEEK)
      BY <1>1, <3>1, DivFloor
    <3> HIDE DEF c
    <3> QED
      BY <1>1, <3>2, <3>3, Spread
  <2> HIDE DEF j, c
  <2>4. DAY * k < DAY * j /\ DAY * j + C <= DAY * d + h
    BY <1>1, <1>2, <1>6, <2>1, <2>2
  <2>5. k < j
    BY <1>1, <1>6, <2>2, <2>4, UpwardStrict
  <2>6. WEEK * b < WEEK * c
    BY <1>1, <1>6, <1>8, <2>2, <2>3, <2>5
  <2>7. b < c
    BY <1>1, <1>8, <2>3, <2>6, UpwardStrict
  <2>8. WEEK * b + WEEK <= WEEK * c
    <3>1. WEEK * (b + 1) <= WEEK * c
      BY <1>1, <1>8, <2>3, <2>7, Upward
    <3>2. WEEK * (b + 1) = WEEK * b + WEEK
      BY <1>1, <1>8, Spread
    <3> QED
      BY <3>1, <3>2
  <2>9. k + WEEK <= j
    BY <1>1, <1>6, <1>8, <2>2, <2>3, <2>8
  <2>10. CASE early
    <3>1. d <= j /\ h < C
      BY <1>1, <1>2, <1>10, <2>2, <2>9, <2>10
    <3>2. DAY * d <= DAY * j
      BY <1>1, <1>2, <2>2, <3>1, Upward
    <3> QED
      BY <1>1, <1>2, <2>2, <2>4, <3>1, <3>2
  <2>11. CASE ~early
    <3>1. d < j
      BY <1>1, <1>2, <1>5, <1>10, <2>2, <2>9, <2>11
    <3>2. DAY * d + DAY <= DAY * j
      BY <1>2, <2>2, <3>1, DaysApart
    <3> QED
      BY <1>1, <1>2, <2>2, <2>4, <3>2
  <2> QED
    BY <2>10, <2>11
<1> QED
  BY <1>7, <1>9, <1>11, <1>12 DEF C, e

\* At every instant, and for every clock (unit, offset, cut-off hours, length of the
\* week): the windows of the digest and of the weekly report end on the latest
\* cut-off that is not in the future (dispatch-digest, weekly-report).
THEOREM WindowsAlwaysClose ==
    ASSUME NEW now \in Int
    PROVE  ClosesOnLatestCutoff(now)
<1> DEFINE span == now - WEEK * DAY .. now
           e == windowEndingAt(now)
           f == weeklyWindowEndingAt(now)
<1>1. WEEK * DAY \in Int
  BY WindowsAssumption, Spread
<1>2. \A t \in span : t \in Int
  BY <1>1
<1>3. /\ e \in span /\ Hour(e) = CUTOFF_HOUR
      /\ \A u \in e + 1 .. now : ~(Hour(u) = CUTOFF_HOUR)
  BY DigestClosesOnLatest
<1>4. /\ f \in span /\ Hour(f) = CLOSING_HOUR /\ Weekday(f) = FRIDAY
      /\ \A u \in f + 1 .. now : ~(Hour(u) = CLOSING_HOUR /\ Weekday(u) = FRIDAY)
  BY WeeklyClosesOnLatest
<1> HIDE DEF e, f
<1>5. \A t, s \in span : t < s => s \in t + 1 .. now
  BY <1>1
<1>6. \A t, s \in span : t < s \/ s < t \/ s = t
  BY <1>2
<1> HIDE DEF span
<1>7. e = CHOOSE t \in span : Hour(t) = CUTOFF_HOUR /\ \A u \in t + 1 .. now : ~(Hour(u) = CUTOFF_HOUR)
  <2>1. ASSUME NEW t \in span, Hour(t) = CUTOFF_HOUR, \A u \in t + 1 .. now : ~(Hour(u) = CUTOFF_HOUR)
        PROVE  t = e
    BY <1>3, <1>5, <1>6, <2>1
  <2> QED
    BY <1>3, <2>1
<1>8. f = CHOOSE t \in span : /\ Hour(t) = CLOSING_HOUR /\ Weekday(t) = FRIDAY
                             /\ \A u \in t + 1 .. now : ~(Hour(u) = CLOSING_HOUR /\ Weekday(u) = FRIDAY)
  <2>1. ASSUME NEW t \in span, Hour(t) = CLOSING_HOUR, Weekday(t) = FRIDAY,
               \A u \in t + 1 .. now : ~(Hour(u) = CLOSING_HOUR /\ Weekday(u) = FRIDAY)
        PROVE  t = f
    BY <1>4, <1>5, <1>6, <2>1
  <2> QED
    BY <1>4, <2>1
<1> QED
  BY <1>7, <1>8 DEF ClosesOnLatestCutoff, e, f, span

-----------------------------------------------------------------------------
(***************************************************************************)
(* The date range, and the order of the list.                              *)
(***************************************************************************)
\* For every query and every instant: the instant is in the range exactly when its
\* day in India is, and a query without dates is accepted and holds today
\* (analytics-range, resolveRange).
THEOREM RangeAlwaysIndian ==
    ASSUME NEW from \in Int \cup {NoDate}, NEW to \in Int \cup {NoDate}, NEW now \in Int
    PROVE RangeIsIndian(from, to, now)
  BY AnalyticsAssumption DEF RangeIsIndian, resolveRange, istToday, istStart, HALF_HOURS,
     IST_OFFSET, DEFAULT_DAYS, MAX_SPAN_DAYS

\* A product on the list of what to restock.
Item == [level : DOMAIN LEVEL_ORDER, daysLeft : Nat \cup {-1}, name : Int]

\* For any three products: of two different ones exactly one is before the other,
\* and what is before is so transitively, so that the sorted list depends on what
\* is in it only (restock-math, compareItems).
THEOREM UrgencyAlwaysAnOrder ==
    ASSUME NEW a \in Item, NEW b \in Item, NEW c \in Item
    PROVE UrgencyIsAnOrder(a, b, c)
  BY DEF UrgencyIsAnOrder, Before, LEVEL_ORDER, Item

-----------------------------------------------------------------------------
(***************************************************************************)
(* How a price is split.                                                   *)
(***************************************************************************)
\* The weights a price is split by: there are as many, and they are not all nothing.
LEMMA WeightsPicked ==
    ASSUME NEW ws \in Seq(Nat), NEW fb \in Seq(Nat), Len(ws) > 0, Len(fb) = Len(ws)
    PROVE  /\ DOMAIN pickWeights(ws, fb) = 1 .. Len(ws) /\ Len(pickWeights(ws, fb)) = Len(ws)
           /\ \A i \in 1 .. Len(ws) : pickWeights(ws, fb)[i] \in Nat
           /\ weightSum(pickWeights(ws, fb)) \in Nat \ {0}
<1>1. /\ Len(ws) \in Nat /\ DOMAIN ws = 1 .. Len(ws) /\ DOMAIN fb = 1 .. Len(ws)
      /\ IsFiniteSet(1 .. Len(ws)) /\ 1 \in 1 .. Len(ws)
      /\ \A i \in 1 .. Len(ws) : ws[i] \in Nat /\ fb[i] \in Nat
  BY SeqIs
<1>2. weightSum(ws) \in Nat /\ weightSum(fb) \in Nat
  BY <1>1, SumType DEF weightSum, SumFunction
<1>3. CASE weightSum(ws) > 0
  BY <1>1, <1>2, <1>3 DEF pickWeights
<1>4. CASE ~(weightSum(ws) > 0) /\ weightSum(fb) > 0
  BY <1>1, <1>2, <1>4 DEF pickWeights
<1>5. CASE ~(weightSum(ws) > 0) /\ ~(weightSum(fb) > 0)
  <2> DEFINE ones == [i \in 1 .. Len(ws) |-> 1]
             rest == SumFunctionOnSet(ones, (1 .. Len(ws)) \ {1})
  <2>1. pickWeights(ws, fb) = ones
    BY <1>1, <1>5 DEF pickWeights
  <2>2. DOMAIN ones = 1 .. Len(ws) /\ Len(ones) = Len(ws) /\ \A i \in 1 .. Len(ws) : ones[i] = 1
    BY <1>1
  <2> HIDE DEF ones
  <2>3. weightSum(ones) = 1 + rest
    <3>1. \A i \in 1 .. Len(ws) : ones[i] \in Int
      BY <2>2
    <3>2. SumFunctionOnSet(ones, 1 .. Len(ws)) = ones[1] + rest
      BY <1>1, <3>1, SumTakes
    <3> QED
      BY <1>1, <2>2, <3>2 DEF weightSum, SumFunction
  <2>4. rest \in Nat
    <3>1. IsFiniteSet((1 .. Len(ws)) \ {1}) /\ \A i \in (1 .. Len(ws)) \ {1} : ones[i] \in Nat
      BY <1>1, <2>2, FS_Subset
    <3> QED
      BY <3>1, SumType
  <2> QED
    BY <2>1, <2>2, <2>3, <2>4
<1> QED
  BY <1>3, <1>4, <1>5

\* A share is a part of the total, rounded down.
LEMMA ShareFits ==
    ASSUME NEW total \in Nat, NEW w \in Nat, NEW W \in Nat \ {0}
    PROVE  /\ (total * w) \div W \in Nat
           /\ W * ((total * w) \div W) <= total * w
           /\ total * w < W * ((total * w) \div W) + W
<1> DEFINE n == total * w
<1>1. n \in Nat
  OBVIOUS
<1> HIDE DEF n
<1>2. n \div W \in Int /\ W * (n \div W) <= n /\ n < W * (n \div W) + W
  BY <1>1, DivFloor
<1>3. W * 0 <= n
  BY <1>1, Spread
<1>4. 0 <= n \div W
  BY <1>1, <1>3, DivMost
<1> QED
  BY <1>2, <1>4 DEF n

\* A quotient that may lose its last unit when it comes out even is still a
\* natural number, no more than the quotient and at most one less.
LEMMA FlooredFits ==
    ASSUME NEW n \in Nat, NEW q \in Nat \ {0}, NEW isShort
    PROVE  /\ floored(n, q, isShort) \in Nat /\ floored(n, q, isShort) <= n \div q
           /\ q * floored(n, q, isShort) <= n /\ n <= q * floored(n, q, isShort) + q
<1> DEFINE k == n \div q
<1>1. k \in Int /\ q * k <= n /\ n < q * k + q /\ n = q * k + (n % q)
  BY DivFloor
<1>2. q * 0 <= n
  BY Spread
<1>3. 0 <= k
  BY <1>2, DivMost
<1>4. CASE ~(isShort /\ n > 0 /\ n % q = 0)
  <2>1. floored(n, q, isShort) = k
    BY <1>1, <1>4 DEF floored
  <2> HIDE DEF k
  <2> QED
    BY <1>1, <1>3, <2>1 DEF k
<1>5. CASE isShort /\ n > 0 /\ n % q = 0
  <2>1. floored(n, q, isShort) = k - 1
    BY <1>1, <1>5 DEF floored
  <2>2. n = q * k
    <3> DEFINE m == n % q
    <3>1. m = 0 /\ n = q * k + m
      BY <1>1, <1>5
    <3> HIDE DEF k, m
    <3> QED
      BY <1>1, <3>1, Spread
  <2>3. k # 0
    <3>1. q * 0 = 0
      BY Spread
    <3> HIDE DEF k
    <3> QED
      BY <1>5, <2>2, <3>1
  <2> HIDE DEF k
  <2>4. q * (k - 1) = q * k - q /\ q * k \in Int
    BY <1>1, Spread
  <2> QED
    BY <1>1, <1>3, <2>1, <2>2, <2>3, <2>4 DEF k
<1> QED
  BY <1>4, <1>5

\* Any shares of any lines together are at most the total.
LEMMA SharesFit ==
    ASSUME NEW D, IsFiniteSet(D), NEW ws, \A i \in D : ws[i] \in Nat, NEW total \in Nat,
           NEW W, W = SumFunctionOnSet(ws, D), W > 0,
           NEW S, S \subseteq D, NEW v, \A i \in S : v[i] \in Nat /\ v[i] <= (total * ws[i]) \div W
    PROVE  SumFunctionOnSet(v, S) \in Nat /\ SumFunctionOnSet(v, S) <= total
<1>1. IsFiniteSet(S) /\ W \in Nat \ {0}
  BY FS_Subset, SumType
<1> DEFINE up == [i \in S |-> W * v[i]]
           top == [i \in S |-> total * ws[i]]
           sv == SumFunctionOnSet(v, S)
           sw == SumFunctionOnSet(ws, S)
<1>2. sv \in Nat /\ sw \in Nat /\ sw <= W
  BY <1>1, SumType, SumGrows
<1>3. \A i \in S : up[i] \in Int /\ top[i] \in Int /\ up[i] <= top[i]
  <2> SUFFICES ASSUME NEW i \in S
               PROVE  W * v[i] \in Int /\ total * ws[i] \in Int /\ W * v[i] <= total * ws[i]
    OBVIOUS
  <2> DEFINE k == (total * ws[i]) \div W
  <2>1. k \in Nat /\ W * k <= total * ws[i]
    BY <1>1, ShareFits
  <2>2. v[i] \in Nat /\ v[i] <= k /\ ws[i] \in Nat
    OBVIOUS
  <2> HIDE DEF k
  <2>3. W * v[i] <= W * k /\ W * v[i] \in Int /\ W * k \in Int /\ total * ws[i] \in Int
    BY <1>1, <2>1, <2>2, Upward, Spread
  <2> QED
    BY <2>1, <2>3
<1>4. SumFunctionOnSet(up, S) = W * sv
  <2>1. \A i \in S : v[i] \in Int /\ up[i] = W * v[i]
    OBVIOUS
  <2> HIDE DEF up
  <2> QED
    BY <1>1, <2>1, SumScales
<1>5. SumFunctionOnSet(top, S) = total * sw
  <2>1. \A i \in S : ws[i] \in Int /\ top[i] = total * ws[i]
    OBVIOUS
  <2> HIDE DEF top
  <2> QED
    BY <1>1, <2>1, SumScales
<1>6. SumFunctionOnSet(up, S) <= SumFunctionOnSet(top, S)
  <2> HIDE DEF up, top
  <2> QED
    BY <1>1, <1>3, SumBelow
<1> HIDE DEF up, top, sv, sw
<1>7. total * sw <= total * W
  BY <1>1, <1>2, Upward
<1>8. W * sv <= W * total
  <2>1. W * sv \in Int /\ total * sw \in Int /\ total * W \in Int /\ W * total = total * W
    BY <1>1, <1>2, Spread
  <2> QED
    BY <1>4, <1>5, <1>6, <1>7, <2>1
<1>9. sv <= total
  <2>1. total < sv => total + 1 <= sv
    BY <1>2
  <2>2. total + 1 <= sv => W * (total + 1) <= W * sv
    BY <1>1, <1>2, Upward
  <2>3. W * (total + 1) = W * total + W /\ W * total \in Int /\ W * sv \in Int
    BY <1>1, <1>2, Spread
  <2> QED
    BY <1>1, <1>2, <1>8, <2>1, <2>2, <2>3
<1> QED
  BY <1>2, <1>9 DEF sv

\* A function on the first n numbers has n entries.
LEMMA LenIs == ASSUME NEW n \in Nat, NEW f, DOMAIN f = 1 .. n PROVE Len(f) = n
  OBVIOUS

\* For every total and every list of weights with its fallback, and whichever even
\* shares the floats leave short: the parts add up to the total, none is negative,
\* and every line but the last has its share or at most a paisa less (kit-pricing,
\* allocate).
THEOREM SplitAlwaysExact ==
    ASSUME NEW total \in Nat, NEW weights \in Seq(Nat), NEW fallback \in Seq(Nat),
           Len(weights) > 0, Len(fallback) = Len(weights), NEW short
    PROVE  SplitIsExact(total, weights, fallback, short)
<1> DEFINE ws == pickWeights(weights, fallback)
           n == Len(weights)
           W == weightSum(ws)
           share(i) == floored(total * ws[i], W, i \in short)
           head == [i \in 1 .. n - 1 |-> share(i)]
           others == SumFunctionOnSet(head, 1 .. n - 1)
           parts == [i \in 1 .. n |-> IF i = n THEN total - others ELSE share(i)]
<1>1. /\ n \in Nat \ {0} /\ DOMAIN ws = 1 .. n /\ Len(ws) = n
      /\ \A i \in 1 .. n : ws[i] \in Nat
      /\ W \in Nat \ {0} /\ W = SumFunctionOnSet(ws, 1 .. n)
  BY WeightsPicked, SeqIs DEF weightSum, SumFunction
<1>2. IsFiniteSet(1 .. n) /\ IsFiniteSet(1 .. n - 1)
  BY <1>1, FS_Interval
<1>3. allocate(total, weights, fallback, short) = parts
  BY <1>1 DEF allocate, weightSum, SumFunction
<1> HIDE DEF ws, n, W
<1>4. \A i \in 1 .. n : /\ share(i) \in Nat /\ W * share(i) <= total * ws[i]
                       /\ total * ws[i] <= W * share(i) + W
                       /\ share(i) <= (total * ws[i]) \div W
  <2> SUFFICES ASSUME NEW i \in 1 .. n
               PROVE  /\ share(i) \in Nat /\ W * share(i) <= total * ws[i]
                      /\ total * ws[i] <= W * share(i) + W
                      /\ share(i) <= (total * ws[i]) \div W
    OBVIOUS
  <2>1. total * ws[i] \in Nat
    BY <1>1
  <2> QED
    BY <1>1, <2>1, FlooredFits
<1>5. \A i \in 1 .. n - 1 : i \in 1 .. n /\ i # n
  BY <1>1
<1> HIDE DEF share
<1>6. \A i \in 1 .. n - 1 : head[i] = share(i) /\ head[i] \in Nat
  BY <1>4, <1>5
<1> HIDE DEF head
<1>7. others \in Nat /\ others <= total
  <2>1. \A i \in 1 .. n - 1 : head[i] \in Nat /\ head[i] <= (total * ws[i]) \div W
    BY <1>4, <1>5, <1>6
  <2>2. 1 .. n - 1 \subseteq 1 .. n /\ W > 0
    BY <1>1
  <2> QED
    BY <1>1, <1>2, <2>1, <2>2, SharesFit
<1> HIDE DEF others
<1>8. /\ DOMAIN parts = 1 .. n /\ Len(parts) = n /\ parts[n] = total - others
      /\ \A i \in 1 .. n : parts[i] \in Nat
      /\ \A i \in 1 .. n - 1 : parts[i] = share(i)
  <2>1. DOMAIN parts = 1 .. n /\ n \in 1 .. n
    BY <1>1
  <2>2. Len(parts) = n
    BY <1>1, <2>1, LenIs
  <2> QED
    BY <1>4, <1>5, <1>7, <2>1, <2>2
<1> HIDE DEF parts
<1>9. weightSum(parts) = total
  <2>1. n \in 1 .. n /\ (1 .. n) \ {n} = 1 .. n - 1
    BY <1>1
  <2>2. \A i \in 1 .. n : parts[i] \in Int
    BY <1>8
  <2>3. SumFunctionOnSet(parts, 1 .. n) = parts[n] + SumFunctionOnSet(parts, 1 .. n - 1)
    <3> DEFINE T == 1 .. n
    <3>1. IsFiniteSet(T) /\ n \in T /\ \A i \in T : parts[i] \in Int
      BY <1>2, <2>1, <2>2
    <3> HIDE DEF T
    <3>2. SumFunctionOnSet(parts, T) = parts[n] + SumFunctionOnSet(parts, T \ {n})
      BY <3>1, SumTakes
    <3> QED
      BY <2>1, <3>2 DEF T
  <2>4. SumFunctionOnSet(parts, 1 .. n - 1) = others
    <3>1. \A i \in 1 .. n - 1 : parts[i] = head[i]
      BY <1>6, <1>8
    <3> QED
      BY <1>2, <3>1, SumSame DEF others
  <2>5. SumFunctionOnSet(parts, 1 .. n) = total
    BY <1>7, <1>8, <2>3, <2>4
  <2> QED
    BY <1>8, <2>5 DEF weightSum, SumFunction
<1>10. ASSUME NEW i \in 1 .. n, i < n
       PROVE  parts[i] * W <= total * ws[i] /\ total * ws[i] <= (parts[i] + 1) * W
  <2>1. i \in 1 .. n - 1
    BY <1>1, <1>10
  <2>2. parts[i] = share(i) /\ share(i) \in Nat
    BY <1>4, <1>8, <2>1
  <2>3. W * share(i) = share(i) * W /\ (share(i) + 1) * W = W * share(i) + W
    BY <1>1, <2>2, Spread
  <2> QED
    BY <1>4, <2>2, <2>3
<1>11. \A i \in 1 .. n : parts[i] >= 0
  BY <1>8
<1> QED
  BY <1>3, <1>8, <1>9, <1>10, <1>11 DEF SplitIsExact, n, ws, W

\* Rounding to a multiple is exact on one, and never off by a whole one.
LEMMA RoundedIs ==
    ASSUME NEW n \in Nat, NEW q \in Nat \ {0}
    PROVE  /\ Rounded(n, q) \in Nat
           /\ q * Rounded(n, q) - n < q /\ n - q * Rounded(n, q) < q
           /\ n % q = 0 => q * Rounded(n, q) = n
<1> DEFINE m == Rounded(n, q)
           p == q * m
<1>1. 2 * n + q \in Int /\ 2 * q \in Nat \ {0}
  OBVIOUS
<1>2. m = (2 * n + q) \div (2 * q)
  BY DEF Rounded
<1> HIDE DEF m
<1>3. m \in Int /\ (2 * q) * m <= 2 * n + q /\ 2 * n + q < (2 * q) * m + 2 * q
  BY <1>1, <1>2, DivFloor
<1>4. p \in Int /\ (2 * q) * m = 2 * p
  BY <1>3, Spread
<1> HIDE DEF p
<1>5. p - n < q /\ n - p < q
  BY <1>3, <1>4
<1>6. m \in Nat
  <2>1. (2 * q) * 0 <= 2 * n + q
    OBVIOUS
  <2>2. 0 <= (2 * n + q) \div (2 * q)
    BY <1>1, <2>1, DivMost
  <2> QED
    BY <1>2, <1>3, <2>2
<1>7. ASSUME n % q = 0
      PROVE  p = n
  <2> DEFINE k == n \div q
  <2>1. k \in Int /\ n = q * k
    BY <1>7, DivFloor, Spread
  <2> HIDE DEF k
  <2>2. 2 * n + q = (2 * q) * k + q /\ q \in 0 .. 2 * q - 1
    BY <2>1
  <2>3. m = k
    BY <1>1, <1>2, <2>1, <2>2, DivIs
  <2> QED
    BY <2>1, <2>3 DEF p
<1> QED
  BY <1>5, <1>6, <1>7 DEF p, m

\* For every total, weights and quantities, and whichever lines the floats leave
\* short: the unit prices are not negative, give back the total whenever some
\* line has one unit, and are otherwise off by less than a paisa per unit of the
\* last line (kit-pricing, allocateUnitPrices).
THEOREM UnitPricesAlwaysFit ==
    ASSUME NEW total \in Nat, NEW weights \in Seq(Nat), NEW qs \in Seq(Nat \ {0}),
           Len(weights) > 0, Len(qs) = Len(weights), NEW short
    PROVE  UnitPricesFit(total, weights, qs, short)
<1> DEFINE ws == pickWeights(weights, qs)
           n == Len(weights)
           W == weightSum(ws)
           share(i) == (total * ws[i]) \div W
           unit(i) == floored(total * ws[i], W * qs[i], i \in short)
           D == DOMAIN ws
           down == [i \in D |-> unit(i) * qs[i]]
           rem == total - SumFunctionOnSet(down, D)
           even == {i \in D : rem % qs[i] = 0}
           target == IF even = {} THEN Len(ws) ELSE CHOOSE i \in even : \A j \in even : j <= i
           units == [i \in D |-> IF i = target THEN unit(i) + Rounded(rem, qs[i]) ELSE unit(i)]
           sold == [i \in D |-> units[i] * qs[i]]
           sum == SumFunctionOnSet(sold, D)
<1>1. /\ n \in Nat \ {0} /\ D = 1 .. n /\ Len(ws) = n
      /\ \A i \in D : ws[i] \in Nat
      /\ W \in Nat \ {0} /\ W = SumFunctionOnSet(ws, D)
  <2>1. qs \in Seq(Nat)
    OBVIOUS
  <2> QED
    BY <2>1, WeightsPicked, SeqIs DEF weightSum, SumFunction
<1>2. IsFiniteSet(D) /\ n \in D /\ D \subseteq Int
  BY <1>1, FS_Interval
<1>3. DOMAIN qs = D /\ Len(qs) = n /\ \A i \in D : qs[i] \in Nat \ {0}
  BY <1>1, SeqIs
<1>4. allocateUnitPrices(total, weights, qs, short) = units
  BY DEF allocateUnitPrices, weightSum, SumFunction
<1>5. weightSum([i \in DOMAIN units |-> units[i] * qs[i]]) = sum
  BY DEF weightSum, SumFunction
<1> HIDE DEF ws, n, W, D
<1>6. \A i \in D : unit(i) \in Nat /\ unit(i) * qs[i] \in Nat /\ unit(i) * qs[i] <= share(i)
  <2> SUFFICES ASSUME NEW i \in D
               PROVE  unit(i) \in Nat /\ unit(i) * qs[i] \in Nat /\ unit(i) * qs[i] <= share(i)
    OBVIOUS
  <2> DEFINE N == total * ws[i]
             q == qs[i]
             u == unit(i)
  <2>1. N \in Nat /\ q \in Nat \ {0} /\ W * q \in Nat \ {0}
    <3>1. \A a, b \in Nat \ {0} : a * b \in Nat \ {0}
      OBVIOUS
    <3>2. \A a, b \in Nat : a * b \in Nat
      OBVIOUS
    <3> QED
      BY <1>1, <1>3, <3>1, <3>2
  <2>2. u \in Nat /\ (W * q) * u <= N
    BY <2>1, FlooredFits
  <2>3. share(i) = N \div W
    OBVIOUS
  <2> HIDE DEF N, q, u, share
  <2>4. (W * q) * u = W * (u * q) /\ u * q \in Nat
    BY <1>1, <2>1, <2>2
  <2>5. u * q <= N \div W
    <3> DEFINE d == u * q
    <3>1. d \in Int /\ W * d <= N /\ N \in Int /\ W \in Nat \ {0}
      BY <1>1, <2>1, <2>2, <2>4
    <3> HIDE DEF d
    <3> QED
      BY <3>1, DivMost DEF d
  <2> QED
    BY <2>2, <2>3, <2>4, <2>5 DEF q, u
<1>7. \A i \in D : down[i] = unit(i) * qs[i] /\ down[i] \in Nat /\ down[i] <= (total * ws[i]) \div W
  <2> HIDE DEF unit
  <2> QED
    BY <1>6
<1> HIDE DEF share, unit, down
<1>8. rem \in Nat /\ SumFunctionOnSet(down, D) \in Nat /\ SumFunctionOnSet(down, D) <= total
  <2>1. W > 0
    BY <1>1
  <2>2. SumFunctionOnSet(down, D) \in Nat /\ SumFunctionOnSet(down, D) <= total
    BY <1>1, <1>2, <1>7, <2>1, SharesFit
  <2> QED
    BY <2>2
<1>9. /\ target \in D
      /\ even # {} => target \in even
      /\ even = {} => target = n
  <2>1. ASSUME even # {}
        PROVE  target \in even
    <3>1. IsFiniteSet(even) /\ even \subseteq Int
      BY <1>1, <1>2, FS_Subset
    <3>2. \E i \in even : \A j \in even : j <= i
      <4> HIDE DEF even
      <4> QED
        BY <2>1, <3>1, HasGreatest
    <3> QED
      BY <2>1, <3>2
  <2> QED
    BY <1>1, <1>2, <2>1
<1> DEFINE q == qs[target]
           r == Rounded(rem, q)
           added == q * r
<1>10. q \in Nat \ {0} /\ r \in Nat /\ (even # {} => rem % q = 0)
  <2>1. q \in Nat \ {0} /\ (even # {} => rem % q = 0)
    BY <1>3, <1>9
  <2> HIDE DEF q, rem
  <2> QED
    BY <1>8, <2>1, RoundedIs
<1> HIDE DEF rem
<1>11. /\ added - rem < q /\ rem - added < q /\ added \in Int
       /\ even # {} => added = rem
  <2> HIDE DEF q, even
  <2>1. /\ q * Rounded(rem, q) - rem < q /\ rem - q * Rounded(rem, q) < q
        /\ rem % q = 0 => q * Rounded(rem, q) = rem
    BY <1>8, <1>10, RoundedIs
  <2>2. q * r \in Int
    BY <1>10, Spread
  <2> QED
    BY <1>10, <2>1, <2>2
<1>12. /\ \A i \in (D) \ {target} : units[i] = unit(i)
       /\ units[target] = unit(target) + r /\ DOMAIN units = D
  BY <1>9
<1> HIDE DEF target, even, units
<1>13. \A i \in D : units[i] \in Nat
  BY <1>6, <1>10, <1>12
<1>14. sum = total - rem + added
  <2>1. \A i \in D : sold[i] \in Int /\ down[i] \in Int
    <3> SUFFICES ASSUME NEW i \in D
                 PROVE  units[i] * qs[i] \in Int /\ down[i] \in Int
      OBVIOUS
    <3>1. units[i] \in Int /\ qs[i] \in Int /\ down[i] \in Int
      BY <1>3, <1>7, <1>13
    <3> QED
      BY <3>1, Spread
  <2>2. \A i \in (D) \ {target} : sold[i] = down[i]
    BY <1>7, <1>12
  <2>3. sold[target] = down[target] + added
    <3>1. sold[target] = (unit(target) + r) * q /\ down[target] = unit(target) * q
      BY <1>7, <1>9, <1>12
    <3>2. unit(target) \in Int /\ r \in Int /\ q \in Int
      BY <1>6, <1>9, <1>10
    <3> DEFINE u == unit(target)
    <3> HIDE DEF u, r, q
    <3>3. (u + r) * q = q * (u + r) /\ u * q = q * u /\ q * (u + r) = q * u + q * r
      BY <3>2, Spread DEF u
    <3> QED
      BY <3>1, <3>3 DEF u, added
  <2> HIDE DEF sold
  <2>4. sum = SumFunctionOnSet(down, D) - down[target] + sold[target]
    <3>1. \A i \in D : sold[i] \in Int
      BY <2>1
    <3>2. \A i \in D : down[i] \in Int
      BY <2>1
    <3>3. IsFiniteSet(D) /\ target \in D
      BY <1>2, <1>9
    <3> HIDE DEF q, r, added
    <3>4. \A i \in D \ {target} : sold[i] = down[i]
      BY <2>2
    <3> HIDE DEF sum
    <3>5. SumFunctionOnSet(sold, D) = SumFunctionOnSet(down, D) - down[target] + sold[target]
      BY <3>1, <3>2, <3>3, <3>4, SumMoves, SMTT(60)
    <3> QED
      BY <3>5 DEF sum
  <2> HIDE DEF sum, added
  <2>5. down[target] \in Int /\ rem = total - SumFunctionOnSet(down, D)
    BY <1>9, <2>1 DEF rem
  <2> QED
    BY <1>8, <1>11, <2>3, <2>4, <2>5
<1> HIDE DEF sum
<1>15. (\E i \in DOMAIN qs : qs[i] = 1) => sum = total
  <2> SUFFICES ASSUME NEW i \in D, qs[i] = 1
               PROVE  sum = total
    BY <1>3
  <2>1. i \in even
    BY <1>8 DEF even
  <2> HIDE DEF q, added
  <2> QED
    BY <1>8, <1>11, <1>14, <2>1
<1>16. sum - total < qs[Len(qs)] /\ total - sum < qs[Len(qs)]
  <2>1. qs[Len(qs)] \in Nat \ {0}
    BY <1>2, <1>3
  <2>2. CASE even # {}
    <3> HIDE DEF q, added
    <3> QED
      BY <1>8, <1>11, <1>14, <2>1, <2>2
  <2>3. CASE even = {}
    <3>1. q = qs[Len(qs)]
      BY <1>3, <1>9, <2>3
    <3> HIDE DEF q, added
    <3> QED
      BY <1>8, <1>10, <1>11, <1>14, <3>1
  <2> QED
    BY <2>2, <2>3
<1>17. \A i \in DOMAIN units : units[i] >= 0
  BY <1>12, <1>13
<1> QED
  BY <1>4, <1>5, <1>15, <1>16, <1>17 DEF UnitPricesFit

-----------------------------------------------------------------------------
(***************************************************************************)
(* The buckets of a range.  The list of the buckets is a recursive function on *)
(* the integers, and what says that there is one is that the recursion ends: *)
(* after the range.                                                        *)
(***************************************************************************)
\* Where the buckets of a granularity begin.
Starts(g) == IF g = "day" THEN Int ELSE IF g = "week" THEN {d \in Int : d % 7 = 0} ELSE MonthStarts

\* The calendar has a month that begins by the first day of a range, and one
\* that begins after the last.
CalendarHas(from, to) == \E m, n \in MonthStarts : m <= from /\ n > to

\* How long a bucket is.
Granularity == {"day", "week", "month"}

\* A set of integers that is bounded above has a greatest.
LEMMA IntGreatest ==
    ASSUME NEW S, S \subseteq Int, NEW m \in S, NEW top \in Int, \A x \in S : x <= top
    PROVE  \E x \in S : \A y \in S : y <= x
<1> DEFINE T == {x \in S : m <= x}
<1>1. T \subseteq m .. top /\ m \in Int /\ m \in T
  <2>1. m \in Int /\ \A x \in S : x \in Int /\ x <= top
    OBVIOUS
  <2>2. \A x \in T : x \in m .. top
    BY <2>1
  <2>3. m \in T
    BY <2>1
  <2> QED
    BY <2>1, <2>2, <2>3
<1>2. IsFiniteSet(T) /\ T \subseteq Int /\ T # {}
  <2>1. IsFiniteSet(m .. top)
    BY <1>1, FS_Interval
  <2> QED
    BY <1>1, <2>1, FS_Subset
<1>3. PICK x \in T : \A y \in T : y <= x
  <2> HIDE DEF T
  <2> QED
    BY <1>2, HasGreatest
<1>4. \A y \in S : y \in T \/ y < m
  OBVIOUS
<1> QED
  BY <1>3, <1>4

\* A set of integers that is bounded below has a least.
LEMMA IntLeast ==
    ASSUME NEW S, S \subseteq Int, NEW m \in S, NEW low \in Int, \A x \in S : low <= x
    PROVE  \E x \in S : \A y \in S : x <= y
<1> DEFINE N == {-x : x \in S}
<1>1. N \subseteq Int /\ -m \in N /\ -low \in Int /\ \A y \in N : y <= -low
  OBVIOUS
<1>2. PICK n \in N : \A y \in N : y <= n
  <2> HIDE DEF N
  <2> QED
    BY <1>1, IntGreatest
<1>3. PICK x \in S : n = -x
  BY <1>2
<1>4. \A y \in S : x <= y
  <2> SUFFICES ASSUME NEW y \in S
               PROVE  x <= y
    OBVIOUS
  <2>1. -y \in N
    OBVIOUS
  <2>2. -y <= n
    BY <1>2, <2>1
  <2> QED
    BY <1>3, <2>2
<1> QED
  BY <1>4

\* A day's bucket is the last that begins by then.
LEMMA BucketIs ==
    ASSUME NEW g \in Granularity, NEW d \in Int, \E m \in MonthStarts : m <= d
    PROVE  /\ bucketStart(d, g) \in Starts(g) /\ bucketStart(d, g) <= d
           /\ \A c \in Starts(g) : c <= d => c <= bucketStart(d, g)
<1>1. CASE g = "day"
  BY <1>1 DEF bucketStart, Starts
<1>2. CASE g = "week"
  BY <1>2 DEF bucketStart, Starts
<1>3. CASE g = "month"
  <2> DEFINE S == {m \in MonthStarts : m <= d}
  <2>1. S \subseteq Int /\ \A x \in S : x <= d
    BY AnalyticsAssumption
  <2>2. PICK m \in S : TRUE
    OBVIOUS
  <2>3. \E x \in S : \A y \in S : y <= x
    <3> HIDE DEF S
    <3> QED
      BY <2>1, <2>2, IntGreatest
  <2>4. \E x \in MonthStarts : x <= d /\ \A n \in MonthStarts : (n <= d => n <= x)
    BY <2>3
  <2>5. bucketStart(d, g) = CHOOSE x \in MonthStarts : x <= d /\ \A n \in MonthStarts : (n <= d => n <= x)
    BY <1>3 DEF bucketStart
  <2>6. Starts(g) = MonthStarts
    BY <1>3 DEF Starts
  <2> QED
    BY <2>4, <2>5, <2>6
<1> QED
  BY <1>1, <1>2, <1>3 DEF Granularity

\* The bucket after one that is listed is the next that begins.
LEMMA NextIs ==
    ASSUME NEW g \in Granularity, NEW b \in Int, \E m \in MonthStarts : m > b
    PROVE  /\ nextBucket(b, g) \in Int /\ nextBucket(b, g) > b
           /\ b \in Starts(g) => /\ nextBucket(b, g) \in Starts(g)
                                 /\ \A c \in Starts(g) : c > b => nextBucket(b, g) <= c
<1>1. CASE g = "day"
  BY <1>1 DEF nextBucket, Starts
<1>2. CASE g = "week"
  BY <1>2 DEF nextBucket, Starts
<1>3. CASE g = "month"
  <2> DEFINE S == {m \in MonthStarts : m > b}
  <2>1. S \subseteq Int /\ \A x \in S : b <= x
    <3>1. \A x \in MonthStarts : x \in Int /\ (x > b => b <= x)
      BY AnalyticsAssumption
    <3> QED
      BY <3>1
  <2>2. PICK m \in S : TRUE
    OBVIOUS
  <2>3. \E x \in S : \A y \in S : x <= y
    <3> HIDE DEF S
    <3> QED
      BY <2>1, <2>2, IntLeast
  <2>4. \E x \in MonthStarts : x > b /\ \A n \in MonthStarts : (n > b => x <= n)
    BY <2>3
  <2>5. nextBucket(b, g) = CHOOSE x \in MonthStarts : x > b /\ \A n \in MonthStarts : (n > b => x <= n)
    BY <1>3 DEF nextBucket
  <2>6. Starts(g) = MonthStarts
    BY <1>3 DEF Starts
  <2> QED
    BY <2>4, <2>5, <2>6, AnalyticsAssumption
<1> QED
  BY <1>1, <1>2, <1>3 DEF Granularity

\* h lists the buckets from b on, for every b.
Lists(h, to, g) == h = [b \in Int |-> IF b > to THEN << >> ELSE <<b>> \o h[nextBucket(b, g)]]

\* h does so for the last k days of the range and what follows.
ListsPart(h, k, to, g) ==
    h = [b \in {c \in Int : c > to - k} |-> IF b > to THEN << >> ELSE <<b>> \o h[nextBucket(b, g)]]

\* What the dashboard shows is read off the function that lists the buckets.
LEMMA ListedIs ==
    ASSUME NEW from, NEW to, NEW g
    PROVE  buckets(from, to, g) = (CHOOSE h : Lists(h, to, g))[bucketStart(from, g)]
  BY DEF buckets, Lists

\* Two such lists agree where both say something: take the last bucket on which
\* they do not, and the next one already differs.
LEMMA ListsAgree ==
    ASSUME NEW to \in Int, NEW g \in Granularity, \E m \in MonthStarts : m > to,
           NEW j \in Nat, NEW k \in Nat, j <= k, NEW p, ListsPart(p, j, to, g), NEW h, ListsPart(h, k, to, g),
           NEW b \in Int, b > to - j
    PROVE  p[b] = h[b]
<1> DEFINE B == {c \in Int : c > to - j /\ p[c] # h[c]}
<1> SUFFICES ASSUME B # {}
             PROVE  FALSE
  OBVIOUS
<1>1. \A c \in Int : c > to - j =>
         /\ p[c] = (IF c > to THEN << >> ELSE <<c>> \o p[nextBucket(c, g)])
         /\ h[c] = (IF c > to THEN << >> ELSE <<c>> \o h[nextBucket(c, g)])
  <2>1. \A c \in Int : c > to - j => c > to - k
    OBVIOUS
  <2>2. \A c \in {c \in Int : c > to - j} : p[c] = (IF c > to THEN << >> ELSE <<c>> \o p[nextBucket(c, g)])
    BY DEF ListsPart
  <2>3. \A c \in {c \in Int : c > to - k} : h[c] = (IF c > to THEN << >> ELSE <<c>> \o h[nextBucket(c, g)])
    BY DEF ListsPart
  <2> QED
    BY <2>1, <2>2, <2>3
<1>2. B \subseteq Int /\ \A c \in B : c <= to
  <2>1. \A c \in Int : c > to - j /\ c > to => p[c] = h[c]
    BY <1>1
  <2>2. \A c \in Int : c > to \/ c <= to
    OBVIOUS
  <2> QED
    BY <2>1, <2>2
<1>3. PICK c \in B : \A x \in B : x <= c
  <2>1. PICK c \in B : TRUE
    OBVIOUS
  <2> HIDE DEF B
  <2> QED
    BY <1>2, <2>1, IntGreatest
<1> DEFINE n == nextBucket(c, g)
<1>4. n \in Int /\ n > c
  <2>1. \E m \in MonthStarts : m > c
    BY <1>2, <1>3, AnalyticsAssumption
  <2> QED
    BY <1>2, <2>1, NextIs
<1> HIDE DEF n
<1>5. p[n] = h[n]
  BY <1>3, <1>4
<1> QED
  BY <1>1, <1>2, <1>3, <1>5 DEF n

\* There is one for every number of days: take the least for which there is none,
\* and the list for a day less extends to it.
LEMMA PartExists ==
    ASSUME NEW to \in Int, NEW g \in Granularity, \E m \in MonthStarts : m > to, NEW k \in Nat
    PROVE  \E h : ListsPart(h, k, to, g)
<1> DEFINE Some(i) == \E h : ListsPart(h, i, to, g)
           B == {i \in Nat : ~Some(i)}
<1> SUFFICES ASSUME B # {}
             PROVE  FALSE
  OBVIOUS
<1>1. PICK i \in B : \A x \in B : i <= x
  <2>1. PICK i \in B : TRUE
    OBVIOUS
  <2>2. B \subseteq Int /\ 0 \in Int /\ \A x \in B : 0 <= x
    OBVIOUS
  <2> HIDE DEF B
  <2> QED
    BY <2>1, <2>2, IntLeast
<1>2. i \in Nat /\ ~Some(i) /\ \A x \in Nat : x < i => Some(x)
  <2> HIDE DEF Some
  <2> QED
    BY <1>1
<1>3. i # 0
  <2> DEFINE h == [b \in {c \in Int : c > to - 0} |-> << >>]
  <2>1. h = [b \in {c \in Int : c > to - 0} |-> IF b > to THEN << >> ELSE <<b>> \o h[nextBucket(b, g)]]
    OBVIOUS
  <2> HIDE DEF h
  <2>2. Some(0)
    BY <2>1 DEF ListsPart
  <2> QED
    BY <1>2, <2>2
<1>4. PICK h : ListsPart(h, i - 1, to, g)
  <2>1. i - 1 \in Nat /\ i - 1 < i
    BY <1>2, <1>3
  <2>2. Some(i - 1)
    BY <1>2, <2>1
  <2> QED
    BY <2>2
<1> DEFINE D == {c \in Int : c > to - i}
           p == [b \in D |-> IF b > to - (i - 1) THEN h[b] ELSE <<b>> \o h[nextBucket(b, g)]]
<1>5. \A b \in Int : b > to - (i - 1) => h[b] = (IF b > to THEN << >> ELSE <<b>> \o h[nextBucket(b, g)])
  <2>1. \A b \in {c \in Int : c > to - (i - 1)} : h[b] = (IF b > to THEN << >> ELSE <<b>> \o h[nextBucket(b, g)])
    BY <1>4 DEF ListsPart
  <2> QED
    BY <2>1
<1>6. \A b \in D : p[b] = (IF b > to - (i - 1) THEN h[b] ELSE <<b>> \o h[nextBucket(b, g)])
  OBVIOUS
<1>7. ASSUME NEW b \in D
      PROVE  p[b] = (IF b > to THEN << >> ELSE <<b>> \o p[nextBucket(b, g)])
  <2>1. b \in Int /\ b > to - i
    OBVIOUS
  <2>2. CASE b > to
    <3>1. b > to - (i - 1)
      BY <1>2, <1>3, <2>1, <2>2
    <3>2. p[b] = h[b] /\ h[b] = << >>
      BY <1>5, <2>1, <2>2, <3>1
    <3> HIDE DEF p
    <3> QED
      BY <2>2, <3>2
  <2>3. CASE b <= to
    <3> DEFINE n == nextBucket(b, g)
    <3>1. n \in Int /\ n > b
      <4>1. \E m \in MonthStarts : m > b
        BY <2>1, <2>3, AnalyticsAssumption
      <4> QED
        BY <2>1, <4>1, NextIs
    <3>2. p[b] = <<b>> \o h[n]
      <4>0. p[b] = IF b > to - (i - 1) THEN h[b] ELSE <<b>> \o h[n]
        BY <1>6
      <4> HIDE DEF p
      <4>1. ASSUME b > to - (i - 1)
            PROVE  p[b] = h[b] /\ h[b] = <<b>> \o h[n]
        <5>1. h[b] = (IF b > to THEN << >> ELSE <<b>> \o h[n])
          BY <1>5, <2>1, <4>1
        <5>2. ~(b > to)
          BY <2>1, <2>3
        <5> QED
          BY <4>0, <4>1, <5>1, <5>2
      <4>2. ~(b > to - (i - 1)) => p[b] = <<b>> \o h[n]
        BY <4>0
      <4> QED
        BY <4>1, <4>2
    <3>3. p[n] = h[n]
      <4> HIDE DEF n
      <4>1. n \in D /\ n > to - (i - 1)
        BY <1>2, <2>1, <3>1
      <4> HIDE DEF p, D
      <4> QED
        BY <1>6, <4>1
    <3> HIDE DEF p
    <3> QED
      BY <2>1, <2>3, <3>2, <3>3
  <2> QED
    BY <2>1, <2>2, <2>3
<1>8. ListsPart(p, i, to, g)
  <2> DEFINE q == [b \in D |-> IF b > to THEN << >> ELSE <<b>> \o p[nextBucket(b, g)]]
  <2>1. p = q
    <3>1. \A b \in D : p[b] = q[b]
      BY <1>7
    <3> QED
      BY <3>1
  <2> QED
    BY <2>1 DEF ListsPart
<1> QED
  BY <1>2, <1>8

\* The list of the buckets is one.
LEMMA ListExists ==
    ASSUME NEW to \in Int, NEW g \in Granularity, \E m \in MonthStarts : m > to
    PROVE  \E h : Lists(h, to, g)
<1> DEFINE H(k) == CHOOSE h : ListsPart(h, k, to, g)
           at(b) == IF b > to THEN 0 ELSE to - b + 1
           f == [b \in Int |-> H(at(b))[b]]
<1>1. \A k \in Nat : ListsPart(H(k), k, to, g)
  BY PartExists
<1> HIDE DEF H
<1>2. \A b \in Int : at(b) \in Nat /\ b > to - at(b)
  OBVIOUS
<1>3. \A b \in Int : H(at(b))[b] = (IF b > to THEN << >> ELSE <<b>> \o H(at(b))[nextBucket(b, g)])
  <2> SUFFICES ASSUME NEW b \in Int
               PROVE  H(at(b))[b] = (IF b > to THEN << >> ELSE <<b>> \o H(at(b))[nextBucket(b, g)])
    OBVIOUS
  <2> DEFINE k == at(b)
  <2>1. k \in Nat /\ b \in {c \in Int : c > to - k} /\ ListsPart(H(k), k, to, g)
    BY <1>1, <1>2
  <2> HIDE DEF k
  <2>2. H(k)[b] = (IF b > to THEN << >> ELSE <<b>> \o H(k)[nextBucket(b, g)])
    BY <2>1 DEF ListsPart
  <2> QED
    BY <2>2 DEF k
<1>4. ASSUME NEW b \in Int, b <= to
      PROVE  H(at(b))[nextBucket(b, g)] = f[nextBucket(b, g)]
  <2> DEFINE n == nextBucket(b, g)
  <2>1. n \in Int /\ n > b
    <3>1. \E m \in MonthStarts : m > b
      BY <1>4, AnalyticsAssumption
    <3> QED
      BY <3>1, NextIs
  <2> HIDE DEF n
  <2>2. at(n) <= at(b) /\ at(n) \in Nat /\ at(b) \in Nat /\ n > to - at(n)
    BY <1>4, <2>1
  <2>3. H(at(n))[n] = H(at(b))[n]
    <3> HIDE DEF at
    <3>1. ListsPart(H(at(n)), at(n), to, g) /\ ListsPart(H(at(b)), at(b), to, g)
      BY <1>1, <2>2
    <3> QED
      BY <2>1, <2>2, <3>1, ListsAgree
  <2> QED
    BY <2>1, <2>3 DEF n
<1>5. \A b \in Int : f[b] = (IF b > to THEN << >> ELSE <<b>> \o f[nextBucket(b, g)])
  <2> SUFFICES ASSUME NEW b \in Int
               PROVE  f[b] = (IF b > to THEN << >> ELSE <<b>> \o f[nextBucket(b, g)])
    OBVIOUS
  <2>1. f[b] = (IF b > to THEN << >> ELSE <<b>> \o H(at(b))[nextBucket(b, g)])
    BY <1>3
  <2> HIDE DEF f, at
  <2>2. CASE b > to
    BY <2>1, <2>2
  <2>3. CASE ~(b > to)
    <3>1. b <= to
      BY <2>3
    <3> QED
      BY <1>4, <2>1, <2>3, <3>1
  <2> QED
    BY <2>2, <2>3
<1>6. Lists(f, to, g)
  <2> DEFINE q == [b \in Int |-> IF b > to THEN << >> ELSE <<b>> \o f[nextBucket(b, g)]]
  <2>1. f = q
    <3>1. \A b \in Int : f[b] = q[b]
      BY <1>5
    <3> QED
      BY <3>1
  <2> QED
    BY <2>1 DEF Lists
<1> QED
  BY <1>6

\* One number before a sequence of numbers.
LEMMA Before1 ==
    ASSUME NEW b \in Int, NEW t \in Seq(Int)
    PROVE  /\ <<b>> \o t \in Seq(Int) /\ Len(<<b>> \o t) = 1 + Len(t) /\ (<<b>> \o t)[1] = b
           /\ \A i \in 1 .. Len(t) : (<<b>> \o t)[i + 1] = t[i]
  OBVIOUS

\* s lists the buckets that begin from b to to, in order.
InOrderFrom(s, b, to, g) ==
    /\ s \in Seq(Int)
    /\ {s[i] : i \in DOMAIN s} = {c \in Starts(g) : b <= c /\ c <= to}
    /\ \A i \in 1 .. Len(s) - 1 : s[i] < s[i + 1]

\* A bucket before the list from the next one makes the list from it.
LEMMA OneMore ==
    ASSUME NEW to \in Int, NEW g \in Granularity, NEW b \in Starts(g), b <= to, 
           NEW n \in Starts(g), n > b, \A c \in Starts(g) : c > b => n <= c,
           NEW t, InOrderFrom(t, n, to, g)
    PROVE  InOrderFrom(<<b>> \o t, b, to, g)
<1> DEFINE s == <<b>> \o t
<1>0. Starts(g) \subseteq Int
  BY AnalyticsAssumption DEF Starts
<1>1. b \in Int /\ n \in Int /\ t \in Seq(Int) /\ Len(t) \in Nat /\ DOMAIN t = 1 .. Len(t)
  BY <1>0, SeqIs DEF InOrderFrom
<1>2. /\ s \in Seq(Int) /\ Len(s) = 1 + Len(t) /\ DOMAIN s = 1 .. 1 + Len(t) /\ s[1] = b
      /\ \A i \in 1 .. Len(t) : s[i + 1] = t[i]
  <2>1. s \in Seq(Int) /\ Len(s) = 1 + Len(t) /\ s[1] = b /\ \A i \in 1 .. Len(t) : s[i + 1] = t[i]
    BY <1>1, Before1
  <2> HIDE DEF s
  <2> QED
    BY <2>1, SeqIs
<1> HIDE DEF s
<1>3. {t[i] : i \in 1 .. Len(t)} = {c \in Starts(g) : n <= c /\ c <= to}
  BY <1>1 DEF InOrderFrom
<1>4. {s[i] : i \in DOMAIN s} = {c \in Starts(g) : b <= c /\ c <= to}
  <2>1. ASSUME NEW i \in DOMAIN s
        PROVE  s[i] \in Starts(g) /\ b <= s[i] /\ s[i] <= to
    <3>1. CASE i = 1
      BY <1>1, <1>2, <3>1
    <3>2. CASE i # 1
      <4>1. i - 1 \in 1 .. Len(t) /\ (i - 1) + 1 = i
        BY <1>1, <1>2, <2>1, <3>2
      <4>2. s[i] = t[i - 1]
        BY <1>2, <4>1
      <4>3. t[i - 1] \in {c \in Starts(g) : n <= c /\ c <= to}
        BY <1>3, <4>1
      <4> QED
        BY <1>0, <1>1, <4>2, <4>3
    <3> QED
      BY <3>1, <3>2
  <2>2. ASSUME NEW c \in Starts(g), b <= c, c <= to
        PROVE  \E i \in DOMAIN s : s[i] = c
    <3>1. CASE c = b
      <4>1. 1 \in DOMAIN s
        BY <1>1, <1>2
      <4> QED
        BY <1>2, <3>1, <4>1
    <3>2. CASE c # b
      <4>1. c > b /\ n <= c
        BY <1>0, <1>1, <2>2, <3>2
      <4>2. c \in {t[i] : i \in 1 .. Len(t)}
        BY <1>3, <2>2, <4>1
      <4>3. PICK i \in 1 .. Len(t) : t[i] = c
        BY <4>2
      <4>4. i + 1 \in DOMAIN s /\ s[i + 1] = c
        BY <1>1, <1>2, <4>3
      <4> QED
        BY <4>4
    <3> QED
      BY <3>1, <3>2
  <2> QED
    BY <2>1, <2>2
<1>5. ASSUME NEW i \in 1 .. Len(s) - 1
      PROVE  s[i] < s[i + 1]
  <2>1. i \in 1 .. Len(t)
    BY <1>1, <1>2, <1>5
  <2>2. s[i + 1] = t[i]
    BY <1>2, <2>1
  <2>3. CASE i = 1
    <3>1. t[i] \in {c \in Starts(g) : n <= c /\ c <= to}
      BY <1>3, <2>1
    <3> QED
      BY <1>0, <1>1, <1>2, <2>2, <2>3, <3>1
  <2>4. CASE i # 1
    <3>1. i - 1 \in 1 .. Len(t) - 1 /\ i - 1 \in 1 .. Len(t) /\ (i - 1) + 1 = i
      BY <1>1, <2>1, <2>4
    <3>2. s[i] = t[i - 1]
      BY <1>2, <3>1
    <3>3. t[i - 1] < t[i]
      BY <3>1 DEF InOrderFrom
    <3> QED
      BY <2>2, <3>2, <3>3
  <2> QED
    BY <2>3, <2>4
<1> QED
  BY <1>2, <1>4, <1>5 DEF InOrderFrom, s

\* After the range nothing is listed.
LEMMA NoneLeft ==
    ASSUME NEW to \in Int, NEW g \in Granularity, NEW b \in Int, b > to
    PROVE  InOrderFrom(<< >>, b, to, g)
<1>1. Starts(g) \subseteq Int
  BY AnalyticsAssumption DEF Starts
<1>2. {c \in Starts(g) : b <= c /\ c <= to} = {}
  BY <1>1
<1>3. << >> \in Seq(Int) /\ Len(<< >>) = 0 /\ DOMAIN << >> = {}
  OBVIOUS
<1>4. {<< >>[i] : i \in DOMAIN << >>} = {}
  BY <1>3
<1>5. 1 .. Len(<< >>) - 1 = {}
  BY <1>3
<1> QED
  BY <1>2, <1>3, <1>4, <1>5 DEF InOrderFrom

\* The list from a bucket on holds the buckets up to the end of the range, in order.
LEMMA ListHolds ==
    ASSUME NEW to \in Int, NEW g \in Granularity, \E m \in MonthStarts : m > to,
           NEW h, Lists(h, to, g), NEW b \in Starts(g)
    PROVE  InOrderFrom(h[b], b, to, g)
<1> DEFINE B == {c \in Starts(g) : b <= c /\ ~InOrderFrom(h[c], c, to, g)}
<1>0. Starts(g) \subseteq Int /\ b \in Int
  BY AnalyticsAssumption DEF Starts
<1> SUFFICES ASSUME B # {}
             PROVE  FALSE
  BY <1>0
<1>1. \A c \in Int : h[c] = (IF c > to THEN << >> ELSE <<c>> \o h[nextBucket(c, g)])
  BY DEF Lists
<1>2. B \subseteq Int /\ \A c \in B : c <= to
  <2>1. \A c \in Int : c > to => InOrderFrom(h[c], c, to, g)
    BY <1>1, NoneLeft
  <2>2. \A c \in Int : c > to \/ c <= to
    OBVIOUS
  <2> QED
    BY <1>0, <2>1, <2>2
<1>3. PICK c \in B : \A x \in B : x <= c
  <2>1. PICK c \in B : TRUE
    OBVIOUS
  <2> HIDE DEF B
  <2> QED
    BY <1>2, <2>1, IntGreatest
<1>4. c \in Starts(g) /\ c \in Int /\ b <= c /\ c <= to /\ ~InOrderFrom(h[c], c, to, g)
  BY <1>2, <1>3
<1> DEFINE n == nextBucket(c, g)
<1>5. n \in Int /\ n > c /\ n \in Starts(g) /\ \A x \in Starts(g) : x > c => n <= x
  <2>1. \E m \in MonthStarts : m > c
    BY <1>4, AnalyticsAssumption
  <2> QED
    BY <1>4, <2>1, NextIs
<1> HIDE DEF n
<1>6. InOrderFrom(h[n], n, to, g)
  <2>1. n \notin B /\ b <= n
    BY <1>0, <1>3, <1>4, <1>5
  <2> QED
    BY <1>5, <2>1
<1>7. h[c] = <<c>> \o h[n]
  <2>1. h[c] = (IF c > to THEN << >> ELSE <<c>> \o h[n])
    BY <1>1, <1>4 DEF n
  <2>2. ~(c > to)
    BY <1>4
  <2> QED
    BY <2>1, <2>2
<1> DEFINE t == h[n]
<1>8. InOrderFrom(t, n, to, g)
  BY <1>6
<1> HIDE DEF t
<1>9. InOrderFrom(<<c>> \o t, c, to, g)
  BY <1>4, <1>5, <1>8, OneMore
<1> QED
  BY <1>4, <1>7, <1>9 DEF t

\* For every range within the calendar and every granularity: what the database
\* groups by is what the dashboard lists, no bucket more or less, in order
\* (analytics-range, buckets and bucketStart).
THEOREM BucketsAlwaysCover ==
    ASSUME NEW from \in Int, NEW to \in Int, from <= to, NEW g \in Granularity, CalendarHas(from, to)
    PROVE  BucketsCoverRange(from, to, g)
<1> DEFINE list == buckets(from, to, g)
           first == bucketStart(from, g)
<1>1. Starts(g) \subseteq Int /\ \A m \in MonthStarts : m \in Int
  BY AnalyticsAssumption DEF Starts
<1>2. PICK low, high \in MonthStarts : low <= from /\ high > to
  BY DEF CalendarHas
<1>3. \A d \in from .. to : /\ bucketStart(d, g) \in Starts(g) /\ bucketStart(d, g) <= d
                           /\ \A c \in Starts(g) : c <= d => c <= bucketStart(d, g)
  <2> SUFFICES ASSUME NEW d \in from .. to
               PROVE  /\ bucketStart(d, g) \in Starts(g) /\ bucketStart(d, g) <= d
                      /\ \A c \in Starts(g) : c <= d => c <= bucketStart(d, g)
    OBVIOUS
  <2>1. d \in Int /\ low <= d
    BY <1>1, <1>2
  <2> QED
    BY <2>1, BucketIs
<1>4. from \in from .. to
  OBVIOUS
<1>5. InOrderFrom(list, first, to, g)
  <2> DEFINE h == CHOOSE h : Lists(h, to, g)
  <2>1. Lists(h, to, g)
    BY <1>2, ListExists
  <2>2. list = h[first]
    BY ListedIs
  <2> HIDE DEF h, list, first
  <2>3. first \in Starts(g)
    BY <1>3, <1>4 DEF first
  <2> QED
    BY <1>2, <2>1, <2>2, <2>3, ListHolds
<1>6. {bucketStart(d, g) : d \in from .. to} = {c \in Starts(g) : first <= c /\ c <= to}
  <2>1. ASSUME NEW d \in from .. to
        PROVE  bucketStart(d, g) \in Starts(g) /\ first <= bucketStart(d, g) /\ bucketStart(d, g) <= to
    <3>1. d \in Int /\ from <= d /\ d <= to
      OBVIOUS
    <3>2. first \in Starts(g) /\ first <= from /\ bucketStart(d, g) \in Starts(g) /\ bucketStart(d, g) <= d
      BY <1>3, <1>4
    <3>3. first <= d
      BY <1>1, <3>1, <3>2
    <3>4. first <= bucketStart(d, g)
      BY <1>3, <3>2, <3>3
    <3> QED
      BY <1>1, <3>1, <3>2, <3>4
  <2>2. ASSUME NEW c \in Starts(g), first <= c, c <= to
        PROVE  \E d \in from .. to : bucketStart(d, g) = c
    <3>0. c \in Int /\ first \in Int
      BY <1>1, <1>3, <1>4
    <3>1. CASE c >= from
      <4>1. c \in from .. to
        BY <2>2, <3>0, <3>1
      <4>2. c <= c
        BY <3>0
      <4>3. bucketStart(c, g) \in Starts(g) /\ bucketStart(c, g) <= c /\ c <= bucketStart(c, g)
        BY <1>3, <4>1, <4>2
      <4>4. bucketStart(c, g) = c
        BY <1>1, <3>0, <4>3
      <4> QED
        BY <4>1, <4>4
    <3>2. CASE c < from
      <4>1. c <= from
        BY <3>0, <3>2
      <4>2. c <= first
        BY <1>3, <1>4, <4>1
      <4>3. c = first
        BY <2>2, <3>0, <4>2
      <4> QED
        BY <1>4, <4>3
    <3> QED
      BY <3>0, <3>1, <3>2
  <2> HIDE DEF first
  <2> QED
    BY <2>1, <2>2
<1> HIDE DEF list, first
<1>7. {list[i] : i \in DOMAIN list} = {bucketStart(d, g) : d \in from .. to}
  BY <1>5, <1>6 DEF InOrderFrom
<1>8. \A i \in 1 .. Len(list) - 1 : list[i] < list[i + 1]
  BY <1>5 DEF InOrderFrom
<1> QED
  BY <1>7, <1>8 DEF BucketsCoverRange, list

-----------------------------------------------------------------------------
(***************************************************************************)
(* The samples TLC checks are such inputs.                                 *)
(***************************************************************************)
\* A function on 1 .. n is a sequence, and stays one over a larger set.
LEMMA EntriesFrom ==
    ASSUME NEW S, NEW T, S \subseteq T, NEW n \in Nat, NEW f \in [1 .. n -> S]
    PROVE  f \in Seq(T) /\ Len(f) = n /\ DOMAIN f = 1 .. n
<1>1. f \in Seq(S) /\ Len(f) = n /\ DOMAIN f = 1 .. n
  OBVIOUS
<1>2. \A i \in 1 .. n : f[i] \in T
  OBVIOUS
<1>3. f \in [1 .. n -> T]
  BY <1>2
<1> QED
  BY <1>1, <1>3

\* Each kind of sample is an input its theorem speaks of: the splits of a price.
LEMMA SplitSamples == part = "split" /\ sample \in Samples(part) => SplitsAreExact
<1> SUFFICES ASSUME part = "split", sample \in Samples(part),
                    NEW short
             PROVE  SplitIsExact(sample[1], sample[2], [i \in DOMAIN sample[2] |-> sample[3] * i], short)
  BY DEF SplitsAreExact
<1>1. sample \in {<<t, w, f>> : t \in {0, 1, 2, 7, 10}, w \in Weights, f \in 0 .. 1}
  BY DEF Samples
<1>2. PICK t \in {0, 1, 2, 7, 10}, w \in Weights, f \in 0 .. 1 : sample = <<t, w, f>>
  BY <1>1
<1>3. PICK n \in 1 .. 3 : w \in [1 .. n -> 0 .. 3]
  BY DEF Weights
<1> DEFINE fb == [i \in DOMAIN w |-> f * i]
<1>4. w \in Seq(Nat) /\ Len(w) = n /\ DOMAIN w = 1 .. n
  <2>1. 0 .. 3 \subseteq Nat /\ n \in Nat
    OBVIOUS
  <2> QED
    BY <1>3, <2>1, EntriesFrom
<1>5. fb \in Seq(Nat) /\ Len(fb) = n
  <2>1. \A i \in 1 .. n : f * i \in Nat
    OBVIOUS
  <2>2. fb \in [1 .. n -> Nat]
    BY <1>4, <2>1
  <2> HIDE DEF fb
  <2> QED
    BY <2>2, EntriesFrom
<1>6. t \in Nat /\ Len(w) > 0
  BY <1>4
<1>7. SplitIsExact(t, w, fb, short)
  <2> HIDE DEF fb
  <2> QED
    BY <1>4, <1>5, <1>6, SplitAlwaysExact
<1> QED
  BY <1>2, <1>7

\* The unit prices of a kit.
LEMMA UnitSamples == part = "units" /\ sample \in Samples(part) => UnitPricesAddUp
<1> SUFFICES ASSUME part = "units", sample \in Samples(part),
                    NEW short
             PROVE  UnitPricesFit(sample[1], sample[2], sample[3], short)
  BY DEF UnitPricesAddUp
<1>1. sample \in UNION {{<<t, w, q>> : t \in {0, 1, 5, 7, 100}, w \in [1 .. n -> 0 .. 2],
                                       q \in [1 .. n -> 1 .. 3]} : n \in 1 .. 3}
  BY DEF Samples
<1>2. PICK n \in 1 .. 3 :
        sample \in {<<t, w, q>> : t \in {0, 1, 5, 7, 100}, w \in [1 .. n -> 0 .. 2],
                                  q \in [1 .. n -> 1 .. 3]}
  BY <1>1
<1>3. PICK t \in {0, 1, 5, 7, 100}, w \in [1 .. n -> 0 .. 2], q \in [1 .. n -> 1 .. 3] :
        sample = <<t, w, q>>
  BY <1>2
<1>4. 0 .. 2 \subseteq Nat /\ 1 .. 3 \subseteq Nat \ {0} /\ n \in Nat /\ n > 0 /\ t \in Nat
  OBVIOUS
<1>5. w \in Seq(Nat) /\ Len(w) = n
  BY <1>4, EntriesFrom
<1>6. q \in Seq(Nat \ {0}) /\ Len(q) = n
  BY <1>4, EntriesFrom
<1>7. UnitPricesFit(t, w, q, short)
  BY <1>4, <1>5, <1>6, UnitPricesAlwaysFit
<1> QED
  BY <1>3, <1>7

\* The items of a kit.
LEMMA KitSamples == part = "kits" /\ sample \in Samples(part) => KitsAreBuildable
<1> SUFFICES ASSUME part = "kits", sample \in Samples(part)
             PROVE  BuildableIsExact(sample)
  BY DEF KitsAreBuildable
<1>1. sample \in UNION {[1 .. n -> [stock : -1 .. 4, qty : 1 .. 3]] : n \in 0 .. 2}
  BY DEF Samples
<1>2. PICK n \in 0 .. 2 : sample \in [1 .. n -> [stock : -1 .. 4, qty : 1 .. 3]]
  BY <1>1
<1>3. n \in Nat /\ [stock : -1 .. 4, qty : 1 .. 3] \subseteq [stock : Int, qty : Nat \ {0}]
  OBVIOUS
<1>4. sample \in Seq([stock : Int, qty : Nat \ {0}])
  BY <1>2, <1>3, EntriesFrom
<1> QED
  BY <1>4, KitsAlwaysBuildable

\* A stock and what was dispatched from it.
LEMMA StockSamples ==
    part = "stock" /\ sample \in Samples(part) => StockLasts /\ SuggestionsSuffice
<1> SUFFICES ASSUME part = "stock", sample \in Samples(part)
             PROVE  /\ LastsAsSaid(sample[1], <<sample[2], sample[3]>>)
                    /\ SuggestionIsEnough(sample[1], <<sample[2], sample[3]>>)
  BY DEF StockLasts, SuggestionsSuffice
<1>1. sample \in {<<s, a, b>> : s \in {-2, 0, 3, 10, 20, 40}, a \in Shipments, b \in Shipments}
  BY DEF Samples
<1>2. PICK s \in {-2, 0, 3, 10, 20, 40}, a \in Shipments, b \in Shipments : sample = <<s, a, b>>
  BY <1>1
<1>3. s \in Int /\ a \in Dispatched /\ b \in Dispatched
  BY DEF Shipments, Dispatched
<1>4. <<a, b>> \in Seq(Dispatched)
  BY <1>3
<1>5. LastsAsSaid(s, <<a, b>>) /\ SuggestionIsEnough(s, <<a, b>>)
  BY <1>3, <1>4, StockLastsAlways, SuggestionsAlwaysEnough
<1> QED
  BY <1>2, <1>5

\* Three products on the list.
LEMMA UrgencySamples == part = "urgency" /\ sample \in Samples(part) => UrgencyOrders
<1> SUFFICES ASSUME part = "urgency", sample \in Samples(part)
             PROVE  UrgencyIsAnOrder(sample[1], sample[2], sample[3])
  BY DEF UrgencyOrders
<1>1. sample \in Listed \X Listed \X Listed
  BY DEF Samples
<1>2. Listed \subseteq Item
  BY DEF Listed, Item, LEVEL_ORDER
<1>3. sample[1] \in Item /\ sample[2] \in Item /\ sample[3] \in Item
  BY <1>1, <1>2
<1> QED
  BY <1>3, UrgencyAlwaysAnOrder

\* Ranges within the first 102 days, for a calendar that has their months.
LEMMA BucketSamples ==
    ASSUME CalendarHas(0, 102)
    PROVE  part = "buckets" /\ sample \in Samples(part) => BucketsCover
<1> SUFFICES ASSUME part = "buckets", sample \in Samples(part)
             PROVE  BucketsCoverRange(sample[1], sample[1] + sample[2], sample[3])
  BY DEF BucketsCover
<1>1. sample \in Samples("buckets")
  OBVIOUS
<1>2. PICK f \in 0 .. 62, n \in 0 .. 40, g \in Granularity : sample = <<f, n, g>>
  <2> DEFINE S == 0 .. 62
             T == 0 .. 40
  <2>1. Samples("buckets") = {<<f, n, g>> : f \in S, n \in T, g \in Granularity}
    BY DEF Samples, Granularity
  <2> HIDE DEF S, T
  <2>2. sample \in {<<f, n, g>> : f \in S, n \in T, g \in Granularity}
    BY <1>1, <2>1
  <2>3. \E f \in S, n \in T, g \in Granularity : sample = <<f, n, g>>
    BY <2>2
  <2> QED
    BY <2>3 DEF S, T
<1>3. f \in Int /\ f + n \in Int /\ f <= f + n /\ 0 <= f /\ f + n <= 102
  OBVIOUS
<1>4. CalendarHas(f, f + n)
  <2>1. \A m \in MonthStarts : m \in Int
    BY AnalyticsAssumption
  <2> QED
    BY <1>3, <2>1 DEF CalendarHas
<1>5. BucketsCoverRange(f, f + n, g)
  BY <1>3, <1>4, BucketsAlwaysCover
<1> QED
  BY <1>2, <1>5

\* Queries with and without dates.
LEMMA RangeSamples == part = "range" /\ sample \in Samples(part) => RangesAreIndian
<1> SUFFICES ASSUME part = "range", sample \in Samples(part)
             PROVE  RangeIsIndian(sample[1], sample[2], sample[3])
  BY DEF RangesAreIndian
<1>1. sample \in {<<f, t, n>> : f \in {NoDate, 0, 1, 2}, t \in {NoDate, 0, 1, 3, 410}, n \in -60 .. 200}
  BY DEF Samples
<1>2. PICK f \in {NoDate, 0, 1, 2}, t \in {NoDate, 0, 1, 3, 410}, n \in -60 .. 200 : sample = <<f, t, n>>
  BY <1>1
<1>3. f \in Int \cup {NoDate} /\ t \in Int \cup {NoDate} /\ n \in Int
  OBVIOUS
<1>4. RangeIsIndian(f, t, n)
  BY <1>3, RangeAlwaysIndian
<1> QED
  BY <1>2, <1>4

\* Half hours.
LEMMA WindowSamples == part = "windows" /\ sample \in Samples(part) => WindowsClose
<1> SUFFICES ASSUME part = "windows", sample \in Samples(part)
             PROVE  ClosesOnLatestCutoff(sample)
  BY DEF WindowsClose
<1>1. sample \in 1000 .. 1800
  BY DEF Samples
<1> QED
  BY <1>1, WindowsAlwaysClose

\* The calendar of the run has the months of the ranges that are sampled.
LEMMA RunHasCalendar == MonthStarts = MCMonthStarts => CalendarHas(0, 102)
<1> SUFFICES ASSUME MonthStarts = MCMonthStarts
             PROVE  CalendarHas(0, 102)
  OBVIOUS
<1>1. 0 \in MonthStarts /\ 120 \in MonthStarts
  BY DEF MCMonthStarts
<1> QED
  BY <1>1 DEF CalendarHas

\* The calculations give what their callers rely on (SumsRight: kit-pricing,
\* tribe-kits.service, dispatch-counts, restock-math, analytics-range and the report
\* windows) in every state of the specification, whatever the constants, if a month
\* begins by day 0 and another after the last day that is sampled.
THEOREM SumsAlwaysRight ==
    ASSUME CalendarHas(0, 102)
    PROVE  Spec => []SumsRight
<1> DEFINE Sampled == sample \in Samples(part)
<1>1. Init => Sampled
  BY DEF Init
<1>2. Sampled /\ [Next]_partVars => Sampled'
  <2> SUFFICES ASSUME Sampled, [Next]_partVars
               PROVE  Sampled'
    OBVIOUS
  <2>1. sample' = sample /\ part' = part
    BY DEF Next, partVars
  <2> QED
    BY <2>1
<1>3. Sampled => SumsRight
  <2> SUFFICES ASSUME sample \in Samples(part)
               PROVE  SumsRight
    OBVIOUS
  <2>1. SplitsAreExact /\ UnitPricesAddUp /\ KitsAreBuildable
    BY SplitSamples, UnitSamples, KitSamples DEF SplitsAreExact, UnitPricesAddUp, KitsAreBuildable
  <2>2. StockLasts /\ SuggestionsSuffice /\ UrgencyOrders
    BY StockSamples, UrgencySamples DEF StockLasts, SuggestionsSuffice, UrgencyOrders
  <2>3. BucketsCover /\ RangesAreIndian /\ WindowsClose
    BY BucketSamples, RangeSamples, WindowSamples DEF BucketsCover, RangesAreIndian, WindowsClose
  <2> QED
    BY <2>1, <2>2, <2>3 DEF SumsRight
<1> QED
  BY <1>1, <1>2, <1>3, PTL DEF Spec
=============================================================================
