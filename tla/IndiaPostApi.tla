---------------------------- MODULE IndiaPostApi ----------------------------
(***************************************************************************)
(* The client of India Post's API: one cached bearer token, one login at a *)
(* time shared by every call that needs it, and one more try for a call    *)
(* whose token is refused.  Everything between two awaits is one step.     *)
(***************************************************************************)
EXTENDS Integers, FiniteSets

CONSTANTS
    Calls,       \* tracking calls in flight
    MaxTokens,   \* bound on the tokens India Post issues
    MaxCalls     \* bound on the calls made

ASSUME ApiAssumption == MaxTokens \in Nat /\ MaxCalls \in Nat

VARIABLES
    token,      \* the cached token; 0: none
    lapsed,     \* the token's time has run out on our clock
    inFlight,   \* loginInFlight is set
    logins,     \* logins on the wire
    valid,      \* the tokens India Post still accepts
    issued,     \* tokens issued
    call,       \* call[c]: [pc, with: its token, refused, force]
    made        \* calls made

apiVars == <<token, lapsed, inFlight, logins, valid, issued, call, made>>

TokenIds == 1 .. MaxTokens
CallRest == [pc |-> "idle", with |-> 0, refused |-> 0, force |-> FALSE]

ApiTypeOK ==
    /\ token \in 0 .. MaxTokens /\ issued \in 0 .. MaxTokens
    /\ valid \subseteq TokenIds /\ lapsed \in BOOLEAN /\ inFlight \in BOOLEAN
    /\ call \in [Calls -> [pc: {"idle", "login", "retry", "send"}, with: 0 .. MaxTokens,
                           refused: 0 .. MaxTokens, force: BOOLEAN]]
    /\ inFlight <=> \E c \in Calls : call[c].pc = "login"

ApiInit ==
    /\ token = 0 /\ lapsed = FALSE /\ inFlight = FALSE /\ logins = 0
    /\ valid = {} /\ issued = 0 /\ made = 0
    /\ call = [c \in Calls |-> CallRest]

\* Faulty variant: every call that finds no token logs in.
LoginEach(c, q) ==
    IF ~q.force /\ token # 0 /\ ~lapsed
    THEN /\ call' = [call EXCEPT ![c] = [q EXCEPT !.pc = "send", !.with = token]]
         /\ UNCHANGED <<inFlight, logins>>
    ELSE /\ call' = [call EXCEPT ![c] = [q EXCEPT !.pc = "login"]]
         /\ inFlight' = TRUE /\ logins' = logins + 1

\* The cached token, the login on the wire, or a new one.
accessToken(c, q) ==
    IF ~q.force /\ token # 0 /\ ~lapsed
    THEN /\ call' = [call EXCEPT ![c] = [q EXCEPT !.pc = "send", !.with = token]]
         /\ UNCHANGED <<inFlight, logins>>
    ELSE /\ call' = [call EXCEPT ![c] = [q EXCEPT !.pc = "login"]]
         /\ inFlight' = TRUE
         /\ logins' = IF inFlight THEN logins ELSE logins + 1

Request(c) ==
    /\ call[c].pc = "idle" /\ made < MaxCalls
    /\ made' = made + 1
    /\ accessToken(c, CallRest)
    /\ UNCHANGED <<token, lapsed, valid, issued>>

\* After a forced login the request starts over, with whatever is cached.
RequestAgain(c) ==
    /\ call[c].pc = "retry"
    /\ accessToken(c, [call[c] EXCEPT !.force = FALSE])
    /\ UNCHANGED <<token, lapsed, valid, issued, made>>

\* Faulty variant: the login on the wire is not cleared.
LoggedInStill ==
    /\ logins > 0 /\ issued < MaxTokens
    /\ issued' = issued + 1 /\ token' = issued + 1
    /\ valid' = valid \cup {issued + 1}
    /\ lapsed' \in BOOLEAN
    /\ logins' = logins - 1
    /\ call' = [c \in Calls |->
          IF call[c].pc # "login" THEN call[c]
          ELSE [call[c] EXCEPT !.pc = "send", !.with = issued + 1]]
    /\ UNCHANGED <<inFlight, made>>

\* The login is answered: the token is kept, possibly too short-lived to use
\* again, and everyone who waited goes on.
LoggedIn ==
    /\ logins > 0 /\ issued < MaxTokens
    /\ issued' = issued + 1 /\ token' = issued + 1
    /\ valid' = valid \cup {issued + 1}
    /\ lapsed' \in BOOLEAN
    /\ inFlight' = FALSE /\ logins' = logins - 1
    /\ call' = [c \in Calls |->
          IF call[c].pc # "login" THEN call[c]
          ELSE IF call[c].force THEN [call[c] EXCEPT !.pc = "retry"]
          ELSE [call[c] EXCEPT !.pc = "send", !.with = issued + 1]]
    /\ UNCHANGED made

\* Faulty variant: a login that failed is never forgotten.
LoginForgotten ==
    /\ logins > 0
    /\ logins' = logins - 1
    /\ UNCHANGED <<token, lapsed, valid, issued, made, inFlight, call>>

\* It fails or times out: so do all who waited for it.
LoginFailed ==
    /\ logins > 0
    /\ inFlight' = FALSE /\ logins' = logins - 1
    /\ call' = [c \in Calls |-> IF call[c].pc = "login" THEN CallRest ELSE call[c]]
    /\ UNCHANGED <<token, lapsed, valid, issued, made>>

\* The call is answered, fails, or times out; a first refusal drops the token
\* and logs in again.
Sent(c) ==
    /\ call[c].pc = "send"
    /\ call' = [call EXCEPT ![c] = CallRest]
    /\ UNCHANGED <<token, lapsed, inFlight, logins, valid, issued, made>>

\* Faulty variant: a refused call is repeated with the token at hand.
RefusedAgain(c) ==
    LET q == call[c]
    IN  /\ q.pc = "send" /\ q.with \notin valid /\ q.refused = 0
        /\ accessToken(c, [q EXCEPT !.refused = q.with])
        /\ UNCHANGED <<token, lapsed, valid, issued, made>>

Refused(c) ==
    LET q == call[c]
    IN  /\ q.pc = "send" /\ q.with \notin valid /\ q.refused = 0
        /\ token' = 0
        /\ accessToken(c, [q EXCEPT !.refused = q.with, !.force = TRUE])
        /\ UNCHANGED <<lapsed, valid, issued, made>>

\* India Post stops accepting a token; our clock passes its time.
Expire ==
    /\ \E t \in valid : valid' = valid \ {t}
    /\ UNCHANGED <<token, lapsed, inFlight, logins, issued, call, made>>
Lapse ==
    /\ token # 0 /\ lapsed' = TRUE
    /\ UNCHANGED <<token, inFlight, logins, valid, issued, call, made>>

ApiNext ==
    \/ \E c \in Calls : Request(c) \/ RequestAgain(c) \/ Sent(c) \/ Refused(c)
    \/ LoggedIn \/ LoginFailed \/ Expire \/ Lapse

\* Every request to India Post is answered or aborted by its timeout.
ApiFairness ==
    /\ WF_apiVars(LoggedIn \/ LoginFailed)
    /\ \A c \in Calls : WF_apiVars(RequestAgain(c) \/ Sent(c))

ApiSpec == ApiInit /\ [][ApiNext]_apiVars /\ ApiFairness

-----------------------------------------------------------------------------
\* A burst of calls logs in once: no two logins are ever on the wire
\* (accessToken's loginInFlight).
OneLoginAtATime == logins <= 1

\* The second try never carries the token the first was refused with, whoever
\* else logged in, was refused or timed out meanwhile (request's retry).
RetryUsesAnotherToken ==
    \A c \in Calls : call[c].pc = "send" => call[c].with # call[c].refused

\* Every call comes to an end, those that wait for somebody else's login
\* included (the `finally' of the shared login).
CallsEnd == \A c \in Calls : call[c].pc # "idle" ~> call[c].pc = "idle"

\* The shared token: one login at a time, and no retry with the refused token.
TokenShared == OneLoginAtATime /\ RetryUsesAnotherToken
=============================================================================
