---------------------------- MODULE WhatsappInbox ----------------------------
(***************************************************************************)
(* The WhatsApp inbox.  Meta delivers batches of customers' messages at    *)
(* least once, late and in any order; a handler stores each message, then  *)
(* updates the conversation and starts the one-time acknowledgement.       *)
(* Admins reply inside the 24-hour window or send templates, and open the  *)
(* chat.  Every database or Graph call is a step.                          *)
(***************************************************************************)
EXTENDS Integers, FiniteSets

CONSTANTS
    Inbound,      \* messages customers send
    SentAt,       \* SentAt[m]: when the customer sent m
    From,         \* From[m]: who did
    Hooks,        \* deliveries being handled at once
    Agents,       \* admins
    WINDOW,       \* WINDOW_MS in ticks
    MaxChatTime,  \* bound on the clock
    MaxRestarts   \* bound on restarts of the server

ASSUME InboxAssumption ==
    /\ Inbound # {}
    /\ WINDOW \in Nat \ {0} /\ MaxChatTime \in Nat /\ MaxRestarts \in Nat
    /\ SentAt \in [Inbound -> 0 .. MaxChatTime]

Contacts == {From[m] : m \in Inbound}
Never == -1

VARIABLES
    now,       \* the clock
    stored,    \* ids of the stored inbound messages
    counted,   \* counted[m]: how often m went into the unread badge
    chat,      \* chat[c]: the conversation of c
    hook,      \* hook[h]: the messages delivery h has still to store
    ack,       \* ack[m]: where the acknowledgement started by m stands
    agent,     \* agent[a]: what admin a is sending
    acked,     \* acknowledgements sent: to whom, claimed when, for which message
    stray,     \* those Meta accepted although the send threw
    skipped,   \* stored messages whose conversation could not be written
    restarts

inboxVars == <<now, stored, counted, chat, hook, ack, agent, acked, stray, skipped, restarts>>

losses == <<stray, skipped>>

Chat == [exists: BOOLEAN, lastInbound: Nat \cup {Never},
         unread: Nat, ackSentAt: Nat \cup {Never}]
NoChat == [exists |-> FALSE, lastInbound |-> Never, unread |-> 0, ackSentAt |-> Never]

Acknowledgement == [to: Contacts, at: Nat, by: Inbound]

HookIdle  == [todo |-> {}, storing |-> {}]
AckNone   == [pc |-> "none", at |-> Never]
AgentIdle == [pc |-> "idle", to |-> CHOOSE c \in Contacts : TRUE]

InboxTypeOK ==
    /\ now \in 0 .. MaxChatTime /\ stored \subseteq Inbound
    /\ chat \in [Contacts -> Chat]
    /\ hook \in [Hooks -> [todo: SUBSET Inbound, storing: SUBSET Inbound]]
    /\ ack \in [Inbound -> [pc: {"none", "claim", "send", "release"},
                            at: Nat \cup {Never}]]
    /\ agent \in [Agents -> [pc: {"idle", "reply", "template"}, to: Contacts]]
    /\ acked \subseteq Acknowledgement /\ stray \subseteq Acknowledgement
    /\ skipped \subseteq Inbound

InboxInit ==
    /\ now = 0 /\ stored = {} /\ restarts = 0 /\ acked = {} /\ stray = {} /\ skipped = {}
    /\ counted = [m \in Inbound |-> 0]
    /\ chat = [c \in Contacts |-> NoChat]
    /\ hook = [h \in Hooks |-> HookIdle]
    /\ ack = [m \in Inbound |-> AckNone]
    /\ agent = [a \in Agents |-> AgentIdle]

-----------------------------------------------------------------------------
(***************************************************************************)
(* The webhook: handleEvent, storeMessage.                                 *)
(***************************************************************************)

\* Meta delivers a batch of messages sent by now, perhaps not the first time.
Deliver(h, batch) ==
    /\ hook[h] = HookIdle
    /\ batch # {} /\ \A m \in batch : SentAt[m] <= now
    /\ hook' = [hook EXCEPT ![h].todo = batch]
    /\ UNCHANGED <<now, stored, counted, chat, ack, agent, acked, losses, restarts>>

\* Faulty variant: a message that is stored already is counted again.
InsertAgain(h, m) ==
    /\ m \in hook[h].todo /\ hook[h].storing = {}
    /\ stored' = stored \cup {m}
    /\ hook' = [hook EXCEPT ![h] = [todo |-> @.todo \ {m}, storing |-> {m}]]
    /\ UNCHANGED <<now, counted, chat, ack, agent, acked, losses, restarts>>

\* The insert is keyed on the id: a duplicate ends here, and so does a message
\* whose insert fails (the catch of handleEvent).
InsertMessage(h, m) ==
    /\ m \in hook[h].todo /\ hook[h].storing = {}
    /\ \/ /\ stored' = stored \cup {m}
          /\ hook' = [hook EXCEPT ![h] = [todo |-> @.todo \ {m},
                                          storing |-> {m} \ stored]]
       \/ /\ hook' = [hook EXCEPT ![h].todo = @ \ {m}]
          /\ UNCHANGED stored
    /\ UNCHANGED <<now, counted, chat, ack, agent, acked, losses, restarts>>

\* The conversation is created or updated; lastInboundAt is the time of the
\* message stored last, which need not be the latest.  The acknowledgement is
\* started, not awaited.
UpdateChat(h) ==
    \E m \in hook[h].storing :
        LET c == From[m]
        IN  /\ chat' = [chat EXCEPT ![c].exists = TRUE, ![c].lastInbound = SentAt[m],
                                     ![c].unread = @ + 1]
            /\ counted' = [counted EXCEPT ![m] = @ + 1]
            /\ hook' = [hook EXCEPT ![h].storing = {}]
            /\ ack' = [ack EXCEPT ![m].pc = "claim"]
            /\ UNCHANGED <<now, stored, agent, acked, losses, restarts>>

\* That write fails: the error is logged, and Meta gets its 200.
ChatFails(h) ==
    /\ hook[h].storing # {}
    /\ skipped' = skipped \cup hook[h].storing
    /\ hook' = [hook EXCEPT ![h].storing = {}]
    /\ UNCHANGED <<now, stored, counted, chat, ack, agent, acked, stray, restarts>>

-----------------------------------------------------------------------------
(***************************************************************************)
(* sendAcknowledgementIfFirst                                              *)
(***************************************************************************)

\* Switched off, or no text for the hour.
SkipAck(m) ==
    /\ ack[m].pc = "claim"
    /\ ack' = [ack EXCEPT ![m] = AckNone]
    /\ UNCHANGED <<now, stored, counted, chat, hook, agent, acked, losses, restarts>>

Unclaimed(c) == chat[c].ackSentAt = Never \/ chat[c].ackSentAt < now - WINDOW

\* Faulty variant: the claim is read, and written later.
ClaimLate(m) ==
    /\ ack[m].pc = "claim"
    /\ ack' = [ack EXCEPT ![m] = IF Unclaimed(From[m]) THEN [pc |-> "send", at |-> now]
                                 ELSE AckNone]
    /\ UNCHANGED <<now, stored, counted, chat, hook, agent, acked, losses, restarts>>

ClaimAck(m) ==
    LET c == From[m]
    IN  /\ ack[m].pc = "claim"
        /\ \/ /\ Unclaimed(c)
              /\ chat' = [chat EXCEPT ![c].ackSentAt = now]
              /\ ack' = [ack EXCEPT ![m] = [pc |-> "send", at |-> now]]
           \/ /\ ~Unclaimed(c)
              /\ ack' = [ack EXCEPT ![m] = AckNone]
              /\ UNCHANGED chat
        /\ UNCHANGED <<now, stored, counted, hook, agent, acked, losses, restarts>>

\* sendText returns; or it throws, because the Graph call is refused, or after
\* Meta accepted the message: its answer is late, or its rows cannot be written.
SendAck(m) ==
    LET q == [to |-> From[m], at |-> ack[m].at, by |-> m]
    IN  /\ ack[m].pc = "send"
        /\ \/ /\ acked' = acked \cup {q}
              /\ ack' = [ack EXCEPT ![m] = AckNone]
              /\ UNCHANGED stray
           \/ /\ stray' \in {stray, stray \cup {q}}
              /\ ack' = [ack EXCEPT ![m].pc = "release"]
              /\ UNCHANGED acked
        /\ UNCHANGED <<now, stored, counted, chat, hook, agent, skipped, restarts>>

\* Faulty variant: the claim of a refused acknowledgement stays.
KeepClaim(m) ==
    /\ ack[m].pc = "release"
    /\ ack' = [ack EXCEPT ![m] = AckNone]
    /\ UNCHANGED <<now, stored, counted, chat, hook, agent, acked, losses, restarts>>

ReleaseAck(m) ==
    /\ ack[m].pc = "release"
    /\ chat' = [chat EXCEPT ![From[m]].ackSentAt = Never]
    /\ ack' = [ack EXCEPT ![m] = AckNone]
    /\ UNCHANGED <<now, stored, counted, hook, agent, acked, losses, restarts>>

-----------------------------------------------------------------------------
(***************************************************************************)
(* The admins: replyTo, sendQuick, replyWithMedia, sendTemplateTo, markRead *)
(***************************************************************************)
WindowOpen(c) == chat[c].lastInbound # Never /\ now - chat[c].lastInbound < WINDOW

\* Faulty variant: any conversation may be answered.
StartReplyAnyTime(a, c) ==
    /\ agent[a].pc = "idle" /\ chat[c].exists
    /\ agent' = [agent EXCEPT ![a] = [pc |-> "reply", to |-> c]]
    /\ UNCHANGED <<now, stored, counted, chat, hook, ack, acked, losses, restarts>>

\* Free text, a quick message or a file: only inside the window.
StartReply(a, c) ==
    /\ agent[a].pc = "idle" /\ chat[c].exists /\ WindowOpen(c)
    /\ agent' = [agent EXCEPT ![a] = [pc |-> "reply", to |-> c]]
    /\ UNCHANGED <<now, stored, counted, chat, hook, ack, acked, losses, restarts>>

\* A template may open a conversation.
StartTemplate(a, c) ==
    /\ agent[a].pc = "idle"
    /\ agent' = [agent EXCEPT ![a] = [pc |-> "template", to |-> c]]
    /\ UNCHANGED <<now, stored, counted, chat, hook, ack, acked, losses, restarts>>

\* The call to Meta; one it accepts touches the conversation, one it refuses
\* leaves a failed row.
Sent(a) ==
    /\ agent[a].pc \in {"reply", "template"}
    /\ \/ chat' = [chat EXCEPT ![agent[a].to].exists = TRUE]
       \/ UNCHANGED chat
    /\ agent' = [agent EXCEPT ![a] = AgentIdle]
    /\ UNCHANGED <<now, stored, counted, hook, ack, acked, losses, restarts>>

\* Faulty variant: the badge loses what is stored, counted or not.
MarkReadByCount(c) ==
    /\ chat[c].unread # 0
    /\ chat' = [chat EXCEPT ![c].unread = @ - Cardinality({m \in stored : From[m] = c})]
    /\ UNCHANGED <<now, stored, counted, hook, ack, agent, acked, losses, restarts>>

MarkRead(c) ==
    /\ chat[c].unread # 0
    /\ chat' = [chat EXCEPT ![c].unread = 0]
    /\ UNCHANGED <<now, stored, counted, hook, ack, agent, acked, losses, restarts>>

\* The server restarts: what it was doing is gone; Meta delivers again.
Restart ==
    /\ restarts < MaxRestarts
    /\ restarts' = restarts + 1
    /\ hook' = [h \in Hooks |-> HookIdle]
    /\ ack' = [m \in Inbound |-> AckNone]
    /\ agent' = [a \in Agents |-> AgentIdle]
    /\ UNCHANGED <<now, stored, counted, chat, acked, losses>>

\* Time passes; a Graph call is aborted long before a window is over.
PassTime ==
    /\ now < MaxChatTime
    /\ \A m \in Inbound : ack[m].pc \in {"send", "release"} => now - ack[m].at < WINDOW
    /\ now' = now + 1
    /\ UNCHANGED <<stored, counted, chat, hook, ack, agent, acked, losses, restarts>>

InboxNext ==
    \/ \E h \in Hooks : \/ \E batch \in SUBSET Inbound : Deliver(h, batch)
                        \/ \E m \in Inbound : InsertMessage(h, m)
                        \/ UpdateChat(h) \/ ChatFails(h)
    \/ \E m \in Inbound : SkipAck(m) \/ ClaimAck(m) \/ SendAck(m) \/ ReleaseAck(m)
    \/ \E a \in Agents : \/ \E c \in Contacts : StartReply(a, c) \/ StartTemplate(a, c)
                         \/ Sent(a)
    \/ \E c \in Contacts : MarkRead(c)
    \/ Restart \/ PassTime

InboxSpec == InboxInit /\ [][InboxNext]_inboxVars

-----------------------------------------------------------------------------
HooksRest == \A h \in Hooks : hook[h] = HookIdle

\* However often and in how many batches Meta delivers a message, it goes into
\* the unread badge at most once; and once it is stored it does go there, unless
\* the server went down in between or that write failed, after which no
\* redelivery makes up for it (storeMessage).
CountedOnce ==
    \A m \in Inbound :
        /\ counted[m] <= 1
        /\ m \in skipped => counted[m] = 0
        /\ HooksRest /\ m \in stored \ skipped /\ restarts = 0 => counted[m] = 1

\* A customer gets one acknowledgement per window, however many messages are
\* handled at once and whichever sends fail (sendAcknowledgementIfFirst).  One
\* that went out although its send threw releases its claim, so that another may
\* follow it; it never follows another.
AckOncePerWindow ==
    /\ \A x, y \in acked : x.to = y.to /\ x # y =>
          x.at - y.at > WINDOW \/ y.at - x.at > WINDOW
    /\ \A x \in acked, y \in stray : x.to = y.to /\ x.at < y.at => y.at - x.at > WINDOW

\* A claim that nobody is working on stands for an acknowledgement that went
\* out: a refused one never silences the rest of the window.
ClaimMeansAck ==
    restarts = 0 => \A c \in Contacts :
        \/ chat[c].ackSentAt = Never
        \/ \E x \in acked : x.to = c /\ x.at = chat[c].ackSentAt
        \/ \E m \in Inbound : From[m] = c /\ ack[m].pc \in {"send", "release"}

\* Free-form messages start only while Meta accepts them: the customer wrote
\* less than a window ago, even if older messages arrived since (isWindowOpen).
RepliesInWindow ==
    [][\A a \in Agents : agent'[a].pc = "reply" /\ agent[a].pc # "reply" =>
          \E m \in stored : From[m] = agent'[a].to /\ now - SentAt[m] < WINDOW]_inboxVars

\* A message is counted once and acknowledged once per window, but for what the
\* failures named above take away.
HeardOnce == CountedOnce /\ AckOncePerWindow /\ ClaimMeansAck
=============================================================================
