# A TLA+ model of the tribe-merchandise backend

The repository is a NestJS + Mongoose backend for a merchandise business: *tribes*
(coaches with a brand) sell products and hand out welcome kits, a warehouse packs
and ships the orders by India Post, tribes earn commission and are paid out, and
customers are talked to over WhatsApp. This directory holds TLA+ modules of its core
logic, TLC instances of them, and TLAPS proofs.

The database is a MongoDB server without multi-document transactions (development
runs a standalone server), so **every awaited model call is one atomic step and
nothing larger is**. A request handler is a chain of such steps, the steps of
different handlers interleave, and a handler that dies is not resumed. That is
the program's whole concurrency model and it is what the modules describe: one
action per database round trip, a record per request in flight that remembers what
the handler read, and properties about what is true when the steps of several
handlers have been mixed.

## 1. Inventory

| Component | State it keeps | Operations that change it | Talks to | Module |
|---|---|---|---|---|
| order lifecycle (`orders/orders.service.ts`) | order documents: status, approval, soft-delete flag, items and totals, tracking number, return and re-send links | create, updateStatus, approve, reject, deleteOrder, restoreOrder, markReturned, reorderReturned, revertStatus, changeDeliveryType, addItem, removeItem, address changes, bulk delivery | stock, ledger, barcodes, members, WhatsApp (fire and forget) | `Orders`, `Packing`, `OrderItems`, `PostalEvents` |
| commission ledger (`transactions/`) | append-only rows of COMMISSION, PAYOUT, DEBIT | create, createPayout, reverseByOrder | called by orders and by the admin | `Payouts`, `Wallet`, `Orders`, `OrderItems` |
| barcode pool (`barcodes/`) | barcode documents: type, holder, write-off | bulkCreate, assignToOrder, switchType, releaseOne, releaseFromOrder, markUsed, unmarkUsed | called by orders | `Packing` |
| product stock (`products/`) | total and per-size stock, inventory log | moveStock, adjustInventory, setSizeStock, remove, restore | called by orders, adjusted by the admin | `SizeStock`, `Orders`, `KitSync` |
| tribe members (`tribe-members/`, the backfill script) | one member per (tribe, phone) with totals, versioned | recordOrder, upsertMember, syncMember, backfill | called after every order write | `TribeMembers` |
| one-time passcodes (`whatsapp/whatsapp-otp.service.ts`) | one row per phone: code hash, expiry, attempts, send log | request, restore, verify | gates public order creation | `Otp` |
| WhatsApp inbox (`whatsapp/whatsapp.service.ts`) | conversations with unread counts and acknowledgement claims, messages | webhook events, replies, templates, markRead | Meta's API | `WhatsappInbox` |
| postal events (`postal-webhook/`) | latest scan and return flag of an order | ingest, applyMilestone, sync | drives updateStatus | `PostalEvents` |
| India Post client (`tracking/india-post-api.service.ts`) | a cached token, the login in flight | accessToken, request | India Post | `IndiaPostApi` |
| scheduled jobs (`orders/*report*`, `*digest*`, `*reminder*`, `job-run.schema.ts`) | one row per claimed window | claimJobWindow, run | reads orders, sends WhatsApp | `ReportJobs`, `ReportWindows` |
| restock (`restock/`), enquiries (`catalog/`) | requests with a status and the time they were first opened; a forecast computed from dispatches | createRequest, markSeen, update | reads orders and products | `Intake`, `StockHealth` |
| kit pricing (`common/kit-pricing.ts`) | none: splits a kit price over its items | - | used by create, kits and campaigns | `KitPricing` |
| kits and campaigns (`tribe-kits/`, `campaigns/`) | kits, and campaigns that copy their price and items | create, update, remove, link, stop | used by create | `KitSync` |
| invoices (`invoices/`, `uploads/`) | invoice rows, files in object storage | create, update, replaceFile, remove, openForTribe | uploads | `Invoices` |
| accounts (`auth/`, `users/`, `tribes/`) | logins, tribes with their settings, tokens that carry a version | onboarding, login, changePassword, resetPassword, update, updatePermissions | every request | `Accounts` |
| analytics (`analytics/`) | none | - | reads orders | `AnalyticsRange` |
| catalog, mail, formatting of messages, pipes and guards, configuration | documents of their own or none | single-document writes | - | - |

What makes each hard, and what would make it correct:

* **Orders.** Each handler flips the order by a conditional write and then moves
  stock, commission and barcode in further calls. Correct means: every flip is
  followed by exactly one movement of each line and one booking; moves apply only
  from the stage they were validated against; an unapproved claim is not fulfilled;
  a return is re-sent once; a failed creation leaves nothing; the figures, the stock
  and the wallet follow the lines while lines come and go.
* **Ledger.** No row to lock: the balance is a sum. Payouts must not overdraw it,
  a bank transfer is recorded once, a reversal takes back no more than was credited.
* **Barcodes.** A code is a physical tracking number: never on two parcels, never
  freed once shipped, never handed out once written off, one per order.
* **Stock.** The total stays the sum of its size buckets, the first movement of a
  size creates its bucket once, a count never wipes out a movement it did not see.
* **Members.** After the last write a member equals the recomputation of its orders.
* **Passcodes.** A bounded number of guesses per code, one proof per code, no send
  within the cool-down; a send that throws leaves the earlier code in force.
* **Inbox.** Redelivery stores and counts once; one acknowledgement per window, and
  no claim without one; free text only while Meta accepts it. A call that throws may
  still have been carried out.
* **Postal events.** Late, duplicated and reordered events never move an order back,
  and losing a race against a person, who may pack, cancel, delete or take an approval
  back, costs no event.
* **India Post client.** One login for a burst of calls, no retry with the token that
  was refused, nobody left waiting.
* **Jobs.** At most one message per tribe and window, whatever the replicas; a change
  is counted once, or the message that should count it is logged as missed.
* **Kits, invoices.** Copies follow their original, a row always has its file.
* **Accounts.** One login per address, no login without a tribe, a session dies with
  its password, saving one setting keeps the others.

`PROJECT.json` lists the components with their status and the hazards with the
line where each bites.

## 2. Modules

```
Orders                                             orders, stock, commission
   MCOrders                          OrdersProofs
Packing                                            orders, barcode pool
   MCPacking                         PackingProofs
Payouts  implements Wallet                         ledger and payouts
   MCPayouts                         PayoutsProofs

TribeMembers  OrderItems  Invoices  SizeStock      records read and written back
   MCRecords                         RecordsProofs
Otp  WhatsappInbox  PostalEvents                   what arrives from outside
   MCMessages                        MessagesProofs
KitSync  ReportJobs (ReportWindows)  Accounts      the back office
   MCBackOffice                      BackOfficeProofs
IndiaPostApi  Intake  KitPricing  StockHealth      services and calculations
AnalyticsRange  ReportWindows
   MCServices                        ServicesProofs

SumProofs: lemmas about sums over finite sets, used by most of the proofs
```

A behaviour of `MCRecords`, `MCMessages`, `MCBackOffice` or `MCServices` is about one
of the modules it extends: its `part`, chosen at first, says which, and the other
variables stay as they are. The parts share no state in the code either, or meet it
through writes that each part already contains, so a run checks all of them without
multiplying their states, and it can give their actors the same model values.

In every module a request is a record with a program counter and what the handler
read; an action is one database (or network) call with the synchronous code around it.
Definitions headed "Faulty variant" are not part of any specification: each is a
definition with a plausible bug, and section 3 says which property it breaks.

### Orders

State: `order` (the order documents), `taken` (units of each line off the shelf on
an order's behalf), `net` (the sum of an order's COMMISSION rows), `req` (for each
request its operation, next step and what it read), `crashes`.

| Code | Actions |
|---|---|
| `create` | `Create`, `TakeLine`*, `Save`, `Credit`; `WriteFails`, `DropOrder`, `RestockLine`* for its catch block |
| `updateStatus` | `ReadForStatus`, `WriteStatus`; a cancel goes on with `RestockLine`*, `SumRows`, `AppendReversal` |
| `approveOrder`, `rejectOrder` | `Approve` (`Credit`), `Reject` (`RestockLine`*) |
| `deleteOrder`, `restoreOrder` | `Delete` (`RestockLine`*, `SumRows`, `AppendReversal`), `Restore` (`TakeLine`*, `Credit`) |
| `markReturned` | `MarkReturned`, `RestockLine`* |
| `reorderReturned` | `Reorder`, `TakeLine`*, `Save`; `WriteFails`, `RestockLine`*, `Unlink` for its catch block |
| `revertStatus` | `ReadForRevert`, `SumRows`, `AppendReversal`, `Rewind` |
| the process dies, an unhandled error | `Crash` |

Abstractions: an order's commission is one unit or none (`earns`); each line is one
unit of stock; the lines move in any order, the code takes them in sequence; what
create reads, checks and prices before its first write is left out, since a refused
order changes nothing, and so is the count of a campaign's claims (`$inc`, after the
commission), which nothing here reads; `markReturned` finds its order by tracking number, the model by id. A kit's
`totalCommission` is 0 when `create` makes it, so the credit of `Approve` is there
for documents made otherwise and no run reaches it. A failing `deleteOne` in the
compensation, which the code swallows, counts as a crash. `Faults` says which writes
may fail with an error the handler sees. Member recording and WhatsApp messages
are left out: they change none of this state.

### Packing

State: `order` (status, soft-delete flag, delivery type, shown number, pending
flag), `pool` (type, holder and write-off mark of each code), `req`, `crashes`.

| Code | Actions |
|---|---|
| `updateStatus` to PACKED | `ReadForPack`, `SeeBarcode`, then `assignToOrder`, then `WritePacked`, `GiveBack` |
| `assignToOrder` | `FindHeld`, `Claim`, `Reread` |
| `switchType` | `Reserve`, `ReleaseOld`, `Convert`, `HandBack` |
| other moves | `ReadForMove`, `WriteMove`, `Release` |
| `deleteOrder`, `restoreOrder` | `Delete`, `Release`, `ClearShown`; `Restore`, `FindHeld`..., `WriteRestored` |
| `revertStatus`, `changeDeliveryType` | `ReadForRevert`, `SaveRevert`; `ReadForKind`, `SaveKind` |
| `bulkCreate`, `markUsed`, `unmarkUsed` | `bulkCreate`, `markUsed`, `ReadForUnmark`, `Unmark` |

Abstractions: stock, commission and approval are left to `Orders`; a claim takes any
available code of the type, the code takes the oldest; DISPATCHED stands for DELIVERED
too; a number typed by hand is one value that is no code of the pool; a cancel carries
no typed number. `rejectOrder` releases a barcode only for a claim that was packed
without approval, which is one of the failures below, and is left out.
`Exclusive` is an assumption of an instance: no two requests work on the same
order at a time. The label properties need it (see the failures); nothing in the
code enforces it, one admin per order does.

### Payouts and Wallet

`Payouts` is `createPayout`: `Submit` (look-up of the UTR), `CheckBalance`, `Insert`
(with the unique index on the UTR), `Recheck`, `Remove`, with `Earn` and `TakeBack`
for the commission rows that orders append meanwhile and `Crash`. Amounts are
integers. `Wallet` is what the ledger promises: money is paid out in one step,
and never more than there is. The refinement counts a payout from the moment its
re-check passes.

### TribeMembers

State: `purchase` (the orders as far as a member is made of them), `member`, `writer`
(requests, and the script when it acts like one), `script` (what the backfill has read)
and `drift`: whether, since the last repair, something happened that the code does not
make good by itself: a request left before every member it touched was looked after (it
died, gave up, or stopped too early), or an order was changed while another request was
recording it (`Recording`).

| Code | Actions |
|---|---|
| order writes | `PlaceOrder`, `FlipDeleted`, `ReadForAddress`, `FindPending`, `SaveAddress` |
| `recordOrder` | `ReadPurchase`, `FindMember`, `UpsertMember`, `LinkOrder`, then the member it left and the one it joined |
| `syncMember` | `ReadMember`, `ReadPicture`, `WriteMember`, `RemoveMember`; up to `SYNC_ATTEMPTS` rounds |
| `buildMemberFields` | the operator of that name |
| `backfill-tribe-members.ts` | `StartBackfill`, `ReadExisting`, `ReadCurrent`, `BackfillGroup`, `SweepMember`, `BackfillDone` |
| a request dies | `WriterDies` |

Abstractions: a phone stands for one (tribe, phone) pair; the contact details are one
value, an address is a number; an order's date is its id. The unique index is part of
`UpsertMember`. `Mortal` lets a request die half-way, once between two repairs; `Patient`
bounds an instance: once there is drift, nothing starts before the script has run.
No lock keeps two requests from one order, and none is modelled: any write of an order
may come at any moment, and `MembersMatch` says what is left to hold. `Quiet`
says that the script runs while no request does, which is up to whoever runs it. `Misled` recognises
the one way in which `syncMember` may stop too early without dying (see the failures).

### OrderItems

State: `basket`, `placed` (the lines it began with), `board` (stage, deletion,
approval), `total`, `units` out per line, `net` in the wallet, `editor` (requests).
`addItem` is `ReadForAdd`, `PushLine`, `TakeAdded`, `UndoAdd`; `removeItem` is
`ReadForRemove`, `PullLine` (its `$pull` and `$inc` are one write), `TidyTotal` (its second
write, which raises figures below zero), `ReturnRemoved`, `ReadNet`, `AppendShare`; the moves
of the board (`Ship`, `Cancel`, `RejectClaim`, `ApproveClaim` and `CreditClaim`,
`DeleteOrder`, `RestoreOrder`, with `SumOrder` for their reversal) change the lines' stock
and commission around them. A line's commission (`Shares`) is any integer: it is the
price less the cost, without a floor, so a line sold at a loss has a negative one.
`NoLoss` says that no line of the order is such a line; without it the figures and the
wallet are only bounded (`TotalFitsLines`, `WalletFitsLines`), see the failures.

`ItemsNext` lets edits race each other and the dispatch, and gives the moves that sum or
credit the whole order the order to themselves (`OneAtATime`, `MovesOrder`). That is an
assumption and no lock of the code; `ItemsNextRacing` lets everything race, and the failures
say what happens. A loop over the lines is one step: movements of stock commute.

### SizeStock

State: the product's total, its buckets (a sequence, as in the document), its
version, the log, and two history variables, `book` and `byHand`.

| Code | Actions |
|---|---|
| `decrementStock`, `incrementStock`, `addInventory`, `removeInventory` | `Start`, `CheckAvailable` |
| `moveStock` | `IncrementBucket`, `PushBucket`; at most `MOVE_ATTEMPTS` rounds |
| the inventory log | `LogAdjustment`, `LogCount` |
| `setSizeStock` | `OpenPage`, `ReadForCount`, `WriteCount` (conditional on `updatedAt`) |
| the process dies | `RequestDies` |

Abstractions: a movement is one unit; `updatedAt` is a counter.

### Invoices

`Arrive` (with `findLive`), `assertNumberFree`, `putPrivatePdf`, the four writes
`WriteCreate`, `WriteNumber`, `WriteReplace`, `WriteRemove`, `deletePrivateObject`,
`getPrivateObject`, `MarkViewed`, `ErrandDies`, over the records, the bucket's keys and
`opened`: which files the tribe was given. A file is its key; the unique index on the
number is part of the writes.

### Otp

`request` is `ReadRow`, `StoreCode` (conditional on the row that was read), `SendCode`,
`RestoreRow`; `verify` is `SpendAttempt`, `CompareAndConsume`; `Tick` lets time pass
between any two of them. Codes are numbered as they are drawn, a guess is a number of a
code that went out or a wrong one; hashing and the proof token's signature are left out.
`SendCode` goes through, or throws, and a send that throws may have gone out all the same:
Meta's answer was late, or the message's own rows could not be written after Meta had
taken it. Such messages are `unreported`. `FirstEver` says whether the number may have no
row yet, `failing` whether sends may throw; where they may, the run takes requests and
guesses one at a time (`MayStart`), which is an assumption and no lock of the code.

### WhatsappInbox

Deliveries (`Deliver`, `InsertMessage`, `UpdateChat`) may bring any batch of messages
any number of times; `ChatFails` is a conversation that could not be written after the
message was stored, which `handleEvent` logs and nobody repeats (`skipped`); `SkipAck`,
`ClaimAck`, `SendAck`, `ReleaseAck` are `sendAcknowledgementIfFirst`, where a send that
throws may have reached the customer (`stray`); `StartReply`, `StartTemplate`, `Sent` are what admins send;
`MarkRead`; `Restart` drops everything in flight; `PassTime`. A message is its sender and
its time; the content of messages is left out.

### PostalEvents

The rules (`milestoneOf`, `isMovementScan`, `Wanted`) and the three ways a scan reaches
an order: the webhook (`Receive` ... `Reread`, with its retry after a conflict), the sync
(`StartSync`, `FindShared`, `Track`, `Preview`) and the bulk list, all through
`recordLatestScan`, `FlagReturn`, `ReadForStatus`, `WriteStatus`. `Scan` is India Post; a
scan's text is the set of the words the rules look for, with the flags of the answer:
`rts` on a scan, and a delivery confirmed outside the scans (`confirmed`). `Person` is
what people do by conditional writes: the moves of the board, approve and reject, delete and
restore (`Edited`). Revert-status is a read (`StartRevert`) and an unconditional save
(`SaveRevert`), which takes a packed order back to New or an approval back to the queue.
`alone` makes workers wait for each other; it is an assumption, and only `ReturnWins`
uses it.

### KitSync

Kits, campaigns and the products that are not deleted. An edit of a kit is
`BeginKitEdit`, `CheckActive`, `CheckPrices`, `SaveKit`, `SyncCampaign` for each campaign,
`FinishSync`; a campaign is updated by `AskUpdate` (the controller's read, for what a
tribe, and not an admin, may ask: `TribeMay`), `BeginSave` (the service's own read; also
where a new campaign begins), `LoadKit`, `WriteCampaign`; `CreateKit`, `BeginRemove`,
`RemoveKit`, `DeleteProduct`, `RestoreProduct`, `ClerkDies`. Quantities are one; the price of
a line is left out, the floor of the kit and of the campaign is not. `oneClerk` makes
requests wait for each other (`MayStart`). That is an assumption and no lock of the code;
every part of `KitsInOrder` needs it, see the failures.

### ReportJobs and ReportWindows

`ReportWindows` has the arithmetic of the nightly, weekly and every-third-day windows as
operators. `ReportJobs` fires a job on each replica (`Fire`, `claimJobWindow`,
`buildReports`, `SendReport`, `FinishRun`, `Die`) while status changes take their
timestamp (`Begin`) and are written later (`WriteEvent`). `SendReport` tells a tribe, or
misses it (an owner without a phone, a send that fails), or both (a send that fails after
it went out); what is missed is logged (`missed`) and not tried again, and the window
stays claimed.

### Accounts

State: `login`, `tribe`, `visit` (requests), `sessions` (tokens signed), and history:
`saved` settings, `halved` (logins renamed by an update that did not reach the tribe).

| Code | Actions |
|---|---|
| `tribes.create` | `BeginOnboarding`, `CheckUsername`, `InsertUser`, `SaveTribe`, `DeleteUser` |
| `auth.login` | `SignIn`, `Sign` |
| `changePassword`, `resetPassword` | `BeginPassword`, `updatePassword`, `SignAgain` |
| `JwtStrategy.validate` | `validate` |
| `tribes.update`, `users.update` | `BeginEdit`, `CheckEmail`, `Patch`, `WriteTribe` |
| `updatePermissions` | `BeginGrant`, `WriteGrant` |
| the process dies | `VisitDies` |

Abstractions: an email is an address and whether it is stored in another case than
lower (`cased`; the look-up ignores the case, the index does not); a password is the
request that set it; a setting is the set of parts that differ from the default; a login
that is new has an id nothing refers to.

### IndiaPostApi and Intake

`IndiaPostApi` is `accessToken` and `request`: everything between two awaits is one step,
as JavaScript runs it. `Request`, `RequestAgain`, `Sent`, `Refused`, `LoggedIn`,
`LoginFailed`, with India Post dropping tokens (`Expire`) and our clock passing their time
(`Lapse`). `Intake` is `createRequest`, `markSeen` (one conditional update) and `update` (a
read and a write) of restock requests and enquiries. `oneDesk` makes the handlings wait
for each other (`Turn`), an assumption that only `FirstOpenKept` uses.

### Calculations

`KitPricing` (both splits of a price and buildable kits), `StockHealth` (pace, days left,
thresholds, order of urgency), `AnalyticsRange` (ranges and buckets in India's time) and
`ReportWindows` are the functions of the code over integers, each next to a property that
defines its result independently: what the split must add up to, the largest number of
days the stock lasts, a search through the calendar. Money is in paise; the time of day is
in half hours, because India's offset is five and a half.

The splits divide floats in the code. In `KitPricing` amounts are whole paise and weights
are multiples of a common unit, so that quotients are exact, and what the floats may do
to them is a parameter: `short` is the set of the lines whose quotient is whole and comes out
a hair below, so that rounding down takes a paisa (`floored`). It may be any set of lines; the
code's `allocate(3, [0.1, 0.1, 0.1])` is 0.99, 0.99, 1.02 and corresponds to `short` with the
first two lines in it. A quotient that is not whole differs from the next whole number by at
least one part in the weights' sum, far more than the error of a double while amounts times
weights stay below 2^53. The run tries every `short`, the theorems hold for every one.

## 3. Runs

All bounds are constants of the `.cfg`. Deadlock is checked except where the system
may stop: payouts end, ids and messages are used up.

| Run | Instance | Question |
|---|---|---|
| `OrdersSerial` | 2 orders, 2 lines, 1 request, all operations, 4 kinds of write failure, 2 crashes | do the handlers, one at a time, keep stock, ledger, approval and stages right, however far they get? |
| `OrdersRaces` | 1 order, 1 line, 3 requests, all operations but revert-status, 3 kinds of write failure, fairness | do they when three of them interleave? do the goods of a dead order come back? |
| `OrdersResend` | 3 orders, 1 line, 2 requests, the operations on parcels that come back, 3 kinds of write failure | is a return sent again once, and the stock of both orders right? |
| `PackingParallel` | 2 orders, 2 codes, 2 types, 2 requests on different orders | do labels, pool and flags agree? does a shipped parcel keep its number? |
| `PackingPool` | 1 order, 2 codes, 2 types, 2 requests on it, 1 crash | does the unique index keep one barcode per order, and the conditional writes written-off codes unused? |
| `PayoutsGuard` | 3 payouts, 1 UTR, 3 units of commission and of reversals, 1 crash | is the ledger safe without a lock, and is check, insert, re-check one payment? |
| `Records` | members: 2 orders, 2 phones, 3 ids, 2 writers, all order writes, the script; drift once between repairs. Lines: 3 bought, one of them at a loss, 1 extra, 3 editors, 1 failed write. Invoices: 2 records, 2 numbers, 3 errands, 1 fault. Stock: 2 sizes, 3 requests, 1 death | do records that are read and then written back follow what they are made of? |
| `Messages` | codes: 2 requests, 2 guessers, 4 codes, sends that throw. Inbox: 2 messages, 2 deliveries at once, 1 admin, 1 restart, sends and writes that fail. Postal: 4 scans, 2 workers, revert-status one of their jobs, 2 orders with the number, 1 touch of a person | is what arrives late, twice or never counted, answered and obeyed once? |
| `BackOffice` | 1 kit, 2 campaigns, 2 products, 1 clerk, 1 death. The three jobs, 2 replicas, 2 changes of 2 tribes, 1 death. Accounts: 3 logins, 2 addresses, 3 visits one or two at a time, 1 death | do kits and campaigns agree after every request, however far it got? is a window told at most once, and every change counted or logged as missed? do accounts agree? |
| `Services` | 3 calls, 3 tokens; 2 requests, 2 desks; every calculation on all its samples | is the token shared, does every call end, does each calculation meet its definition? |

Why the bounds suffice to make the interesting things happen. A race in this code is
between a read and a write of one document, so the races of an order need one order;
two requests make a race, the third lets a third handler see the outcome of the
first two half-way. What crosses orders is the re-send, and three ids are what two
re-sends of one return need, or a re-send of a re-send. Two lines make a loop that
can stop half-way. A barcode needs a second parcel to go to, and two codes of two
types make the pool of one type run dry with a code left in the other. Three payouts
let one that backs out be seen by the others. A member needs two orders to differ from
its newest one, and a second phone to lose one to. The limits of the one-time codes are
scaled down (two attempts, two sends an hour, three a day), so that every one is reached
before the four codes run out. Two deliveries and two messages are what a duplicate and a
reordering need; a restart in between loses the first. Two campaigns make a sync that
stops half-way, a product more than the floor allows makes a price too low. Two replicas
race for a window; the clock covers two nightly windows. Three visits are a session, the
change that ends it and one that interferes. The calculations are total functions of few
small arguments: their samples include zero, one and the values around each threshold.

What the runs assume of the requests, and no code enforces. Each of these is a constant or
a definition of its own, and the failures below say what happens without it:

| Assumption | Where | What needs it |
|---|---|---|
| one request at a time on orders | `OrdersSerial` (1 request) | `LedgerSettled`, `FulfilledIsApproved` with revert-status |
| no two requests on one order | `Exclusive`, `PackingParallel` | `ShownIsHeld`, `LabelFits`, `ParcelKeepsBarcode` |
| moves that sum or credit the whole order have it to themselves | `OneAtATime` and `MovesOrder` of `OrderItems` | `BasketAddsUp` |
| the backfill script runs while no request does | `Quiet` | that it ends the drift |
| movements of stock one at a time | `Serial`, one of two settings | `RemovalHadStock` |
| errands of invoices one at a time | `OneByOne`, one of two settings | `NothingLeftBehind`, `ViewedWasOpened` |
| requests and guesses one at a time | only where `failing` | `CodesGuarded` where sends throw |
| reports of India Post one at a time | `alone`, one of two settings | `ReturnWins` |
| requests on kits, campaigns and the products in them one at a time | `KitSerial = {TRUE}` | `KitsInOrder` |
| visits one at a time | `AtOnce`, one of two settings | `NamesMirrored`, `SettingsKept` |
| handlings one at a time | `OneDesk`, one of two settings | `FirstOpenKept` |

"One of two settings" means that the run checks the other properties of the module without
the assumption too.

Symmetry: ids are permuted in the runs that check safety only, where no id has an
order, and not in `OrdersRaces` and `Services`, which check liveness. In the runs with
parts the same model values stand for actors of different parts. Where a module needs an
order of its ids - orders by date, visits by beginning, messages by time - they are
numbers and not permuted.

Fairness: `FairSpec` (Orders) assumes weak fairness of `Continue(r)`, the next database
call of a request that has begun. Node runs every pending continuation, a call returns or
throws, and `OrdersRaces` has no crashes. `ApiFairness` (IndiaPostApi) assumes that a
login on the wire is answered or fails and that a call that was sent is answered or
times out: every request of the client carries a timeout. Nothing is assumed about
requests arriving.

### Properties that are conjunctions

Most runs check one conjunction per module. Its parts are definitions of their own, with a
comment each. The project's mutants replace one definition by a faulty variant; the
modules hold further variants, and TLC finds each of them to violate the property when
it takes the definition's place:

| Property | Parts | Faulty variants |
|---|---|---|
| `MembersInOrder` | OneMemberPerPhone, MembersMatch | WriteMember: WriteMemberBlindly; UpsertMember: InsertMember |
| `BasketAddsUp` | TotalFitsLines, LinesHoldStock, KeepsAProduct, WalletFitsLines | PullLine: PullLineTwice, PullLastLine; UndoAdd: UndoNothing |
| `StockExplained` | StockFitsMoves, LogExplainsHand, MoveNeverGivesUp, RemovalHadStock | PushBucket: PushAnyway; WriteCount: WriteAnyway; LogCount: LogFigures; MOVE_ATTEMPTS: ONE_ATTEMPT; CheckAvailable: CheckTotal |
| `PapersInOrder` | LiveFileExists, OneLivePerNumber, NothingLeftBehind, ViewedWasOpened | WriteReplace: ReplaceOnly, ReplaceUnseen; putPrivatePdf: PutUnawaited; WriteNumber: RenumberAnyway |
| `CodesGuarded` | GuessesBounded, OneProofPerCode, SendsSpaced, LatestCodeCounts | StoreCode: StoreAnyway; UnderCaps: UnderCapsByOne; RestoreRow: RestoreNothing; SpendAttempt: CompareFirst; CompareAndConsume: KeepCode |
| `HeardOnce` | CountedOnce, AckOncePerWindow, ClaimMeansAck | InsertMessage: InsertAgain; ClaimAck: ClaimLate; ReleaseAck: KeepClaim |
| `PostalObeyed` | NewestScanKept, PostalMovesForward, NoEventLost, ReturnWins, DispatchedIsHandedOver | WriteStatus: WriteOnce, WriteUnconditionally; recordLatestScan: recordAnyScan; Wanted: WantedWhateverReturned; isMovementScan: AnyRecord |
| `KitsInOrder` | CampaignsFollowKit, NoneRunsOnDeletedKit, PriceClearsFloor | SyncCampaign: SyncRunning; CheckPrices: CheckRunningPrices; LoadKit: LoadLinked |
| `ReportedOnce` | ToldOncePerWindow, CountedInOneWindow | InWindow: BothEnds; SendReport: SendOrStop |
| `AccountsAgree` | OneLoginPerAddress, LoginsHaveTribes, SessionsFollowPassword, NamesMirrored, SettingsKept | updatePassword: SetPasswordOnly; findOneByEmail: findExact; SignAgain: SignForFirst; DeleteUser: KeepUser; Merged: Replaced |
| `TokenShared` | OneLoginAtATime, RetryUsesAnotherToken | accessToken: LoginEach; Refused: RefusedAgain |
| `SeenOnce` | NotAnnouncedAgain, FirstOpenKept | WriteUpdate: UpdateStatus; markSeen: MarkSeenAgain |
| `SumsRight` | SplitsAreExact, UnitPricesAddUp, KitsAreBuildable, StockLasts, SuggestionsSuffice, UrgencyOrders, BucketsCover, RangesAreIndian, WindowsClose | allocate: allocateDown; allocateUnitPrices: unitPricesLast; buildableKits: buildableFromBest; suggestedQtyOf: suggestLow; Before: BeforeByDays; daysLeftOf: daysRounded; buckets: bucketsFromHere; istStart: utcStart; windowEndingAt: windowByServerClock |

### Known failures

Two runs end in a violation, each of one sentence of the code's own comments
(`findings` in `PROJECT.json` quotes them):

* `OrdersRestoreCancelled` - cancel, delete, restore credits a cancelled order.
* `PackingRevertThenCancel` - a barcode kept by an order moved back to New is never
  freed by a later cancel.

Others were met while the models were written. They have no run of their own; the
constants or the definition that shows each are given. Those of Orders and Packing:

* a cancel and a delete of one order both sum the commission before either appends its
  reversal (`transactions.service.ts:129`; `NeverReversedTwice`, two requests, cancel and
  delete);
* revert-status saves over a dispatch (`orders.service.ts:2699`; `FollowsBoard` with
  "revert" among three requests); the same unconditional save un-approves a claim packed
  meanwhile (`FulfilledIsApproved`);
* a re-send that fails between two lines keeps the first line's unit
  (`orders.service.ts:1308`; `StockBalanced` with the fault `<<"reorder", "take">>`);
* two packs of one order: the loser's give-back frees the winner's barcode, which a
  second parcel then carries too (`orders.service.ts:2300`; `NeverShared`,
  `Exclusive = FALSE`);
* the compensation of `create` restocks an order that was cancelled between its save and
  its commission write (`StockBalanced`, fault `<<"create", "credit">>`, two requests);
* a delete that saw an order packed releases its barcode after it was restored and
  dispatched (`ParcelKeepsBarcode`, `Exclusive = FALSE`); undoing the write-off that
  reserves a code for a delivery-type change leaves the order with a code that is back in
  the pool (`NeverShared`, pack and unmark); a restore after a delete that died between
  releasing and clearing shows a free code (`ShownIsHeld` with a crash);
* a payout that dies before its re-check leaves its overdraft (`Balance >= 0`).

Those of the other modules:

* *TribeMembers*. No lock keeps two requests from one order. An order at member m1 gets
  another phone, and while that is recorded (its phone and its link are read, m2 is found) it
  gets its old phone back: the second request finds it at m1, as it should be, and the
  first then links it to m2 (`tribe-members.service.ts:95`). With all at rest the order is
  at the wrong member until somebody records it again; the same happens to a deletion or a
  restore, if only for the member's figures. `Recording` sets `drift` for it.
  `syncMember` does not write when the picture it computed equals what
  is stored, and then does not look at the version either: while orders change and change
  back, a sync that read them in between still writes what they gave then (`Misled` marks
  it, by setting `drift`). A `recordOrder` that has to start over, because its member was
  removed, reads a link it wrote itself and no longer knows the member the order left. The
  script is called idempotent (`backfill-tribe-members.ts:3`) and is not
  (`BackfillIdempotent`, with `Quiet` too): when it takes an order away from the member
  of another number after it has recomputed that member, it leaves it stale, and the
  next run changes it. A run that moved no order leaves nothing to do; that is proved.
* *OrderItems*. A loss is never booked back (`orders.service.ts:2145`): of an order with
  lines of 5 and -3 and 2 in the wallet, removing the second leaves a commission of 5 and
  2 in the wallet. Removing the first leaves a commission of -3, which the second write
  (`:2118`) makes 0, more than the lines have. So without `NoLoss` the total is only at
  least the lines' and the wallet at most the total. With `ItemsNextRacing`: two removals,
  or a removal and a cancel, both read what is still recorded and take back too much; a
  cancel between a removal's pull and its reversal takes it back twice; undoing a failed add
  can empty the order.
* *SizeStock*. A removal by hand is checked against a level that orders are moving, so it
  can go below zero (`Serial = {FALSE}` and no `alone` in `RemovalHadStock`). `updatedAt`
  has a resolution of a millisecond; the model's version has none.
* *Invoices*. `ViewedWasOpenedAlways`: a tribe that opened the old file marks the new one.
* *Otp*. With `FirstEver = {TRUE}` two simultaneous first requests of a number both send
  (the comment at `whatsapp-otp.service.ts:125` accepts it). A send that throws after Meta
  took the message (`whatsapp.service.ts:667-718`: a late answer, or the writes that follow
  the send) is undone like one that failed: the caps and the cool-down forget the message,
  so that the next may follow at once, and the code the customer holds fits no row
  (`unreported` is left out of the sums of `SendsSpaced` and of `LatestCodeCounts`;
  counted with the others it breaks both). The row that is written back also undoes guesses
  and a verification made meanwhile, so requests that may throw come one at a time in the run.
* *WhatsappInbox*. An acknowledgement that went out although `sendText` threw
  (`whatsapp.service.ts:1040`) gives its claim back, and the customer's next message is
  acknowledged again in the same window (`AckOncePerWindow` over `acked \cup stray`). When
  the conversation cannot be written after its message was stored (`:346`), the redelivery
  is taken for a duplicate and the message is never counted (`CountedOnce` without
  `skipped`). A message that is stored late puts the conversation's last inbound time back
  (`:976`), so that the window shows as closed although Meta would still accept a reply;
  `RepliesInWindow` is about the other direction.
* *PostalEvents*. Revert-status takes an approval back (`orders.service.ts:2664`) between
  `updateStatus`' check and its write, which asks for the status only (`:2268`): a claim
  that waits for approval is dispatched (`PostalMovesForward` without its `overtaken`). Its
  save asks for nothing, so a packed order that India Post has dispatched meanwhile goes
  back to New. `ReturnWins` needs `alone`: a sync that listed an order before its
  return was reported may deliver it afterwards. And `DispatchedIsHandedOver` needs that no
  text is about a booking and the time before it at once, as "Pickup Booked" is
  (`PlainScans`; without it, add the scan `{"booked", "prebooking"}`): the webhook asks
  `milestoneOf` before `isMovementScan` (`postal-webhook.service.ts:129`), so the text is a
  booking and the order is dispatched, while the sync, and the comment that a pickup
  request "never mark[s] an order Dispatched" (`postal-event-rules.ts:110`), say it is not.
* *KitSync*, with `KitSerial = {FALSE}` and two clerks. Two edits sync in the other order
  than they saved; a kit is removed while a campaign is being linked to it. The controller
  reads a campaign to see whether a tribe may start it (`campaigns.controller.ts:96`), and
  the service reads and writes it later: a tribe's change asked before an admin's stop undoes
  the stop. A restored product is not in the campaigns until its kit is saved again.
* *ReportJobs*. A tribe whose message fails, or whose owner has no phone, never hears of
  its changes: the window stays claimed and the next one begins after it
  (`dispatch-digest.service.ts:118-138`; `missed`). `NothingUnreported`: a change stamped
  before the cut-off and written after the run is in no report.
* *KitPricing*. The floats leave shares a paisa short and give it to the last line
  (`kit-pricing.ts:86-92`): three equal lines of a kit of Rs 3 with weights of 0.1 get 0.99,
  0.99 and 1.02. The sum is right, equal lines are not equal.
* *Intake*. `FirstOpenKeptAlways`: a handling read before somebody's first open sets the
  time again.
* *Accounts*. `SessionsFollowPasswordAlways`: a password change that an admin's reset
  overtakes reads the reset's version back and signs its token with it, so that the
  token outlives the reset. An update whose username is taken has renamed the login
  already (`halved`). Two merges of settings at once lose one. Onboarding that dies
  before its tribe is saved leaves a login whose address is refused from then on.

## 4. Proofs

Every invariant and every safety property of steps that a passing run checks is a theorem,
for all values of the constants: any sets of orders, requests, lines, codes, messages and
logins, any faults, any number of crashes; and each calculation is right for every input
its callers may give it. Where a theorem has a
hypothesis, it is one of the settings of the run, and the failures of section 3 show what
happens without it. `PROJECT.json` lists the theorems with the property each states.

Almost none of the properties is inductive, since most of them speak of moments at which
nobody is half-way. The invariant behind a theorem says the rest: for each step at which a
request can stand, what it has read that is still so, what it has done that is not booked
yet, and why nobody else can have undone it. Each module of proofs has the invariant first,
then one lemma per action, then the theorem.

### Sums (`SumProofs`)

A balance, a stock, a commission is a fold over a finite set, and what a fold computes is
usually shown by induction, of which the prover has no usable form. Here it is shown by the
smallest counterexample instead: of the subsets for which a claim about the fold fails, one
has no smaller one that fails (`Smallest`, from `FS_StrictSubsetOrderingWellFounded`), and
taking one element out of it is a contradiction. Two folds over one set
agree (`SumUnique`), there is one (`SumExists`), so a sum obeys its recursion (`SumStep`).
From that: an element more (`SumTakes`, `SumAdds`), a smaller summand (`SumGrows`), two
parts (`SumSplits`), a value that moves between two places (`SumMoves`), nothing to sum
(`SumNone`), a multiple of every summand (`SumScales`), summands below others (`SumBelow`),
a greatest element of a finite set (`HasGreatest`).

### Orders (`OrdersProofs`)

* `OrdersTyped`: `Spec => [](TypeOK /\ Placed)`. `Placed` says that a request under
  way has an order to work on, without which `TypeOK` is not inductive: the next step
  would index a document by "no order".
* `StockSafety`: `Guarded => (Spec => []StockBalanced)`. `StockBalanced` speaks only
  of states in which no request is under way, so it says nothing a step could build
  on. `StockInv` accounts for the requests: for each order and line, the units off
  the shelf are what the order stands for, plus one for each request that holds a
  unit of it (has taken it for an unsaved order, or still has to put it back), minus
  one for each that owes one (a restore that has not taken it yet), give or take one
  per crash. Each action moves exactly one request in or out of `Holding` or
  `Owing` and changes `taken` or `Out` to match, so the proof has one cardinality
  lemma for a request that enters or leaves and one step per action. It needs
  `ClaimsAlone` (a request that will write a fresh document is alone with its id) and
  `OnTrack` (which operations can be at which step).
  `Guarded` is the assumption the failures above call for: no revert-status, and
  compensated failures only before the order can be seen by another request.
* `StagesFollowBoard`: `Guarded => (Spec => FollowsBoard)`, from the same invariant:
  the move a request is about to write was checked against the board (`OnTrack`) and
  is written from the status it was checked for.
* `FulfilmentGated`: `Guarded => (Spec => []FulfilledIsApproved)`.
  `updateStatus` looks at the approval when it reads the order and not when it writes
  it, so the property is not inductive: a rejection might come between. `ApprovalInv`
  adds why it cannot. A move that was let through still finds a cleared order
  (`MoveCleared`), since only a claim that is still pending can be rejected; a
  rejected claim is cancelled, so no move starts from it; and a returned order, whose
  approval its replacement inherits, was cleared (`StageCleared`), so no document
  about to be saved is a rejected one. With revert-status the argument fails, as the
  failures above describe.
* `ReturnsReplacedOnce`: `Guarded => (Spec => []OneReplacement)`. `LinkInv` adds that a
  re-send under way has the returned order's link to itself and its new id to itself
  (`ResendClaims`): the link is written before the replacement is saved, so a second
  re-send finds it. An order that was never saved has no link (`UnstoredUnlinked`).
* `LedgerAlwaysSettled`: `Serial => (Spec => []LedgerSettled)`. With one request at a
  time, `LedgerInv` says what the wallet of the order it works on holds at each of its
  steps (`Books`: a sum read and not yet reversed, a credit owed), and that every other
  order is settled. Two requests at once take back too much (see the failures), so more
  is not true.

### Packing (`PackingProofs`)

* `PoolSafe`: `Spec => [](TypeOK /\ OneBarcodeEach /\ WrittenOffUnused)`, with
  requests on the same order and dying anywhere (`PackingTypeCorrect` and
  `WrittenOffStaysOut` are its parts). `OneBarcodeEach` rests on the guard
  of every assignment, which the unique index supplies; `WrittenOffUnused` on
  every assignment being of an unmarked code or of the writer's own reservation.
* `LabelsHold`, `LabelsFit` and `ParcelsKeepTheirs`:
  `Orderly => (Spec => []ShownIsHeld)`, the same for `[]LabelFits`, and
  `Orderly => (Spec => ParcelKeepsBarcode)`. `Orderly` is the setting of
  `PackingParallel`, for any number of orders, codes, types and requests: no two requests
  on one order, no write-off taken back, no crash; each of the three has its failure
  above. The properties speak of orders nobody works on. `LabelInv` says for the others
  what the request at each step relies on: the order is still as it was read (`Steady`);
  the barcode a swap gives back, the one it reserved and the one a pack has claimed and
  not yet written are still what they were (`Grips`), whatever the other requests do to
  the pool; and a deleted packed order shows no number, without which a restore would
  claim none. Other requests are dealt with once: `OthersKeep` shows that a step which
  moves no barcode of an order (`PoolApart`) keeps what is known of it, and `Stepped`
  leaves for each action what it does to its own order. `NoDeadEnds`: in this setting no
  claim loses to the unique index and nothing is handed back. A parcel keeps its barcode
  because no request that releases works on a dispatched order (`Steady` again).

### Payouts (`PayoutsProofs`)

* `TransferOnce` and `RefusedLeavesNoRow`: `Spec => [](TypeOK /\ OneTransferPerUtr)` and
  `Spec => []RowsArePaid`. `RowsArePaid` speaks of quiet states; `PayoutsInv` says where a
  request must stand for its row to be there (`RowsFollowRequests`), which every step keeps.
* `NeverAnOverdraftThatSticks`: `Spec => []NeverOverdrawn`. `Covered`: what was
  acknowledged never exceeds what was earned. A payout is acknowledged when its re-check
  sees a balance that is not negative, with its own row in it; the rows it sees include
  all those acknowledged before, so the sum over the acknowledged is at most the sum over
  the rows, at most what was earned. No lock is needed for that, only the order insert,
  then re-check.
* `PayoutsImplementWallet`: `Spec => ImplementsWallet`. Under the mapping "money earned less
  reversals, and the acknowledged payouts", a re-check that passes is `Wallet`'s payment and
  every other step one of its steps or a stutter.

### Records (`RecordsProofs`)

* `MembersAlwaysInOrder`: with `Quiet`, `MembersSpec => []MembersInOrder`. Every member is
  right and nobody holds an older picture that would still be written (`RightForGood`), or
  some request will yet look at it (`Owes`): it was told to, as the member the order joined
  or the one it left (`Cared`). Every order is at the member with its phone, or somebody
  records it (`Housed`); a member whose orders a request saw gone is not removed while one
  joins it (`Spared`: the removal asks for the version it read, and whoever links an order
  has yet to recompute). A write asks for the version, so it wins only over members nobody
  wrote since (`Aware`). While the script runs, alone, what it read of the orders stands,
  the groups it has done have their member (`ScriptStands`, `Repairing`), and if nothing
  was wrong when it started it changes nothing (`Idempotent`). `Quiet` is needed for its
  repairs: it reads all orders once, at the start. Together these are `WholeInv`, which
  writes of an order that somebody records break. The invariant is therefore
  `WholeInv \/ (Sane /\ drift)`: with drift only what no such write can break is kept
  (`Sane`: types, one member per phone, what a request carries goes with its step). Once
  every request has left, that is `WholeInv` again (`SaneAtRest`), and the script, which
  begins only then, ends the drift.
* `BasketAlwaysAddsUp`: `ItemsSpec => []BasketAddsUp`, for any integer commissions. The
  stock of a line is one unit if the line stands, less the unit an editor still has to take,
  plus the one it still has to give back (`StockFits`). The wallet holds at most the
  figure of the order and, on top of it, what the lines pulled out and not yet reversed
  earned (`Cap`), and just that with no line at a loss (`Fits`); a share is taken back in
  full, or all that is left is (`Reverses`). No two editors do the same to one line
  (`Apart`), because a line can be pulled or pushed once.
* `PapersAlwaysInOrder`: `InvoicesSpec => []PapersInOrder`. Every key is traced to the errand
  that uploaded it, which has written and belongs to the same record (`Owned`), so what an
  errand deletes is no live record's file (`Spares`); one at a time and without failures,
  every object is a live record's or about to be (`InTurn`).
* `StockAlwaysExplained`: `StockSpec => StockExplained`, and `StockTypeCorrect`. No size has
  two buckets (`PushBucket` asks for its absence); what a count read is still so while the
  product has its version (`SeesStill`); what hands changed is what they logged and what
  they have yet to log (`UnloggedOf`, a sum over the requests); a movement that comes back
  from a push that failed finds its bucket (`OpFits`), so it never gives up.
* `RecordsTypeCorrect`: with `Quiet`, `Spec => []RecordsTypeOK`, for `MCRecords`' `Spec`.

### Messages (`MessagesProofs`)

* `CodesAlwaysGuarded`: `FirstEver = {FALSE} => (OtpSpec => []CodesGuarded)`,
  for any limits with an hour no longer than a day. `CodesGuarded` speaks of messages that
  went out and guesses that were compared; `OtpInv` counts those still under way as well:
  - `Spaced(SentOut)`: a message counts from the moment its code is stored. A request that
    stores found the row it had read (`Asks`), so the limits it checked were those of the
    messages there are (`Logged`), and it adds one within them (`OneMoreSpaced`; the caps
    compare sets of messages with sets of times, an injection).
  - `Counted`: guesses compared, plus guesses spent and not compared, are at most the
    attempts of the row; `Unproved`: a code not yet used has no proof.
  - `Undoes`: the row that is written back when a send throws satisfies all of this too,
    and its code is the latest of those whose send went through. This is where requests
    that may throw must come one at a time (`OneByOne`).
  - `Unsure`: a message that went out although its send threw keeps the limits with those
    before it, which its request checked before it stored the code; and whoever is under way
    since is no earlier, so that none comes in before it.
  The assumption is needed: without a row the first condition of `StoreCode` says nothing
  (see *Known failures*).
* `EveryoneHeardOnce`: `InboxSpec => []HeardOnce`. A message is counted by the one delivery
  that stored it, until then by nobody, and never if that write of the delivery failed
  (`Badge`); of the messages of a customer at most
  one holds a claim, the conversation shows it, and every acknowledgement that went out is
  more than a window older or is the claim (`Claims`). One that went out although its send
  threw was later than those before it by more than a window, since it had the claim
  (`Strays`).
* `RepliesAlwaysInWindow`: `InboxSpec => RepliesInWindow`, because what the conversation
  shows as the customer's latest message is a message that was stored (`LastKnown`).
* `PostalAlwaysObeyed` and `PostalKept`: `PlainScans => (PostalSpec => PostalObeyed)`, and
  without `PlainScans` all of it but `DispatchedIsHandedOver`. `overtaken` counts the
  changes others made to a worker's order since it took it up. While the count is the one
  at the check, the order is as it was checked, neither deleted nor waiting for approval; and
  a webhook that tries a second time was overtaken once (`EventFits`). A write that finds
  the status it read moves the order forward from there, whatever else has changed; one that
  finds another status was overtaken, so that an event is lost after two changes at
  the earliest. With `alone`, a worker knows which of its orders were reported returned
  (`Fresh`).
* `MessagesTypeCorrect`: with `FirstEver = {FALSE}`, `Spec => []MessagesTypeOK`, for
  `MCMessages`' `Spec`. Besides the three invariants it takes `StampsMade`: no order is
  stamped with a scan that was not made.

### The back office (`BackOfficeProofs`)

* `AccountsAlwaysAgree` and `AccountsTypeCorrect`: `AccountsSpec => []AccountsAgree`. None of
  its five parts is inductive. `AccountsInv` adds what a request in flight knows:
  - `Roles`: onboarding works on a login that has no tribe yet, and on one of its own;
    everyone else on a login that has one. `Accounted`: a login without a tribe is
    somebody's who is not done with it, unless a visit died.
  - `AddressesHeld`: an address that passed the look-up is none the index would miss.
    The look-up ignores the case, the index does not, and what is inserted is in lower
    case: no login with an address in another case can come to be in between.
  - `SessionsHeld` and `PasswordsFresh`: a version is the current one exactly if the
    password that went with it is (`Matches`), for every token that was not overtaken and
    for every sign-in that has read the login and not yet signed. It is kept by a change
    of the password because the new one is nobody's yet.
  - `TurnHeld`: while visits come one at a time, what a visit read of the settings is
    still there when it writes.
* `ReportedOnceAlways` and `JobsTypeCorrect`: `JobsSpec => []ReportedOnce`. A change is
  counted in its tribe's message, or the message is in `missed`, as soon as its run has done
  that tribe. A run has its
  window claimed, to itself (`Claimed`); two windows of one job end at its cut-offs, which
  are at least a length apart (`CutoffsApart`), so no change is in two (`OneWindow`); what a
  run finds was in time, because its window is over when it reads (`FoundBy`, `WindowFits`).
* `KitsAlwaysInOrder` and `KitsTypeCorrect`: `KitSpec => []KitsInOrder`. While requests wait
  for each other (`oneClerk`), one clerk
  is at work and what it read is still so (`Knows`, step by step); every campaign fits its
  kit unless that clerk is about to sync it or died on it (`LinkFits`). A product that is
  deleted only lowers the floor (`SumGrows`).
* `BackOfficeTypeCorrect`: with `1 \in AtOnce`, `Spec => []BackOfficeTypeOK`, for
  `MCBackOffice`' `Spec`.

### Services (`ServicesProofs`)

* `TokenSharedAlways` and `ApiTypeCorrect`: for any number of calls
  no two logins are on the wire and no call is retried with the token it was refused
  with. The invariant says that a login is on the wire exactly while `loginInFlight` is
  set, which is exactly while some call waits; and that the token a call was refused with
  (`CallFits`) has left the cache for good, so that the one it gets next is another.
* `RequestsSeenOnce` and `IntakeTypeCorrect`: `IntakeSpec => []SeenOnce`. What was noticed
  has an opening time; with one handling at a time (`oneDesk`) it is the first one, and what
  an admin read of it still stands (`IntakeInv`).
* `ServicesTypeCorrect`: `Spec => []ServicesTypeOK`, for `MCServices`' `Spec`.

The run compares the calculations with what they promise on samples (`SumsRight`). These
theorems say the same of every input:

| Theorem | For every | Argument |
|---|---|---|
| `SplitAlwaysExact` | total, list of weights, fallback of the same length, set of shares the floats leave short | a share is a quotient, or a paisa less where the quotient is whole (`FlooredFits`); shares of any lines together are at most the total (`SharesFit`: multiplied by the sum of the weights, they are below what they were divided from, term by term), so the last line's rest is not negative |
| `UnitPricesAlwaysFit` | total, weights, quantities of one or more, set of prices the floats leave short | what rounding down leaves is not negative for the same reason; a rest that a quantity divides goes into its line exactly (`RoundedIs`), and one line of one unit always takes it |
| `KitsAlwaysBuildable` | list of items with a quantity of one or more, stock below nothing included | the quotient is the greatest number whose multiple is not above (`DivMost`), and one of finitely many items has the least (`HasLeast`) |
| `StockLastsAlways`, `SuggestionsAlwaysEnough` | stock and list of dispatched orders | an order of the week is one of the four weeks (`DispatchCounts`), and the pace in hundredths loses nothing to rounding: 28 divides 700 (`PaceIs`) |
| `UrgencyAlwaysAnOrder` | three products | by cases |
| `RangeAlwaysIndian` | query, with or without its dates, and instant | linear arithmetic |
| `WindowsAlwaysClose` | instant and clock: length of a day and a week, offset, cut-offs | an instant is one day and one hour (`ClockReads`, `ClockSet`), days in order are a day apart (`DaysApart`); so the last cut-off is in the week before and none is after it (`DigestClosesOnLatest`, `WeeklyClosesOnLatest`) |
| `BucketsAlwaysCover` | range, granularity and calendar with the months of the range (`CalendarHas`) | a day's bucket is the last that begins by then, the next bucket the first that begins after (`BucketIs`, `NextIs`); the list from a bucket on holds those up to the end of the range in order (`ListHolds`) |

The list of the buckets is a recursive function of an integer, which may have no value at
all. That this one has is shown first (`ListExists`): the function for the last k days is
unique (`ListsAgree`) and exists (`PartExists`), and together these functions are the whole.
Both are shown by the smallest counterexample, as with sums: of the numbers of days
without a list there would be a least, and of the buckets with a wrong list a last.
`SumsAlwaysRight` concludes `Spec => []SumsRight`, if `CalendarHas(0, 102)`, as it does for
the calendar of the run (`RunHasCalendar`).

### Assumptions, and what is only model-checked

Assumptions are the modules' `ASSUME`s only: ids differ from the "none" values, the sets
that are counted or summed over (requests, guessers, visits, lines, scans, orders of a
tribe) are finite, the sets something is chosen from are not empty, bounds are naturals.
Hypotheses of single theorems are named above: `Guarded`, `Serial`, `Orderly`, `Quiet`,
`PlainScans`, `FirstEver = {FALSE}` and `1 \in AtOnce`; the runs of section 3 satisfy each.

The theorems about calculations assume of their inputs what the code ensures: a price is
split over a line at least (the code returns at once when there is none), quantities are
one or more (the DTOs ask for it and `allocateUnitPrices` sees to it again), a fallback has
as many entries as the weights (both are read off the same lines), a range does not end
before it begins (`resolveRange` refuses it), and the calendar has the months it meets.

Only model-checked: the two liveness properties, `ShelfRestored` and `CallsEnd`, which are
out of the prover's reach. The two properties of section 3 that a run finds violated are false
of the code, so no theorem speaks of them.

## 5. Not modelled

* What only reads: duplicate detection, earlier claims of a customer, listings, stats,
  the aggregations of analytics and of the restock forecast (run by the database; their
  results are inputs of `StockHealth` and `AnalyticsRange`).
* What only formats or calls out: WhatsApp templates, quick messages and media, cost
  tables, the wording of reports, tracking pages, mail, public uploads, the parsing and
  authentication of webhook bodies. A call to Meta, India Post or the object store is a
  step that succeeds or fails.
* Single-document writes without an invariant across documents: the catalog, the other
  fields of a product, shop pages, settings of the inbox.
* Stateless checks in front of the handlers (pipes, filters, guards), configuration and
  deployment.
* Delivery receipts of sent messages: the code only logs them.

What would come next: the orders' other reads as calculations (prices of an order's lines,
duplicate detection).
