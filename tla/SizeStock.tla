------------------------------ MODULE SizeStock ------------------------------
(***************************************************************************)
(* The stock of one sized product: a total, a bucket per size that has     *)
(* been used, and Unassigned for the rest.  Orders move it (moveStock),    *)
(* the admin adds and removes by hand and enters counts, each over several *)
(* round trips, and what is done by hand is logged afterwards.             *)
(***************************************************************************)
EXTENDS Integers, Sequences, FiniteSets, Functions

CONSTANTS
    Sizes,        \* the sizes the product offers
    Unassigned,   \* the label of stock in no size
    Requests,     \* requests that touch the stock
    Counts,       \* what the admin may count in a bucket
    StockDeaths,  \* bound on the requests that die half way
    Serial        \* values of alone

Buckets == Sizes \cup {Unassigned}

ASSUME StockAssumption ==
    /\ Unassigned \notin Sizes /\ Counts \subseteq Int /\ IsFiniteSet(Requests)
    /\ StockDeaths \in Nat /\ Serial \subseteq BOOLEAN

VARIABLES
    stockLevel,  \* the total
    sizeStock,   \* the buckets of the sizes, as a sequence of [size, qty]
    version,     \* updatedAt
    request,     \* request[r]: [pc, op, size, attempt, saw, version, current, given]
    logs,        \* logs[b]: the sum of the InventoryLog entries of bucket b
    book,        \* book[b]: what b should hold after every movement that ended
    byHand,      \* byHand[b]: what the admin changed b by
    alone,       \* whether a request waits for the one before it to end
    stockDied    \* requests that died

stockVars == <<stockLevel, sizeStock, version, request, logs, book, byHand, alone, stockDied>>

Zero == [b \in Buckets |-> 0]
NoRequest == [pc |-> "idle", op |-> "none", size |-> Unassigned, attempt |-> 0,
              saw |-> Zero, version |-> 0, current |-> << >>, given |-> << >>]

Named(s) == {i \in DOMAIN sizeStock : sizeStock[i].size = s}
unassignedOf(total, rows) ==
    total - SumFunctionOnSet([i \in DOMAIN rows |-> rows[i].qty], DOMAIN rows)
QtyIn(rows, s) ==
    LET at == {i \in DOMAIN rows : rows[i].size = s}
    IN  IF at = {} THEN 0 ELSE rows[CHOOSE i \in at : \A j \in at : i <= j].qty
Available(total, rows, b) ==
    IF b = Unassigned THEN unassignedOf(total, rows) ELSE QtyIn(rows, b)

StockTypeOK ==
    /\ stockLevel \in Int /\ version \in Nat
    /\ \A i \in DOMAIN sizeStock : sizeStock[i].size \in Sizes /\ sizeStock[i].qty \in Int
    /\ \A r \in Requests :
         /\ request[r].pc \in {"idle", "check", "move", "push", "page", "count", "log", "done", "refused"}
         /\ request[r].size \in Buckets
    /\ DOMAIN logs = Buckets /\ DOMAIN book = Buckets /\ DOMAIN byHand = Buckets

StockInit ==
    /\ stockLevel = 1 /\ sizeStock = << >> /\ version = 0
    /\ request = [r \in Requests |-> NoRequest]
    /\ logs = Zero /\ byHand = Zero
    /\ book = [Zero EXCEPT ![Unassigned] = 1]
    /\ alone \in Serial /\ stockDied = 0

\* Faulty variant: a size that gets its bucket meanwhile is not tried again.
ONE_ATTEMPT == 1
MOVE_ATTEMPTS == 3

Ready(r) ==
    /\ request[r].pc = "idle"
    /\ alone => \A q \in Requests : request[q].pc \in {"idle", "done", "refused"}
Delta(r) == IF request[r].op \in {"order", "remove"} THEN -1 ELSE 1
IsByHand(r) == request[r].op \in {"add", "remove"}

-----------------------------------------------------------------------------
\* An order takes a unit or puts one back; the admin adds or removes one.
Start(r) ==
    /\ Ready(r)
    /\ \E op \in {"order", "putBack", "add", "remove"}, b \in Buckets :
         request' = [request EXCEPT ![r] =
            [NoRequest EXCEPT !.op = op, !.size = b,
                !.pc = IF op \in {"add", "remove"} THEN "check" ELSE "move"]]
    /\ UNCHANGED <<stockLevel, sizeStock, version, logs, book, byHand, alone, stockDied>>

\* Faulty variant: the total is looked at, whatever the size.
CheckTotal(r) ==
    LET q == request[r]
        short == q.op = "remove" /\ stockLevel < 1
    IN  /\ q.pc = "check"
        /\ request' = [request EXCEPT ![r].pc = IF short THEN "refused" ELSE "move"]
        /\ UNCHANGED <<stockLevel, sizeStock, version, logs, book, byHand, alone, stockDied>>

\* A unit is removed by hand only from where there is one.
CheckAvailable(r) ==
    LET q == request[r]
        short == q.op = "remove" /\ Available(stockLevel, sizeStock, q.size) < 1
    IN  /\ q.pc = "check"
        /\ request' = [request EXCEPT ![r].pc = IF short THEN "refused" ELSE "move"]
        /\ UNCHANGED <<stockLevel, sizeStock, version, logs, book, byHand, alone, stockDied>>

\* The movement has landed: moveStock returns.
Landed(r) ==
    LET b == request[r].size
    IN  /\ version' = version + 1
        /\ book' = [book EXCEPT ![b] = @ + Delta(r)]
        /\ byHand' = IF IsByHand(r) THEN [byHand EXCEPT ![b] = @ + Delta(r)] ELSE byHand
        /\ request' = [request EXCEPT ![r].pc = IF IsByHand(r) THEN "log" ELSE "done"]
        /\ UNCHANGED <<logs, alone, stockDied>>

\* Faulty variant: Unassigned is looked for among the buckets.
IncrementAnyBucket(r) ==
    /\ request[r].pc = "move"
    /\ request' = [request EXCEPT ![r].pc = "push"]
    /\ Named(request[r].size) = {}
    /\ UNCHANGED <<stockLevel, sizeStock, version, logs, book, byHand, alone, stockDied>>

\* One atomic update moves the bucket and the total; with no size, the total
\* only; a size without a bucket has to get one.
IncrementBucket(r) ==
    LET b == request[r].size
    IN  /\ request[r].pc = "move"
        /\ \/ /\ b = Unassigned
              /\ stockLevel' = stockLevel + Delta(r)
              /\ Landed(r) /\ UNCHANGED sizeStock
           \/ /\ b # Unassigned /\ Named(b) # {}
              /\ stockLevel' = stockLevel + Delta(r)
              /\ \E i \in Named(b) :
                   /\ \A j \in Named(b) : i <= j
                   /\ sizeStock' = [sizeStock EXCEPT ![i].qty = @ + Delta(r)]
              /\ Landed(r)
           \/ /\ b # Unassigned /\ Named(b) = {}
              /\ request' = [request EXCEPT ![r].pc = "push"]
              /\ UNCHANGED <<stockLevel, sizeStock, version, logs, book, byHand, alone, stockDied>>

Push(r) ==
    /\ stockLevel' = stockLevel + Delta(r)
    /\ sizeStock' = Append(sizeStock, [size |-> request[r].size, qty |-> Delta(r)])
    /\ Landed(r)

\* Faulty variant: the bucket is pushed without looking whether there is one.
PushAnyway(r) == request[r].pc = "push" /\ Push(r)

\* The first movement of a size pushes its bucket, unless another one did
\* since; it then tries again, three times at most.
PushBucket(r) ==
    /\ request[r].pc = "push"
    /\ \/ Named(request[r].size) = {} /\ Push(r)
       \/ /\ Named(request[r].size) # {}
          /\ request' = [request EXCEPT ![r].attempt = @ + 1,
                ![r].pc = IF request[r].attempt + 1 < MOVE_ATTEMPTS THEN "move" ELSE "refused"]
          /\ UNCHANGED <<stockLevel, sizeStock, version, logs, book, byHand, alone, stockDied>>

LogAdjustment(r) ==
    /\ request[r].pc = "log" /\ IsByHand(r)
    /\ logs' = [logs EXCEPT ![request[r].size] = @ + Delta(r)]
    /\ request' = [request EXCEPT ![r].pc = "done"]
    /\ UNCHANGED <<stockLevel, sizeStock, version, book, byHand, alone, stockDied>>

-----------------------------------------------------------------------------
\* The admin opens the page, and enters what the shelf holds of a size and
\* outside every size.
OpenPage(r) ==
    /\ Ready(r)
    /\ \E s \in Sizes, n \in Counts, u \in Counts :
         request' = [request EXCEPT ![r] =
            [NoRequest EXCEPT !.pc = "page", !.op = "count", !.size = s, !.saw = book,
                !.version = version, !.given = <<n, u>>]]
    /\ UNCHANGED <<stockLevel, sizeStock, version, logs, book, byHand, alone, stockDied>>

\* The counts arrive; the product is read.
ReadForCount(r) ==
    /\ request[r].pc = "page"
    /\ request' = [request EXCEPT ![r].pc = "count",
          ![r].current = [rows |-> sizeStock, total |-> stockLevel]]
    /\ UNCHANGED <<stockLevel, sizeStock, version, logs, book, byHand, alone, stockDied>>

\* The buckets with size s set to n: its own bucket, or one added at the end.
WithCount(rows, s, n) ==
    IF \E i \in DOMAIN rows : rows[i].size = s
    THEN [i \in DOMAIN rows |-> IF rows[i].size = s THEN [rows[i] EXCEPT !.qty = n] ELSE rows[i]]
    ELSE Append(rows, [size |-> s, qty |-> n])

Write(r) ==
    LET q == request[r]
        rows == WithCount(q.current.rows, q.size, q.given[1])
        counted == [book EXCEPT ![q.size] = q.given[1], ![Unassigned] = q.given[2]]
    IN  /\ sizeStock' = rows
        /\ stockLevel' = q.given[2] - unassignedOf(0, rows)
        /\ version' = version + 1
        /\ byHand' = [b \in Buckets |-> byHand[b] + counted[b] - book[b]]
        /\ book' = [b \in Buckets |->
              IF b \in {q.size, Unassigned} THEN counted[b] + book[b] - q.saw[b] ELSE book[b]]
        /\ request' = [request EXCEPT ![r].pc = "log"]
        /\ UNCHANGED <<logs, alone, stockDied>>

\* Faulty variant: the counts are written whatever happened since.
WriteAnyway(r) == request[r].pc = "count" /\ Write(r)

\* The counts are written only to the version the admin was looking at.
WriteCount(r) ==
    /\ request[r].pc = "count"
    /\ \/ request[r].version = version /\ Write(r)
       \/ /\ request[r].version # version
          /\ request' = [request EXCEPT ![r].pc = "refused"]
          /\ UNCHANGED <<stockLevel, sizeStock, version, logs, book, byHand, alone, stockDied>>

\* Faulty variant: the count is logged, not the change.
LogFigures(r) ==
    LET q == request[r]
    IN  /\ q.pc = "log" /\ q.op = "count"
        /\ logs' = [logs EXCEPT ![q.size] = @ + q.given[1], ![Unassigned] = @ + q.given[2]]
        /\ request' = [request EXCEPT ![r].pc = "done"]
        /\ UNCHANGED <<stockLevel, sizeStock, version, book, byHand, alone, stockDied>>

\* Every bucket the count changed is logged with the difference to what was read.
LogCount(r) ==
    LET q == request[r]
        was(b) == Available(q.current.total, q.current.rows, b)
    IN  /\ q.pc = "log" /\ q.op = "count"
        /\ logs' = [logs EXCEPT ![q.size] = @ + q.given[1] - was(q.size),
                                ![Unassigned] = @ + q.given[2] - was(Unassigned)]
        /\ request' = [request EXCEPT ![r].pc = "done"]
        /\ UNCHANGED <<stockLevel, sizeStock, version, book, byHand, alone, stockDied>>

\* The server goes down in the middle of a request.
RequestDies(r) ==
    /\ request[r].pc \notin {"idle", "done", "refused"} /\ stockDied < StockDeaths
    /\ request' = [request EXCEPT ![r].pc = "refused"]
    /\ stockDied' = stockDied + 1
    /\ UNCHANGED <<stockLevel, sizeStock, version, logs, book, byHand, alone>>

StockNext ==
    \E r \in Requests :
        \/ Start(r) \/ CheckAvailable(r) \/ IncrementBucket(r) \/ PushBucket(r) \/ LogAdjustment(r)
        \/ OpenPage(r) \/ ReadForCount(r) \/ WriteCount(r) \/ LogCount(r)
        \/ RequestDies(r)

StockSpec == StockInit /\ [][StockNext]_stockVars

-----------------------------------------------------------------------------
\* Every movement that returned is in its bucket once, the total is the sum,
\* and no count wiped out a movement the admin had not seen (moveStock,
\* setSizeStock).
StockFitsMoves ==
    /\ \A s \in Sizes : QtyIn(sizeStock, s) = book[s]
    /\ unassignedOf(stockLevel, sizeStock) = book[Unassigned]

\* What was changed by hand is what the log says, bucket by bucket, once no
\* entry is on its way and as long as no request died (adjustInventory,
\* setSizeStock).
LogExplainsHand ==
    (stockDied = 0 /\ \A r \in Requests : request[r].pc # "log") => logs = byHand

\* Three attempts are enough: no movement is given up (moveStock).
MoveNeverGivesUp == \A r \in Requests : request[r].attempt < MOVE_ATTEMPTS

\* "a manual removal can't take a size (or Unassigned) below zero": it holds
\* when requests come one at a time (adjustInventory).
RemovalHadStock ==
    \A r \in Requests :
        alone /\ request[r].op = "remove" /\ request[r].pc # "log" /\ request'[r].pc = "log"
            => Available(stockLevel', sizeStock', request[r].size) >= 0

\* The level is the sum of what happened to it, the log says what people did,
\* no move of stock is given up, and no hand takes what is not there.
StockExplained ==
    [][(StockFitsMoves /\ LogExplainsHand /\ MoveNeverGivesUp)' /\ RemovalHadStock]_stockVars
=============================================================================
