---------------------------- MODULE OrdersProofs ----------------------------
(***************************************************************************)
(* Proofs about module Orders, for any number of orders, requests and      *)
(* lines.                                                                  *)
(***************************************************************************)
EXTENDS Orders, FiniteSetTheorems, TLAPS

-----------------------------------------------------------------------------
(***************************************************************************)
(* Types.                                                                  *)
(***************************************************************************)

LEMMA NoDocType == NoDoc \in Doc
  BY DEF NoDoc, Doc, Status, OrderType, Approval

LEMMA IdleType == Idle \in Request
  BY NoDocType DEF Idle, Request, Op, Pc, Status

LEMMA JobType ==
  ASSUME NEW op \in Op, NEW pc \in Pc, NEW o \in Orders
  PROVE  Job(op, pc, o) \in Request
  BY IdleType DEF Job, Request

LEMMA AfterTakeType ==
  ASSUME NEW q \in Request
  PROVE  AfterTake(q) \in Request
  BY IdleType DEF AfterTake, Request, Pc

LEMMA AfterRestockType ==
  ASSUME NEW q \in Request
  PROVE  AfterRestock(q) \in Request
  BY IdleType DEF AfterRestock, Request, Pc

LEMMA PutBackType ==
  ASSUME NEW q \in Request, NEW lines \in SUBSET Lines
  PROVE  PutBack(q, lines) \in Request
  <1>1. [q EXCEPT !.left = {}] \in Request
    BY DEF Request
  <1>2. [q EXCEPT !.pc = "restock", !.left = lines] \in Request
    BY DEF Request, Pc
  <1>3. QED
    BY <1>1, <1>2, AfterRestockType DEF PutBack

LEMMA JobDocType ==
  ASSUME NEW op \in Op, NEW pc \in Pc, NEW o \in Orders, NEW d \in Doc,
         NEW s \in Status
  PROVE  /\ [Job(op, pc, o) EXCEPT !.doc = d] \in Request
         /\ [Job(op, pc, o) EXCEPT !.doc = d, !.status = s] \in Request
         /\ [Job(op, pc, o) EXCEPT !.doc = d, !.left = Lines] \in Request
  <1> DEFINE j == Job(op, pc, o)
  <1>1. j \in Request
    BY JobType
  <1> HIDE DEF j
  <1>2. /\ [j EXCEPT !.doc = d] \in Request
        /\ [j EXCEPT !.doc = d, !.status = s] \in Request
        /\ [j EXCEPT !.doc = d, !.left = Lines] \in Request
    BY <1>1 DEF Request
  <1>3. QED
    BY <1>2 DEF j

LEMMA RewindType ==
  ASSUME NEW q \in Request
  PROVE  [q EXCEPT !.pc = "rewind"] \in Request
  BY DEF Request, Pc

LEMMA ReverseType ==
  ASSUME NEW q \in Request, NEW n \in Int
  PROVE  [q EXCEPT !.sum = n, !.pc = "reverse"] \in Request
  BY DEF Request, Pc

\* The updates of one field of one stored document.
LEMMA StoreType ==
  ASSUME TypeOK, NEW p \in Orders, NEW s \in Status
  PROVE  /\ [order EXCEPT ![p].status = s] \in [Orders -> Doc]
         /\ [order EXCEPT ![p].to = None] \in [Orders -> Doc]
         /\ [order EXCEPT ![p].approval = "PENDING"] \in [Orders -> Doc]
  <1>1. order[p] \in Doc
    BY DEF TypeOK
  <1>2. /\ [order[p] EXCEPT !.status = s] \in Doc
        /\ [order[p] EXCEPT !.to = None] \in Doc
        /\ [order[p] EXCEPT !.approval = "PENDING"] \in Doc
    BY <1>1 DEF Doc, Approval
  <1>3. QED
    BY <1>2 DEF TypeOK

\* A request that goes on with a well-typed job, everything else typed.
LEMMA ReqType ==
  ASSUME TypeOK, NEW r \in Requests, NEW q \in Request,
         req' = [req EXCEPT ![r] = q]
  PROVE  req' \in [Requests -> Request]
  BY DEF TypeOK

LEMMA InitType == Init => TypeOK
  BY NoDocType, IdleType DEF Init, TypeOK

LEMMA StartType ==
  ASSUME TypeOK, NEW r \in Requests, Arrive(r)
  PROVE  TypeOK'
  <1> PICK o \in Orders :
        \/ \E t \in OrderType, e \in BOOLEAN : Create(r, o, t, e)
        \/ \E s \in Status, skip \in BOOLEAN : ReadForStatus(r, o, s, skip)
        \/ Approve(r, o) \/ Reject(r, o) \/ Delete(r, o) \/ Restore(r, o)
        \/ MarkReturned(r, o) \/ ReadForRevert(r, o)
        \/ \E n \in Orders : Reorder(r, o, n)
    BY DEF Arrive
  <1>0. order[o] \in Doc
    BY DEF TypeOK
  <1>1. ASSUME NEW t \in OrderType, NEW e \in BOOLEAN, Create(r, o, t, e)
        PROVE  TypeOK'
    <2> DEFINE d == [NoDoc EXCEPT !.status = "NEW", !.type = t, !.earns = e,
                       !.approval = IF t = "WELCOME_KIT" THEN "PENDING" ELSE "NULL"]
    <2>1. d \in Doc
      BY DEF NoDoc, Doc, Status, OrderType, Approval
    <2> HIDE DEF d
    <2>2. [Job("create", "take", o) EXCEPT !.doc = d, !.left = Lines] \in Request
      BY ZenonT(60), <2>1, JobDocType DEF Op, Pc, Status
    <2>3. QED
      BY <1>1, <2>2, ReqType DEF Create, TypeOK, d
  <1>2. ASSUME NEW s \in Status, NEW skip \in BOOLEAN, ReadForStatus(r, o, s, skip)
        PROVE  TypeOK'
    <2>1. [Job("status", "cas", o) EXCEPT !.doc = order[o], !.status = s] \in Request
      BY <1>0, JobDocType DEF Op, Pc
    <2>2. QED
      BY <1>2, <2>1, ReqType DEF ReadForStatus, TypeOK
  <1>3. CASE Approve(r, o)
    <2>1. order' \in [Orders -> Doc]
      BY <1>0, <1>3 DEF Approve, TypeOK, Doc, Approval
    <2>2. (IF order[o].earns THEN Job("approve", "credit", o) ELSE Idle) \in Request
      BY IdleType, JobType DEF Op, Pc
    <2>3. QED
      BY <1>3, <2>1, <2>2, ReqType DEF Approve, TypeOK
  <1>4. CASE Reject(r, o)
    <2>1. order' \in [Orders -> Doc]
      BY <1>0, <1>4 DEF Reject, TypeOK, Doc, Approval, Status
    <2>2. [Job("reject", "restock", o) EXCEPT !.left = Lines] \in Request
      BY JobType DEF Op, Pc, Request
    <2>3. QED
      BY <1>4, <2>1, <2>2, ReqType DEF Reject, TypeOK
  <1>5. CASE Delete(r, o)
    <2>1. order' \in [Orders -> Doc]
      BY <1>0, <1>5 DEF Delete, TypeOK, Doc
    <2>2. [Job("delete", "restock", o) EXCEPT !.left = Lines] \in Request
      BY JobType DEF Op, Pc, Request
    <2>3. Job("delete", "sum", o) \in Request
      BY JobType DEF Op, Pc
    <2>4. QED
      BY <1>5, <2>1, <2>2, <2>3, ReqType DEF Delete, TypeOK
  <1>6. CASE Restore(r, o)
    <2> DEFINE q == [Job("restore", "take", o) EXCEPT !.doc = order[o]]
    <2>1. order' \in [Orders -> Doc]
      BY <1>0, <1>6 DEF Restore, TypeOK, Doc
    <2>2. q \in Request
      BY <1>0, JobType DEF Op, Pc, Request
    <2>3. [q EXCEPT !.left = Lines] \in Request
      BY <2>2 DEF Request
    <2>4. AfterTake(q) \in Request
      BY <2>2, AfterTakeType
    <2> HIDE DEF q
    <2>5. QED
      BY <1>6, <2>1, <2>3, <2>4, ReqType DEF Restore, TypeOK, q
  <1>7. CASE MarkReturned(r, o)
    <2>1. order' \in [Orders -> Doc]
      BY <1>0, <1>7 DEF MarkReturned, TypeOK, Doc, Status
    <2>2. [Job("returned", "restock", o) EXCEPT !.left = Lines] \in Request
      BY JobType DEF Op, Pc, Request
    <2>3. QED
      BY <1>7, <2>1, <2>2, ReqType DEF MarkReturned, TypeOK
  <1>8. CASE ReadForRevert(r, o)
    <2> DEFINE q == [Job("revert", "rewind", o) EXCEPT !.doc = order[o]]
    <2>1. q \in Request
      BY <1>0, JobType DEF Op, Pc, Request
    <2>2. [q EXCEPT !.pc = "sum"] \in Request
      BY <2>1 DEF Request, Pc
    <2> HIDE DEF q
    <2>3. QED
      BY <1>8, <2>1, <2>2, ReqType DEF ReadForRevert, TypeOK, q
  <1>9. ASSUME NEW n \in Orders, Reorder(r, o, n)
        PROVE  TypeOK'
    <2>1. order' \in [Orders -> Doc]
      BY <1>0, <1>9 DEF Reorder, TypeOK, Doc
    <2> DEFINE d == [NoDoc EXCEPT !.status = "NEW", !.type = order[o].type,
                       !.approval = order[o].approval, !.from = o]
    <2>2. d \in Doc
      BY <1>0 DEF NoDoc, Doc, Status
    <2> HIDE DEF d
    <2>3. [Job("reorder", "take", n) EXCEPT !.doc = d, !.left = Lines] \in Request
      BY ZenonT(60), <2>2, JobDocType DEF Op, Pc, Status
    <2>4. QED
      BY <1>9, <2>1, <2>3, ReqType DEF Reorder, TypeOK, d
  <1>10. QED
    BY <1>1, <1>2, <1>3, <1>4, <1>5, <1>6, <1>7, <1>8, <1>9

LEMMA ContinueType ==
  ASSUME TypeOK, Placed, NEW r \in Requests, Continue(r)
  PROVE  TypeOK'
  <1> DEFINE o == req[r].order
  <1>a. req[r].pc # "idle"
    BY DEF Continue, TakeLine, RestockLine, Credit, SumRows, AppendReversal, Save,
           DropOrder, WriteStatus, Unlink, Rewind, At
  <1>0. req[r] \in Request /\ o \in Orders /\ order[o] \in Doc /\ net[o] \in Int
    BY <1>a DEF TypeOK, Placed, PlacedAt
  <1>1. ASSUME NEW l \in Lines, TakeLine(r, l)
        PROVE  TypeOK'
    <2> DEFINE q == [req[r] EXCEPT !.left = @ \ {l}]
    <2>1. q \in Request
      BY <1>0 DEF Request
    <2>2. AfterTake(q) \in Request
      BY <2>1, AfterTakeType
    <2>3. taken' \in [Orders -> [Lines -> Int]]
      BY <1>0, <1>1 DEF TakeLine, TypeOK
    <2> HIDE DEF q
    <2>4. QED
      BY <1>1, <2>1, <2>2, <2>3, ReqType DEF TakeLine, TypeOK, q
  <1>2. ASSUME NEW l \in Lines, RestockLine(r, l)
        PROVE  TypeOK'
    <2> DEFINE q == [req[r] EXCEPT !.left = @ \ {l}]
    <2>1. q \in Request
      BY <1>0 DEF Request
    <2>2. AfterRestock(q) \in Request
      BY <2>1, AfterRestockType
    <2>3. taken' \in [Orders -> [Lines -> Int]]
      BY <1>0, <1>2 DEF RestockLine, TypeOK
    <2> HIDE DEF q
    <2>4. QED
      BY <1>2, <2>1, <2>2, <2>3, ReqType DEF RestockLine, TypeOK, q
  <1>3. CASE Credit(r)
    BY <1>0, <1>3, IdleType, ReqType DEF Credit, TypeOK
  <1>4. CASE SumRows(r)
    <2> DEFINE q == [req[r] EXCEPT !.sum = net[req[r].order], !.pc = "reverse"]
    <2>1. q \in Request
      BY <1>0, ReverseType
    <2>a. [q EXCEPT !.pc = "rewind"] \in Request
      BY <2>1, RewindType
    <2> HIDE DEF q
    <2>2. QED
      BY <1>4, <2>1, <2>a, IdleType, ReqType DEF SumRows, TypeOK, q
  <1>5. CASE AppendReversal(r)
    <2>1. [req[r] EXCEPT !.pc = "rewind"] \in Request
      BY <1>0, RewindType
    <2>2. req[r].sum \in Int
      BY <1>0 DEF Request
    <2>3. net' \in [Orders -> Int]
      BY <1>0, <1>5, <2>2 DEF AppendReversal, TypeOK
    <2>4. QED
      BY <1>5, <2>1, <2>3, IdleType, ReqType DEF AppendReversal, TypeOK
  <1>6. CASE Save(r)
    <2>1. [req[r] EXCEPT !.pc = "credit"] \in Request
      BY <1>0 DEF Request, Pc
    <2>2. req[r].doc \in Doc
      BY <1>0 DEF Request
    <2>3. order' \in [Orders -> Doc]
      BY <1>6, <2>2 DEF Save, TypeOK
    <2>4. QED
      BY <1>6, <2>1, <2>3, IdleType, ReqType DEF Save, TypeOK
  <1>7. CASE DropOrder(r)
    <2>1. PutBack(req[r], Lines) \in Request
      BY <1>0, PutBackType
    <2>2. order' \in [Orders -> Doc]
      BY <1>7, NoDocType DEF DropOrder, TypeOK
    <2>3. crashes' \in Nat
      BY <1>7 DEF DropOrder, TypeOK
    <2>4. QED
      BY <1>7, <2>1, <2>2, <2>3, ReqType DEF DropOrder, TypeOK
  <1>8. CASE WriteStatus(r)
    <2> DEFINE q == [Job("cancel", "restock", o) EXCEPT !.left = Lines]
    <2>1. q \in Request
      BY <1>0, JobType DEF Op, Pc, Request
    <2>2. req[r].status \in Status
      BY <1>0 DEF Request
    <2>3. order' \in [Orders -> Doc]
      <3>1. order' = order \/ order' = [order EXCEPT ![o].status = req[r].status]
        BY <1>8 DEF WriteStatus
      <3>2. [order EXCEPT ![o].status = req[r].status] \in [Orders -> Doc]
        BY <1>0, <2>2, StoreType
      <3>3. QED
        BY <3>1, <3>2 DEF TypeOK
    <2> HIDE DEF q
    <2>4. req' = [req EXCEPT ![r] = q] \/ req' = [req EXCEPT ![r] = Idle]
      BY <1>8 DEF WriteStatus, q
    <2>5. QED
      BY <1>8, <2>1, <2>3, <2>4, IdleType, ReqType DEF WriteStatus, TypeOK
  <1>9. CASE Unlink(r)
    <2>1. req[r].doc.from \in Orders
      BY <1>9 DEF Unlink, At, Placed, PlacedAt
    <2>2. order' \in [Orders -> Doc]
      BY <1>9, <2>1, StoreType DEF Unlink, TypeOK, Status
    <2>3. QED
      BY <1>9, <2>2, IdleType, ReqType DEF Unlink, TypeOK
  <1>10. CASE Rewind(r)
    <2>1. order' \in [Orders -> Doc]
      BY <1>0, <1>10, StoreType DEF Rewind, TypeOK, Status
    <2>2. QED
      BY <1>10, <2>1, IdleType, ReqType DEF Rewind, TypeOK
  <1>11. QED
    BY <1>1, <1>2, <1>3, <1>4, <1>5, <1>6, <1>7, <1>8, <1>9, <1>10 DEF Continue

LEMMA WriteFailsType ==
  ASSUME TypeOK, NEW r \in Requests, WriteFails(r)
  PROVE  TypeOK'
  <1>0. req[r] \in Request
    BY DEF TypeOK
  <1>1. KnownTaken(req[r]) \in SUBSET Lines
    BY DEF KnownTaken
  <1>2. PutBack(req[r], KnownTaken(req[r])) \in Request
    BY <1>0, <1>1, PutBackType
  <1>3. [req[r] EXCEPT !.pc = "drop"] \in Request
    BY <1>0 DEF Request, Pc
  <1>4. QED
    BY <1>2, <1>3, ReqType DEF WriteFails, TypeOK

LEMMA CrashType ==
  ASSUME TypeOK, NEW r \in Requests, Crash(r)
  PROVE  TypeOK'
  BY IdleType, ReqType DEF Crash, TypeOK

-----------------------------------------------------------------------------
(***************************************************************************)
(* Every request under way has its order: what makes TypeOK inductive.     *)
(***************************************************************************)

LEMMA PlacedStep ==
  ASSUME TypeOK, Placed, NEW r \in Requests, NEW q, PlacedAt(q),
         req' = [req EXCEPT ![r] = q]
  PROVE  Placed'
  BY DEF TypeOK, Placed

LEMMA IdlePlaced == PlacedAt(Idle)
  BY DEF Idle, PlacedAt

LEMMA JobPlaced ==
  ASSUME NEW op \in Op \ {"reorder"}, NEW pc \in Pc \ {"unlink"}, NEW o \in Orders,
         NEW d, NEW s, NEW left
  PROVE  /\ PlacedAt(Job(op, pc, o))
         /\ PlacedAt([Job(op, pc, o) EXCEPT !.doc = d])
         /\ PlacedAt([Job(op, pc, o) EXCEPT !.left = left])
         /\ PlacedAt([Job(op, pc, o) EXCEPT !.doc = d, !.left = left])
         /\ PlacedAt([Job(op, pc, o) EXCEPT !.doc = d, !.status = s])
  BY DEF PlacedAt, Job, Idle

LEMMA AfterPlaced ==
  ASSUME NEW q \in Request, PlacedAt(q), q.pc \notin {"idle", "unlink"},
         NEW lines \in SUBSET Lines
  PROVE  /\ PlacedAt(AfterTake(q))
         /\ PlacedAt(AfterRestock(q))
         /\ PlacedAt(PutBack(q, lines))
  <1>1. PlacedAt(AfterTake(q)) /\ PlacedAt(AfterRestock(q))
    BY IdlePlaced DEF AfterTake, AfterRestock, PlacedAt, Request
  <1>2. PlacedAt(AfterRestock([q EXCEPT !.left = {}]))
    BY IdlePlaced DEF AfterRestock, PlacedAt, Request
  <1>3. PlacedAt([q EXCEPT !.pc = "restock", !.left = lines])
    BY DEF PlacedAt, Request
  <1>4. QED
    BY <1>1, <1>2, <1>3 DEF PutBack

LEMMA ArrivePlaced ==
  ASSUME TypeOK, Placed, NEW r \in Requests, Arrive(r)
  PROVE  Placed'
  <1> PICK o \in Orders :
        \/ \E t \in OrderType, e \in BOOLEAN : Create(r, o, t, e)
        \/ \E s \in Status, skip \in BOOLEAN : ReadForStatus(r, o, s, skip)
        \/ Approve(r, o) \/ Reject(r, o) \/ Delete(r, o) \/ Restore(r, o)
        \/ MarkReturned(r, o) \/ ReadForRevert(r, o)
        \/ \E n \in Orders : Reorder(r, o, n)
    BY DEF Arrive
  <1> USE DEF Op, Pc
  <1>1. ASSUME NEW t \in OrderType, NEW e \in BOOLEAN, Create(r, o, t, e)
        PROVE  Placed'
    <2> DEFINE d == [NoDoc EXCEPT !.status = "NEW", !.type = t, !.earns = e,
                       !.approval = IF t = "WELCOME_KIT" THEN "PENDING" ELSE "NULL"]
               q == [Job("create", "take", o) EXCEPT !.doc = d, !.left = Lines]
    <2>1. req' = [req EXCEPT ![r] = q]
      BY <1>1 DEF Create
    <2>2. PlacedAt(q)
      BY JobPlaced
    <2> HIDE DEF q
    <2>3. QED
      BY <2>1, <2>2, PlacedStep
  <1>2. ASSUME NEW s \in Status, NEW skip \in BOOLEAN, ReadForStatus(r, o, s, skip)
        PROVE  Placed'
    BY <1>2, JobPlaced, PlacedStep DEF ReadForStatus
  <1>3. CASE Approve(r, o)
    BY <1>3, IdlePlaced, JobPlaced, PlacedStep DEF Approve
  <1>4. CASE Reject(r, o)
    BY <1>4, JobPlaced, PlacedStep DEF Reject
  <1>5. CASE Delete(r, o)
    <2> DEFINE q == [Job("delete", "restock", o) EXCEPT !.left = Lines]
    <2>1. PlacedAt(q) /\ PlacedAt(Job("delete", "sum", o))
      BY JobPlaced
    <2> HIDE DEF q
    <2>2. QED
      BY <1>5, <2>1, PlacedStep DEF Delete, q
  <1>6. CASE Restore(r, o)
    <2> DEFINE q == [Job("restore", "take", o) EXCEPT !.doc = order[o]]
    <2>1. q \in Request
      BY JobDocType DEF TypeOK, Status
    <2>a. q.pc = "take"
      BY DEF Job, Idle
    <2>2. PlacedAt(q) /\ PlacedAt([q EXCEPT !.left = Lines])
      BY JobPlaced
    <2>3. PlacedAt(AfterTake(q))
      BY <2>1, <2>a, <2>2, AfterPlaced
    <2> HIDE DEF q
    <2>4. QED
      BY <1>6, <2>2, <2>3, PlacedStep DEF Restore, q
  <1>7. CASE MarkReturned(r, o)
    BY <1>7, JobPlaced, PlacedStep DEF MarkReturned
  <1>8. CASE ReadForRevert(r, o)
    <2> DEFINE q == [Job("revert", "rewind", o) EXCEPT !.doc = order[o]]
    <2>1. PlacedAt(q) /\ PlacedAt([q EXCEPT !.pc = "sum"])
      BY DEF PlacedAt, Job, Idle
    <2> HIDE DEF q
    <2>2. QED
      BY <1>8, <2>1, PlacedStep DEF ReadForRevert, q
  <1>9. ASSUME NEW n \in Orders, Reorder(r, o, n)
        PROVE  Placed'
    <2> DEFINE q == [Job("reorder", "take", n) EXCEPT
                       !.doc = [NoDoc EXCEPT !.status = "NEW", !.type = order[o].type,
                                  !.approval = order[o].approval, !.from = o],
                       !.left = Lines]
    <2>1. PlacedAt(q)
      BY DEF PlacedAt, Job, Idle, NoDoc
    <2> HIDE DEF q
    <2>2. QED
      BY <1>9, <2>1, PlacedStep DEF Reorder, q
  <1>10. QED
    BY <1>1, <1>2, <1>3, <1>4, <1>5, <1>6, <1>7, <1>8, <1>9

LEMMA ContinuePlaced ==
  ASSUME TypeOK, Placed, NEW r \in Requests,
         Continue(r) \/ WriteFails(r) \/ Crash(r)
  PROVE  Placed'
  <1>0. req[r] \in Request /\ PlacedAt(req[r])
    BY DEF TypeOK, Placed
  <1>1. ASSUME NEW l \in Lines, TakeLine(r, l) \/ RestockLine(r, l)
        PROVE  Placed'
    <2> DEFINE q == [req[r] EXCEPT !.left = @ \ {l}]
    <2>1. q \in Request /\ PlacedAt(q) /\ q.pc \notin {"idle", "unlink"}
      BY <1>0, <1>1 DEF Request, PlacedAt, TakeLine, RestockLine, At
    <2>2. PlacedAt(AfterTake(q)) /\ PlacedAt(AfterRestock(q))
      BY <2>1, AfterPlaced
    <2> HIDE DEF q
    <2>3. QED
      BY <1>1, <2>1, <2>2, PlacedStep DEF TakeLine, RestockLine, q
  <1>2. CASE Credit(r) \/ Unlink(r) \/ Rewind(r) \/ Crash(r)
    BY <1>2, IdlePlaced, PlacedStep DEF Credit, Unlink, Rewind, Crash
  <1>3. CASE SumRows(r)
    <2> DEFINE q == [req[r] EXCEPT !.sum = net[req[r].order], !.pc = "reverse"]
    <2>1. PlacedAt(q) /\ PlacedAt([q EXCEPT !.pc = "rewind"])
      BY <1>0, <1>3 DEF SumRows, At, PlacedAt, Request
    <2> HIDE DEF q
    <2>2. QED
      BY <1>3, <2>1, IdlePlaced, PlacedStep DEF SumRows, q
  <1>4. CASE AppendReversal(r)
    <2>1. PlacedAt([req[r] EXCEPT !.pc = "rewind"])
      BY <1>0, <1>4 DEF AppendReversal, At, PlacedAt, Request
    <2>2. QED
      BY <1>4, <2>1, IdlePlaced, PlacedStep DEF AppendReversal
  <1>5. CASE Save(r)
    <2>1. PlacedAt([req[r] EXCEPT !.pc = "credit"])
      BY <1>0, <1>5 DEF Save, At, PlacedAt, Request
    <2>2. QED
      BY <1>5, <2>1, IdlePlaced, PlacedStep DEF Save
  <1>6. CASE DropOrder(r)
    <2>1. PlacedAt(PutBack(req[r], Lines))
      BY <1>0, <1>6, AfterPlaced DEF DropOrder, At
    <2>2. QED
      BY <1>6, <2>1, PlacedStep DEF DropOrder
  <1>7. CASE WriteStatus(r)
    <2>1. req[r].order \in Orders
      BY <1>0, <1>7 DEF WriteStatus, At, PlacedAt
    <2>2. PlacedAt([Job("cancel", "restock", req[r].order) EXCEPT !.left = Lines])
      BY <2>1, JobPlaced DEF Op, Pc
    <2>3. QED
      BY <1>7, <2>2, IdlePlaced, PlacedStep DEF WriteStatus
  <1>8. CASE WriteFails(r)
    <2>1. req[r].op \in {"create", "reorder"} /\ req[r].pc \in {"take", "save", "credit"}
      BY <1>8, OrdersAssumption DEF WriteFails
    <2>2. KnownTaken(req[r]) \in SUBSET Lines
      BY DEF KnownTaken
    <2>3. PlacedAt(PutBack(req[r], KnownTaken(req[r])))
      BY <1>0, <2>1, <2>2, AfterPlaced
    <2>4. PlacedAt([req[r] EXCEPT !.pc = "drop"])
      BY <1>0, <2>1 DEF PlacedAt, Request
    <2>5. QED
      BY <1>8, <2>3, <2>4, PlacedStep DEF WriteFails
  <1>9. QED
    BY <1>1, <1>2, <1>3, <1>4, <1>5, <1>6, <1>7, <1>8 DEF Continue

\* The state of the model is always of its type: no handler ever stores a
\* status, approval or stock figure outside the ones the code declares.
THEOREM OrdersTyped == Spec => [](TypeOK /\ Placed)
  <1>1. Init => TypeOK /\ Placed
    BY InitType, IdlePlaced DEF Init, Placed
  <1>2. TypeOK /\ Placed /\ [Next]_vars => (TypeOK /\ Placed)'
    <2> SUFFICES ASSUME TypeOK, Placed, [Next]_vars
                 PROVE  (TypeOK /\ Placed)'
      OBVIOUS
    <2>1. ASSUME NEW r \in Requests, Arrive(r)
          PROVE  (TypeOK /\ Placed)'
      BY <2>1, StartType, ArrivePlaced
    <2>2. ASSUME NEW r \in Requests, Continue(r)
          PROVE  (TypeOK /\ Placed)'
      BY <2>2, ContinueType, ContinuePlaced
    <2>3. ASSUME NEW r \in Requests, WriteFails(r)
          PROVE  (TypeOK /\ Placed)'
      BY <2>3, WriteFailsType, ContinuePlaced
    <2>4. ASSUME NEW r \in Requests, Crash(r)
          PROVE  (TypeOK /\ Placed)'
      BY <2>4, CrashType, ContinuePlaced
    <2>5. CASE UNCHANGED vars
      BY <2>5 DEF vars, TypeOK, Placed
    <2>6. QED
      BY <2>1, <2>2, <2>3, <2>4, <2>5 DEF Next
  <1>3. QED
    BY <1>1, <1>2, PTL DEF Spec

-----------------------------------------------------------------------------
(***************************************************************************)
(* Counting the requests that hold or owe a line.                          *)
(***************************************************************************)

\* What one request adds to the balance of a line.
Weight(q, o, l) ==
    (IF Holds(q, o, l) THEN 1 ELSE 0) - (IF Owes(q, o, l) THEN 1 ELSE 0)

\* A set that gains or loses only r changes its size accordingly.
LEMMA OneMember ==
  ASSUME NEW S \in SUBSET Requests, NEW T \in SUBSET Requests, NEW r \in Requests,
         \A p \in Requests \ {r} : p \in S <=> p \in T
  PROVE  /\ Cardinality(S) \in Nat
         /\ Cardinality(T) \in Nat
         /\ Cardinality(T) = Cardinality(S) + (IF r \in T THEN 1 ELSE 0)
                                           - (IF r \in S THEN 1 ELSE 0)
  <1>1. IsFiniteSet(S) /\ IsFiniteSet(T)
    BY OrdersAssumption, FS_Subset
  <1>2. Cardinality(S) \in Nat /\ Cardinality(T) \in Nat
    BY <1>1, FS_CardinalityType
  <1>3. CASE r \in S /\ r \notin T
    <2>1. T = S \ {r}
      BY <1>3
    <2>2. QED
      BY <1>1, <1>2, <1>3, <2>1, FS_RemoveElement
  <1>4. CASE r \notin S /\ r \in T
    <2>1. T = S \cup {r}
      BY <1>4
    <2>2. QED
      BY <1>1, <1>2, <1>4, <2>1, FS_AddElement
  <1>5. CASE r \in S <=> r \in T
    <2>1. T = S
      BY <1>5
    <2>2. QED
      BY <1>2, <1>5, <2>1
  <1>6. QED
    BY <1>3, <1>4, <1>5

\* When only request r moves, from req[r] to q, the balance of a line moves
\* with the stock, against what the order stands for and against r's weight.
LEMMA BalanceStep ==
  ASSUME TypeOK, TypeOK', NEW r \in Requests, NEW q,
         req' = [req EXCEPT ![r] = q],
         NEW o \in Orders, NEW l \in Lines
  PROVE  /\ LineBalance(o, l) \in Int
         /\ LineBalance(o, l)' = LineBalance(o, l) + (taken'[o][l] - taken[o][l])
                  - (Out(o)' - Out(o)) - (Weight(q, o, l) - Weight(req[r], o, l))
  <1>1. req'[r] = q /\ \A p \in Requests \ {r} : req'[p] = req[p]
    BY DEF TypeOK
  <1> DEFINE H == Holding(o, l)
             H2 == Holding(o, l)'
             W == Owing(o, l)
             W2 == Owing(o, l)'
  <1>2. /\ Cardinality(H) \in Nat /\ Cardinality(H2) \in Nat
        /\ Cardinality(H2) = Cardinality(H) + (IF r \in H2 THEN 1 ELSE 0)
                                            - (IF r \in H THEN 1 ELSE 0)
    <2>1. H \in SUBSET Requests /\ H2 \in SUBSET Requests
      BY DEF Holding
    <2>2. \A p \in Requests \ {r} : p \in H <=> p \in H2
      BY <1>1 DEF Holding, Holds
    <2> HIDE DEF H, H2
    <2>3. QED
      BY <2>1, <2>2, OneMember
  <1>3. /\ Cardinality(W) \in Nat /\ Cardinality(W2) \in Nat
        /\ Cardinality(W2) = Cardinality(W) + (IF r \in W2 THEN 1 ELSE 0)
                                            - (IF r \in W THEN 1 ELSE 0)
    <2>1. W \in SUBSET Requests /\ W2 \in SUBSET Requests
      BY DEF Owing
    <2>2. \A p \in Requests \ {r} : p \in W <=> p \in W2
      BY <1>1 DEF Owing, Owes
    <2> HIDE DEF W, W2
    <2>3. QED
      BY <2>1, <2>2, OneMember
  <1>4. /\ r \in H2 <=> Holds(q, o, l)
        /\ r \in H <=> Holds(req[r], o, l)
        /\ r \in W2 <=> Owes(q, o, l)
        /\ r \in W <=> Owes(req[r], o, l)
    BY <1>1 DEF Holding, Owing, Holds, Owes
  <1>5. taken[o][l] \in Int /\ taken'[o][l] \in Int /\ Out(o) \in Int /\ Out(o)' \in Int
    BY DEF TypeOK, Out
  <1>6. /\ LineBalance(o, l) = taken[o][l] - Out(o) - Cardinality(H) + Cardinality(W)
        /\ LineBalance(o, l)' = taken'[o][l] - Out(o)' - Cardinality(H2) + Cardinality(W2)
    BY DEF LineBalance
  <1> HIDE DEF H, H2, W, W2
  <1>7. QED
    BY <1>2, <1>3, <1>4, <1>5, <1>6 DEF Weight

LEMMA WeightType ==
  ASSUME NEW q, NEW o, NEW l
  PROVE  Weight(q, o, l) \in -1 .. 1
  BY DEF Weight

\* A request at any other step neither holds nor owes anything.
LEMMA NoWeight ==
  ASSUME NEW q, q.pc \notin {"take", "save", "restock"}
  PROVE  \A o \in Orders, l \in Lines : Weight(q, o, l) = 0
  BY DEF Weight, Holds, Owes

\* A request that has just freed an order holds every line of it.
LEMMA FullWeight ==
  ASSUME NEW q, q.pc = "restock", q.left = Lines
  PROVE  \A o \in Orders, l \in Lines :
            Weight(q, o, l) = IF o = q.order THEN 1 ELSE 0
  BY DEF Weight, Holds, Owes

-----------------------------------------------------------------------------
(***************************************************************************)
(* What a step of request r to q has to do to keep StockInv.               *)
(***************************************************************************)

\* Nothing comes to exist but under r's own id, and r turns only to an order
\* that exists or to an id nobody has; it goes on to write a fresh document
\* only under such an id or under the one it already claims.
ClaimsKept(r, q) ==
    /\ \A x \in Orders : Stored(x)' => Stored(x) \/ x = req[r].order
    /\ q.order \in {None, req[r].order} \/ Stored(q.order) \/ Fresh(q.order)
    /\ Claims(q) =>
         /\ q.order \in Orders
         /\ order'[q.order].status = "NONE"
         /\ q.doc.status = "NEW" /\ ~q.doc.deleted
         /\ Fresh(q.order) \/ (Claims(req[r]) /\ q.order = req[r].order)

\* Stock moves, orders change what they stand for and r changes what it holds
\* by the same amount.
BalanceKept(r, q) ==
    \A o \in Orders, l \in Lines :
        (taken'[o][l] - taken[o][l]) - (Out(o)' - Out(o))
            = Weight(q, o, l) - Weight(req[r], o, l)

Moves(r, q) ==
    /\ req' = [req EXCEPT ![r] = q]
    /\ crashes' = crashes
    /\ OnTrackAt(q)
    /\ ClaimsKept(r, q)
    /\ BalanceKept(r, q)

LEMMA ClaimsStep ==
  ASSUME StockInv, NEW r \in Requests, NEW q,
         req' = [req EXCEPT ![r] = q], ClaimsKept(r, q)
  PROVE  ClaimsAlone'
  <1>1. req'[r] = q /\ \A p \in Requests \ {r} : req'[p] = req[p]
    BY DEF StockInv, TypeOK
  <1> SUFFICES ASSUME NEW p \in Requests, Claims(req'[p])
               PROVE  /\ req'[p].order \in Orders
                      /\ order'[req'[p].order].status = "NONE"
                      /\ req'[p].doc.status = "NEW" /\ ~req'[p].doc.deleted
                      /\ \A s \in Requests \ {p} : req'[s].order # req'[p].order
    BY DEF ClaimsAlone, Claims, Stored
  <1>2. CASE p = r
    <2>1. \A s \in Requests \ {r} : req[s].order # q.order
      BY <1>1, <1>2 DEF ClaimsKept, StockInv, ClaimsAlone, Fresh
    <2>2. QED
      BY <1>1, <1>2, <2>1 DEF ClaimsKept, Stored
  <1>3. CASE p # r
    <2>1. /\ Claims(req[p]) /\ req[p].order \in Orders /\ ~Stored(req[p].order)
          /\ req[p].doc.status = "NEW" /\ ~req[p].doc.deleted
          /\ \A s \in Requests \ {p} : req[s].order # req[p].order
      BY <1>1, <1>3 DEF StockInv, ClaimsAlone
    <2>2. order'[req[p].order].status = "NONE"
      BY <1>1, <1>3, <2>1 DEF ClaimsKept, Stored
    <2>3. q.order # req[p].order
      BY <1>3, <2>1, OrdersAssumption DEF ClaimsKept, Fresh
    <2>4. QED
      BY <1>1, <1>3, <2>1, <2>2, <2>3
  <1>4. QED
    BY <1>2, <1>3

LEMMA TrackStep ==
  ASSUME StockInv, NEW r \in Requests, NEW q,
         req' = [req EXCEPT ![r] = q], OnTrackAt(q)
  PROVE  OnTrack'
  BY DEF StockInv, TypeOK, OnTrack

LEMMA MovesKeep ==
  ASSUME StockInv, TypeOK', Placed', NEW r \in Requests, NEW q, Moves(r, q)
  PROVE  StockInv'
  <1>1. ClaimsAlone' /\ OnTrack'
    BY ClaimsStep, TrackStep DEF Moves
  <1>2. ASSUME NEW o \in Orders, NEW l \in Lines
        PROVE  LineBalance(o, l)' \in -crashes' .. crashes'
    <2>1. /\ LineBalance(o, l) \in Int
          /\ LineBalance(o, l)' = LineBalance(o, l) + (taken'[o][l] - taken[o][l])
                 - (Out(o)' - Out(o)) - (Weight(q, o, l) - Weight(req[r], o, l))
      BY BalanceStep DEF StockInv, Moves
    <2>2. (taken'[o][l] - taken[o][l]) - (Out(o)' - Out(o))
              = Weight(q, o, l) - Weight(req[r], o, l)
      BY DEF Moves, BalanceKept
    <2>3. /\ taken[o][l] \in Int /\ taken'[o][l] \in Int
          /\ Out(o) \in Int /\ Out(o)' \in Int
          /\ Weight(q, o, l) \in Int /\ Weight(req[r], o, l) \in Int
      <3>1. Weight(q, o, l) \in -1 .. 1 /\ Weight(req[r], o, l) \in -1 .. 1
        BY WeightType
      <3>2. Out(o) \in Int /\ Out(o)' \in Int
        BY DEF Out
      <3>3. QED
        BY <3>1, <3>2 DEF StockInv, TypeOK
    <2>4. LineBalance(o, l)' = LineBalance(o, l)
      BY <2>1, <2>2, <2>3
    <2>5. QED
      BY <2>4 DEF StockInv, Moves
  <1>3. QED
    BY <1>1, <1>2 DEF StockInv

\* A request that dies takes with it at most one movement per line.
LEMMA CrashKeeps ==
  ASSUME StockInv, TypeOK', Placed', NEW r \in Requests, Crash(r)
  PROVE  StockInv'
  <1>1. req' = [req EXCEPT ![r] = Idle] /\ crashes' = crashes + 1
        /\ taken' = taken /\ order' = order
    BY DEF Crash
  <1>2. OnTrackAt(Idle) /\ ClaimsKept(r, Idle)
    BY <1>1 DEF OnTrackAt, ClaimsKept, Claims, Idle, Stored
  <1>3. ClaimsAlone' /\ OnTrack'
    BY <1>1, <1>2, ClaimsStep, TrackStep
  <1>4. ASSUME NEW o \in Orders, NEW l \in Lines
        PROVE  LineBalance(o, l)' \in -crashes' .. crashes'
    <2>1. /\ LineBalance(o, l) \in Int
          /\ LineBalance(o, l)' = LineBalance(o, l) + (taken'[o][l] - taken[o][l])
                 - (Out(o)' - Out(o)) - (Weight(Idle, o, l) - Weight(req[r], o, l))
      BY <1>1, BalanceStep DEF StockInv
    <2>2. taken'[o][l] - taken[o][l] = 0 /\ Out(o)' - Out(o) = 0
      BY <1>1 DEF StockInv, TypeOK, Out
    <2>3. Weight(Idle, o, l) = 0 /\ Weight(req[r], o, l) \in -1 .. 1
      BY NoWeight, WeightType DEF Idle
    <2>4. LineBalance(o, l)' \in LineBalance(o, l) - 1 .. LineBalance(o, l) + 1
      BY <2>1, <2>2, <2>3
    <2>5. LineBalance(o, l) \in -crashes .. crashes /\ crashes \in Nat
      BY DEF StockInv, TypeOK
    <2>6. QED
      BY <1>1, <2>1, <2>4, <2>5
  <1>5. QED
    BY <1>3, <1>4 DEF StockInv

-----------------------------------------------------------------------------
(***************************************************************************)
(* Every step of a Guarded instance is such a move, or a crash.            *)
(***************************************************************************)

\* A write that leaves every order standing for what it stood for.
LEMMA OutKept ==
  ASSUME NEW r \in Requests, NEW q, TypeOK,
         taken' = taken,
         \A x \in Orders : Out(x)' = Out(x),
         \A x \in Orders, l \in Lines : Weight(q, x, l) = Weight(req[r], x, l)
  PROVE  BalanceKept(r, q)
  <1> SUFFICES ASSUME NEW x \in Orders, NEW l \in Lines
               PROVE  (taken'[x][l] - taken[x][l]) - (Out(x)' - Out(x))
                          = Weight(q, x, l) - Weight(req[r], x, l)
    BY DEF BalanceKept
  <1>1. taken[x][l] \in Int /\ taken'[x][l] = taken[x][l]
    BY DEF TypeOK
  <1>2. Out(x)' = Out(x) /\ Out(x) \in Int
    BY DEF Out
  <1>3. Weight(q, x, l) = Weight(req[r], x, l) /\ Weight(q, x, l) \in -1 .. 1
    BY WeightType
  <1>4. QED
    BY <1>1, <1>2, <1>3

\* A write that frees order o: from now on its lines are the request's.
LEMMA OutFreed ==
  ASSUME NEW r \in Requests, NEW q, NEW o \in Orders, TypeOK,
         taken' = taken,
         req[r].pc \notin {"take", "save", "restock"},
         q.pc = "restock", q.left = Lines, q.order = o,
         Out(o) = 1, Out(o)' = 0,
         \A x \in Orders \ {o} : Out(x)' = Out(x)
  PROVE  BalanceKept(r, q)
  <1> SUFFICES ASSUME NEW x \in Orders, NEW l \in Lines
               PROVE  (taken'[x][l] - taken[x][l]) - (Out(x)' - Out(x))
                          = Weight(q, x, l) - Weight(req[r], x, l)
    BY DEF BalanceKept
  <1>1. taken[x][l] \in Int /\ taken'[x][l] = taken[x][l]
    BY DEF TypeOK
  <1>2. Weight(req[r], x, l) = 0
    BY NoWeight
  <1>3. Weight(q, x, l) = IF x = o THEN 1 ELSE 0
    BY FullWeight
  <1>4. Out(x) \in Int
    BY DEF Out
  <1>5. CASE x = o
    BY <1>1, <1>2, <1>3, <1>5
  <1>6. CASE x # o
    BY <1>1, <1>2, <1>3, <1>4, <1>6
  <1>7. QED
    BY <1>5, <1>6

LEMMA ArriveMoves ==
  ASSUME StockInv, Guarded, NEW r \in Requests, Arrive(r)
  PROVE  \E q : Moves(r, q)
  <1>0. TypeOK /\ (req[r].pc = "idle" => \A x \in Orders, l \in Lines :
                       Weight(req[r], x, l) = 0)
    BY NoWeight DEF StockInv
  <1> PICK o \in Orders :
        \/ \E t \in OrderType, e \in BOOLEAN : Create(r, o, t, e)
        \/ \E s \in Status, skip \in BOOLEAN : ReadForStatus(r, o, s, skip)
        \/ Approve(r, o) \/ Reject(r, o) \/ Delete(r, o) \/ Restore(r, o)
        \/ MarkReturned(r, o) \/ ReadForRevert(r, o)
        \/ \E n \in Orders : Reorder(r, o, n)
    BY DEF Arrive
  <1>b. order[o] \in Doc
    BY <1>0 DEF TypeOK
  <1>1. ASSUME NEW t \in OrderType, NEW e \in BOOLEAN, Create(r, o, t, e)
        PROVE  \E q : Moves(r, q)
    <2> DEFINE d == [NoDoc EXCEPT !.status = "NEW", !.type = t, !.earns = e,
                       !.approval = IF t = "WELCOME_KIT" THEN "PENDING" ELSE "NULL"]
               q == [Job("create", "take", o) EXCEPT !.doc = d, !.left = Lines]
    <2>1. /\ q.op = "create" /\ q.pc = "take" /\ q.order = o /\ q.left = Lines
          /\ q.doc.status = "NEW" /\ ~q.doc.deleted
      BY DEF Job, Idle, NoDoc
    <2>2. /\ req' = [req EXCEPT ![r] = q] /\ crashes' = crashes
          /\ taken' = taken /\ order' = order
          /\ Fresh(o) /\ req[r].pc = "idle"
      BY <1>1 DEF Create, Starts
    <2> HIDE DEF q
    <2>3. OnTrackAt(q)
      BY <2>1 DEF OnTrackAt
    <2>4. ClaimsKept(r, q)
      BY <2>1, <2>2 DEF ClaimsKept, Stored, Fresh
    <2>5. \A x \in Orders, l \in Lines : Weight(q, x, l) = 0
      BY <2>1 DEF Weight, Holds, Owes
    <2>6. BalanceKept(r, q)
      BY <1>0, <2>2, <2>5, OutKept DEF Out
    <2>7. QED
      BY <2>2, <2>3, <2>4, <2>6 DEF Moves
  <1>2. ASSUME NEW s \in Status, NEW skip \in BOOLEAN, ReadForStatus(r, o, s, skip)
        PROVE  \E q : Moves(r, q)
    <2> DEFINE q == [Job("status", "cas", o) EXCEPT !.doc = order[o], !.status = s]
    <2>1. /\ q.op = "status" /\ q.pc = "cas" /\ q.order = o
          /\ q.doc = order[o] /\ q.status = s
      BY DEF Job, Idle
    <2>2. /\ req' = [req EXCEPT ![r] = q] /\ crashes' = crashes
          /\ taken' = taken /\ order' = order
          /\ Stored(o) /\ req[r].pc = "idle"
          /\ <<order[o].status, s>> \in ALLOWED_TRANSITIONS \cup SkipDispatch
      BY <1>2 DEF ReadForStatus, Starts, Live
    <2> HIDE DEF q
    <2>3. OnTrackAt(q)
      BY <2>1, <2>2 DEF OnTrackAt
    <2>4. ClaimsKept(r, q)
      BY <2>1, <2>2 DEF ClaimsKept, Stored, Claims
    <2>5. BalanceKept(r, q)
      BY <1>0, <2>1, <2>2, NoWeight, OutKept DEF Out
    <2>6. QED
      BY <2>2, <2>3, <2>4, <2>5 DEF Moves
  <1>3. CASE Approve(r, o)
    <2> DEFINE q == IF order[o].earns THEN Job("approve", "credit", o) ELSE Idle
    <2>1. q.op \in {"approve", "create"} /\ q.pc \in {"credit", "idle"} /\ q.order \in {o, None}
      BY DEF Job, Idle
    <2>2. /\ req' = [req EXCEPT ![r] = q] /\ crashes' = crashes /\ taken' = taken
          /\ Stored(o) /\ req[r].pc = "idle"
          /\ \A x \in Orders : order'[x].status = order[x].status
                             /\ order'[x].deleted = order[x].deleted
      BY <1>3, <1>0, <1>b DEF Approve, Starts, PENDING_KIT, Live, TypeOK, Doc
    <2> HIDE DEF q
    <2>3. OnTrackAt(q)
      BY <2>1 DEF OnTrackAt
    <2>4. ClaimsKept(r, q)
      BY <2>1, <2>2 DEF ClaimsKept, Stored, Claims
    <2>5. BalanceKept(r, q)
      BY <1>0, <2>1, <2>2, NoWeight, OutKept DEF Out
    <2>6. QED
      BY <2>2, <2>3, <2>4, <2>5 DEF Moves
  <1>4. CASE Reject(r, o)
    <2> DEFINE q == [Job("reject", "restock", o) EXCEPT !.left = Lines]
    <2>1. q.op = "reject" /\ q.pc = "restock" /\ q.order = o /\ q.left = Lines
      BY DEF Job, Idle
    <2>2. /\ req' = [req EXCEPT ![r] = q] /\ crashes' = crashes /\ taken' = taken
          /\ Live(o) /\ req[r].pc = "idle" /\ order[o].status \in ON_SHELF
          /\ order'[o].status = "CANCELLED"
          /\ \A x \in Orders \ {o} : order'[x] = order[x]
      BY <1>4, <1>0, <1>b DEF Reject, Starts, PENDING_KIT, TypeOK, Doc
    <2> HIDE DEF q
    <2>3. OnTrackAt(q)
      BY <2>1 DEF OnTrackAt
    <2>4. ClaimsKept(r, q)
      BY <2>1, <2>2 DEF ClaimsKept, Stored, Claims, Live
    <2>5. BalanceKept(r, q)
      BY <1>0, <2>1, <2>2, OutFreed DEF Out, Live, ON_SHELF, Shipped
    <2>6. QED
      BY <2>2, <2>3, <2>4, <2>5 DEF Moves
  <1>5. CASE Delete(r, o)
    <2>2. /\ crashes' = crashes /\ taken' = taken
          /\ Live(o) /\ req[r].pc = "idle"
          /\ order'[o].deleted /\ order'[o].status = order[o].status
          /\ \A x \in Orders \ {o} : order'[x] = order[x]
      BY <1>5, <1>0, <1>b DEF Delete, Starts, TypeOK, Doc
    <2>3. CASE order[o].status \in ON_SHELF
      <3> DEFINE q == [Job("delete", "restock", o) EXCEPT !.left = Lines]
      <3>1. q.op = "delete" /\ q.pc = "restock" /\ q.order = o /\ q.left = Lines
        BY DEF Job, Idle
      <3>2. req' = [req EXCEPT ![r] = q]
        BY <1>5, <2>3 DEF Delete
      <3> HIDE DEF q
      <3>3. OnTrackAt(q)
        BY <3>1 DEF OnTrackAt
      <3>4. ClaimsKept(r, q)
        BY <2>2, <3>1 DEF ClaimsKept, Stored, Claims, Live
      <3>5. BalanceKept(r, q)
        BY <1>0, <2>2, <2>3, <3>1, OutFreed DEF Out, Live, ON_SHELF, Shipped
      <3>6. QED
        BY <2>2, <3>2, <3>3, <3>4, <3>5 DEF Moves
    <2>4. CASE order[o].status \notin ON_SHELF
      <3> DEFINE q == Job("delete", "sum", o)
      <3>1. q.op = "delete" /\ q.pc = "sum" /\ q.order = o
        BY DEF Job, Idle
      <3>2. req' = [req EXCEPT ![r] = q]
        BY <1>5, <2>4 DEF Delete
      <3> HIDE DEF q
      <3>3. OnTrackAt(q)
        BY <3>1 DEF OnTrackAt
      <3>4. ClaimsKept(r, q)
        BY <2>2, <3>1 DEF ClaimsKept, Stored, Claims, Live
      <3>5. BalanceKept(r, q)
        BY <1>0, <2>2, <2>4, <3>1, NoWeight, OutKept DEF Out
      <3>6. QED
        BY <2>2, <3>2, <3>3, <3>4, <3>5 DEF Moves
    <2>5. QED
      BY <2>3, <2>4
  <1>6. CASE Restore(r, o)
    <2> DEFINE j == [Job("restore", "take", o) EXCEPT !.doc = order[o]]
    <2>2. /\ crashes' = crashes /\ taken' = taken
          /\ Stored(o) /\ order[o].deleted /\ req[r].pc = "idle"
          /\ ~order'[o].deleted /\ order'[o].status = order[o].status
          /\ \A x \in Orders \ {o} : order'[x] = order[x]
      BY <1>6, <1>0, <1>b DEF Restore, Starts, TypeOK, Doc
    <2>3. CASE order[o].status \in ON_SHELF
      <3> DEFINE q == [j EXCEPT !.left = Lines]
      <3>1. q.op = "restore" /\ q.pc = "take" /\ q.order = o /\ q.left = Lines
        BY DEF Job, Idle
      <3>2. req' = [req EXCEPT ![r] = q]
        BY <1>6, <2>3 DEF Restore
      <3> HIDE DEF q
      <3>3. OnTrackAt(q)
        BY <3>1 DEF OnTrackAt
      <3>4. ClaimsKept(r, q)
        BY <2>2, <3>1 DEF ClaimsKept, Stored, Claims
      <3>5. BalanceKept(r, q)
        <4> SUFFICES ASSUME NEW x \in Orders, NEW l \in Lines
                     PROVE  (taken'[x][l] - taken[x][l]) - (Out(x)' - Out(x))
                                = Weight(q, x, l) - Weight(req[r], x, l)
          BY DEF BalanceKept
        <4>1. taken[x][l] \in Int /\ taken'[x][l] = taken[x][l]
          BY <1>0, <2>2 DEF TypeOK
        <4>2. Weight(req[r], x, l) = 0
          BY <1>0, <2>2
        <4>3. Weight(q, x, l) = IF x = o THEN -1 ELSE 0
          BY <3>1 DEF Weight, Holds, Owes
        <4>4. CASE x = o
          <5>1. Out(x) = 0 /\ Out(x)' = 1
            BY <2>2, <2>3, <4>4 DEF Out, ON_SHELF, Shipped
          <5>2. QED
            BY <4>1, <4>2, <4>3, <4>4, <5>1
        <4>5. CASE x # o
          <5>1. Out(x)' = Out(x) /\ Out(x) \in Int
            BY <2>2, <4>5 DEF Out
          <5>2. QED
            BY <4>1, <4>2, <4>3, <4>5, <5>1
        <4>6. QED
          BY <4>4, <4>5
      <3>6. QED
        BY <2>2, <3>2, <3>3, <3>4, <3>5 DEF Moves
    <2>4. CASE order[o].status \notin ON_SHELF
      <3> DEFINE q == AfterTake(j)
      <3>0. j.op = "restore" /\ j.pc = "take" /\ j.order = o
        BY DEF Job, Idle
      <3>2. req' = [req EXCEPT ![r] = q]
        BY <1>6, <2>4 DEF Restore
      <3>a. j \in Request
        BY <1>b, JobDocType DEF Op, Pc, Status
      <3> HIDE DEF j
      <3>1. /\ q.op \in {"restore", "create"} /\ q.pc \in {"credit", "idle"}
            /\ q.order \in {o, None}
        BY <3>0, <3>a DEF AfterTake, Idle, Request
      <3> HIDE DEF q
      <3>3. OnTrackAt(q)
        BY <3>1 DEF OnTrackAt
      <3>4. ClaimsKept(r, q)
        BY <2>2, <3>1 DEF ClaimsKept, Stored, Claims
      <3>5. BalanceKept(r, q)
        BY <1>0, <2>2, <2>4, <3>1, NoWeight, OutKept DEF Out
      <3>6. QED
        BY <2>2, <3>2, <3>3, <3>4, <3>5 DEF Moves
    <2>5. QED
      BY <2>3, <2>4
  <1>7. CASE MarkReturned(r, o)
    <2> DEFINE q == [Job("returned", "restock", o) EXCEPT !.left = Lines]
    <2>1. q.op = "returned" /\ q.pc = "restock" /\ q.order = o /\ q.left = Lines
      BY DEF Job, Idle
    <2>2. /\ req' = [req EXCEPT ![r] = q] /\ crashes' = crashes /\ taken' = taken
          /\ Live(o) /\ req[r].pc = "idle" /\ order[o].status \in Shipped
          /\ order'[o].status = "RETURNED"
          /\ \A x \in Orders \ {o} : order'[x] = order[x]
      BY <1>7, <1>0, <1>b DEF MarkReturned, Starts, TypeOK, Doc
    <2> HIDE DEF q
    <2>3. OnTrackAt(q)
      BY <2>1 DEF OnTrackAt
    <2>4. ClaimsKept(r, q)
      BY <2>1, <2>2 DEF ClaimsKept, Stored, Claims, Live
    <2>5. BalanceKept(r, q)
      BY <1>0, <2>1, <2>2, OutFreed DEF Out, Live, ON_SHELF, Shipped
    <2>6. QED
      BY <2>2, <2>3, <2>4, <2>5 DEF Moves
  <1>8. ~ReadForRevert(r, o)
    BY DEF Guarded, ReadForRevert, Starts
  <1>9. ASSUME NEW n \in Orders, Reorder(r, o, n)
        PROVE  \E q : Moves(r, q)
    <2> DEFINE d == [NoDoc EXCEPT !.status = "NEW", !.type = order[o].type,
                       !.approval = order[o].approval, !.from = o]
               q == [Job("reorder", "take", n) EXCEPT !.doc = d, !.left = Lines]
    <2>1. /\ q.op = "reorder" /\ q.pc = "take" /\ q.order = n /\ q.left = Lines
          /\ q.doc.status = "NEW" /\ ~q.doc.deleted
      BY DEF Job, Idle, NoDoc
    <2>2. /\ req' = [req EXCEPT ![r] = q] /\ crashes' = crashes /\ taken' = taken
          /\ Fresh(n) /\ req[r].pc = "idle"
      BY <1>9 DEF Reorder, Starts
    <2>a. ASSUME NEW x \in Orders
          PROVE  order'[x].status = order[x].status /\ order'[x].deleted = order[x].deleted
      <3>1. order' = [order EXCEPT ![o].to = n]
        BY <1>9 DEF Reorder
      <3>2. order[x] \in Doc
        BY <1>0 DEF TypeOK
      <3>3. order'[x] = IF x = o THEN [order[x] EXCEPT !.to = n] ELSE order[x]
        BY <3>1, <1>0 DEF TypeOK
      <3>4. QED
        BY <3>2, <3>3 DEF Doc
    <2> HIDE DEF q
    <2>3. OnTrackAt(q)
      BY <2>1 DEF OnTrackAt
    <2>4. ClaimsKept(r, q)
      BY <2>1, <2>2, <2>a DEF ClaimsKept, Stored, Fresh
    <2>5. \A x \in Orders, l \in Lines : Weight(q, x, l) = 0
      BY <2>1 DEF Weight, Holds, Owes
    <2>6. BalanceKept(r, q)
      BY <1>0, <2>2, <2>a, <2>5, OutKept DEF Out
    <2>7. QED
      BY <2>2, <2>3, <2>4, <2>6 DEF Moves
  <1>10. QED
    BY <1>1, <1>2, <1>3, <1>4, <1>5, <1>6, <1>7, <1>8, <1>9

\* One unit of line k of order o moves, and r's hold on it with it.
LEMMA UnitMoved ==
  ASSUME NEW r \in Requests, NEW q, NEW o \in Orders, NEW k \in Lines, NEW n \in Int,
         TypeOK, order' = order,
         \A x \in Orders, l \in Lines :
             taken'[x][l] = taken[x][l] + (IF x = o /\ l = k THEN n ELSE 0),
         \A x \in Orders, l \in Lines :
             Weight(q, x, l) = Weight(req[r], x, l) + (IF x = o /\ l = k THEN n ELSE 0)
  PROVE  BalanceKept(r, q)
  <1> SUFFICES ASSUME NEW x \in Orders, NEW l \in Lines
               PROVE  (taken'[x][l] - taken[x][l]) - (Out(x)' - Out(x))
                          = Weight(q, x, l) - Weight(req[r], x, l)
    BY DEF BalanceKept
  <1>1. /\ taken[x][l] \in Int
        /\ taken'[x][l] = taken[x][l] + (IF x = o /\ l = k THEN n ELSE 0)
    BY DEF TypeOK
  <1>2. Out(x)' = Out(x) /\ Out(x) \in Int
    BY DEF Out
  <1>3. Weight(req[r], x, l) \in -1 .. 1
    BY WeightType
  <1>4. QED
    BY <1>1, <1>2, <1>3

\* What is left of the lines a request takes or puts back one by one.
LEMMA LineWeight ==
  ASSUME NEW q \in Request, NEW q2, NEW k \in Lines, k \in q.left,
         q.pc \in {"take", "restock"}, q2.op = q.op, q2.order = q.order,
         q2.pc = q.pc, q2.left = q.left \ {k}
  PROVE  \A x \in Orders, l \in Lines :
            Weight(q2, x, l) = Weight(q, x, l) +
                (IF x = q.order /\ l = k THEN IF q.pc = "take" THEN 1 ELSE -1 ELSE 0)
  BY DEF Weight, Holds, Owes

\* The same for the last of them: a request that took them for a document not
\* saved yet holds them all, any other has nothing left to move.
LEMMA LastLineWeight ==
  ASSUME NEW q \in Request, NEW q2, NEW k \in Lines, q.left = {k},
         q.pc \in {"take", "restock"},
         IF q.pc = "take" /\ q.op # "restore"
         THEN q2.pc = "save" /\ q2.order = q.order
         ELSE q2.pc \notin {"take", "save", "restock"}
  PROVE  \A x \in Orders, l \in Lines :
            Weight(q2, x, l) = Weight(q, x, l) +
                (IF x = q.order /\ l = k THEN IF q.pc = "take" THEN 1 ELSE -1 ELSE 0)
  BY DEF Weight, Holds, Owes

LEMMA TakeMoves ==
  ASSUME StockInv, Guarded, NEW r \in Requests, NEW k \in Lines, TakeLine(r, k)
  PROVE  \E q : Moves(r, q)
  <1> DEFINE o == req[r].order
             j == [req[r] EXCEPT !.left = @ \ {k}]
             q == IF j.left = {} THEN AfterTake(j) ELSE j
  <1>0. TypeOK /\ Placed /\ OnTrackAt(req[r]) /\ req[r] \in Request
        /\ req[r].pc = "take" /\ k \in req[r].left
    BY DEF StockInv, TypeOK, OnTrack, TakeLine, At
  <1>a. o \in Orders
    BY <1>0 DEF Placed, PlacedAt
  <1>1. req' = [req EXCEPT ![r] = q] /\ crashes' = crashes /\ order' = order
        /\ taken' = [taken EXCEPT ![o][k] = @ + 1]
    BY DEF TakeLine
  <1>c. \A x \in Orders, l \in Lines :
           taken'[x][l] = taken[x][l] + (IF x = o /\ l = k THEN 1 ELSE 0)
    BY <1>0, <1>a, <1>1 DEF TypeOK
  <1>d. 1 \in Int
    OBVIOUS
  <1>2. /\ j.op = req[r].op /\ j.pc = "take" /\ j.order = o /\ j.doc = req[r].doc
        /\ j.left = req[r].left \ {k}
    BY <1>0 DEF Request
  <1>b. j \in Request
    BY <1>0 DEF Request
  <1> HIDE DEF j
  <1>3. CASE j.left # {}
    <2>1. q = j
      BY <1>3
    <2> HIDE DEF q
    <2>2. OnTrackAt(q)
      BY <1>0, <1>2, <2>1 DEF OnTrackAt
    <2>3. ClaimsKept(r, q)
      BY <1>0, <1>1, <1>2, <2>1 DEF ClaimsKept, Claims, StockInv, ClaimsAlone, Stored
    <2>4. \A x \in Orders, l \in Lines :
             Weight(q, x, l) = Weight(req[r], x, l) + (IF x = o /\ l = k THEN 1 ELSE 0)
      BY <1>0, <1>2, <2>1, LineWeight
    <2>5. BalanceKept(r, q)
      BY <1>0, <1>1, <1>a, <1>c, <1>d, <2>4, UnitMoved
    <2>6. QED
      BY <1>1, <2>2, <2>3, <2>5 DEF Moves
  <1>4. CASE j.left = {}
    <2>1. q = AfterTake(j) /\ req[r].left = {k}
      BY <1>0, <1>2, <1>4
    <2> HIDE DEF q
    <2>2. IF req[r].op # "restore"
          THEN q.op = req[r].op /\ q.pc = "save" /\ q.order = o /\ q.doc = req[r].doc
          ELSE /\ q.op \in {"restore", "create"} /\ q.pc \in {"credit", "idle"}
               /\ q.order \in {o, None}
      BY <1>2, <1>b, <2>1 DEF AfterTake, Idle, Request
    <2>3. OnTrackAt(q)
      BY <1>0, <2>2 DEF OnTrackAt
    <2>4. ClaimsKept(r, q)
      BY <1>0, <1>1, <2>2 DEF ClaimsKept, Claims, StockInv, ClaimsAlone, Stored
    <2>5. \A x \in Orders, l \in Lines :
             Weight(q, x, l) = Weight(req[r], x, l) + (IF x = o /\ l = k THEN 1 ELSE 0)
      BY <1>0, <2>1, <2>2, LastLineWeight
    <2>6. BalanceKept(r, q)
      BY <1>0, <1>1, <1>a, <1>c, <1>d, <2>5, UnitMoved
    <2>7. QED
      BY <1>1, <2>3, <2>4, <2>6 DEF Moves
  <1>5. QED
    BY <1>3, <1>4

LEMMA RestockMoves ==
  ASSUME StockInv, Guarded, NEW r \in Requests, NEW k \in Lines, RestockLine(r, k)
  PROVE  \E q : Moves(r, q)
  <1> DEFINE o == req[r].order
             j == [req[r] EXCEPT !.left = @ \ {k}]
             q == IF j.left = {} THEN AfterRestock(j) ELSE j
  <1>0. TypeOK /\ Placed /\ OnTrackAt(req[r]) /\ req[r] \in Request
        /\ req[r].pc = "restock" /\ k \in req[r].left
    BY DEF StockInv, TypeOK, OnTrack, RestockLine, At
  <1>a. o \in Orders
    BY <1>0 DEF Placed, PlacedAt
  <1>1. req' = [req EXCEPT ![r] = q] /\ crashes' = crashes /\ order' = order
        /\ taken' = [taken EXCEPT ![o][k] = @ - 1]
    BY <1>0, <1>a DEF RestockLine, TypeOK
  <1>c. \A x \in Orders, l \in Lines :
           taken'[x][l] = taken[x][l] + (IF x = o /\ l = k THEN -1 ELSE 0)
    BY <1>0, <1>a, <1>1 DEF TypeOK
  <1>d. -1 \in Int
    OBVIOUS
  <1>2. /\ j.op = req[r].op /\ j.pc = "restock" /\ j.order = o
        /\ j.left = req[r].left \ {k}
    BY <1>0 DEF Request
  <1>b. j \in Request
    BY <1>0 DEF Request
  <1> HIDE DEF j
  <1>3. CASE j.left # {}
    <2>1. q = j
      BY <1>3
    <2> HIDE DEF q
    <2>2. OnTrackAt(q)
      BY <1>0, <1>2, <2>1 DEF OnTrackAt
    <2>3. ClaimsKept(r, q)
      BY <1>1, <1>2, <2>1 DEF ClaimsKept, Claims, Stored
    <2>4. \A x \in Orders, l \in Lines :
             Weight(q, x, l) = Weight(req[r], x, l) + (IF x = o /\ l = k THEN -1 ELSE 0)
      BY <1>0, <1>2, <2>1, LineWeight
    <2>5. BalanceKept(r, q)
      BY <1>0, <1>1, <1>a, <1>c, <1>d, <2>4, UnitMoved
    <2>6. QED
      BY <1>1, <2>2, <2>3, <2>5 DEF Moves
  <1>4. CASE j.left = {}
    <2>1. q = AfterRestock(j) /\ req[r].left = {k}
      BY <1>0, <1>2, <1>4
    <2> HIDE DEF q
    <2>2. /\ q.op \in {req[r].op, "create"} /\ q.pc \in {"sum", "unlink", "idle"}
          /\ q.order \in {o, None}
      BY <1>2, <1>b, <2>1 DEF AfterRestock, Idle, Request
    <2>3. OnTrackAt(q)
      BY <1>0, <2>2 DEF OnTrackAt
    <2>4. ClaimsKept(r, q)
      BY <1>1, <2>2 DEF ClaimsKept, Claims, Stored
    <2>5. \A x \in Orders, l \in Lines :
             Weight(q, x, l) = Weight(req[r], x, l) + (IF x = o /\ l = k THEN -1 ELSE 0)
      BY <1>0, <2>1, <2>2, LastLineWeight
    <2>6. BalanceKept(r, q)
      BY <1>0, <1>1, <1>a, <1>c, <1>d, <2>5, UnitMoved
    <2>7. QED
      BY <1>1, <2>3, <2>4, <2>6 DEF Moves
  <1>5. QED
    BY <1>3, <1>4

\* The steps on the ledger and the release of a returned order's claim leave
\* stock and stages alone.
LEMMA LedgerMoves ==
  ASSUME StockInv, Guarded, NEW r \in Requests,
         Credit(r) \/ SumRows(r) \/ AppendReversal(r) \/ Unlink(r)
  PROVE  \E q : Moves(r, q)
  <1>0. /\ TypeOK /\ OnTrackAt(req[r]) /\ req[r] \in Request
        /\ req[r].pc \in {"credit", "sum", "reverse", "unlink"} /\ req[r].op # "revert"
    BY DEF StockInv, TypeOK, OnTrack, OnTrackAt, Credit, SumRows, AppendReversal, Unlink, At
  <1>1. crashes' = crashes /\ taken' = taken
    BY DEF Credit, SumRows, AppendReversal, Unlink
  <1>2. ASSUME NEW x \in Orders
        PROVE  order'[x].status = order[x].status /\ order'[x].deleted = order[x].deleted
    <2>1. order[x] \in Doc
      BY <1>0 DEF TypeOK
    <2>2. order' = order \/ order' = [order EXCEPT ![req[r].doc.from].to = None]
      BY DEF Credit, SumRows, AppendReversal, Unlink
    <2>3. order'[x] = order[x] \/ order'[x] = [order[x] EXCEPT !.to = None]
      BY <1>0, <2>2 DEF TypeOK
    <2>4. QED
      BY <2>1, <2>3 DEF Doc
  <1>3. PICK q : /\ req' = [req EXCEPT ![r] = q]
                 /\ q = Idle \/ (q.op = req[r].op /\ q.pc = "reverse"
                                  /\ q.order = req[r].order)
    <2>1. CASE SumRows(r)
      <3> DEFINE q == [req[r] EXCEPT !.sum = net[req[r].order], !.pc = "reverse"]
      <3>1. q.op = req[r].op /\ q.pc = "reverse" /\ q.order = req[r].order
        BY <1>0 DEF Request
      <3>2. req' = [req EXCEPT ![r] = q] \/ req' = [req EXCEPT ![r] = Idle]
        BY <1>0, <2>1, <3>1 DEF SumRows
      <3> HIDE DEF q
      <3>3. QED
        BY <3>1, <3>2
    <2>2. CASE Credit(r) \/ AppendReversal(r) \/ Unlink(r)
      BY <1>0, <2>2 DEF Credit, AppendReversal, Unlink
    <2>3. QED
      BY <2>1, <2>2
  <1>4. /\ q.op \in {req[r].op, "create"} /\ q.pc \in {"reverse", "idle"}
        /\ q.order \in {req[r].order, None}
    BY <1>3 DEF Idle
  <1>5. OnTrackAt(q)
    BY <1>0, <1>4 DEF OnTrackAt
  <1>6. ClaimsKept(r, q)
    BY <1>2, <1>4 DEF ClaimsKept, Claims, Stored
  <1>7. \A x \in Orders, l \in Lines : Weight(q, x, l) = Weight(req[r], x, l)
    BY <1>0, <1>4, NoWeight
  <1>8. BalanceKept(r, q)
    BY <1>0, <1>1, <1>2, <1>7, OutKept DEF Out
  <1>9. QED
    BY <1>1, <1>3, <1>5, <1>6, <1>8 DEF Moves

\* The document is stored: its order now stands for the lines r held.
LEMMA SaveMoves ==
  ASSUME StockInv, Guarded, NEW r \in Requests, Save(r)
  PROVE  \E q : Moves(r, q)
  <1> DEFINE o == req[r].order
             q == IF req[r].op = "create" /\ req[r].doc.earns
                  THEN [req[r] EXCEPT !.pc = "credit"] ELSE Idle
  <1>0. /\ TypeOK /\ OnTrackAt(req[r]) /\ req[r] \in Request /\ req[r].pc = "save"
        /\ o \in Orders /\ ~Stored(o)
        /\ req[r].doc.status = "NEW" /\ ~req[r].doc.deleted
    BY DEF StockInv, TypeOK, OnTrack, ClaimsAlone, Claims, Save, At
  <1>1. req' = [req EXCEPT ![r] = q] /\ crashes' = crashes /\ taken' = taken
        /\ order'[o] = req[r].doc /\ \A x \in Orders \ {o} : order'[x] = order[x]
    BY <1>0 DEF Save, TypeOK
  <1>2. /\ q.op = "create" /\ q.pc \in {"credit", "idle"} /\ q.order \in {o, None}
    BY <1>0 DEF Idle, Request
  <1> HIDE DEF q
  <1>3. OnTrackAt(q)
    BY <1>0, <1>2 DEF OnTrackAt
  <1>4. ClaimsKept(r, q)
    BY <1>1, <1>2 DEF ClaimsKept, Claims, Stored
  <1>5. BalanceKept(r, q)
    <2> SUFFICES ASSUME NEW x \in Orders, NEW l \in Lines
                 PROVE  (taken'[x][l] - taken[x][l]) - (Out(x)' - Out(x))
                            = Weight(q, x, l) - Weight(req[r], x, l)
      BY DEF BalanceKept
    <2>1. taken[x][l] \in Int /\ taken'[x][l] = taken[x][l]
      BY <1>0, <1>1 DEF TypeOK
    <2>2. Weight(q, x, l) = 0
      BY <1>2, NoWeight
    <2>3. Weight(req[r], x, l) = IF x = o THEN 1 ELSE 0
      BY <1>0 DEF Weight, Holds, Owes
    <2>4. Out(x) \in Int /\ Out(x)' = IF x = o THEN 1 ELSE Out(x)
      BY <1>0, <1>1 DEF Out, ON_SHELF
    <2>5. x = o => Out(x) = 0
      BY <1>0 DEF Out, Stored, ON_SHELF, Shipped
    <2>6. QED
      BY <2>1, <2>2, <2>3, <2>4, <2>5
  <1>6. QED
    BY <1>1, <1>3, <1>4, <1>5 DEF Moves

\* The conditional write: a cancel frees the order, every other move it may
\* make leaves the order standing for its lines.
LEMMA WriteStatusMoves ==
  ASSUME StockInv, Guarded, NEW r \in Requests, WriteStatus(r)
  PROVE  \E q : Moves(r, q)
  <1>e. req[r].order \in Orders
    BY DEF StockInv, Placed, PlacedAt, WriteStatus, At
  <1> PICK o \in Orders : o = req[r].order
    BY <1>e
  <1> DEFINE s == req[r].status
             f == [Job("cancel", "restock", o) EXCEPT !.left = Lines]
  <1>0. /\ TypeOK /\ req[r].pc = "cas" /\ o \in Orders /\ order[o] \in Doc
        /\ <<req[r].doc.status, s>> \in ALLOWED_TRANSITIONS \cup SkipDispatch
    BY DEF StockInv, TypeOK, OnTrack, OnTrackAt, Placed, PlacedAt, WriteStatus, At
  <1>a. crashes' = crashes /\ taken' = taken
    BY DEF WriteStatus
  <1>b. f.op = "cancel" /\ f.pc = "restock" /\ f.order = o /\ f.left = Lines
    BY DEF Job, Idle
  <1>c. Idle.op = "create" /\ Idle.pc = "idle" /\ Idle.order = None
    BY DEF Idle
  <1>d. \A x \in Orders, l \in Lines : Weight(Idle, x, l) = Weight(req[r], x, l)
    BY <1>0, <1>c, NoWeight
  <1> HIDE DEF f
  <1>1. CASE Live(o) /\ order[o].status = req[r].doc.status
    <2>1. order' = [order EXCEPT ![o].status = s]
      BY <1>1 DEF WriteStatus
    <2>2. /\ order'[o].status = s /\ order'[o].deleted = order[o].deleted
          /\ \A x \in Orders \ {o} : order'[x] = order[x]
      BY <1>0, <2>1 DEF TypeOK, Doc
    <2>3. CASE s = "CANCELLED"
      <3>1. req' = [req EXCEPT ![r] = f]
        BY <1>1, <2>3 DEF WriteStatus, f
      <3>2. OnTrackAt(f)
        BY <1>b DEF OnTrackAt
      <3>3. ClaimsKept(r, f)
        BY <1>1, <1>b, <2>2 DEF ClaimsKept, Claims, Stored, Live
      <3>4. Out(o) = 1 /\ Out(o)' = 0
        BY <1>0, <1>1, <2>2, <2>3
           DEF Out, Live, ON_SHELF, Shipped, ALLOWED_TRANSITIONS, SkipDispatch
      <3>5. \A x \in Orders \ {o} : Out(x)' = Out(x)
        BY <2>2 DEF Out
      <3>6. BalanceKept(r, f)
        BY <1>0, <1>a, <1>b, <3>4, <3>5, OutFreed
      <3>7. QED
        BY <1>a, <3>1, <3>2, <3>3, <3>6 DEF Moves
    <2>4. CASE s # "CANCELLED"
      <3>1. req' = [req EXCEPT ![r] = Idle]
        BY <1>1, <2>4 DEF WriteStatus
      <3>2. OnTrackAt(Idle)
        BY <1>c DEF OnTrackAt
      <3>3. ClaimsKept(r, Idle)
        BY <1>1, <1>c, <2>2 DEF ClaimsKept, Claims, Stored, Live
      <3>4. \A x \in Orders : Out(x)' = Out(x)
        BY <1>0, <1>1, <2>2, <2>4
           DEF Out, Live, ON_SHELF, Shipped, ALLOWED_TRANSITIONS, SkipDispatch
      <3>5. BalanceKept(r, Idle)
        BY <1>0, <1>a, <1>d, <3>4, OutKept
      <3>6. QED
        BY <1>a, <3>1, <3>2, <3>3, <3>5 DEF Moves
    <2>5. QED
      BY <2>3, <2>4
  <1>2. CASE ~(Live(o) /\ order[o].status = req[r].doc.status)
    <2>1. req' = [req EXCEPT ![r] = Idle] /\ order' = order
      BY <1>2 DEF WriteStatus
    <2>2. OnTrackAt(Idle)
      BY <1>c DEF OnTrackAt
    <2>3. ClaimsKept(r, Idle)
      BY <1>c, <2>1 DEF ClaimsKept, Claims, Stored
    <2>4. BalanceKept(r, Idle)
      BY <1>0, <1>a, <1>d, <2>1, OutKept DEF Out
    <2>5. QED
      BY <1>a, <2>1, <2>2, <2>3, <2>4 DEF Moves
  <1>3. QED
    BY <1>1, <1>2

\* A failed write of create gives back exactly the lines that were taken.
LEMMA WriteFailsMoves ==
  ASSUME StockInv, Guarded, NEW r \in Requests, WriteFails(r)
  PROVE  \E q : Moves(r, q)
  <1> DEFINE o == req[r].order
             back == KnownTaken(req[r])
             q == PutBack(req[r], back)
  <1>0. /\ TypeOK /\ OnTrackAt(req[r]) /\ req[r] \in Request
        /\ \/ req[r].op = "create" /\ req[r].pc \in {"take", "save"}
           \/ req[r].op = "reorder" /\ req[r].pc = "save"
    BY DEF StockInv, TypeOK, OnTrack, Guarded, WriteFails
  <1>1. /\ req' = [req EXCEPT ![r] = q] /\ crashes' = crashes
        /\ taken' = taken /\ order' = order
    BY <1>0 DEF WriteFails
  <1>2. back = IF req[r].pc = "save" THEN Lines ELSE Lines \ req[r].left
    BY <1>0 DEF KnownTaken
  <1> HIDE DEF back
  <1>3. IF back = {} THEN q.pc \in {"idle", "unlink"} /\ q.op \in {req[r].op, "create"}
                         /\ q.order \in {o, None}
        ELSE q.pc = "restock" /\ q.left = back /\ q.order = o /\ q.op = req[r].op
    <2>1. CASE back = {}
      <3> DEFINE j == [req[r] EXCEPT !.left = {}]
      <3>1. j \in Request /\ j.op = req[r].op /\ j.order = o /\ q = AfterRestock(j)
        BY <1>0, <2>1 DEF Request, PutBack
      <3> HIDE DEF j, q
      <3>2. QED
        BY <1>0, <2>1, <3>1 DEF AfterRestock, Request, Idle
    <2>2. CASE back # {}
      <3>1. q = [req[r] EXCEPT !.pc = "restock", !.left = back]
        BY <2>2 DEF PutBack
      <3> HIDE DEF q
      <3>2. QED
        BY <1>0, <2>2, <3>1 DEF Request
    <2>3. QED
      BY <2>1, <2>2
  <1> HIDE DEF q
  <1>4. OnTrackAt(q)
    BY <1>0, <1>3 DEF OnTrackAt
  <1>5. ClaimsKept(r, q)
    BY <1>1, <1>3 DEF ClaimsKept, Claims, Stored
  <1>6. \A x \in Orders, l \in Lines : Weight(q, x, l) = Weight(req[r], x, l)
    BY <1>0, <1>2, <1>3 DEF Weight, Holds, Owes
  <1>7. BalanceKept(r, q)
    BY <1>0, <1>1, <1>6, OutKept DEF Out
  <1>8. QED
    BY <1>1, <1>4, <1>5, <1>7 DEF Moves

-----------------------------------------------------------------------------
(***************************************************************************)
(* The invariant, and what it says once nothing is under way.              *)
(***************************************************************************)

LEMMA StockInit == Init => StockInv
  <1> SUFFICES ASSUME Init PROVE StockInv
    OBVIOUS
  <1>1. TypeOK
    BY InitType
  <1>2. \A r \in Requests : req[r] = Idle
    BY DEF Init
  <1>3. Placed /\ ClaimsAlone /\ OnTrack
    BY <1>2, IdlePlaced DEF Placed, ClaimsAlone, Claims, OnTrack, OnTrackAt, Idle
  <1>4. ASSUME NEW o \in Orders, NEW l \in Lines
        PROVE  LineBalance(o, l) \in -crashes .. crashes
    <2>1. Holding(o, l) = {} /\ Owing(o, l) = {}
      BY <1>2 DEF Holding, Owing, Holds, Owes, Idle
    <2>2. taken[o][l] = 0 /\ Out(o) = 0 /\ crashes = 0
      BY DEF Init, Out, NoDoc, ON_SHELF, Shipped
    <2>3. QED
      BY <2>1, <2>2, FS_EmptySet DEF LineBalance
  <1>5. QED
    BY <1>1, <1>3, <1>4 DEF StockInv

LEMMA StockStep ==
  ASSUME StockInv, Guarded, [Next]_vars
  PROVE  StockInv'
  <1>0. TypeOK /\ Placed
    BY DEF StockInv
  <1>1. ASSUME NEW r \in Requests, Arrive(r)
        PROVE  StockInv'
    BY <1>0, <1>1, StartType, ArrivePlaced, ArriveMoves, MovesKeep
  <1>2. ASSUME NEW r \in Requests, Continue(r)
        PROVE  StockInv'
    <2>1. TypeOK' /\ Placed'
      BY <1>0, <1>2, ContinueType, ContinuePlaced
    <2>2. ~DropOrder(r) /\ ~Rewind(r)
      BY DEF StockInv, OnTrack, OnTrackAt, DropOrder, Rewind, At
    <2>3. \E q : Moves(r, q)
      <3>1. ASSUME NEW l \in Lines, TakeLine(r, l) \/ RestockLine(r, l)
            PROVE  \E q : Moves(r, q)
        BY <3>1, TakeMoves, RestockMoves
      <3>2. CASE Credit(r) \/ SumRows(r) \/ AppendReversal(r) \/ Unlink(r)
        BY <3>2, LedgerMoves
      <3>3. CASE Save(r)
        BY <3>3, SaveMoves
      <3>4. CASE WriteStatus(r)
        BY <3>4, WriteStatusMoves
      <3>5. QED
        BY <1>2, <2>2, <3>1, <3>2, <3>3, <3>4 DEF Continue
    <2>4. QED
      BY <2>1, <2>3, MovesKeep
  <1>3. ASSUME NEW r \in Requests, WriteFails(r)
        PROVE  StockInv'
    BY <1>0, <1>3, WriteFailsType, ContinuePlaced, WriteFailsMoves, MovesKeep
  <1>4. ASSUME NEW r \in Requests, Crash(r)
        PROVE  StockInv'
    BY <1>0, <1>4, CrashType, ContinuePlaced, CrashKeeps
  <1>5. CASE UNCHANGED vars
    BY <1>5 DEF vars, StockInv, TypeOK, Placed, ClaimsAlone, OnTrack, Stored,
                LineBalance, Out, Holding, Owing
  <1>6. QED
    BY <1>1, <1>2, <1>3, <1>4, <1>5 DEF Next

LEMMA QuietBalanced == StockInv => StockBalanced
  <1> SUFFICES ASSUME StockInv, Quiet, NEW o \in Orders, NEW l \in Lines
               PROVE  taken[o][l] - Out(o) \in -crashes .. crashes
    BY DEF StockBalanced
  <1>1. Holding(o, l) = {} /\ Owing(o, l) = {}
    BY DEF Quiet, Holding, Owing, Holds, Owes
  <1>2. taken[o][l] \in Int /\ Out(o) \in Int
    BY DEF StockInv, TypeOK, Out
  <1>3. LineBalance(o, l) = taken[o][l] - Out(o)
    BY <1>1, <1>2, FS_EmptySet DEF LineBalance
  <1>4. QED
    BY <1>3 DEF StockInv

\* However many orders, lines and requests there are and however the requests
\* interleave and die: as long as orders are only written conditionally (no
\* revert-status) and only failures before the document is stored are undone,
\* the shelf agrees with the orders once nothing is under way, up to one
\* movement for each request that died.
THEOREM StockSafety == Guarded => (Spec => []StockBalanced)
  <1>1. Guarded /\ StockInv /\ [Next]_vars => StockInv'
    BY StockStep
  <1>2. Guarded => (Spec => []StockInv)
    <2> SUFFICES ASSUME Guarded PROVE Spec => []StockInv
      OBVIOUS
    <2>1. StockInv /\ [Next]_vars => StockInv'
      BY <1>1
    <2>2. QED
      BY <2>1, StockInit, PTL DEF Spec
  <1>3. QED
    BY <1>2, QuietBalanced, PTL

-----------------------------------------------------------------------------
(***************************************************************************)
(* The stages of the board.                                                *)
(***************************************************************************)

LEMMA StageStep ==
  ASSUME StockInv, Guarded, [Next]_vars, NEW o \in Orders, Stored(o), Stored(o)'
  PROVE  StatusEdge(order[o].status, order'[o].status)
  <1>0. TypeOK /\ order[o] \in Doc
    BY DEF StockInv, TypeOK
  <1>1. CASE order'[o].status = order[o].status
    BY <1>1 DEF StatusEdge
  <1>2. ASSUME NEW r \in Requests, Arrive(r)
        PROVE  StatusEdge(order[o].status, order'[o].status)
    <2> PICK p \in Orders :
          \/ \E t \in OrderType, e \in BOOLEAN : Create(r, p, t, e)
          \/ \E s \in Status, skip \in BOOLEAN : ReadForStatus(r, p, s, skip)
          \/ Approve(r, p) \/ Reject(r, p) \/ Delete(r, p) \/ Restore(r, p)
          \/ MarkReturned(r, p) \/ ReadForRevert(r, p)
          \/ \E n \in Orders : Reorder(r, p, n)
      BY <1>2 DEF Arrive
    <2>1. CASE \/ \E t \in OrderType, e \in BOOLEAN : Create(r, p, t, e)
               \/ \E s \in Status, skip \in BOOLEAN : ReadForStatus(r, p, s, skip)
               \/ ReadForRevert(r, p)
      BY <1>1, <2>1 DEF Create, ReadForStatus, ReadForRevert
    <2>2. CASE Approve(r, p)
      BY <1>0, <1>1, <2>2 DEF Approve, TypeOK, Doc
    <2>3. CASE Reject(r, p)
      <3>1. order[p].status \in ON_SHELF
        BY <2>3 DEF Reject
      <3>2. order'[o].status = IF o = p THEN "CANCELLED" ELSE order[o].status
        BY <1>0, <2>3 DEF Reject, TypeOK, Doc
      <3>3. QED
        BY <1>1, <3>1, <3>2 DEF StatusEdge, ON_SHELF, ALLOWED_TRANSITIONS
    <2>4. CASE Delete(r, p) \/ Restore(r, p)
      BY <1>0, <1>1, <2>4 DEF Delete, Restore, TypeOK, Doc
    <2>5. CASE MarkReturned(r, p)
      <3>1. order[p].status \in Shipped
        BY <2>5 DEF MarkReturned
      <3>2. order'[o].status = IF o = p THEN "RETURNED" ELSE order[o].status
        BY <1>0, <2>5 DEF MarkReturned, TypeOK, Doc
      <3>3. QED
        BY <1>1, <3>1, <3>2 DEF StatusEdge
    <2>6. ASSUME NEW n \in Orders, Reorder(r, p, n)
          PROVE  StatusEdge(order[o].status, order'[o].status)
      BY <1>0, <1>1, <2>6 DEF Reorder, TypeOK, Doc
    <2>7. QED
      BY <2>1, <2>2, <2>3, <2>4, <2>5, <2>6
  <1>3. ASSUME NEW r \in Requests, Continue(r)
        PROVE  StatusEdge(order[o].status, order'[o].status)
    <2>1. ~DropOrder(r) /\ ~Rewind(r)
      BY DEF StockInv, OnTrack, OnTrackAt, DropOrder, Rewind, At
    <2>2. ASSUME NEW l \in Lines, TakeLine(r, l) \/ RestockLine(r, l)
          PROVE  StatusEdge(order[o].status, order'[o].status)
      BY <1>1, <2>2 DEF TakeLine, RestockLine
    <2>3. CASE Credit(r) \/ SumRows(r) \/ AppendReversal(r)
      BY <1>1, <2>3 DEF Credit, SumRows, AppendReversal
    <2>4. CASE Unlink(r)
      <3>1. order'[o] = order[o] \/ order'[o] = [order[o] EXCEPT !.to = None]
        BY <1>0, <2>4 DEF Unlink, TypeOK
      <3>2. QED
        BY <1>0, <1>1, <3>1 DEF Doc
    <2>5. CASE Save(r)
      <3>1. o # req[r].order
        BY <2>5 DEF StockInv, ClaimsAlone, Claims, Save, At
      <3>2. QED
        BY <1>0, <1>1, <2>5, <3>1 DEF Save, TypeOK
    <2>6. CASE WriteStatus(r)
      <3>1. <<req[r].doc.status, req[r].status>> \in ALLOWED_TRANSITIONS \cup SkipDispatch
        BY <2>6 DEF StockInv, OnTrack, OnTrackAt, WriteStatus, At
      <3>2. \/ order' = order
            \/ /\ order' = [order EXCEPT ![req[r].order].status = req[r].status]
               /\ order[req[r].order].status = req[r].doc.status
        BY <2>6 DEF WriteStatus
      <3>3. CASE order' = order \/ o # req[r].order
        BY <1>0, <1>1, <3>2, <3>3 DEF TypeOK
      <3>4. CASE order' # order /\ o = req[r].order
        <4>1. order'[o].status = req[r].status
          BY <1>0, <3>2, <3>4 DEF TypeOK, Doc
        <4>2. QED
          BY <3>1, <3>2, <3>4, <4>1 DEF StatusEdge
      <3>5. QED
        BY <3>3, <3>4
    <2>7. QED
      BY <1>3, <2>1, <2>2, <2>3, <2>4, <2>5, <2>6 DEF Continue
  <1>4. CASE \E r \in Requests : WriteFails(r) \/ Crash(r)
    BY <1>1, <1>4 DEF WriteFails, Crash
  <1>5. CASE UNCHANGED vars
    BY <1>1, <1>5 DEF vars
  <1>6. QED
    BY <1>2, <1>3, <1>4, <1>5 DEF Next

\* An order only ever moves along the board: whatever a request has read, its
\* conditional write never rewinds or revives an order.
THEOREM StagesFollowBoard == Guarded => (Spec => FollowsBoard)
  <1> SUFFICES ASSUME Guarded PROVE Spec => FollowsBoard
    OBVIOUS
  <1>1. StockInv /\ [Next]_vars => StockInv'
    BY StockStep
  <1>2. StockInv /\ [Next]_vars =>
          [\A o \in Orders : Stored(o) /\ Stored(o)' =>
              StatusEdge(order[o].status, order[o].status')]_vars
    BY StageStep
  <1>3. QED
    BY <1>1, <1>2, StockInit, PTL DEF Spec, FollowsBoard

-----------------------------------------------------------------------------
(***************************************************************************)
(* The approval gate: what is fulfilled was approved, or needed none.      *)
(* First, what a step of r to q has to do to keep the invariant.           *)
(***************************************************************************)

\* No stored document becomes unfit for its stage, no cleared one loses its
\* clearance.
Clears(o) ==
    /\ StageCleared(order'[o])
    /\ Cleared(order[o]) => Cleared(order'[o])

\* r asks for nothing that is not cleared.
Asks(q) ==
    /\ q.pc = "cas" /\ q.status # "CANCELLED" =>
          q.order \in Orders /\ Cleared(order'[q.order])
    /\ Claims(q) => q.doc.approval # "REJECTED"

LEMMA GateStep ==
  ASSUME TypeOK, ApprovalInv, NEW r \in Requests, NEW q,
         req' = [req EXCEPT ![r] = q], Asks(q), \A o \in Orders : Clears(o)
  PROVE  ApprovalInv'
  <1>1. req'[r] = q /\ \A p \in Requests \ {r} : req'[p] = req[p]
    BY DEF TypeOK
  <1>2. ASSUME NEW p \in Requests
        PROVE  MoveCleared(req[p])' /\ (Claims(req[p]) => req[p].doc.approval # "REJECTED")'
    <2>1. CASE p = r
      BY <1>1, <2>1 DEF Asks, MoveCleared, Cleared, Claims
    <2>2. CASE p # r
      <3>1. req'[p] = req[p] /\ MoveCleared(req[p])
            /\ (Claims(req[p]) => req[p].doc.approval # "REJECTED")
        BY <1>1, <2>2 DEF ApprovalInv
      <3>2. QED
        BY <3>1 DEF Clears, MoveCleared, Cleared, Claims
    <2>3. QED
      BY <2>1, <2>2
  <1>3. \A o \in Orders : StageCleared(order[o])'
    BY DEF Clears, StageCleared, Cleared
  <1>4. QED
    BY <1>2, <1>3 DEF ApprovalInv

\* A step that writes no order clears every one as before.
LEMMA SameOrders ==
  ASSUME ApprovalInv, order' = order
  PROVE  \A o \in Orders : Clears(o)
  BY DEF ApprovalInv, Clears

\* A step that writes one order has to account for that one only.
LEMMA OneOrder ==
  ASSUME TypeOK, ApprovalInv, NEW o \in Orders, NEW d,
         order' = [order EXCEPT ![o] = d],
         StageCleared(d), Cleared(order[o]) => Cleared(d)
  PROVE  \A x \in Orders : Clears(x)
  <1>1. order'[o] = d /\ \A x \in Orders \ {o} : order'[x] = order[x]
    BY DEF TypeOK
  <1>2. QED
    BY <1>1 DEF ApprovalInv, Clears

\* A job that neither moves nor saves asks for nothing.
LEMMA JobAsks ==
  ASSUME NEW q, q.pc \notin {"cas", "take", "save"}
  PROVE  Asks(q)
  BY DEF Asks, Claims

-----------------------------------------------------------------------------
(***************************************************************************)
(* The operations, each as it arrives.                                     *)
(***************************************************************************)

LEMMA ArriveGates ==
  ASSUME StockInv, Guarded, ApprovalInv, NEW r \in Requests, Arrive(r)
  PROVE  ApprovalInv'
  <1>0. TypeOK /\ order \in [Orders -> Doc]
    BY DEF StockInv, TypeOK
  <1> PICK o \in Orders :
        \/ \E t \in OrderType, e \in BOOLEAN : Create(r, o, t, e)
        \/ \E s \in Status, skip \in BOOLEAN : ReadForStatus(r, o, s, skip)
        \/ Approve(r, o) \/ Reject(r, o) \/ Delete(r, o) \/ Restore(r, o)
        \/ MarkReturned(r, o) \/ ReadForRevert(r, o)
        \/ \E n \in Orders : Reorder(r, o, n)
    BY DEF Arrive
  <1> DEFINE d == order[o]
  <1>a. d \in Doc /\ StageCleared(d)
    BY <1>0 DEF ApprovalInv
  <1>1. ASSUME NEW t \in OrderType, NEW e \in BOOLEAN, Create(r, o, t, e)
        PROVE  ApprovalInv'
    <2> DEFINE q == [Job("create", "take", o) EXCEPT
                       !.doc = [NoDoc EXCEPT !.status = "NEW", !.type = t, !.earns = e,
                                  !.approval = IF t = "WELCOME_KIT" THEN "PENDING" ELSE "NULL"],
                       !.left = Lines]
    <2>1. req' = [req EXCEPT ![r] = q] /\ order' = order
      BY <1>1 DEF Create
    <2>2. q.pc = "take" /\ q.doc.approval # "REJECTED"
      BY DEF Job, Idle, NoDoc
    <2> HIDE DEF q
    <2>3. Asks(q)
      BY <2>2 DEF Asks
    <2>4. QED
      BY <1>0, <2>1, <2>3, SameOrders, GateStep
  <1>2. ASSUME NEW s \in Status, NEW skip \in BOOLEAN, ReadForStatus(r, o, s, skip)
        PROVE  ApprovalInv'
    <2> DEFINE q == [Job("status", "cas", o) EXCEPT !.doc = order[o], !.status = s]
    <2>1. /\ req' = [req EXCEPT ![r] = q] /\ order' = order
          /\ d.approval = "PENDING" => s = "CANCELLED"
          /\ d.status \notin {"NONE", "CANCELLED"}
      <3>1. <<order[o].status, s>> \in ALLOWED_TRANSITIONS \cup SkipDispatch
        BY <1>2 DEF ReadForStatus
      <3>2. d.status \notin {"NONE", "CANCELLED"}
        BY <3>1 DEF ALLOWED_TRANSITIONS, SkipDispatch, ON_SHELF
      <3>3. QED
        BY <1>2, <3>2 DEF ReadForStatus
    <2>2. q.pc = "cas" /\ q.status = s /\ q.order = o
      BY DEF Job, Idle
    <2> HIDE DEF q
    <2>3. s # "CANCELLED" => Cleared(d)
      BY <1>a, <2>1 DEF StageCleared, Cleared, Doc, Approval
    <2>4. Asks(q)
      BY <2>1, <2>2, <2>3 DEF Asks, Claims
    <2>5. QED
      BY <1>0, <2>1, <2>4, SameOrders, GateStep
  <1>3. CASE Approve(r, o)
    <2> DEFINE q == IF order[o].earns THEN Job("approve", "credit", o) ELSE Idle
               e == [d EXCEPT !.approval = "APPROVED"]
    <2>1. req' = [req EXCEPT ![r] = q] /\ order' = [order EXCEPT ![o] = e]
      BY <1>3 DEF Approve
    <2>2. q.pc \notin {"cas", "take", "save"}
      BY DEF Job, Idle
    <2>3. d.status # "NONE"
      BY <1>3 DEF Approve, PENDING_KIT, Live, Stored
    <2>4. e.status = d.status /\ e.approval = "APPROVED"
      BY <1>a DEF Doc
    <2> HIDE DEF q, e
    <2>5. StageCleared(e) /\ Cleared(e)
      BY <1>a, <2>3, <2>4 DEF StageCleared, Cleared
    <2>6. QED
      BY <1>0, <2>1, <2>2, <2>5, JobAsks, OneOrder, GateStep
  <1>4. CASE Reject(r, o)
    <2> DEFINE q == [Job("reject", "restock", o) EXCEPT !.left = Lines]
               e == [d EXCEPT !.approval = "REJECTED", !.status = "CANCELLED"]
    <2>1. req' = [req EXCEPT ![r] = q] /\ order' = [order EXCEPT ![o] = e]
      BY <1>4 DEF Reject
    <2>2. q.pc = "restock"
      BY DEF Job, Idle
    <2>3. d.approval = "PENDING"
      BY <1>4 DEF Reject, PENDING_KIT
    <2>4. e.status = "CANCELLED"
      BY <1>a DEF Doc
    <2> HIDE DEF q, e
    <2>5. StageCleared(e) /\ ~Cleared(d)
      BY <2>3, <2>4 DEF StageCleared, Cleared, Shipped
    <2>6. QED
      BY <1>0, <2>1, <2>2, <2>5, JobAsks, OneOrder, GateStep
  <1>5. CASE Delete(r, o)
    <2> DEFINE q == IF order[o].status \in ON_SHELF
                    THEN [Job("delete", "restock", o) EXCEPT !.left = Lines]
                    ELSE Job("delete", "sum", o)
               e == [d EXCEPT !.deleted = TRUE]
    <2>1. req' = [req EXCEPT ![r] = q] /\ order' = [order EXCEPT ![o] = e]
      BY <1>5 DEF Delete
    <2>2. q.pc \notin {"cas", "take", "save"}
      BY DEF Job, Idle
    <2>3. e.status = d.status /\ e.approval = d.approval
      BY <1>a DEF Doc
    <2> HIDE DEF q, e
    <2>4. StageCleared(e) /\ (Cleared(d) => Cleared(e))
      BY <1>a, <2>3 DEF StageCleared, Cleared
    <2>5. QED
      BY <1>0, <2>1, <2>2, <2>4, JobAsks, OneOrder, GateStep
  <1>6. CASE Restore(r, o)
    <2> DEFINE j == [Job("restore", "take", o) EXCEPT !.doc = order[o]]
               q == IF order[o].status \in ON_SHELF
                    THEN [j EXCEPT !.left = Lines]
                    ELSE AfterTake(j)
               e == [d EXCEPT !.deleted = FALSE]
    <2>1. req' = [req EXCEPT ![r] = q] /\ order' = [order EXCEPT ![o] = e]
      BY <1>6 DEF Restore
    <2>2. q.pc \notin {"cas", "save"} /\ (q.pc = "take" => q.op = "restore")
      BY DEF Job, Idle, AfterTake
    <2>3. e.status = d.status /\ e.approval = d.approval
      BY <1>a DEF Doc
    <2> HIDE DEF q, e
    <2>4. StageCleared(e) /\ (Cleared(d) => Cleared(e))
      BY <1>a, <2>3 DEF StageCleared, Cleared
    <2>5. Asks(q)
      BY <2>2 DEF Asks, Claims
    <2>6. QED
      BY <1>0, <2>1, <2>4, <2>5, OneOrder, GateStep
  <1>7. CASE MarkReturned(r, o)
    <2> DEFINE q == [Job("returned", "restock", o) EXCEPT !.left = Lines]
               e == [d EXCEPT !.status = "RETURNED"]
    <2>1. req' = [req EXCEPT ![r] = q] /\ order' = [order EXCEPT ![o] = e]
      BY <1>7 DEF MarkReturned
    <2>2. q.pc = "restock"
      BY DEF Job, Idle
    <2>3. Cleared(d)
      BY <1>7, <1>a DEF MarkReturned, StageCleared
    <2>4. e.status = "RETURNED" /\ e.approval = d.approval
      BY <1>a DEF Doc
    <2> HIDE DEF q, e
    <2>5. StageCleared(e) /\ Cleared(e)
      BY <2>3, <2>4 DEF StageCleared, Cleared
    <2>6. QED
      BY <1>0, <2>1, <2>2, <2>5, JobAsks, OneOrder, GateStep
  <1>8. CASE ReadForRevert(r, o)
    BY <1>8 DEF Guarded, ReadForRevert, Starts
  <1>9. ASSUME NEW n \in Orders, Reorder(r, o, n)
        PROVE  ApprovalInv'
    <2> DEFINE q == [Job("reorder", "take", n) EXCEPT
                       !.doc = [NoDoc EXCEPT !.status = "NEW", !.type = order[o].type,
                                  !.approval = order[o].approval, !.from = o],
                       !.left = Lines]
               e == [d EXCEPT !.to = n]
    <2>1. /\ req' = [req EXCEPT ![r] = q] /\ order' = [order EXCEPT ![o] = e]
          /\ d.status = "RETURNED"
      BY <1>9 DEF Reorder
    <2>2. q.pc = "take" /\ q.doc.approval = d.approval
      BY DEF Job, Idle, NoDoc
    <2>3. e.status = d.status /\ e.approval = d.approval
      BY <1>a DEF Doc
    <2> HIDE DEF q, e
    <2>4. StageCleared(e) /\ (Cleared(d) => Cleared(e))
      BY <1>a, <2>3 DEF StageCleared, Cleared
    <2>5. Asks(q)
      BY <1>a, <2>1, <2>2 DEF Asks, StageCleared
    <2>6. QED
      BY <1>0, <2>1, <2>4, <2>5, OneOrder, GateStep
  <1>10. QED
    BY <1>1, <1>2, <1>3, <1>4, <1>5, <1>6, <1>7, <1>8, <1>9

-----------------------------------------------------------------------------
(***************************************************************************)
(* The round trips of a request under way.                                 *)
(***************************************************************************)

\* Where a request goes after its stock: never to a move, to a save only with
\* the document it was to save all along.
LEMMA AfterAsks ==
  ASSUME ApprovalInv, NEW r \in Requests, NEW q \in Request, NEW lines,
         q.doc = req[r].doc, q.op = req[r].op, q.pc = req[r].pc, q.pc # "cas"
  PROVE  /\ Asks(q)
         /\ q.pc = "take" => Asks(AfterTake(q))
         /\ Asks(AfterRestock(q))
         /\ Asks(PutBack(q, lines))
  <1>1. Claims(q) => q.doc.approval # "REJECTED"
    BY DEF ApprovalInv, Claims
  <1>2. Asks(q)
    BY <1>1 DEF Asks
  <1>3. ASSUME q.pc = "take" PROVE Asks(AfterTake(q))
    <2> DEFINE a == AfterTake(q)
    <2>1. CASE q.op # "restore"
      <3>1. a.pc = "save" /\ a.doc = q.doc /\ Claims(q)
        BY <1>3, <2>1 DEF AfterTake, Claims, Request
      <3> HIDE DEF a
      <3>2. Asks(a)
        BY <1>1, <3>1 DEF Asks
      <3>3. QED
        BY <3>2 DEF a
    <2>2. CASE q.op = "restore"
      <3>1. a.pc \in {"credit", "idle"}
        BY <2>2 DEF AfterTake, Request, Idle
      <3> HIDE DEF a
      <3>2. Asks(a)
        BY <3>1, JobAsks
      <3>3. QED
        BY <3>2 DEF a
    <2>3. QED
      BY <2>1, <2>2
  <1>4. ASSUME NEW p \in Request PROVE Asks(AfterRestock(p))
    <2> DEFINE a == AfterRestock(p)
    <2>1. a.pc \in {"sum", "unlink", "idle"}
      BY DEF AfterRestock, Request, Idle
    <2> HIDE DEF a
    <2>2. Asks(a)
      BY <2>1, JobAsks
    <2>3. QED
      BY <2>2 DEF a
  <1>5. Asks(PutBack(q, lines))
    <2> DEFINE a == [q EXCEPT !.pc = "restock", !.left = lines]
               b == [q EXCEPT !.left = {}]
    <2>1. a.pc = "restock" /\ b \in Request
      BY DEF Request
    <2>2. Asks(AfterRestock(b))
      BY <1>4, <2>1
    <2> HIDE DEF a, b
    <2>3. Asks(a)
      BY <2>1, JobAsks
    <2>4. QED
      BY <2>2, <2>3 DEF PutBack, a, b
  <1>6. QED
    BY <1>2, <1>3, <1>4, <1>5

\* A step that only takes r on, to something that is neither move nor save.
LEMMA LedgerGates ==
  ASSUME StockInv, ApprovalInv, NEW r \in Requests, NEW q,
         req' = [req EXCEPT ![r] = q], order' = order,
         q.pc \notin {"cas", "take", "save"}
  PROVE  ApprovalInv'
  BY JobAsks, SameOrders, GateStep DEF StockInv

LEMMA ContinueGates ==
  ASSUME StockInv, Guarded, ApprovalInv, NEW r \in Requests, Continue(r)
  PROVE  ApprovalInv'
  <1>0. TypeOK /\ order \in [Orders -> Doc] /\ req[r] \in Request
    BY DEF StockInv, TypeOK
  <1> DEFINE o == req[r].order
             d == order[o]
  <1>a. ~DropOrder(r) /\ ~Rewind(r)
    BY DEF StockInv, OnTrack, OnTrackAt, DropOrder, Rewind, At
  <1>b. req[r].pc # "idle" => o \in Orders
    BY DEF StockInv, Placed, PlacedAt
  <1>1. ASSUME NEW l \in Lines, TakeLine(r, l) \/ RestockLine(r, l)
        PROVE  ApprovalInv'
    <2> DEFINE j == [req[r] EXCEPT !.left = @ \ {l}]
    <2>1. /\ j \in Request /\ j.doc = req[r].doc /\ j.op = req[r].op
          /\ j.pc = req[r].pc
      BY <1>0 DEF Request
    <2>2. /\ order' = order /\ j.pc \in {"take", "restock"}
          /\ \/ req' = [req EXCEPT ![r] = j]
             \/ req' = [req EXCEPT ![r] = AfterTake(j)] /\ j.pc = "take"
             \/ req' = [req EXCEPT ![r] = AfterRestock(j)]
      BY <1>1, <2>1 DEF TakeLine, RestockLine, At
    <2> HIDE DEF j
    <2>3. Asks(j) /\ (j.pc = "take" => Asks(AfterTake(j))) /\ Asks(AfterRestock(j))
      BY <2>1, <2>2, AfterAsks
    <2>4. QED
      BY <1>0, <2>2, <2>3, SameOrders, GateStep
  <1>2. Idle.pc = "idle"
    BY DEF Idle
  <1>3. CASE Credit(r)
    BY <1>2, <1>3, LedgerGates DEF Credit
  <1>4. CASE SumRows(r)
    <2> DEFINE j == [req[r] EXCEPT !.sum = net[req[r].order], !.pc = "reverse"]
               q == IF j.sum > 0 THEN j
                    ELSE IF j.op = "revert" THEN [j EXCEPT !.pc = "rewind"]
                    ELSE Idle
    <2>1. req' = [req EXCEPT ![r] = q] /\ order' = order
      BY <1>4 DEF SumRows
    <2>2. q.pc \notin {"cas", "take", "save"}
      BY <1>0, <1>2 DEF Request
    <2> HIDE DEF q
    <2>3. QED
      BY <2>1, <2>2, LedgerGates
  <1>5. CASE AppendReversal(r)
    <2> DEFINE q == IF req[r].op = "revert" THEN [req[r] EXCEPT !.pc = "rewind"]
                    ELSE Idle
    <2>1. req' = [req EXCEPT ![r] = q] /\ order' = order
      BY <1>5 DEF AppendReversal
    <2>2. q.pc \notin {"cas", "take", "save"}
      BY <1>0, <1>2 DEF Request
    <2> HIDE DEF q
    <2>3. QED
      BY <2>1, <2>2, LedgerGates
  <1>6. CASE Save(r)
    <2> DEFINE e == req[r].doc
               q == IF req[r].op = "create" /\ req[r].doc.earns
                    THEN [req[r] EXCEPT !.pc = "credit"]
                    ELSE Idle
    <2>1. /\ order' = [order EXCEPT ![o] = e] /\ req' = [req EXCEPT ![r] = q]
          /\ Claims(req[r])
      BY <1>6 DEF Save, At, Claims
    <2>2. q.pc \in {"credit", "idle"}
      BY <1>0 DEF Request, Idle
    <2>3. d.status = "NONE" /\ e.status = "NEW" /\ e.approval # "REJECTED"
      BY <2>1 DEF StockInv, ClaimsAlone, Stored, ApprovalInv
    <2>4. o \in Orders
      BY <2>1 DEF StockInv, ClaimsAlone
    <2> HIDE DEF q, e
    <2>5. StageCleared(e) /\ ~Cleared(d)
      BY <2>3 DEF StageCleared, Cleared, Shipped
    <2> HIDE DEF d, o
    <2>6. \A x \in Orders : Clears(x)
      BY <1>0, <2>1, <2>4, <2>5, OneOrder DEF d
    <2>7. QED
      BY <1>0, <2>1, <2>2, <2>6, JobAsks, GateStep
  <1>7. CASE WriteStatus(r)
    <2> DEFINE s == req[r].status
    <2>1. PICK q : /\ req' = [req EXCEPT ![r] = q]
                   /\ q.pc \in {"idle", "restock"}
      <3>1. Idle.pc = "idle"
            /\ [Job("cancel", "restock", o) EXCEPT !.left = Lines].pc = "restock"
        BY DEF Job, Idle
      <3>2. QED
        BY <1>7, <3>1 DEF WriteStatus
    <2>2. Asks(q)
      BY <2>1, JobAsks
    <2>3. CASE order' = order
      BY <1>0, <2>1, <2>2, <2>3, SameOrders, GateStep
    <2>4. CASE order' # order
      <3> DEFINE e == [d EXCEPT !.status = s]
      <3>1. /\ order' = [order EXCEPT ![o] = e] /\ req[r].pc = "cas"
            /\ d.status = req[r].doc.status /\ o \in Orders
        BY <1>7, <1>b, <2>4 DEF WriteStatus, At
      <3>2. /\ s # "CANCELLED" => Cleared(d)
            /\ <<req[r].doc.status, s>> \in ALLOWED_TRANSITIONS \cup SkipDispatch
        BY <3>1 DEF ApprovalInv, MoveCleared, StockInv, OnTrack, OnTrackAt
      <3>3. e.status = s /\ e.approval = d.approval
        BY <1>0, <3>1 DEF Doc
      <3>4. s # "NONE" /\ StageCleared(d)
        BY <1>0, <3>1 DEF Request, Status, ApprovalInv
      <3> HIDE DEF e, d, s, o
      <3>5. StageCleared(e) /\ (Cleared(d) => Cleared(e))
        BY <3>2, <3>3, <3>4 DEF StageCleared, Cleared, Shipped
      <3>6. \A x \in Orders : Clears(x)
        BY <1>0, <3>1, <3>5, OneOrder DEF d
      <3>7. QED
        BY <1>0, <2>1, <2>2, <3>6, GateStep
    <2>5. QED
      BY <2>3, <2>4
  <1>8. CASE Unlink(r)
    <2> DEFINE p == req[r].doc.from
               e == [order[p] EXCEPT !.to = None]
    <2>1. /\ req' = [req EXCEPT ![r] = Idle] /\ p \in Orders
          /\ order' = order \/ order' = [order EXCEPT ![p] = e]
      BY <1>8 DEF Unlink, At, StockInv, Placed, PlacedAt
    <2>2. e.status = order[p].status /\ e.approval = order[p].approval
      BY <1>0, <2>1 DEF Doc
    <2>3. StageCleared(order[p])
      BY <2>1 DEF ApprovalInv
    <2>4. Asks(Idle)
      BY JobAsks DEF Idle
    <2> HIDE DEF e, p
    <2>5. StageCleared(e) /\ (Cleared(order[p]) => Cleared(e))
      BY <2>2, <2>3 DEF StageCleared, Cleared
    <2>6. \A x \in Orders : Clears(x)
      BY <1>0, <2>1, <2>5, OneOrder, SameOrders
    <2>7. QED
      BY <1>0, <2>1, <2>4, <2>6, GateStep
  <1>9. QED
    BY <1>a, <1>1, <1>3, <1>4, <1>5, <1>6, <1>7, <1>8 DEF Continue

-----------------------------------------------------------------------------
(***************************************************************************)
(* The invariant.                                                          *)
(***************************************************************************)

LEMMA GateInit == Init => ApprovalInv
  BY DEF Init, ApprovalInv, StageCleared, MoveCleared, Claims, Idle, NoDoc, Shipped

LEMMA ApprovalStep ==
  ASSUME StockInv, Guarded, ApprovalInv, [Next]_vars
  PROVE  ApprovalInv'
  <1>0. TypeOK
    BY DEF StockInv
  <1>1. ASSUME NEW r \in Requests, Arrive(r)
        PROVE  ApprovalInv'
    BY <1>1, ArriveGates
  <1>2. ASSUME NEW r \in Requests, Continue(r)
        PROVE  ApprovalInv'
    BY <1>2, ContinueGates
  <1>3. ASSUME NEW r \in Requests, WriteFails(r)
        PROVE  ApprovalInv'
    <2> DEFINE q == PutBack(req[r], KnownTaken(req[r]))
    <2>1. req[r] \in Request /\ req[r].pc \in {"take", "save"}
      BY <1>0, <1>3 DEF TypeOK, Guarded, WriteFails
    <2>2. req' = [req EXCEPT ![r] = q] /\ order' = order
      BY <1>3, <2>1 DEF WriteFails
    <2>3. Asks(q)
      BY <2>1, AfterAsks
    <2> HIDE DEF q
    <2>4. QED
      BY <1>0, <2>2, <2>3, SameOrders, GateStep
  <1>4. ASSUME NEW r \in Requests, Crash(r)
        PROVE  ApprovalInv'
    <2>1. Asks(Idle)
      BY JobAsks DEF Idle
    <2>2. QED
      BY <1>0, <1>4, <2>1, SameOrders, GateStep DEF Crash
  <1>5. CASE UNCHANGED vars
    BY <1>5 DEF vars, ApprovalInv, MoveCleared, Claims
  <1>6. QED
    BY <1>1, <1>2, <1>3, <1>4, <1>5 DEF Next

\* An order is packed, shipped or delivered only if its claim was approved or
\* it needed no approval, however an approval or a rejection races the move:
\* updateStatus checks the approval only when it reads, not when it writes.
THEOREM FulfilmentGated == Guarded => (Spec => []FulfilledIsApproved)
  <1> SUFFICES ASSUME Guarded PROVE Spec => []FulfilledIsApproved
    OBVIOUS
  <1>1. StockInv /\ [Next]_vars => StockInv'
    BY StockStep
  <1>2. StockInv /\ ApprovalInv /\ [Next]_vars => ApprovalInv'
    BY ApprovalStep
  <1>3. ApprovalInv => FulfilledIsApproved
    BY DEF ApprovalInv, StageCleared, Cleared, FulfilledIsApproved
  <1>4. QED
    BY <1>1, <1>2, <1>3, StockInit, GateInit, PTL DEF Spec

-----------------------------------------------------------------------------
(***************************************************************************)
(* Replacements: a return and the order sent in its place.                 *)
(***************************************************************************)

\* r is sending an order again.
Resending(q) == q.op = "reorder" /\ q.pc # "idle"

\* The links of o, and whether it is stored at all, stay as they are.
SameLinks(o) ==
    /\ order'[o].from = order[o].from
    /\ order'[o].to = order[o].to
    /\ order'[o].status = "NONE" <=> order[o].status = "NONE"

\* r goes on to q: no re-send it was not, and no order another re-send claimed.
Follows(r, q) ==
    /\ NewLinks(q)
    /\ Resending(q) => Resending(req[r]) /\ q.doc = req[r].doc /\ q.order = req[r].order
    /\ \A p \in Requests \ {r} : Resending(req[p]) => q.order # req[p].order

LEMMA LinkStep ==
  ASSUME TypeOK, Placed, LinkInv, NEW r \in Requests, NEW q,
         req' = [req EXCEPT ![r] = q], Follows(r, q), \A o \in Orders : SameLinks(o)
  PROVE  LinkInv'
  <1>1. req'[r] = q /\ \A p \in Requests \ {r} : req'[p] = req[p]
    BY DEF TypeOK
  <1>2. \A o \in Orders : order[o].from \in Orders \cup {None}
    BY DEF TypeOK, Doc
  <1>3. OneReplacement'
    BY <1>2 DEF LinkInv, OneReplacement, SameLinks
  <1>4. UnstoredUnlinked'
    BY DEF LinkInv, UnstoredUnlinked, SameLinks, Stored
  <1>5. ASSUME NEW p \in Requests, Resending(req'[p])
        PROVE  /\ order'[req'[p].doc.from].to = req'[p].order
               /\ order'[req'[p].order].status = "NONE"
               /\ \A x \in Requests \ {p} : req'[x].order # req'[p].order
    <2>1. /\ Resending(req[p]) /\ req'[p].doc = req[p].doc /\ req'[p].order = req[p].order
      BY <1>1, <1>5 DEF Follows
    <2>2. /\ order[req[p].doc.from].to = req[p].order
          /\ order[req[p].order].status = "NONE"
          /\ \A x \in Requests \ {p} : req[x].order # req[p].order
      BY <2>1 DEF LinkInv, ResendClaims, Resending, Stored
    <2>3. req[p].doc.from \in Orders /\ req[p].order \in Orders
      BY <2>1 DEF Placed, PlacedAt, Resending
    <2>4. \A x \in Requests \ {p} : req'[x].order # req[p].order
      BY <1>1, <2>1, <2>2 DEF Follows
    <2>5. QED
      BY <2>1, <2>2, <2>3, <2>4 DEF SameLinks
  <1>6. ResendClaims'
    BY <1>5 DEF ResendClaims, Resending, Stored
  <1>7. \A p \in Requests : NewLinks(req'[p])
    BY <1>1 DEF LinkInv, Follows
  <1>8. QED
    BY <1>3, <1>4, <1>6, <1>7 DEF LinkInv, NewLinks, Claims

\* A request that turns to a stored order is in no re-send's way.
LEMMA StoredFollows ==
  ASSUME LinkInv, NEW r \in Requests, NEW o \in Orders, Stored(o), NEW q,
         q.order = o, q.op # "reorder", ~Claims(q)
  PROVE  Follows(r, q)
  BY DEF LinkInv, ResendClaims, Resending, Follows, NewLinks

\* Nor is one that goes on with the order it has.
LEMMA OwnFollows ==
  ASSUME LinkInv, NEW r \in Requests, NEW q, req[r].pc # "idle", q.order = req[r].order,
         Claims(q) => Claims(req[r]) /\ q.doc = req[r].doc /\ q.op = req[r].op,
         q.op = "reorder" => q.doc = req[r].doc /\ req[r].op = "reorder"
  PROVE  Follows(r, q)
  BY DEF LinkInv, ResendClaims, Resending, Follows, NewLinks

LEMMA IdleFollows ==
  ASSUME TypeOK, Placed, NEW r \in Requests
  PROVE  Follows(r, Idle)
  <1>1. \A p \in Requests : Resending(req[p]) => req[p].order \in Orders
    BY DEF Placed, PlacedAt, Resending
  <1>2. QED
    BY <1>1, OrdersAssumption DEF Follows, NewLinks, Claims, Resending, Idle

\* Where a request goes once its stock is moved.
LEMMA AfterFollows ==
  ASSUME TypeOK, Placed, LinkInv, NEW r \in Requests, NEW q \in Request, NEW lines,
         req[r].pc \in {"take", "save", "restock"}, q.pc = req[r].pc,
         q.doc = req[r].doc, q.op = req[r].op, q.order = req[r].order
  PROVE  /\ Follows(r, q)
         /\ q.pc = "take" => Follows(r, AfterTake(q))
         /\ Follows(r, AfterRestock(q))
         /\ Follows(r, PutBack(q, lines))
  <1>1. Follows(r, q)
    BY OwnFollows DEF Claims
  <1>2. ASSUME q.pc = "take" PROVE Follows(r, AfterTake(q))
    <2> DEFINE a == AfterTake(q)
    <2>1. \/ a = Idle
          \/ /\ a.doc = q.doc /\ a.op = q.op /\ a.order = q.order
             /\ a.pc = "save" => q.op # "restore"
             /\ a.pc \in {"save", "credit"}
      BY DEF AfterTake, Request
    <2> HIDE DEF a
    <2>2. Follows(r, a)
      BY <1>2, <2>1, OwnFollows, IdleFollows DEF Claims
    <2>3. QED
      BY <2>2 DEF a
  <1>3. ASSUME NEW p \in Request, p.doc = q.doc, p.op = q.op, p.order = q.order
        PROVE  Follows(r, AfterRestock(p))
    <2> DEFINE a == AfterRestock(p)
    <2>1. \/ a = Idle
          \/ /\ a.doc = q.doc /\ a.op = q.op /\ a.order = q.order
             /\ a.pc \in {"sum", "unlink"}
      BY <1>3 DEF AfterRestock, Request
    <2> HIDE DEF a
    <2>2. Follows(r, a)
      BY <2>1, OwnFollows, IdleFollows DEF Claims
    <2>3. QED
      BY <2>2 DEF a
  <1>4. Follows(r, PutBack(q, lines))
    <2> DEFINE a == [q EXCEPT !.pc = "restock", !.left = lines]
               b == [q EXCEPT !.left = {}]
    <2>1. /\ a.pc = "restock" /\ a.doc = q.doc /\ a.op = q.op /\ a.order = q.order
          /\ b \in Request /\ b.doc = q.doc /\ b.op = q.op /\ b.order = q.order
      BY DEF Request
    <2>2. Follows(r, AfterRestock(b))
      BY <1>3, <2>1
    <2> HIDE DEF a, b
    <2>3. Follows(r, a)
      BY <2>1, OwnFollows DEF Claims
    <2>4. QED
      BY <2>2, <2>3 DEF PutBack, a, b
  <1>5. QED
    BY <1>1, <1>2, <1>3, <1>4

\* A step that writes one order and none of its links.
LEMMA OneLinked ==
  ASSUME TypeOK, NEW o \in Orders, NEW e, order' = [order EXCEPT ![o] = e],
         e.from = order[o].from, e.to = order[o].to,
         e.status = "NONE" <=> order[o].status = "NONE"
  PROVE  \A x \in Orders : SameLinks(x)
  BY DEF TypeOK, SameLinks

LEMMA NoneLinked ==
  ASSUME order' = order
  PROVE  \A x \in Orders : SameLinks(x)
  BY DEF SameLinks

\* Every operation, as it arrives.
LEMMA ArriveLinks ==
  ASSUME StockInv, Guarded, LinkInv, NEW r \in Requests, Arrive(r)
  PROVE  LinkInv'
  <1>0. TypeOK /\ Placed
    BY DEF StockInv
  <1> PICK o \in Orders :
        \/ \E t \in OrderType, e \in BOOLEAN : Create(r, o, t, e)
        \/ \E s \in Status, skip \in BOOLEAN : ReadForStatus(r, o, s, skip)
        \/ Approve(r, o) \/ Reject(r, o) \/ Delete(r, o) \/ Restore(r, o)
        \/ MarkReturned(r, o) \/ ReadForRevert(r, o)
        \/ \E n \in Orders : Reorder(r, o, n)
    BY DEF Arrive
  <1> DEFINE d == order[o]
  <1>a. d \in Doc
    BY <1>0 DEF TypeOK
  <1>1. ASSUME NEW t \in OrderType, NEW e \in BOOLEAN, Create(r, o, t, e)
        PROVE  LinkInv'
    <2> DEFINE q == [Job("create", "take", o) EXCEPT
                       !.doc = [NoDoc EXCEPT !.status = "NEW", !.type = t, !.earns = e,
                                  !.approval = IF t = "WELCOME_KIT" THEN "PENDING" ELSE "NULL"],
                       !.left = Lines]
    <2>1. req' = [req EXCEPT ![r] = q] /\ order' = order /\ Fresh(o)
      BY <1>1 DEF Create
    <2>2. q.op = "create" /\ q.doc.from = None /\ q.doc.to = None /\ q.order = o
      BY DEF Job, Idle, NoDoc
    <2> HIDE DEF q
    <2>3. Follows(r, q)
      BY <2>1, <2>2 DEF Follows, NewLinks, Resending, Fresh
    <2>4. QED
      BY <1>0, <2>1, <2>3, NoneLinked, LinkStep
  <1>2. ASSUME NEW q, q.op # "reorder", ~Claims(q), q.order = o \/ q = Idle, Stored(o),
               req' = [req EXCEPT ![r] = q],
               NEW e, order' = [order EXCEPT ![o] = e], e.status # "NONE",
               e.from = d.from, e.to = d.to
        PROVE  LinkInv'
    <2>1. Follows(r, q)
      BY <1>0, <1>2, StoredFollows, IdleFollows
    <2>2. \A x \in Orders : SameLinks(x)
      BY <1>0, <1>2, OneLinked DEF Stored
    <2>3. QED
      BY <1>0, <1>2, <2>1, <2>2, LinkStep
  <1>3. ASSUME NEW s \in Status, NEW skip \in BOOLEAN, ReadForStatus(r, o, s, skip)
        PROVE  LinkInv'
    <2> DEFINE q == [Job("status", "cas", o) EXCEPT !.doc = order[o], !.status = s]
    <2>1. req' = [req EXCEPT ![r] = q] /\ order' = order /\ Stored(o)
      BY <1>3 DEF ReadForStatus, Live
    <2>2. q.op = "status" /\ q.pc = "cas" /\ q.order = o
      BY DEF Job, Idle
    <2> HIDE DEF q
    <2>3. Follows(r, q)
      BY <2>1, <2>2, StoredFollows DEF Claims
    <2>4. QED
      BY <1>0, <2>1, <2>3, NoneLinked, LinkStep
  <1>4. CASE Approve(r, o)
    <2> DEFINE q == IF order[o].earns THEN Job("approve", "credit", o) ELSE Idle
               e == [d EXCEPT !.approval = "APPROVED"]
    <2>1. /\ req' = [req EXCEPT ![r] = q] /\ order' = [order EXCEPT ![o] = e]
          /\ Stored(o)
      BY <1>4 DEF Approve, PENDING_KIT, Live
    <2>2. q.op # "reorder" /\ ~Claims(q) /\ (q.order = o \/ q = Idle)
      BY DEF Job, Idle, Claims
    <2>3. e.status = d.status /\ e.from = d.from /\ e.to = d.to
      BY <1>a DEF Doc
    <2> HIDE DEF q, e
    <2>4. QED
      BY <1>2, <2>1, <2>2, <2>3 DEF Stored
  <1>5. CASE Reject(r, o)
    <2> DEFINE q == [Job("reject", "restock", o) EXCEPT !.left = Lines]
               e == [d EXCEPT !.approval = "REJECTED", !.status = "CANCELLED"]
    <2>1. /\ req' = [req EXCEPT ![r] = q] /\ order' = [order EXCEPT ![o] = e]
          /\ Stored(o)
      BY <1>5 DEF Reject, PENDING_KIT, Live
    <2>2. q.op # "reorder" /\ ~Claims(q) /\ q.order = o
      BY DEF Job, Idle, Claims
    <2>3. e.status = "CANCELLED" /\ e.from = d.from /\ e.to = d.to
      BY <1>a DEF Doc
    <2> HIDE DEF q, e
    <2>4. QED
      BY <1>2, <2>1, <2>2, <2>3
  <1>6. CASE Delete(r, o)
    <2> DEFINE q == IF order[o].status \in ON_SHELF
                    THEN [Job("delete", "restock", o) EXCEPT !.left = Lines]
                    ELSE Job("delete", "sum", o)
               e == [d EXCEPT !.deleted = TRUE]
    <2>1. /\ req' = [req EXCEPT ![r] = q] /\ order' = [order EXCEPT ![o] = e]
          /\ Stored(o)
      BY <1>6 DEF Delete, Live
    <2>2. q.op # "reorder" /\ ~Claims(q) /\ q.order = o
      BY DEF Job, Idle, Claims
    <2>3. e.status = d.status /\ e.from = d.from /\ e.to = d.to
      BY <1>a DEF Doc
    <2> HIDE DEF q, e
    <2>4. QED
      BY <1>2, <2>1, <2>2, <2>3 DEF Stored
  <1>7. CASE Restore(r, o)
    <2> DEFINE j == [Job("restore", "take", o) EXCEPT !.doc = order[o]]
               q == IF order[o].status \in ON_SHELF
                    THEN [j EXCEPT !.left = Lines]
                    ELSE AfterTake(j)
               e == [d EXCEPT !.deleted = FALSE]
    <2>1. /\ req' = [req EXCEPT ![r] = q] /\ order' = [order EXCEPT ![o] = e]
          /\ Stored(o)
      BY <1>7 DEF Restore
    <2>2. q.op # "reorder" /\ ~Claims(q) /\ (q.order = o \/ q = Idle)
      BY DEF Job, Idle, AfterTake, Claims
    <2>3. e.status = d.status /\ e.from = d.from /\ e.to = d.to
      BY <1>a DEF Doc
    <2> HIDE DEF q, e
    <2>4. QED
      BY <1>2, <2>1, <2>2, <2>3 DEF Stored
  <1>8. CASE MarkReturned(r, o)
    <2> DEFINE q == [Job("returned", "restock", o) EXCEPT !.left = Lines]
               e == [d EXCEPT !.status = "RETURNED"]
    <2>1. /\ req' = [req EXCEPT ![r] = q] /\ order' = [order EXCEPT ![o] = e]
          /\ Stored(o)
      BY <1>8 DEF MarkReturned, Live
    <2>2. q.op # "reorder" /\ ~Claims(q) /\ q.order = o
      BY DEF Job, Idle, Claims
    <2>3. e.status = "RETURNED" /\ e.from = d.from /\ e.to = d.to
      BY <1>a DEF Doc
    <2> HIDE DEF q, e
    <2>4. QED
      BY <1>2, <2>1, <2>2, <2>3
  <1>9. CASE ReadForRevert(r, o)
    BY <1>9 DEF Guarded, ReadForRevert, Starts
  <1>10. ASSUME NEW n \in Orders, Reorder(r, o, n)
         PROVE  LinkInv'
    <2> DEFINE q == [Job("reorder", "take", n) EXCEPT
                       !.doc = [NoDoc EXCEPT !.status = "NEW", !.type = order[o].type,
                                  !.approval = order[o].approval, !.from = o],
                       !.left = Lines]
               e == [d EXCEPT !.to = n]
    <2>1. /\ req' = [req EXCEPT ![r] = q] /\ order' = [order EXCEPT ![o] = e]
          /\ d.to = None /\ Fresh(n) /\ d.status = "RETURNED"
      BY <1>10 DEF Reorder
    <2>2. /\ q.op = "reorder" /\ q.pc = "take" /\ q.order = n
          /\ q.doc.from = o /\ q.doc.to = None
      BY DEF Job, Idle, NoDoc
    <2>3. e.status = d.status /\ e.from = d.from /\ e.to = n
      BY <1>a DEF Doc
    <2> HIDE DEF q, e
    <2>4. /\ order'[o] = e /\ \A x \in Orders \ {o} : order'[x] = order[x]
          /\ req'[r] = q /\ \A p \in Requests \ {r} : req'[p] = req[p]
      BY <1>0, <2>1 DEF TypeOK
    <2>5. \A x \in Orders : order[x].from # o
      <3>1. \A x \in Orders : x # None
        BY OrdersAssumption
      <3>2. QED
        BY <2>1, <3>1 DEF LinkInv, OneReplacement
    <2>6. OneReplacement'
      <3>1. \A x \in Orders : order'[x].from = order[x].from
        BY <2>3, <2>4
      <3>2. \A x \in Orders : order[x].from \in Orders \cup {None}
        BY <1>0 DEF TypeOK, Doc
      <3>3. QED
        BY <2>4, <2>5, <3>1, <3>2 DEF LinkInv, OneReplacement
    <2>7. UnstoredUnlinked'
      BY <2>1, <2>3, <2>4 DEF LinkInv, UnstoredUnlinked, Stored
    <2>8. ASSUME NEW p \in Requests \ {r}, Resending(req[p])
          PROVE  /\ order'[req[p].doc.from].to = req[p].order
                 /\ order'[req[p].order].status = "NONE"
                 /\ \A x \in Requests \ {p} : req'[x].order # req[p].order
      <3>1. /\ order[req[p].doc.from].to = req[p].order
            /\ order[req[p].order].status = "NONE"
            /\ \A x \in Requests \ {p} : req[x].order # req[p].order
        BY <2>8 DEF LinkInv, ResendClaims, Resending, Stored
      <3>2. req[p].doc.from \in Orders /\ req[p].order \in Orders
        BY <1>0, <2>8 DEF Placed, PlacedAt, Resending
      <3>3. req[p].doc.from # o
        BY <2>1, <3>1, <3>2, OrdersAssumption
      <3>4. req[p].order # n
        BY <2>1 DEF Fresh
      <3>5. QED
        BY <2>1, <2>2, <2>3, <2>4, <3>1, <3>2, <3>3, <3>4
    <2>9. /\ order'[o].to = n /\ order'[n].status = "NONE"
          /\ \A x \in Requests \ {r} : req'[x].order # n
      BY <2>1, <2>3, <2>4 DEF Fresh, Stored
    <2>10. ResendClaims'
      BY <2>2, <2>4, <2>8, <2>9 DEF ResendClaims, Resending, Stored
    <2>11. \A p \in Requests : NewLinks(req'[p])
      BY <2>2, <2>4 DEF LinkInv, NewLinks
    <2>12. QED
      BY <2>6, <2>7, <2>10, <2>11 DEF LinkInv, NewLinks, Claims
  <1>11. QED
    BY <1>1, <1>3, <1>4, <1>5, <1>6, <1>7, <1>8, <1>9, <1>10

\* Every round trip of a request under way.
LEMMA ContinueLinks ==
  ASSUME StockInv, Guarded, LinkInv, NEW r \in Requests, Continue(r)
  PROVE  LinkInv'
  <1>0. TypeOK /\ Placed /\ req[r] \in Request
    BY DEF StockInv, TypeOK
  <1>a. ~DropOrder(r) /\ ~Rewind(r)
    BY DEF StockInv, OnTrack, OnTrackAt, DropOrder, Rewind, At
  <1>b. req[r].pc # "idle" => req[r].order \in Orders
    BY <1>0 DEF Placed, PlacedAt
  <1>c. Follows(r, Idle)
    BY <1>0, IdleFollows
  <1>1. ASSUME NEW q, Follows(r, q), req' = [req EXCEPT ![r] = q], order' = order
        PROVE  LinkInv'
    BY <1>0, <1>1, NoneLinked, LinkStep
  <1>2. ASSUME NEW l \in Lines, TakeLine(r, l) \/ RestockLine(r, l)
        PROVE  LinkInv'
    <2> DEFINE j == [req[r] EXCEPT !.left = @ \ {l}]
    <2>1. /\ j \in Request /\ j.doc = req[r].doc /\ j.op = req[r].op
          /\ j.pc = req[r].pc /\ j.order = req[r].order
      BY <1>0 DEF Request
    <2>2. /\ order' = order /\ j.pc \in {"take", "restock"}
          /\ \/ req' = [req EXCEPT ![r] = j]
             \/ req' = [req EXCEPT ![r] = AfterTake(j)] /\ j.pc = "take"
             \/ req' = [req EXCEPT ![r] = AfterRestock(j)]
      BY <1>2, <2>1 DEF TakeLine, RestockLine, At
    <2> HIDE DEF j
    <2>3. Follows(r, j) /\ (j.pc = "take" => Follows(r, AfterTake(j))) /\ Follows(r, AfterRestock(j))
      BY <1>0, <2>1, <2>2, AfterFollows
    <2>4. QED
      BY <1>1, <2>2, <2>3
  <1>3. CASE Credit(r)
    BY <1>1, <1>3, <1>c DEF Credit
  <1>4. CASE SumRows(r) \/ AppendReversal(r)
    <2>1. PICK q : /\ req' = [req EXCEPT ![r] = q]
                   /\ \/ q = Idle
                      \/ /\ q.pc \in {"reverse", "rewind"} /\ q.op = req[r].op
                         /\ q.doc = req[r].doc /\ q.order = req[r].order
      <3> DEFINE j == [req[r] EXCEPT !.sum = net[req[r].order], !.pc = "reverse"]
                 k == [j EXCEPT !.pc = "rewind"]
                 m == [req[r] EXCEPT !.pc = "rewind"]
      <3>1. \A x \in {j, k, m} : /\ x.pc \in {"reverse", "rewind"} /\ x.op = req[r].op
                                 /\ x.doc = req[r].doc /\ x.order = req[r].order
        BY <1>0 DEF Request
      <3>2. \E q \in {j, k, m, Idle} : req' = [req EXCEPT ![r] = q]
        BY <1>4 DEF SumRows, AppendReversal
      <3> HIDE DEF j, k, m
      <3>3. QED
        BY <3>1, <3>2
    <2>2. order' = order /\ req[r].pc # "idle"
      BY <1>4 DEF SumRows, AppendReversal, At
    <2>3. Follows(r, q)
      BY <1>c, <2>1, <2>2, OwnFollows DEF Claims
    <2>4. QED
      BY <1>1, <2>1, <2>2, <2>3
  <1>5. CASE WriteStatus(r)
    <2> DEFINE o == req[r].order
               c == [Job("cancel", "restock", o) EXCEPT !.left = Lines]
    <2>1. PICK q : req' = [req EXCEPT ![r] = q] /\ (q = Idle \/ q = c)
      BY <1>5 DEF WriteStatus
    <2>2. c.order = o /\ c.pc = "restock" /\ c.op = "cancel" /\ req[r].pc # "idle"
      BY <1>5 DEF Job, Idle, WriteStatus, At
    <2> HIDE DEF c
    <2>3. Follows(r, q)
      BY <1>c, <2>1, <2>2, OwnFollows DEF Claims
    <2>4. CASE order' = order
      BY <1>1, <2>1, <2>3, <2>4
    <2>5. CASE order' # order
      <3> DEFINE e == [order[o] EXCEPT !.status = req[r].status]
      <3>1. order' = [order EXCEPT ![o] = e] /\ Stored(o) /\ o \in Orders
        BY <1>5, <1>b, <2>2, <2>5 DEF WriteStatus, Live
      <3>2. /\ e.status # "NONE" /\ e.from = order[o].from /\ e.to = order[o].to
        BY <1>0, <3>1 DEF TypeOK, Doc, Request, Status
      <3> HIDE DEF e
      <3>3. \A x \in Orders : SameLinks(x)
        BY <1>0, <3>1, <3>2, OneLinked DEF Stored
      <3>4. QED
        BY <1>0, <2>1, <2>3, <3>3, LinkStep
    <2>6. QED
      BY <2>4, <2>5
  <1>6. CASE Save(r)
    <2> DEFINE o == req[r].order
               e == req[r].doc
               q == IF req[r].op = "create" /\ req[r].doc.earns
                    THEN [req[r] EXCEPT !.pc = "credit"]
                    ELSE Idle
    <2>1. /\ order' = [order EXCEPT ![o] = e] /\ req' = [req EXCEPT ![r] = q]
          /\ req[r].pc = "save" /\ Claims(req[r])
      BY <1>6 DEF Save, At, Claims
    <2>2. /\ o \in Orders /\ ~Stored(o) /\ e.status = "NEW"
          /\ \A p \in Requests \ {r} : req[p].order # o
      BY <2>1 DEF StockInv, ClaimsAlone
    <2>3. e.to = None /\ (req[r].op # "reorder" => e.from = None)
      BY <2>1 DEF LinkInv, NewLinks
    <2>4. order[o].from = None /\ order[o].to = None
      BY <2>2 DEF LinkInv, UnstoredUnlinked
    <2>5. e.from # None => order[e.from].to = o /\ e.from \in Orders
      BY <1>0, <2>1, <2>3 DEF LinkInv, ResendClaims, Placed, PlacedAt
    <2>6. q = Idle \/ (q.op = "create" /\ q.pc = "credit")
      BY <1>0 DEF Request
    <2> HIDE DEF q
    <2>7. q.pc \in {"idle", "credit"} /\ (q.pc # "idle" => q.op # "reorder")
      BY <2>6 DEF Idle
    <2> HIDE DEF e
    <2>8. /\ order'[o] = e /\ \A x \in Orders \ {o} : order'[x] = order[x]
          /\ req'[r] = q /\ \A p \in Requests \ {r} : req'[p] = req[p]
      BY <1>0, <2>1, <2>2 DEF TypeOK
    <2>9. \A x \in Orders : order'[x].to = order[x].to
      BY <2>3, <2>4, <2>8
    <2>10. \A x \in Orders : x # None /\ order[x].from \in Orders \cup {None}
      BY <1>0, OrdersAssumption DEF TypeOK, Doc
    <2>11. OneReplacement'
      BY <2>5, <2>8, <2>9, <2>10 DEF LinkInv, OneReplacement
    <2>12. UnstoredUnlinked'
      BY <2>2, <2>8 DEF LinkInv, UnstoredUnlinked, Stored
    <2>13. ASSUME NEW p \in Requests \ {r}, Resending(req[p])
           PROVE  /\ order'[req[p].doc.from].to = req[p].order
                  /\ order'[req[p].order].status = "NONE"
                  /\ \A x \in Requests \ {p} : req'[x].order # req[p].order
      <3>1. /\ order[req[p].doc.from].to = req[p].order
            /\ order[req[p].order].status = "NONE"
            /\ \A x \in Requests \ {p} : req[x].order # req[p].order
        BY <2>13 DEF LinkInv, ResendClaims, Resending, Stored
      <3>2. req[p].doc.from \in Orders /\ req[p].order \in Orders
        BY <1>0, <2>13 DEF Placed, PlacedAt, Resending
      <3>3. q.order \in {o, None}
        BY <1>0 DEF q, Idle, Request
      <3>4. QED
        BY <2>2, <2>8, <2>9, <2>10, <3>1, <3>2, <3>3
    <2>14. ResendClaims'
      BY <2>7, <2>8, <2>13 DEF ResendClaims, Resending, Stored
    <2>15. \A p \in Requests : NewLinks(req'[p])
      BY <2>7, <2>8 DEF LinkInv, NewLinks, Claims
    <2>16. QED
      BY <2>11, <2>12, <2>14, <2>15 DEF LinkInv, NewLinks, Claims
  <1>7. CASE Unlink(r)
    <2> DEFINE n == req[r].order
               f == req[r].doc.from
               e == [order[f] EXCEPT !.to = None]
    <2>1. /\ Resending(req[r]) /\ f \in Orders /\ n \in Orders
      BY <1>7, <1>0 DEF Unlink, At, StockInv, Placed, PlacedAt, Resending
    <2>2. /\ order[f].to = n /\ ~Stored(n)
          /\ \A p \in Requests \ {r} : req[p].order # n
      BY <2>1 DEF LinkInv, ResendClaims, Resending
    <2>3. req' = [req EXCEPT ![r] = Idle] /\ order' = [order EXCEPT ![f] = e]
      BY <1>7, <2>2 DEF Unlink
    <2>4. e.status = order[f].status /\ e.from = order[f].from /\ e.to = None
      BY <1>0, <2>1 DEF TypeOK, Doc
    <2> HIDE DEF e, f, n
    <2>5. /\ order'[f] = e /\ \A x \in Orders \ {f} : order'[x] = order[x]
          /\ req'[r] = Idle /\ \A p \in Requests \ {r} : req'[p] = req[p]
      BY <1>0, <2>1, <2>3 DEF TypeOK
    <2>6. \A x \in Orders : order[x].from \in Orders \cup {None}
      BY <1>0 DEF TypeOK, Doc
    <2>7. \A x \in Orders : order[x].from # f
      BY <2>1, <2>2, OrdersAssumption DEF LinkInv, OneReplacement, UnstoredUnlinked
    <2>8. OneReplacement'
      BY <2>4, <2>5, <2>6, <2>7 DEF LinkInv, OneReplacement
    <2>9. UnstoredUnlinked'
      BY <2>4, <2>5 DEF LinkInv, UnstoredUnlinked, Stored
    <2>10. Idle.pc = "idle" /\ Idle.order = None
      BY DEF Idle
    <2>11. ASSUME NEW p \in Requests \ {r}, Resending(req[p])
           PROVE  /\ order'[req[p].doc.from].to = req[p].order
                  /\ order'[req[p].order].status = "NONE"
                  /\ \A x \in Requests \ {p} : req'[x].order # req[p].order
      <3>1. /\ order[req[p].doc.from].to = req[p].order
            /\ order[req[p].order].status = "NONE"
            /\ \A x \in Requests \ {p} : req[x].order # req[p].order
        BY <2>11 DEF LinkInv, ResendClaims, Resending, Stored
      <3>2. req[p].doc.from \in Orders /\ req[p].order \in Orders
        BY <1>0, <2>11 DEF Placed, PlacedAt, Resending
      <3>3. req[p].doc.from # f
        BY <2>2, <3>1
      <3>4. QED
        BY <2>4, <2>5, <2>10, <3>1, <3>2, <3>3, OrdersAssumption
    <2>12. ResendClaims'
      BY <2>5, <2>10, <2>11 DEF ResendClaims, Resending, Stored
    <2>13. \A p \in Requests : NewLinks(req'[p])
      BY <2>5, <2>10 DEF LinkInv, NewLinks, Claims
    <2>14. QED
      BY <2>8, <2>9, <2>12, <2>13 DEF LinkInv, NewLinks, Claims
  <1>8. QED
    BY <1>a, <1>2, <1>3, <1>4, <1>5, <1>6, <1>7 DEF Continue

LEMMA LinkInit == Init => LinkInv
  BY DEF Init, LinkInv, OneReplacement, UnstoredUnlinked, ResendClaims, NewLinks, Claims,
         Idle, NoDoc

LEMMA LinksStep ==
  ASSUME StockInv, Guarded, LinkInv, [Next]_vars
  PROVE  LinkInv'
  <1>0. TypeOK /\ Placed
    BY DEF StockInv
  <1>1. ASSUME NEW r \in Requests, Arrive(r)
        PROVE  LinkInv'
    BY <1>1, ArriveLinks
  <1>2. ASSUME NEW r \in Requests, Continue(r)
        PROVE  LinkInv'
    BY <1>2, ContinueLinks
  <1>3. ASSUME NEW r \in Requests, WriteFails(r)
        PROVE  LinkInv'
    <2> DEFINE q == PutBack(req[r], KnownTaken(req[r]))
    <2>1. req[r] \in Request /\ req[r].pc \in {"take", "save"}
      BY <1>0, <1>3 DEF TypeOK, Guarded, WriteFails
    <2>2. req' = [req EXCEPT ![r] = q] /\ order' = order
      BY <1>3, <2>1 DEF WriteFails
    <2>3. Follows(r, q)
      BY <1>0, <2>1, AfterFollows
    <2> HIDE DEF q
    <2>4. QED
      BY <1>0, <2>2, <2>3, NoneLinked, LinkStep
  <1>4. ASSUME NEW r \in Requests, Crash(r)
        PROVE  LinkInv'
    <2>1. req' = [req EXCEPT ![r] = Idle] /\ order' = order
      BY <1>4 DEF Crash
    <2>2. QED
      BY <1>0, <2>1, NoneLinked, IdleFollows, LinkStep
  <1>5. CASE UNCHANGED vars
    BY <1>5 DEF vars, LinkInv, OneReplacement, UnstoredUnlinked, ResendClaims, NewLinks,
                Claims, Stored
  <1>6. QED
    BY <1>1, <1>2, <1>3, <1>4, <1>5 DEF Next

\* A return is replaced by one order and by no other, and the two point at each
\* other, however re-sends race, fail and give their claim up (the conditional
\* claim in reorderReturned and the unlink of its compensation).
THEOREM ReturnsReplacedOnce == Guarded => (Spec => []OneReplacement)
  <1> SUFFICES ASSUME Guarded PROVE Spec => []OneReplacement
    OBVIOUS
  <1>1. StockInv /\ [Next]_vars => StockInv'
    BY StockStep
  <1>2. StockInv /\ LinkInv /\ [Next]_vars => LinkInv'
    BY LinksStep
  <1>3. LinkInv => OneReplacement
    BY DEF LinkInv
  <1>4. QED
    BY <1>1, <1>2, <1>3, StockInit, LinkInit, PTL DEF Spec

-----------------------------------------------------------------------------
(***************************************************************************)
(* The commission ledger, where requests come one at a time: whatever they *)
(* do and whichever of their writes fail.                                  *)
(***************************************************************************)

\* Nothing a commission depends on changes about o.
SameStanding(o) ==
    /\ net'[o] = net[o]
    /\ order'[o].status = order[o].status
    /\ order'[o].deleted = order[o].deleted
    /\ order'[o].earns = order[o].earns
    /\ order'[o].type = order[o].type
    /\ order'[o].approval = order[o].approval

\* The only request takes a step that concerns the books of o alone.
LEMMA BookStep ==
  ASSUME Serial, TypeOK, LedgerInv, crashes = 0, NEW r \in Requests, NEW o \in Orders, NEW q,
         req' = [req EXCEPT ![r] = q], req[r].order \in {o, None},
         \A x \in Orders \ {o} : SameStanding(x),
         Prepared(q), Priced(order'[o]),
         \/ q.order = o /\ Books(q, order'[o], net'[o])
         \/ q.order = None /\ Settled(order'[o], net'[o])
  PROVE  LedgerInv'
  <1>1. req'[r] = q /\ \A p \in Requests : p = r
    BY DEF TypeOK, Serial
  <1>2. None \notin Orders
    BY OrdersAssumption
  <1>3. ASSUME NEW x \in Orders \ {o}
        PROVE  Settled(order'[x], net'[x]) /\ Priced(order'[x])
    <2>1. Settled(order[x], net[x]) /\ Priced(order[x])
      BY <1>1, <1>2 DEF LedgerInv
    <2>2. QED
      BY <2>1 DEF SameStanding, Settled, Priced, Standing
  <1>4. \A p \in Requests : Prepared(req'[p])
    BY <1>1
  <1>5. \A x \in Orders : /\ Priced(order'[x])
                          /\ q.order = x => Books(q, order'[x], net'[x])
                          /\ q.order # x => Settled(order'[x], net'[x])
    BY <1>2, <1>3
  <1>6. QED
    BY <1>1, <1>4, <1>5 DEF LedgerInv

\* Every order is settled before a request arrives.
LEMMA ArrivesSettled ==
  ASSUME Serial, LedgerInv, crashes = 0, NEW r \in Requests, req[r].pc = "idle", NEW o \in Orders
  PROVE  req[r].order = None /\ Settled(order[o], net[o]) /\ Priced(order[o])
  BY OrdersAssumption DEF Serial, LedgerInv, Prepared

\* The books of the order a request under way works on.
LEMMA OwnBooks ==
  ASSUME Placed, LedgerInv, crashes = 0, NEW r \in Requests, req[r].pc # "idle"
  PROVE  /\ req[r].order \in Orders
         /\ Books(req[r], order[req[r].order], net[req[r].order]) /\ Prepared(req[r]) /\ Priced(order[req[r].order])
  BY DEF LedgerInv, Placed, PlacedAt

LEMMA IdlePrepared == Prepared(Idle) /\ Idle.order = None
  BY DEF Prepared, Idle, Claims

LEMMA ArriveBooks ==
  ASSUME Serial, TypeOK, LedgerInv, crashes = 0, NEW r \in Requests, Arrive(r)
  PROVE  LedgerInv'
  <1> PICK o \in Orders :
        \/ \E t \in OrderType, e \in BOOLEAN : Create(r, o, t, e)
        \/ \E s \in Status, skip \in BOOLEAN : ReadForStatus(r, o, s, skip)
        \/ Approve(r, o) \/ Reject(r, o) \/ Delete(r, o) \/ Restore(r, o)
        \/ MarkReturned(r, o) \/ ReadForRevert(r, o)
        \/ \E n \in Orders : Reorder(r, o, n)
    BY DEF Arrive
  <1> DEFINE d == order[o]
  <1>0. d \in Doc /\ net[o] \in Int /\ order \in [Orders -> Doc]
    BY DEF TypeOK
  <1>a. req[r].pc = "idle"
    BY DEF Arrive, Create, ReadForStatus, Approve, Reject, Delete, Restore, MarkReturned,
           ReadForRevert, Reorder, Starts
  <1>b. req[r].order = None /\ Settled(d, net[o]) /\ Priced(d)
    BY <1>a, ArrivesSettled
  <1>c. ASSUME NEW q, NEW e, req' = [req EXCEPT ![r] = q], order' = [order EXCEPT ![o] = e],
               net' = net, Prepared(q), Priced(e),
               \/ q.order = o /\ Books(q, e, net[o])
               \/ q.order = None /\ Settled(e, net[o])
        PROVE  LedgerInv'
    <2>1. order'[o] = e /\ \A x \in Orders \ {o} : SameStanding(x)
      BY <1>0, <1>c DEF SameStanding
    <2>2. QED
      BY <1>b, <1>c, <2>1, BookStep
  <1>d. ASSUME NEW q, NEW n \in Orders, req' = [req EXCEPT ![r] = q], net' = net,
               order' = order \/ order' = [order EXCEPT ![o].to = n],
               Prepared(q), q.order = n, Books(q, order[n], net[n])
        PROVE  LedgerInv'
    <2>1. \A x \in Orders : SameStanding(x)
      BY <1>0, <1>d DEF SameStanding, Doc
    <2>2. Priced(order'[n])
      BY <1>a, <1>d, <2>1, ArrivesSettled DEF SameStanding, Priced
    <2>3. Books(q, order'[n], net'[n])
      BY <1>d, <2>1 DEF SameStanding, Books, Claims, Blank, Settled, Standing, Unreversed
    <2>4. QED
      BY <1>b, <1>d, <2>1, <2>2, <2>3, BookStep
  <1>1. ASSUME NEW t \in OrderType, NEW e \in BOOLEAN, Create(r, o, t, e)
        PROVE  LedgerInv'
    <2> DEFINE q == [Job("create", "take", o) EXCEPT
                       !.doc = [NoDoc EXCEPT !.status = "NEW", !.type = t, !.earns = e,
                                  !.approval = IF t = "WELCOME_KIT" THEN "PENDING" ELSE "NULL"],
                       !.left = Lines]
    <2>1. /\ req' = [req EXCEPT ![r] = q] /\ order' = order /\ net' = net /\ Blank(d, net[o])
          /\ e => t = "STORE_SALE"
      BY <1>1 DEF Create, Fresh, Blank, Stored
    <2>2. /\ q.op = "create" /\ q.order = o /\ q.pc = "take"
          /\ q.doc.status = "NEW" /\ ~q.doc.deleted /\ Priced(q.doc)
      BY <2>1 DEF Job, Idle, NoDoc, Priced
    <2> HIDE DEF q
    <2>3. Prepared(q) /\ Books(q, d, net[o])
      BY <2>1, <2>2 DEF Prepared, Books
    <2>4. QED
      BY <1>d, <2>1, <2>2, <2>3
  <1>2. ASSUME NEW s \in Status, NEW skip \in BOOLEAN, ReadForStatus(r, o, s, skip)
        PROVE  LedgerInv'
    <2> DEFINE q == [Job("status", "cas", o) EXCEPT !.doc = order[o], !.status = s]
    <2>1. /\ req' = [req EXCEPT ![r] = q] /\ order' = order /\ net' = net
          /\ <<d.status, s>> \in ALLOWED_TRANSITIONS \cup SkipDispatch
      BY <1>2 DEF ReadForStatus
    <2>2. q.pc = "cas" /\ q.order = o /\ q.doc = d
      BY DEF Job, Idle
    <2>3. d.status # "CANCELLED"
      BY <2>1 DEF ALLOWED_TRANSITIONS, SkipDispatch, ON_SHELF
    <2> HIDE DEF q
    <2>4. Prepared(q) /\ Books(q, d, net[o])
      BY <1>b, <2>1, <2>2, <2>3 DEF Prepared, Books, Claims
    <2>5. QED
      BY <1>d, <2>1, <2>2, <2>4
  <1>3. CASE Approve(r, o)
    <2> DEFINE e == [d EXCEPT !.approval = "APPROVED"]
    <2>1. ~d.earns
      BY <1>3, <1>b DEF Approve, PENDING_KIT, Priced
    <2>2. req' = [req EXCEPT ![r] = Idle] /\ order' = [order EXCEPT ![o] = e] /\ net' = net
      BY <1>3, <2>1 DEF Approve
    <2>3. e.status = d.status /\ e.deleted = d.deleted /\ ~e.earns
      BY <1>0, <2>1 DEF Doc
    <2> HIDE DEF e
    <2>4. Settled(e, net[o])
      BY <1>b, <2>1, <2>2, <2>3 DEF Settled, Standing
    <2>5. QED
      BY <1>c, <2>2, <2>3, <2>4, IdlePrepared DEF Priced
  <1>4. CASE Reject(r, o)
    <2> DEFINE q == [Job("reject", "restock", o) EXCEPT !.left = Lines]
               e == [d EXCEPT !.approval = "REJECTED", !.status = "CANCELLED"]
    <2>1. /\ req' = [req EXCEPT ![r] = q] /\ order' = [order EXCEPT ![o] = e] /\ net' = net
          /\ ~d.earns
      BY <1>4, <1>b DEF Reject, PENDING_KIT, Priced
    <2>2. e.status = "CANCELLED" /\ e.deleted = d.deleted /\ ~e.earns
      BY <1>0, <2>1 DEF Doc
    <2>3. q.op = "reject" /\ q.pc = "restock" /\ q.order = o /\ Prepared(q)
      BY DEF Job, Idle, Prepared, Claims
    <2> HIDE DEF q, e
    <2>4. Settled(e, net[o])
      BY <1>4, <1>b, <2>1, <2>2 DEF Settled, Standing
    <2>5. Books(q, e, net[o])
      BY <2>3, <2>4 DEF Books, Claims
    <2>6. QED
      BY <1>c, <2>1, <2>2, <2>3, <2>5 DEF Priced
  <1>5. CASE Delete(r, o)
    <2> DEFINE q == IF order[o].status \in ON_SHELF
                    THEN [Job("delete", "restock", o) EXCEPT !.left = Lines]
                    ELSE Job("delete", "sum", o)
               e == [d EXCEPT !.deleted = TRUE]
    <2>1. /\ req' = [req EXCEPT ![r] = q] /\ order' = [order EXCEPT ![o] = e] /\ net' = net
          /\ d.status # "NONE"
      BY <1>5 DEF Delete, Live, Stored
    <2>2. e.deleted /\ e.status = d.status /\ Priced(e)
      BY <1>0, <1>b DEF Doc, Priced
    <2>3. q.op = "delete" /\ q.pc \in {"restock", "sum"} /\ q.order = o /\ Prepared(q)
      BY DEF Job, Idle, Prepared, Claims
    <2> HIDE DEF q, e
    <2>4. Unreversed(e, net[o])
      BY <1>b, <2>1, <2>2 DEF Settled, Standing, Unreversed
    <2>5. Books(q, e, net[o])
      BY <2>3, <2>4 DEF Books, Claims
    <2>6. QED
      BY <1>c, <2>1, <2>2, <2>3, <2>5
  <1>6. CASE Restore(r, o)
    <2> DEFINE j == [Job("restore", "take", o) EXCEPT !.doc = order[o]]
               k == [j EXCEPT !.left = Lines]
               q == IF order[o].status \in ON_SHELF THEN k ELSE AfterTake(j)
               e == [d EXCEPT !.deleted = FALSE]
    <2>1. /\ req' = [req EXCEPT ![r] = q] /\ order' = [order EXCEPT ![o] = e] /\ net' = net
          /\ d.status # "NONE" /\ d.deleted
      BY <1>6 DEF Restore, Stored
    <2>2. /\ e.status = d.status /\ ~e.deleted /\ e.earns = d.earns /\ e.type = d.type
          /\ Priced(e)
      BY <1>0, <1>b DEF Doc, Priced
    <2>3. net[o] = 0
      BY <1>b, <2>1 DEF Settled, Standing
    <2>4. /\ j.op = "restore" /\ j.order = o /\ j.doc = d /\ j.pc = "take"
          /\ k.op = "restore" /\ k.order = o /\ k.doc = d /\ k.pc = "take"
          /\ [j EXCEPT !.pc = "credit"].op = "restore" /\ [j EXCEPT !.pc = "credit"].order = o
          /\ [j EXCEPT !.pc = "credit"].pc = "credit"
      BY DEF Job, Idle
    <2>5. \/ q = k
          \/ q = [j EXCEPT !.pc = "credit"] /\ d.earns
          \/ q = Idle /\ ~d.earns
      BY <1>b, <2>4 DEF AfterTake, Eligible, Priced
    <2> HIDE DEF e, j, k, q
    <2>6. \/ q.order = o /\ Books(q, e, net[o])
          \/ q.order = None /\ Settled(e, net[o])
      <3>1. CASE q = k
        BY <2>1, <2>2, <2>3, <2>4, <3>1 DEF Books, Claims, Standing
      <3>2. CASE q = [j EXCEPT !.pc = "credit"] /\ d.earns
        BY <2>1, <2>2, <2>3, <2>4, <3>2 DEF Books, Claims, Standing
      <3>3. CASE q = Idle /\ ~d.earns
        BY <2>1, <2>2, <2>3, <3>3, IdlePrepared DEF Settled, Standing
      <3>4. QED
        BY <2>5, <3>1, <3>2, <3>3
    <2>7. Prepared(q)
      BY <2>4, <2>5, IdlePrepared DEF Prepared, Claims
    <2>8. QED
      BY <1>c, <2>1, <2>2, <2>6, <2>7
  <1>7. CASE MarkReturned(r, o)
    <2> DEFINE q == [Job("returned", "restock", o) EXCEPT !.left = Lines]
               e == [d EXCEPT !.status = "RETURNED"]
    <2>1. /\ req' = [req EXCEPT ![r] = q] /\ order' = [order EXCEPT ![o] = e] /\ net' = net
          /\ d.status \notin {"NONE", "CANCELLED"} /\ ~d.deleted
      BY <1>7 DEF MarkReturned, Live, Shipped
    <2>2. e.status = "RETURNED" /\ e.deleted = d.deleted /\ e.earns = d.earns /\ Priced(e)
      BY <1>0, <1>b DEF Doc, Priced
    <2>3. q.op = "returned" /\ q.pc = "restock" /\ q.order = o /\ Prepared(q)
      BY DEF Job, Idle, Prepared, Claims
    <2> HIDE DEF q, e
    <2>4. Settled(e, net[o])
      BY <1>b, <2>1, <2>2 DEF Settled, Standing
    <2>5. Books(q, e, net[o])
      BY <2>3, <2>4 DEF Books, Claims
    <2>6. QED
      BY <1>c, <2>1, <2>2, <2>3, <2>5
  <1>8. CASE ReadForRevert(r, o)
    <2> DEFINE j == [Job("revert", "rewind", o) EXCEPT !.doc = order[o]]
               k == [j EXCEPT !.pc = "sum"]
    <2>1. /\ order' = order /\ net' = net
          /\ \/ req' = [req EXCEPT ![r] = k] /\ d.status = "NEW" /\ ~d.earns
             \/ req' = [req EXCEPT ![r] = j] /\ d.status = "PACKED"
      BY <1>8, <1>b DEF ReadForRevert, Priced
    <2>2. /\ j.op = "revert" /\ j.pc = "rewind" /\ j.order = o /\ j.doc = d
          /\ k.op = "revert" /\ k.pc = "sum" /\ k.order = o
      BY DEF Job, Idle
    <2> HIDE DEF j, k
    <2>3. Prepared(j) /\ Prepared(k)
      BY <2>2 DEF Prepared, Claims
    <2>4. CASE req' = [req EXCEPT ![r] = k] /\ d.status = "NEW" /\ ~d.earns
      <3>1. Books(k, d, net[o])
        BY <1>b, <2>2, <2>4 DEF Books, Claims
      <3>2. QED
        BY <1>d, <2>1, <2>2, <2>3, <2>4, <3>1
    <2>5. CASE req' = [req EXCEPT ![r] = j] /\ d.status = "PACKED"
      <3>1. Books(j, d, net[o])
        BY <1>b, <2>2, <2>5 DEF Books, Claims
      <3>2. QED
        BY <1>d, <2>1, <2>2, <2>3, <2>5, <3>1
    <2>6. QED
      BY <2>1, <2>4, <2>5
  <1>9. ASSUME NEW n \in Orders, Reorder(r, o, n)
        PROVE  LedgerInv'
    <2> DEFINE q == [Job("reorder", "take", n) EXCEPT
                       !.doc = [NoDoc EXCEPT !.status = "NEW", !.type = order[o].type,
                                  !.approval = order[o].approval, !.from = o],
                       !.left = Lines]
    <2>1. /\ req' = [req EXCEPT ![r] = q] /\ order' = [order EXCEPT ![o].to = n] /\ net' = net
          /\ Blank(order[n], net[n])
      BY <1>9 DEF Reorder, Fresh, Blank, Stored
    <2>2. /\ q.pc = "take" /\ q.order = n /\ q.op = "reorder"
          /\ q.doc.status = "NEW" /\ ~q.doc.deleted /\ ~q.doc.earns
      BY DEF Job, Idle, NoDoc
    <2> HIDE DEF q
    <2>3. Prepared(q) /\ Books(q, order[n], net[n])
      BY <2>1, <2>2 DEF Prepared, Books, Priced
    <2>4. QED
      BY <1>d, <2>1, <2>2, <2>3
  <1>10. QED
    BY <1>1, <1>2, <1>3, <1>4, <1>5, <1>6, <1>7, <1>8, <1>9

\* Where a request goes once its stock is moved, on the same books.
LEMMA AfterBooks ==
  ASSUME NEW p \in Request, NEW q \in Request, NEW d, NEW n,
         Books(p, d, n), Prepared(p), Priced(d), p.pc \in {"take", "restock", "save"},
         q.pc = p.pc, q.op = p.op, q.order = p.order, q.doc = p.doc
  PROVE  /\ Prepared(q) /\ Books(q, d, n)
         /\ p.pc = "take" =>
              /\ Prepared(AfterTake(q))
              /\ \/ AfterTake(q).order = p.order /\ Books(AfterTake(q), d, n)
                 \/ AfterTake(q).order = None /\ Settled(d, n)
         /\ p.pc = "restock" =>
              /\ Prepared(AfterRestock(q))
              /\ \/ AfterRestock(q).order = p.order /\ Books(AfterRestock(q), d, n)
                 \/ AfterRestock(q).order = None /\ Settled(d, n)
  <1>1. Prepared(q) /\ Books(q, d, n)
    BY DEF Prepared, Books, Claims
  <1>2. ASSUME p.pc = "take"
        PROVE  /\ Prepared(AfterTake(q))
               /\ \/ AfterTake(q).order = p.order /\ Books(AfterTake(q), d, n)
                  \/ AfterTake(q).order = None /\ Settled(d, n)
    <2> DEFINE s == [q EXCEPT !.pc = "save"]
               c == [q EXCEPT !.pc = "credit"]
    <2>1. /\ s.pc = "save" /\ s.op = q.op /\ s.order = q.order /\ s.doc = q.doc
          /\ c.pc = "credit" /\ c.op = q.op /\ c.order = q.order
      BY DEF Request
    <2>2. \/ AfterTake(q) = s /\ q.op # "restore"
          \/ AfterTake(q) = c /\ q.op = "restore" /\ Eligible(q.doc)
          \/ AfterTake(q) = Idle /\ q.op = "restore" /\ ~Eligible(q.doc)
      BY DEF AfterTake
    <2> HIDE DEF s, c
    <2>3. CASE AfterTake(q) = s /\ q.op # "restore"
      BY <1>1, <1>2, <2>1, <2>3 DEF Prepared, Books, Claims
    <2>4. CASE AfterTake(q) = c /\ q.op = "restore" /\ Eligible(q.doc)
      BY <1>1, <1>2, <2>1, <2>4 DEF Prepared, Books, Claims, Eligible
    <2>5. CASE AfterTake(q) = Idle /\ q.op = "restore" /\ ~Eligible(q.doc)
      <3>1. Standing(d) /\ n = 0 /\ ~d.earns
        BY <1>1, <1>2, <2>5 DEF Books, Eligible, Priced
      <3>2. QED
        BY <2>5, <3>1, IdlePrepared DEF Settled
    <2>6. QED
      BY <2>2, <2>3, <2>4, <2>5
  <1>3. ASSUME p.pc = "restock"
        PROVE  /\ Prepared(AfterRestock(q))
               /\ \/ AfterRestock(q).order = p.order /\ Books(AfterRestock(q), d, n)
                  \/ AfterRestock(q).order = None /\ Settled(d, n)
    <2> DEFINE s == [q EXCEPT !.pc = "sum"]
               u == [q EXCEPT !.pc = "unlink"]
    <2>1. /\ s.pc = "sum" /\ s.op = q.op /\ s.order = q.order
          /\ u.pc = "unlink" /\ u.op = q.op /\ u.order = q.order
      BY DEF Request
    <2>2. \/ AfterRestock(q) = s /\ q.op \in {"delete", "cancel"}
          \/ AfterRestock(q) = u /\ q.op = "reorder"
          \/ AfterRestock(q) = Idle /\ q.op \notin {"delete", "cancel", "reorder"}
      BY DEF AfterRestock
    <2> HIDE DEF s, u
    <2>3. CASE AfterRestock(q) = s /\ q.op \in {"delete", "cancel"}
      BY <1>1, <1>3, <2>1, <2>3 DEF Prepared, Books, Claims
    <2>4. CASE AfterRestock(q) = u /\ q.op = "reorder"
      BY <1>1, <1>3, <2>1, <2>4 DEF Prepared, Books, Claims
    <2>5. CASE AfterRestock(q) = Idle /\ q.op \notin {"delete", "cancel", "reorder"}
      BY <1>1, <1>3, <2>5, IdlePrepared DEF Books
    <2>6. QED
      BY <2>2, <2>3, <2>4, <2>5
  <1>4. QED
    BY <1>1, <1>2, <1>3

\* An undone write leaves nothing stored and nothing booked.
LEMMA PutBackBooks ==
  ASSUME NEW p \in Request, NEW d, NEW n, NEW lines, p.op \in {"create", "reorder"},
         Blank(d, n)
  PROVE  /\ Prepared(PutBack(p, lines))
         /\ \/ PutBack(p, lines).order = p.order /\ Books(PutBack(p, lines), d, n)
            \/ PutBack(p, lines).order = None /\ Settled(d, n)
  <1> DEFINE a == [p EXCEPT !.pc = "restock", !.left = lines]
             b == [p EXCEPT !.left = {}]
             u == [b EXCEPT !.pc = "unlink"]
  <1>1. /\ a.pc = "restock" /\ a.op = p.op /\ a.order = p.order
        /\ u.pc = "unlink" /\ u.order = p.order /\ b.op = p.op
    BY DEF Request
  <1>2. \/ PutBack(p, lines) = a
        \/ PutBack(p, lines) = u
        \/ PutBack(p, lines) = Idle
    BY <1>1 DEF PutBack, AfterRestock
  <1> HIDE DEF a, b, u
  <1>3. Settled(d, n)
    BY DEF Settled, Blank, Standing
  <1>4. CASE PutBack(p, lines) = a
    BY <1>1, <1>3, <1>4 DEF Prepared, Books, Claims
  <1>5. CASE PutBack(p, lines) = u
    BY <1>1, <1>5 DEF Prepared, Books, Claims
  <1>6. CASE PutBack(p, lines) = Idle
    BY <1>3, <1>6, IdlePrepared
  <1>7. QED
    BY <1>2, <1>4, <1>5, <1>6

LEMMA ContinueBooks ==
  ASSUME Serial, TypeOK, Placed, LedgerInv, crashes = 0, NEW r \in Requests, Continue(r)
  PROVE  LedgerInv' \/ crashes' # 0
  <1> PICK p \in Request : p = req[r]
    BY DEF TypeOK
  <1>a. p.pc # "idle"
    BY DEF Continue, TakeLine, RestockLine, Credit, SumRows, AppendReversal, Save, DropOrder,
           WriteStatus, Unlink, Rewind, At
  <1> PICK o \in Orders : o = p.order
    BY <1>a, OwnBooks
  <1> DEFINE d == order[o]
             n == net[o]
  <1>b. Books(p, d, n) /\ Prepared(p) /\ Priced(d)
    BY <1>a, OwnBooks
  <1>0. d \in Doc /\ n \in Int /\ order \in [Orders -> Doc] /\ net \in [Orders -> Int]
    BY DEF TypeOK
  <1>c. ASSUME NEW q, req' = [req EXCEPT ![r] = q], Prepared(q), Priced(order'[o]),
               \A x \in Orders \ {o} : order'[x] = order[x] /\ net'[x] = net[x],
               \/ q.order = o /\ Books(q, order'[o], net'[o])
               \/ q.order = None /\ Settled(order'[o], net'[o])
        PROVE  LedgerInv'
    <2>1. \A x \in Orders \ {o} : SameStanding(x)
      BY <1>c DEF SameStanding
    <2>2. QED
      BY <1>c, <2>1, BookStep
  <1>1. ASSUME NEW l \in Lines, TakeLine(r, l) \/ RestockLine(r, l)
        PROVE  LedgerInv'
    <2> DEFINE j == [p EXCEPT !.left = @ \ {l}]
    <2>1. /\ j \in Request /\ j.doc = p.doc /\ j.op = p.op /\ j.pc = p.pc /\ j.order = p.order
      BY DEF Request
    <2>2. /\ order' = order /\ net' = net /\ p.pc \in {"take", "restock"}
          /\ \/ req' = [req EXCEPT ![r] = j]
             \/ req' = [req EXCEPT ![r] = AfterTake(j)] /\ p.pc = "take"
             \/ req' = [req EXCEPT ![r] = AfterRestock(j)] /\ p.pc = "restock"
      BY <1>1, <2>1 DEF TakeLine, RestockLine, At
    <2> HIDE DEF j
    <2>3. /\ Prepared(j) /\ Books(j, d, n)
          /\ p.pc = "take" =>
               /\ Prepared(AfterTake(j))
               /\ \/ AfterTake(j).order = p.order /\ Books(AfterTake(j), d, n)
                  \/ AfterTake(j).order = None /\ Settled(d, n)
          /\ p.pc = "restock" =>
               /\ Prepared(AfterRestock(j))
               /\ \/ AfterRestock(j).order = p.order /\ Books(AfterRestock(j), d, n)
                  \/ AfterRestock(j).order = None /\ Settled(d, n)
      <3>1. p.pc \in {"take", "restock", "save"} /\ p.pc # "save"
        BY <2>2
      <3> HIDE DEF d, n
      <3>2. QED
        BY <1>b, <2>1, <3>1, AfterBooks
    <2>4. QED
      BY <1>b, <1>c, <2>1, <2>2, <2>3
  <1>2. CASE Credit(r)
    <2>1. /\ order' = order /\ net' = [net EXCEPT ![o] = n + 1]
          /\ req' = [req EXCEPT ![r] = Idle] /\ p.pc = "credit"
      BY <1>2 DEF Credit, At
    <2>2. net'[o] = 1 /\ Standing(d) /\ d.earns
      BY <1>0, <1>b, <2>1 DEF Books
    <2>3. Settled(order'[o], net'[o])
      BY <2>1, <2>2 DEF Settled
    <2>4. QED
      BY <1>0, <1>b, <1>c, <2>1, <2>3, IdlePrepared
  <1>3. CASE SumRows(r)
    <2> DEFINE j == [p EXCEPT !.sum = n, !.pc = "reverse"]
               w == [j EXCEPT !.pc = "rewind"]
    <2>1. /\ j.sum = n /\ j.pc = "reverse" /\ j.op = p.op /\ j.order = o
          /\ w.pc = "rewind" /\ w.op = p.op /\ w.order = o
      BY DEF Request
    <2>2. /\ order' = order /\ net' = net /\ p.pc = "sum"
          /\ \/ n > 0 /\ req' = [req EXCEPT ![r] = j]
             \/ ~(n > 0) /\ p.op = "revert" /\ req' = [req EXCEPT ![r] = w]
             \/ ~(n > 0) /\ p.op # "revert" /\ req' = [req EXCEPT ![r] = Idle]
      BY <1>3, <2>1 DEF SumRows, At
    <2>3. /\ Prepared(j) /\ Prepared(w)
      BY <2>1 DEF Prepared, Claims
    <2> HIDE DEF j, w
    <2>4. CASE n > 0 /\ req' = [req EXCEPT ![r] = j]
      <3>1. Books(j, d, n)
        BY <1>b, <2>1, <2>2 DEF Books, Claims
      <3>2. QED
        BY <1>b, <1>c, <2>1, <2>2, <2>3, <2>4, <3>1
    <2>5. CASE ~(n > 0) /\ p.op = "revert" /\ req' = [req EXCEPT ![r] = w]
      <3>1. Books(w, d, n)
        BY <1>b, <2>1, <2>2, <2>5 DEF Books, Claims
      <3>2. QED
        BY <1>b, <1>c, <2>1, <2>2, <2>3, <2>5, <3>1
    <2>6. CASE ~(n > 0) /\ p.op # "revert" /\ req' = [req EXCEPT ![r] = Idle]
      <3>1. Settled(d, n)
        BY <1>0, <1>b, <2>2, <2>6 DEF Books, Settled, Unreversed, Blank, Standing
      <3>2. QED
        BY <1>b, <1>c, <2>2, <2>6, <3>1, IdlePrepared
    <2>7. QED
      BY <2>2, <2>4, <2>5, <2>6
  <1>4. CASE AppendReversal(r)
    <2> DEFINE w == [p EXCEPT !.pc = "rewind"]
    <2>1. w.pc = "rewind" /\ w.op = p.op /\ w.order = o
      BY DEF Request
    <2>2. /\ order' = order /\ net' = [net EXCEPT ![o] = n - p.sum] /\ p.pc = "reverse"
          /\ \/ p.op = "revert" /\ req' = [req EXCEPT ![r] = w]
             \/ p.op # "revert" /\ req' = [req EXCEPT ![r] = Idle]
      BY <1>4 DEF AppendReversal, At
    <2>3. net'[o] = 0
      BY <1>0, <1>b, <2>2 DEF Books
    <2>4. Prepared(w)
      BY <2>1 DEF Prepared, Claims
    <2> HIDE DEF w
    <2>5. CASE p.op = "revert" /\ req' = [req EXCEPT ![r] = w]
      <3>1. Books(w, d, 0)
        BY <1>b, <2>1, <2>2, <2>5 DEF Books, Claims, Settled
      <3>2. QED
        BY <1>0, <1>b, <1>c, <2>1, <2>2, <2>3, <2>4, <2>5, <3>1
    <2>6. CASE p.op # "revert" /\ req' = [req EXCEPT ![r] = Idle]
      <3>1. Settled(d, 0)
        BY <1>b, <2>2, <2>6 DEF Books, Settled, Unreversed, Blank, Standing
      <3>2. QED
        BY <1>0, <1>b, <1>c, <2>2, <2>3, <2>6, <3>1, IdlePrepared
    <2>7. QED
      BY <2>2, <2>5, <2>6
  <1>5. CASE Save(r)
    <2> DEFINE c == [p EXCEPT !.pc = "credit"]
    <2>1. c.pc = "credit" /\ c.op = p.op /\ c.order = o
      BY DEF Request
    <2>2. /\ order' = [order EXCEPT ![o] = p.doc] /\ net' = net /\ p.pc = "save"
          /\ \/ p.op = "create" /\ p.doc.earns /\ req' = [req EXCEPT ![r] = c]
             \/ ~(p.op = "create" /\ p.doc.earns) /\ req' = [req EXCEPT ![r] = Idle]
      BY <1>5 DEF Save, At
    <2>3. /\ n = 0 /\ Standing(p.doc) /\ Priced(p.doc) /\ p.doc.status = "NEW"
          /\ p.doc.earns => p.op = "create"
      BY <1>b, <2>2 DEF Prepared, Books, Claims, Blank, Standing
    <2>4. order'[o] = p.doc /\ net'[o] = 0 /\ \A x \in Orders \ {o} : order'[x] = order[x]
      BY <1>0, <2>2, <2>3
    <2> HIDE DEF c
    <2>5. CASE p.op = "create" /\ p.doc.earns /\ req' = [req EXCEPT ![r] = c]
      <3>1. Prepared(c) /\ Books(c, p.doc, 0)
        BY <2>1, <2>3, <2>5 DEF Books, Prepared, Claims
      <3>2. QED
        BY <1>c, <2>1, <2>2, <2>3, <2>4, <2>5, <3>1
    <2>6. CASE ~(p.op = "create" /\ p.doc.earns) /\ req' = [req EXCEPT ![r] = Idle]
      <3>1. Settled(p.doc, 0)
        BY <2>3, <2>6 DEF Settled
      <3>2. QED
        BY <1>c, <2>2, <2>3, <2>4, <2>6, <3>1, IdlePrepared
    <2>7. QED
      BY <2>2, <2>5, <2>6
  <1>6. CASE DropOrder(r)
    <2>1. CASE crashes' = crashes + 1
      BY <2>1
    <2>2. CASE crashes' # crashes + 1
      <3> DEFINE q == PutBack(p, Lines)
      <3>1. /\ order' = [order EXCEPT ![o] = NoDoc] /\ net' = net /\ p.pc = "drop"
            /\ req' = [req EXCEPT ![r] = q]
        BY <1>6, <2>2 DEF DropOrder, At
      <3>2. n = 0 /\ p.op = "create"
        BY <1>b, <3>1 DEF Books
      <3>3. order'[o] = NoDoc /\ Blank(NoDoc, n) /\ Priced(NoDoc)
        BY <1>0, <3>1, <3>2 DEF Blank, NoDoc, Priced
      <3>4. /\ Prepared(q)
            /\ \/ q.order = o /\ Books(q, NoDoc, n)
               \/ q.order = None /\ Settled(NoDoc, n)
        BY <3>2, <3>3, PutBackBooks
      <3> HIDE DEF q
      <3>5. QED
        BY <1>0, <1>c, <3>1, <3>3, <3>4
    <2>3. QED
      BY <2>1, <2>2
  <1>7. CASE WriteStatus(r)
    <2> DEFINE c == [Job("cancel", "restock", o) EXCEPT !.left = Lines]
               e == [d EXCEPT !.status = p.status]
    <2>1. net' = net /\ p.pc = "cas" /\ Settled(d, n) /\ p.doc.status # "CANCELLED"
      BY <1>7, <1>b DEF WriteStatus, At, Books
    <2>2. CASE Live(o) /\ d.status = p.doc.status
      <3>1. /\ order' = [order EXCEPT ![o] = e]
            /\ req' = [req EXCEPT ![r] = IF p.status = "CANCELLED" THEN c ELSE Idle]
        BY <1>7, <2>2 DEF WriteStatus
      <3>2. /\ e.status = p.status /\ e.deleted = d.deleted /\ e.earns = d.earns
            /\ Priced(e) /\ p.status # "NONE"
        BY <1>0, <1>b DEF Doc, Priced, Request, Status
      <3>3. c.op = "cancel" /\ c.pc = "restock" /\ c.order = o
        BY DEF Job, Idle
      <3>4. order'[o] = e /\ \A x \in Orders \ {o} : order'[x] = order[x]
        BY <1>0, <3>1
      <3> HIDE DEF e, c
      <3>5. Settled(e, n)
        BY <2>1, <2>2, <3>2 DEF Settled, Standing, Live, Stored
      <3>6. CASE p.status = "CANCELLED"
        <4>1. Prepared(c) /\ Books(c, e, n)
          BY <3>2, <3>3, <3>5, <3>6 DEF Prepared, Books, Claims
        <4>2. QED
          BY <1>c, <2>1, <3>1, <3>2, <3>3, <3>4, <3>6, <4>1
      <3>7. CASE p.status # "CANCELLED"
        BY <1>c, <2>1, <3>1, <3>2, <3>4, <3>5, <3>7, IdlePrepared
      <3>8. QED
        BY <3>6, <3>7
    <2>3. CASE ~(Live(o) /\ d.status = p.doc.status)
      <3>1. order' = order /\ req' = [req EXCEPT ![r] = Idle]
        BY <1>7, <2>3 DEF WriteStatus
      <3>2. QED
        BY <1>b, <1>c, <2>1, <3>1, IdlePrepared
    <2>4. QED
      BY <2>2, <2>3
  <1>8. CASE Unlink(r)
    <2>1. /\ req' = [req EXCEPT ![r] = Idle] /\ net' = net /\ p.pc = "unlink"
          /\ \A x \in Orders : SameStanding(x)
      BY <1>8, <1>0 DEF Unlink, At, SameStanding, Doc
    <2>2. Settled(order'[o], net'[o]) /\ Priced(order'[o])
      BY <1>b, <2>1 DEF Books, Blank, SameStanding, Settled, Standing, Priced
    <2>3. QED
      BY <2>1, <2>2, IdlePrepared, BookStep
  <1>9. CASE Rewind(r)
    <2> DEFINE e == [d EXCEPT !.approval = "PENDING"]
               f == [d EXCEPT !.status = "NEW"]
    <2>1. /\ req' = [req EXCEPT ![r] = Idle] /\ net' = net /\ p.pc = "rewind"
          /\ \/ order' = order
             \/ Stored(o) /\ p.doc.status = "NEW" /\ order' = [order EXCEPT ![o] = e]
             \/ Stored(o) /\ order' = [order EXCEPT ![o] = f]
      BY <1>9 DEF Rewind, At
    <2>2. Settled(d, n) /\ d.status # "CANCELLED" /\ (p.doc.status = "NEW" => ~d.earns)
      BY <1>b, <2>1 DEF Books
    <2>3. /\ e.status = d.status /\ e.deleted = d.deleted /\ e.earns = d.earns
          /\ f.status = "NEW" /\ f.deleted = d.deleted /\ f.earns = d.earns /\ Priced(f)
      BY <1>0, <1>b DEF Doc, Priced
    <2> HIDE DEF e, f
    <2>4. CASE order' = order
      BY <1>b, <1>c, <2>1, <2>2, <2>4, IdlePrepared
    <2>5. CASE p.doc.status = "NEW" /\ order' = [order EXCEPT ![o] = e]
      <3>1. Settled(e, n) /\ Priced(e)
        BY <2>2, <2>3, <2>5 DEF Settled, Standing, Priced
      <3>2. QED
        BY <1>0, <1>c, <2>1, <2>5, <3>1, IdlePrepared
    <2>6. CASE Stored(o) /\ order' = [order EXCEPT ![o] = f]
      <3>1. Settled(f, n)
        BY <2>2, <2>3, <2>6 DEF Settled, Standing, Stored
      <3>2. QED
        BY <1>0, <1>c, <2>1, <2>3, <2>6, <3>1, IdlePrepared
    <2>7. QED
      BY <2>1, <2>4, <2>5, <2>6
  <1>10. QED
    BY <1>1, <1>2, <1>3, <1>4, <1>5, <1>6, <1>7, <1>8, <1>9 DEF Continue

LEMMA LedgerInit == Init => LedgerInv
  BY IdlePrepared, OrdersAssumption
     DEF Init, LedgerInv, Idle, NoDoc, Priced, Settled, Standing

LEMMA LedgerNext ==
  ASSUME Serial, TypeOK, Placed, LedgerInv, [Next]_vars
  PROVE  LedgerInv'
  <1>1. CASE crashes # 0 \/ crashes' # 0
    <2>1. crashes' = crashes \/ crashes' = crashes + 1
      <3>1. ASSUME NEW r \in Requests, Arrive(r)
            PROVE  crashes' = crashes
        BY <3>1 DEF Arrive, Create, ReadForStatus, Approve, Reject, Delete, Restore,
                    MarkReturned, ReadForRevert, Reorder
      <3>2. ASSUME NEW r \in Requests, DropOrder(r) \/ WriteFails(r) \/ Crash(r)
            PROVE  crashes' = crashes \/ crashes' = crashes + 1
        BY <3>2 DEF DropOrder, WriteFails, Crash
      <3>3. ASSUME NEW r \in Requests, Continue(r), ~DropOrder(r)
            PROVE  crashes' = crashes
        BY <3>3 DEF Continue, TakeLine, RestockLine, Credit, SumRows, AppendReversal, Save,
                    WriteStatus, Unlink, Rewind
      <3>4. QED
        BY <3>1, <3>2, <3>3 DEF Next, vars
    <2>2. crashes' # 0
      BY <1>1, <2>1 DEF TypeOK
    <2>3. QED
      BY <2>2 DEF LedgerInv
  <1>2. CASE crashes = 0 /\ crashes' = 0
    <2>1. ASSUME NEW r \in Requests, Arrive(r)
          PROVE  LedgerInv'
      BY <1>2, <2>1, ArriveBooks
    <2>2. ASSUME NEW r \in Requests, Continue(r)
          PROVE  LedgerInv'
      BY <1>2, <2>2, ContinueBooks
    <2>3. ASSUME NEW r \in Requests, WriteFails(r)
          PROVE  LedgerInv'
      <3> PICK p \in Request : p = req[r]
        BY DEF TypeOK
      <3>1. /\ p.op \in {"create", "reorder"} /\ p.pc \in {"take", "save", "credit"}
            /\ order' = order /\ net' = net
            /\ req' = [req EXCEPT ![r] = IF p.pc = "credit" THEN [p EXCEPT !.pc = "drop"]
                                         ELSE PutBack(p, KnownTaken(p))]
        BY <2>3, OrdersAssumption DEF WriteFails
      <3> PICK o \in Orders : o = p.order
        BY <1>2, <3>1, OwnBooks
      <3>2. Books(p, order[o], net[o]) /\ Prepared(p) /\ Priced(order[o])
        BY <1>2, <3>1, OwnBooks
      <3>3. \A x \in Orders : SameStanding(x)
        BY <3>1 DEF SameStanding
      <3>4. CASE p.pc = "credit"
        <4> DEFINE q == [p EXCEPT !.pc = "drop"]
        <4>1. q.pc = "drop" /\ q.op = p.op /\ q.order = o /\ req' = [req EXCEPT ![r] = q]
          BY <3>1, <3>4 DEF Request
        <4> HIDE DEF q
        <4>2. Prepared(q) /\ Books(q, order[o], net[o])
          BY <3>1, <3>2, <3>4, <4>1 DEF Prepared, Books, Claims
        <4>3. QED
          BY <1>2, <3>1, <3>2, <3>3, <4>1, <4>2, BookStep
      <3>5. CASE p.pc # "credit"
        <4> DEFINE q == PutBack(p, KnownTaken(p))
        <4>1. Blank(order[o], net[o]) /\ req' = [req EXCEPT ![r] = q]
          BY <3>1, <3>2, <3>5 DEF Books, Claims
        <4>2. /\ Prepared(q)
              /\ \/ q.order = o /\ Books(q, order[o], net[o])
                 \/ q.order = None /\ Settled(order[o], net[o])
          BY <3>1, <4>1, PutBackBooks
        <4> HIDE DEF q
        <4>3. QED
          BY <1>2, <3>1, <3>2, <3>3, <4>1, <4>2, BookStep
      <3>6. QED
        BY <3>4, <3>5
    <2>4. ASSUME NEW r \in Requests, Crash(r)
          PROVE  LedgerInv'
      BY <1>2, <2>4 DEF Crash
    <2>5. CASE UNCHANGED vars
      BY <2>5 DEF vars, LedgerInv, Prepared, Claims
    <2>6. QED
      BY <2>1, <2>2, <2>3, <2>4, <2>5 DEF Next
  <1>3. QED
    BY <1>1, <1>2

\* While requests come one at a time and none dies, the ledger is right whenever
\* none is under way: whatever the handlers did, and whichever of the writes of
\* POST /orders failed and were undone (credits and reverseByOrder, next to the
\* status and delete flags they have to follow).
THEOREM LedgerAlwaysSettled == Serial => (Spec => []LedgerSettled)
  <1> SUFFICES ASSUME Serial PROVE Spec => []LedgerSettled
    OBVIOUS
  <1>1. Init /\ [][Next]_vars => [](TypeOK /\ Placed)
    BY OrdersTyped DEF Spec
  <1>2. TypeOK /\ Placed /\ LedgerInv /\ [Next]_vars => LedgerInv'
    BY LedgerNext
  <1>3. TypeOK /\ LedgerInv => LedgerSettled
    <2> SUFFICES ASSUME TypeOK, LedgerInv, Quiet, crashes = 0, NEW o \in Orders
                 PROVE  Settled(order[o], net[o])
      BY DEF LedgerSettled, Settled, Standing, Live, Stored
    <2>1. \A r \in Requests : req[r].order # o
      BY OrdersAssumption DEF LedgerInv, Prepared, Quiet
    <2>2. QED
      BY <2>1 DEF LedgerInv
  <1>4. QED
    BY <1>1, <1>2, <1>3, LedgerInit, PTL DEF Spec

=============================================================================
