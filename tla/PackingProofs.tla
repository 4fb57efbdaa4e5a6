---------------------------- MODULE PackingProofs ----------------------------
(***************************************************************************)
(* Proofs about module Packing: what the barcode pool guarantees whatever  *)
(* the requests on it do, for any number of orders, barcodes and requests. *)
(***************************************************************************)
EXTENDS Packing, TLAPS

\* A barcode is held by one order at most, by none while written off, and the
\* documents are of their type: inductive without any other help.
PoolInv == TypeOK /\ OneBarcodeEach /\ WrittenOffUnused

-----------------------------------------------------------------------------
(***************************************************************************)
(* Types.                                                                  *)
(***************************************************************************)

LEMMA IdleType == Idle \in Request
  BY DEF Idle, Request, Op, Pc, Status

LEMMA FinishType ==
  ASSUME TypeOK, NEW r \in Requests, Finish(r)
  PROVE  req' \in [Requests -> Request]
  BY IdleType DEF TypeOK, Finish

LEMMA GotoType ==
  ASSUME TypeOK, NEW r \in Requests, NEW pc \in Pc, Goto(r, pc)
  PROVE  req' \in [Requests -> Request]
  <1>1. [req[r] EXCEPT !.pc = pc] \in Request
    BY DEF TypeOK, Request
  <1>2. req' = [req EXCEPT ![r] = [req[r] EXCEPT !.pc = pc]]
    BY DEF Goto
  <1>3. QED
    BY <1>1, <1>2 DEF TypeOK

LEMMA WriteWithType ==
  ASSUME TypeOK, NEW r \in Requests, NEW c \in Codes \cup {None}, WriteWith(r, c)
  PROVE  req' \in [Requests -> Request]
  <1>1. [req[r] EXCEPT !.pc = "write", !.code = c] \in Request
    <2>1. req[r] \in Request /\ "write" \in Pc
      BY DEF TypeOK, Pc
    <2> HIDE DEF Pc
    <2>2. QED
      BY <2>1 DEF Request
  <1>2. req' = [req EXCEPT ![r] = [req[r] EXCEPT !.pc = "write", !.code = c]]
    BY DEF TypeOK, WriteWith
  <1>3. QED
    BY <1>1, <1>2 DEF TypeOK

\* A request that goes on as q.
LEMMA ReqType ==
  ASSUME TypeOK, NEW r \in Requests, NEW q \in Request,
         req' = [req EXCEPT ![r] = q]
  PROVE  req' \in [Requests -> Request]
  BY DEF TypeOK

LEMMA LabelledType ==
  ASSUME NEW d \in Doc, NEW c \in Codes \cup {None}
  PROVE  Labelled(d, c) \in Doc
  BY DEF Labelled, Doc

\* A pool in which one barcode has changed.
LEMMA PoolType ==
  ASSUME TypeOK, NEW c, NEW b \in Barcode, pool' = [pool EXCEPT ![c] = b]
  PROVE  pool' \in [Codes -> Barcode]
  BY DEF TypeOK

LEMMA ArriveReqType ==
  ASSUME TypeOK, NEW r \in Requests, Arrive(r)
  PROVE  req' \in [Requests -> Request]
  <1>0. \A o \in Orders : order[o] \in Doc
    BY DEF TypeOK
  <1> USE DEF Op, Pc, Status
  <1>1. ASSUME NEW o \in Orders, NEW k \in Kinds \cup {None}, ReadForPack(r, o, k)
        PROVE  req' \in [Requests -> Request]
    <2> DEFINE q == [Idle EXCEPT !.pc = "had", !.order = o,
                 !.was = order[o].status, !.to = "PACKED",
                 !.kind = IF k # None THEN k ELSE order[o].kind,
                 !.sets = k \notin {None, order[o].kind}]
    <2>1. order[o].status \in Status /\ order[o].kind \in Kinds \cup {None}
      BY <1>0 DEF Doc
    <2>2. q \in Request
      BY <2>1 DEF Idle, Request
    <2> HIDE DEF q
    <2>3. QED
      BY <1>1, <2>2, ReqType DEF ReadForPack, q
  <1>2. ASSUME NEW o \in Orders, NEW s \in Status, NEW t \in {Typed, None},
               ReadForMove(r, o, s, t)
        PROVE  req' \in [Requests -> Request]
    <2> DEFINE q == [Idle EXCEPT !.op = "move", !.pc = "move", !.order = o,
                 !.was = order[o].status, !.to = s, !.typed = t]
    <2>1. order[o].status \in Status
      BY <1>0 DEF Doc
    <2>2. q \in Request
      BY <2>1 DEF Idle, Request
    <2> HIDE DEF q
    <2>3. QED
      BY <1>2, <2>2, ReqType DEF ReadForMove, q
  <1>3. ASSUME NEW o \in Orders, NEW k \in Kinds, ReadForKind(r, o, k)
        PROVE  req' \in [Requests -> Request]
    <2> DEFINE q == [Idle EXCEPT !.op = "kind", !.pc = "save", !.order = o, !.kind = k]
    <2>1. q \in Request
      BY DEF Idle, Request
    <2> HIDE DEF q
    <2>2. QED
      BY <1>3, <2>1, ReqType DEF ReadForKind, q
  <1>4. ASSUME NEW o \in Orders, Delete(r, o)
        PROVE  req' \in [Requests -> Request]
    <2> DEFINE q == [Idle EXCEPT !.op = "delete", !.pc = "release", !.order = o]
    <2>1. q \in Request
      BY DEF Idle, Request
    <2> HIDE DEF q
    <2>2. QED
      BY <1>4, <2>1, ReqType DEF Delete, q, TypeOK
  <1>5. ASSUME NEW o \in Orders, Restore(r, o)
        PROVE  req' \in [Requests -> Request]
    <2> DEFINE q == [Idle EXCEPT !.op = "restore", !.order = o, !.kind = order[o].kind,
                         !.pc = IF order[o].kind = None THEN "write" ELSE "find"]
    <2>1. order[o].kind \in Kinds \cup {None}
      BY <1>0 DEF Doc
    <2>2. q \in Request
      BY <2>1 DEF Idle, Request
    <2> HIDE DEF q
    <2>3. QED
      BY <1>5, <2>2, ReqType DEF Restore, q, TypeOK
  <1>6. ASSUME NEW o \in Orders, ReadForRevert(r, o)
        PROVE  req' \in [Requests -> Request]
    <2> DEFINE q == [Idle EXCEPT !.op = "revert", !.pc = "save", !.order = o]
    <2>1. q \in Request
      BY DEF Idle, Request
    <2> HIDE DEF q
    <2>2. QED
      BY <1>6, <2>1, ReqType DEF ReadForRevert, q
  <1>7. ASSUME NEW c \in Codes, ReadForUnmark(r, c)
        PROVE  req' \in [Requests -> Request]
    <2> DEFINE q == [Idle EXCEPT !.op = "unmark", !.pc = "unmark", !.code = c]
    <2>1. q \in Request
      BY DEF Idle, Request
    <2> HIDE DEF q
    <2>2. QED
      BY <1>7, <2>1, ReqType DEF ReadForUnmark, q
  <1>8. QED
    BY <1>1, <1>2, <1>3, <1>4, <1>5, <1>6, <1>7 DEF Arrive

LEMMA ContinueReqType ==
  ASSUME TypeOK, NEW r \in Requests, Continue(r)
  PROVE  req' \in [Requests -> Request]
  <1>0. req[r] \in Request
    BY DEF TypeOK
  <1> USE DEF Pc
  <1>1. CASE SeeBarcode(r)
    <2> DEFINE q == [req[r] EXCEPT !.pc = "find", !.had = Held(req[r].order) # {}]
    <2>1. q \in Request
      BY <1>0 DEF Request
    <2>2. req' = [req EXCEPT ![r] = q]
      BY <1>1 DEF SeeBarcode, TypeOK
    <2> HIDE DEF q
    <2>3. QED
      BY <2>1, <2>2, ReqType
  <1>2. CASE FindHeld(r)
    <2>1. ASSUME NEW c \in Codes, req' = [req EXCEPT ![r].pc = "reserve", ![r].old = c]
          PROVE  req' \in [Requests -> Request]
      <3> DEFINE q == [req[r] EXCEPT !.pc = "reserve", !.old = c]
      <3>1. q \in Request
        BY <1>0 DEF Request
      <3>2. req' = [req EXCEPT ![r] = q]
        BY <2>1 DEF TypeOK
      <3> HIDE DEF q
      <3>3. QED
        BY <3>1, <3>2, ReqType
    <2>2. QED
      BY <1>2, <2>1, GotoType, WriteWithType DEF FindHeld, Held
  <1>3. CASE Claim(r)
    BY <1>3, GotoType, WriteWithType DEF Claim, Available
  <1>4. CASE Reread(r)
    BY <1>4, WriteWithType DEF Reread, Held
  <1>5. CASE Reserve(r)
    <2>1. ASSUME NEW c \in Codes, req' = [req EXCEPT ![r].pc = "swap", ![r].code = c]
          PROVE  req' \in [Requests -> Request]
      <3> DEFINE q == [req[r] EXCEPT !.pc = "swap", !.code = c]
      <3>1. q \in Request
        BY <1>0 DEF Request
      <3>2. req' = [req EXCEPT ![r] = q]
        BY <2>1 DEF TypeOK
      <3> HIDE DEF q
      <3>3. QED
        BY <3>1, <3>2, ReqType
    <2>2. QED
      BY <1>5, <2>1, WriteWithType DEF Reserve, Available
  <1>6. CASE ReleaseOld(r) \/ HandBack(r)
    BY <1>6, GotoType DEF ReleaseOld, HandBack
  <1>7. CASE Convert(r)
    <2>1. req[r].code \in Codes \cup {None}
      BY <1>0 DEF Request
    <2>2. QED
      BY <1>7, <2>1, GotoType, WriteWithType DEF Convert
  <1>8. CASE WritePacked(r) \/ WriteMove(r) \/ Release(r)
    BY <1>8, GotoType, FinishType DEF WritePacked, WriteMove, Release
  <1>9. CASE GiveBack(r) \/ ClearShown(r) \/ WriteRestored(r) \/ SaveRevert(r)
             \/ SaveKind(r) \/ Unmark(r)
    BY <1>9, FinishType DEF GiveBack, ClearShown, WriteRestored, SaveRevert, SaveKind, Unmark
  <1>10. QED
    BY <1>1, <1>2, <1>3, <1>4, <1>5, <1>6, <1>7, <1>8, <1>9 DEF Continue

\* A request that writes an order document works on an order.
LEMMA OrderType ==
  ASSUME TypeOK, NEW r \in Requests, Arrive(r) \/ Continue(r)
  PROVE  order' \in [Orders -> Doc]
  <1>0. req[r] \in Request /\ \A o \in Orders : order[o] \in Doc
    BY DEF TypeOK
  <1> DEFINE o == req[r].order
  <1>1. ASSUME NEW p, NEW d \in Doc, order' = [order EXCEPT ![p] = d]
        PROVE  order' \in [Orders -> Doc]
    BY <1>1 DEF TypeOK
  <1>2. ASSUME NEW p \in Orders, NEW b \in BOOLEAN,
               order' = [order EXCEPT ![p].deleted = b]
        PROVE  order' \in [Orders -> Doc]
    <2>1. [order[p] EXCEPT !.deleted = b] \in Doc
      BY <1>0 DEF Doc
    <2>2. QED
      BY <1>2, <2>1 DEF TypeOK
  <1>3. CASE order' = order
    BY <1>3 DEF TypeOK
  <1>4. CASE o \notin Orders /\ Continue(r)
    <2>0. order \in [Orders -> Doc]
      BY DEF TypeOK
    <2>a. \A d : [order EXCEPT ![o] = d] = order
      BY <1>4, <2>0
    <2>1. order' = order
      <3>1. CASE WritePacked(r)
        BY <2>a, <3>1 DEF WritePacked
      <3>2. CASE WriteMove(r)
        BY <1>4, <2>0, <3>2 DEF WriteMove
      <3>3. CASE ClearShown(r)
        BY <1>4, <2>0, <3>3 DEF ClearShown
      <3>4. CASE WriteRestored(r) \/ SaveRevert(r) \/ SaveKind(r)
        BY <2>a, <3>4 DEF WriteRestored, SaveRevert, SaveKind
      <3>5. QED
        BY <1>4, <3>1, <3>2, <3>3, <3>4
           DEF Continue, SeeBarcode, FindHeld, Claim, Reread, Reserve, ReleaseOld,
               Convert, HandBack, GiveBack, Release, Unmark
    <2>2. QED
      BY <1>3, <2>1
  <1>5. CASE o \in Orders /\ Continue(r)
    <2>1. CASE WritePacked(r)
      <3> DEFINE l == Labelled(order[o], req[r].code)
                 d == [l EXCEPT !.status = "PACKED",
                                !.kind = IF req[r].sets THEN req[r].kind ELSE @]
      <3>1. l \in Doc
        BY <1>0, <1>5, LabelledType DEF Request
      <3> HIDE DEF l
      <3>2. d \in Doc
        BY <1>0, <3>1 DEF Doc, Request, Status
      <3>3. order' = order \/ order' = [order EXCEPT ![o] = d]
        BY <2>1 DEF WritePacked, l
      <3> HIDE DEF d
      <3>4. QED
        BY <1>1, <1>3, <3>2, <3>3
    <2>2. CASE WriteMove(r)
      <3> DEFINE frees == req[r].to = "CANCELLED" /\ req[r].was = "PACKED"
                 d == [order[o] EXCEPT !.status = req[r].to,
                         !.shown = IF frees THEN None
                                   ELSE IF req[r].typed # None THEN req[r].typed ELSE @,
                         !.pending = @ /\ ~frees]
      <3>1. d \in Doc
        <4>1. order[o] \in Doc /\ req[r].to \in Status /\ req[r].typed \in {Typed, None}
          BY <1>0, <1>5 DEF Request
        <4>2. frees \in BOOLEAN /\ (order[o].pending /\ ~frees) \in BOOLEAN
          OBVIOUS
        <4> HIDE DEF frees
        <4>3. QED
          BY <4>1, <4>2 DEF Doc
      <3>2. order' = order \/ order' = [order EXCEPT ![o] = d]
        BY <1>5, <2>2 DEF WriteMove, TypeOK
      <3> HIDE DEF d
      <3>3. QED
        BY <1>1, <1>3, <3>1, <3>2
    <2>3. CASE ClearShown(r)
      <3> DEFINE d == [order[o] EXCEPT !.shown = None, !.pending = FALSE]
      <3>1. d \in Doc
        BY <1>0, <1>5 DEF Doc
      <3>2. order' = [order EXCEPT ![o] = d]
        BY <1>5, <2>3 DEF ClearShown, TypeOK
      <3> HIDE DEF d
      <3>3. QED
        BY <1>1, <3>1, <3>2
    <2>4. CASE WriteRestored(r)
      <3>1. Labelled(order[o], req[r].code) \in Doc
        BY <1>0, <1>5, LabelledType DEF Request
      <3>2. QED
        BY <1>1, <2>4, <3>1 DEF WriteRestored
    <2>5. CASE SaveRevert(r)
      <3>1. [order[o] EXCEPT !.status = "NEW"] \in Doc
        BY <1>0, <1>5 DEF Doc, Status
      <3>2. QED
        BY <1>1, <2>5, <3>1 DEF SaveRevert
    <2>6. CASE SaveKind(r)
      <3>1. [order[o] EXCEPT !.kind = req[r].kind] \in Doc
        BY <1>0, <1>5 DEF Doc, Request
      <3>2. QED
        BY <1>1, <2>6, <3>1 DEF SaveKind
    <2>7. QED
      BY <1>3, <1>5, <2>1, <2>2, <2>3, <2>4, <2>5, <2>6
         DEF Continue, SeeBarcode, FindHeld, Claim, Reread, Reserve, ReleaseOld,
             Convert, HandBack, GiveBack, Release, Unmark
  <1>6. CASE Arrive(r)
    BY <1>2, <1>3, <1>6 DEF Arrive, ReadForPack, ReadForMove, ReadForKind, Delete,
       Restore, ReadForRevert, ReadForUnmark
  <1>7. QED
    BY <1>4, <1>5, <1>6

-----------------------------------------------------------------------------
(***************************************************************************)
(* The pool.                                                               *)
(***************************************************************************)

\* A step that changes one barcode keeps the pool in order if it gives it to
\* an order only while that order holds none, and never to one while written
\* off.
LEMMA OneChanges ==
  ASSUME PoolInv, NEW c, NEW b \in Barcode, pool' = [pool EXCEPT ![c] = b],
         b.mark # None => b.holder = None,
         b.holder # None => Held(b.holder) \subseteq {c}
  PROVE  pool' \in [Codes -> Barcode] /\ OneBarcodeEach' /\ WrittenOffUnused'
  <1>1. pool \in [Codes -> Barcode] /\ pool' \in [Codes -> Barcode]
    BY PoolType DEF PoolInv, TypeOK
  <1>2. \A d \in Codes : pool'[d] = IF d = c THEN b ELSE pool[d]
    BY <1>1
  <1>3. WrittenOffUnused'
    BY <1>2 DEF PoolInv, WrittenOffUnused
  <1>4. OneBarcodeEach'
    BY <1>2 DEF PoolInv, OneBarcodeEach, Held
  <1>5. QED
    BY <1>1, <1>3, <1>4

LEMMA FreeOne ==
  ASSUME PoolInv, NEW c,
         \/ pool' = [pool EXCEPT ![c].holder = None]
         \/ pool' = [pool EXCEPT ![c].mark = None]
         \/ pool' = [pool EXCEPT ![c].holder = None, ![c].mark = None]
  PROVE  pool' \in [Codes -> Barcode] /\ OneBarcodeEach' /\ WrittenOffUnused'
  <1>0. pool \in [Codes -> Barcode]
    BY DEF PoolInv, TypeOK
  <1>1. CASE c \notin Codes
    <2>1. pool' = pool
      BY <1>0, <1>1
    <2>2. QED
      BY <1>0, <2>1 DEF PoolInv, OneBarcodeEach, WrittenOffUnused
  <1>2. CASE c \in Codes
    <2>1. pool[c] \in Barcode
      BY <1>0, <1>2
    <2>2. /\ pool' \in [Codes -> Barcode]
          /\ \A d \in Codes : d # c => pool'[d] = pool[d]
          /\ pool'[c].holder \in {pool[c].holder, None}
          /\ pool'[c].mark \in {pool[c].mark, None}
      <3>1. /\ [pool[c] EXCEPT !.holder = None] \in Barcode
            /\ [pool[c] EXCEPT !.mark = None] \in Barcode
            /\ [pool[c] EXCEPT !.holder = None, !.mark = None] \in Barcode
        BY <2>1 DEF Barcode
      <3>2. \E b \in Barcode : /\ pool' = [pool EXCEPT ![c] = b]
                              /\ b.holder \in {pool[c].holder, None}
                              /\ b.mark \in {pool[c].mark, None}
        <4>1. CASE pool' = [pool EXCEPT ![c].holder = None]
          BY <2>1, <3>1, <4>1 DEF Barcode
        <4>2. CASE pool' = [pool EXCEPT ![c].mark = None]
          BY <2>1, <3>1, <4>2 DEF Barcode
        <4>3. CASE pool' = [pool EXCEPT ![c].holder = None, ![c].mark = None]
          <5>1. pool' = [pool EXCEPT ![c] = [pool[c] EXCEPT !.holder = None, !.mark = None]]
            BY <1>0, <1>2, <4>3
          <5>2. QED
            BY <2>1, <3>1, <5>1 DEF Barcode
        <4>4. QED
          BY <4>1, <4>2, <4>3
      <3>3. QED
        BY <1>0, <1>2, <3>2
    <2>3. QED
      BY <1>2, <2>2 DEF PoolInv, OneBarcodeEach, WrittenOffUnused
  <1>3. QED
    BY <1>1, <1>2

LEMMA PoolStep ==
  ASSUME PoolInv, NEW r \in Requests, Continue(r)
  PROVE  pool' \in [Codes -> Barcode] /\ OneBarcodeEach' /\ WrittenOffUnused'
  <1>0. TypeOK /\ pool \in [Codes -> Barcode] /\ req[r] \in Request
    BY DEF PoolInv, TypeOK
  <1>1. CASE pool' = pool
    BY <1>0, <1>1 DEF PoolInv, OneBarcodeEach, WrittenOffUnused
  <1>2. CASE Claim(r)
    <2> SUFFICES ASSUME NEW c \in Available(req[r].kind), Held(req[r].order) = {},
                        pool' = [pool EXCEPT ![c].holder = req[r].order]
                 PROVE  pool' \in [Codes -> Barcode] /\ OneBarcodeEach' /\ WrittenOffUnused'
      BY <1>1, <1>2 DEF Claim
    <2> DEFINE b == [pool[c] EXCEPT !.holder = req[r].order]
    <2>1. c \in Codes /\ pool[c] \in Barcode /\ pool[c].mark = None
      BY <1>0 DEF Available
    <2>2. b \in Barcode /\ b.mark = None /\ b.holder = req[r].order
      BY <1>0, <2>1 DEF Barcode, Request
    <2>3. pool' = [pool EXCEPT ![c] = b]
      OBVIOUS
    <2> HIDE DEF b
    <2>4. QED
      BY <2>2, <2>3, OneChanges
  <1>3. CASE Reserve(r)
    <2> SUFFICES ASSUME NEW c \in Available(req[r].kind),
                        pool' = [pool EXCEPT ![c].mark = r]
                 PROVE  pool' \in [Codes -> Barcode] /\ OneBarcodeEach' /\ WrittenOffUnused'
      BY <1>1, <1>3 DEF Reserve
    <2> DEFINE b == [pool[c] EXCEPT !.mark = r]
    <2>1. c \in Codes /\ pool[c] \in Barcode /\ pool[c].holder = None
      BY <1>0 DEF Available
    <2>2. b \in Barcode /\ b.holder = None
      BY <2>1 DEF Barcode
    <2>3. pool' = [pool EXCEPT ![c] = b]
      OBVIOUS
    <2> HIDE DEF b
    <2>4. QED
      BY <2>2, <2>3, OneChanges
  <1>4. CASE Convert(r)
    <2> DEFINE c == req[r].code
               b == [pool[c] EXCEPT !.mark = None, !.holder = req[r].order]
    <2>1. CASE pool[c].mark = r /\ Held(req[r].order) = {}
      <3>1. pool' = [pool EXCEPT ![c].mark = None, ![c].holder = req[r].order]
        BY <1>4, <2>1 DEF Convert
      <3>2. CASE c \notin Codes
        <4>1. pool' = pool
          BY <1>0, <3>1, <3>2
        <4>2. QED
          BY <1>1, <4>1
      <3>3. CASE c \in Codes
        <4>1. pool[c] \in Barcode
          BY <1>0, <3>3
        <4>2. b \in Barcode /\ b.mark = None /\ b.holder = req[r].order
          BY <1>0, <4>1 DEF Barcode, Request
        <4>3. pool' = [pool EXCEPT ![c] = b]
          BY <1>0, <3>1, <3>3
        <4> HIDE DEF b
        <4>4. QED
          BY <2>1, <4>2, <4>3, OneChanges
      <3>4. QED
        BY <3>2, <3>3
    <2>2. CASE ~(pool[c].mark = r /\ Held(req[r].order) = {})
      BY <1>1, <1>4, <2>2 DEF Convert
    <2>3. QED
      BY <2>1, <2>2
  <1>5. CASE ReleaseOld(r) \/ HandBack(r) \/ GiveBack(r) \/ Unmark(r)
    BY <1>1, <1>5, FreeOne DEF ReleaseOld, HandBack, GiveBack, Unmark
  <1>6. CASE Release(r)
    <2>1. pool' = [c \in Codes |-> IF pool[c].holder = req[r].order
                                   THEN [pool[c] EXCEPT !.holder = None] ELSE pool[c]]
      BY <1>6 DEF Release
    <2>2. \A c \in Codes : /\ pool'[c] \in Barcode
                          /\ pool'[c].holder \in {pool[c].holder, None}
                          /\ pool'[c].mark = pool[c].mark
      BY <1>0, <2>1 DEF Barcode
    <2>3. pool' \in [Codes -> Barcode]
      BY <2>1, <2>2
    <2>4. QED
      BY <2>2, <2>3 DEF PoolInv, OneBarcodeEach, WrittenOffUnused
  <1>7. QED
    BY <1>1, <1>2, <1>3, <1>4, <1>5, <1>6
       DEF Continue, SeeBarcode, FindHeld, Reread, WritePacked, WriteMove, ClearShown,
           WriteRestored, SaveRevert, SaveKind

LEMMA UploadStep ==
  ASSUME PoolInv, NEW c \in Codes, markUsed(c) \/ \E k \in Kinds : bulkCreate(c, k)
  PROVE  pool' \in [Codes -> Barcode] /\ OneBarcodeEach' /\ WrittenOffUnused'
  <1>0. pool[c] \in Barcode
    BY DEF PoolInv, TypeOK
  <1>1. CASE markUsed(c)
    <2> DEFINE b == [pool[c] EXCEPT !.mark = "hand"]
    <2>1. b \in Barcode /\ b.holder = None
      BY <1>0, <1>1 DEF Barcode, markUsed, Available
    <2>2. pool' = [pool EXCEPT ![c] = b]
      BY <1>1 DEF markUsed
    <2> HIDE DEF b
    <2>3. QED
      BY <2>1, <2>2, OneChanges
  <1>2. ASSUME NEW k \in Kinds, bulkCreate(c, k)
        PROVE  pool' \in [Codes -> Barcode] /\ OneBarcodeEach' /\ WrittenOffUnused'
    <2> DEFINE b == [kind |-> k, holder |-> None, mark |-> None]
    <2>1. b \in Barcode /\ b.holder = None /\ b.mark = None
      BY DEF Barcode
    <2>2. pool' = [pool EXCEPT ![c] = b]
      BY <1>2 DEF bulkCreate
    <2> HIDE DEF b
    <2>3. QED
      BY <2>1, <2>2, OneChanges
  <1>3. QED
    BY <1>1, <1>2

-----------------------------------------------------------------------------
LEMMA PoolStarts == Init => PoolInv
  <1> SUFFICES ASSUME Init PROVE PoolInv
    OBVIOUS
  <1>1. order \in [Orders -> Doc]
    BY DEF Init, Doc, Status
  <1>2. pool \in [Codes -> Barcode]
    BY DEF Init, Barcode
  <1>3. req \in [Requests -> Request] /\ crashes \in Nat
    BY IdleType DEF Init
  <1>4. OneBarcodeEach /\ WrittenOffUnused
    BY DEF Init, OneBarcodeEach, WrittenOffUnused
  <1>5. QED
    BY <1>1, <1>2, <1>3, <1>4 DEF PoolInv, TypeOK

\* Every step keeps it.
LEMMA PoolKept == PoolInv /\ [Next]_vars => PoolInv'
  <1> SUFFICES ASSUME PoolInv, [Next]_vars PROVE PoolInv'
    OBVIOUS
  <1>0. TypeOK
    BY DEF PoolInv
  <1>1. ASSUME NEW r \in Requests, Arrive(r)
        PROVE  PoolInv'
    <2>1. pool' = pool /\ crashes' = crashes
      BY <1>1 DEF Arrive, ReadForPack, ReadForMove, ReadForKind, Delete, Restore,
         ReadForRevert, ReadForUnmark
    <2>2. QED
      BY <1>0, <1>1, <2>1, ArriveReqType, OrderType
         DEF PoolInv, TypeOK, OneBarcodeEach, WrittenOffUnused
  <1>2. ASSUME NEW r \in Requests, Continue(r)
        PROVE  PoolInv'
    <2>1. crashes' = crashes
      BY <1>2 DEF Continue, SeeBarcode, FindHeld, Claim, Reread, Reserve, ReleaseOld,
         Convert, HandBack, WritePacked, GiveBack, WriteMove, Release, ClearShown,
         WriteRestored, SaveRevert, SaveKind, Unmark
    <2>2. pool' \in [Codes -> Barcode] /\ OneBarcodeEach' /\ WrittenOffUnused'
      BY <1>2, PoolStep
    <2>3. QED
      BY <1>0, <1>2, <2>1, <2>2, ContinueReqType, OrderType DEF PoolInv, TypeOK
  <1>3. ASSUME NEW r \in Requests, Crash(r)
        PROVE  PoolInv'
    BY <1>0, <1>3, FinishType DEF Crash, PoolInv, TypeOK, OneBarcodeEach, WrittenOffUnused
  <1>4. ASSUME NEW c \in Codes, markUsed(c) \/ \E k \in Kinds : bulkCreate(c, k)
        PROVE  PoolInv'
    <2>1. order' = order /\ req' = req /\ crashes' = crashes
      BY <1>4 DEF markUsed, bulkCreate
    <2>2. QED
      BY <1>0, <1>4, <2>1, UploadStep DEF PoolInv, TypeOK
  <1>5. CASE UNCHANGED vars
    BY <1>5 DEF vars, PoolInv, TypeOK, OneBarcodeEach, WrittenOffUnused
  <1>6. QED
    BY <1>1, <1>2, <1>3, <1>4, <1>5 DEF Next

\* Whatever the requests on the pool do, in any order and however many of them
\* die: no order ever holds two barcodes, no barcode that is written off or
\* reserved is held by an order, and the documents keep their type.
THEOREM PoolSafe == Spec => [](TypeOK /\ OneBarcodeEach /\ WrittenOffUnused)
  <1>1. Init => PoolInv
    BY PoolStarts
  <1>2. PoolInv /\ [Next]_vars => PoolInv'
    BY PoolKept
  <1>3. QED
    BY <1>1, <1>2, PTL DEF Spec, PoolInv

\* A code that is written off is on no order (markUsed, switchType, assignToOrder).
THEOREM WrittenOffStaysOut == Spec => []WrittenOffUnused
  BY PoolSafe, PTL

\* Orders, barcodes and requests keep their types.
THEOREM PackingTypeCorrect == Spec => []TypeOK
  BY PoolSafe, PTL

-----------------------------------------------------------------------------
(***************************************************************************)
(* Labels, where no two requests work on the same order, none dies, and no *)
(* write-off is taken back.                                                *)
(***************************************************************************)
\* The instance in which labels can be relied on.
Orderly == Exclusive /\ "unmark" \notin Ops /\ MaxCrashes = 0

-----------------------------------------------------------------------------
(***************************************************************************)
(* The inductive invariant.                                                *)
(***************************************************************************)

\* A number from the pool that an order shows is one it holds.
ShowsOwn(o) == order[o].shown \in Codes => pool[order[o].shown].holder = o

\* The label of an order nobody works on.
Labels(o) ==
    /\ ShowsOwn(o)
    /\ order[o].status = "PACKED" /\ order[o].deleted => order[o].shown = None
    /\ order[o].status = "PACKED" /\ ~order[o].deleted =>
         /\ order[o].shown = None => order[o].pending
         /\ order[o].shown \in Codes /\ ~order[o].pending =>
                pool[order[o].shown].kind = order[o].kind

\* Steps on the way to a label.
Labelling == {"had", "find", "claim", "reserve", "swap", "convert", "write"}

\* The order is as the request read it.
Steady(q, d) ==
    /\ q.pc \in Labelling =>
         /\ q.op \in {"pack", "restore"} /\ ~d.deleted
         /\ q.op = "pack" => d.status = q.was /\ q.was \in {"NEW", "PACKED"}
         /\ q.op = "restore" => d.status = "PACKED"
         /\ q.sets \/ d.kind = q.kind
         /\ q.op = "restore" => ~q.sets
         /\ q.kind # None \/ (q.pc = "write" /\ q.code = None)
    /\ q.pc = "move" =>
         /\ q.op = "move" /\ ~d.deleted /\ d.status = q.was /\ <<q.was, q.to>> \in Moves
         /\ q.to = "PACKED" => q.typed = Typed
         /\ q.to = "CANCELLED" => q.typed = None
    /\ q.pc = "release" =>
         \/ q.op = "move" /\ d.status = "CANCELLED" /\ d.shown = None
         \/ q.op = "delete" /\ d.deleted /\ d.status = "PACKED"
    /\ q.pc = "clear" => q.op = "delete" /\ d.deleted /\ d.status = "PACKED"
    /\ q.pc = "save" => \/ q.op = "revert" /\ d.status = "PACKED" /\ ~d.deleted
                        \/ q.op = "kind" /\ d.status = "NEW"

\* What a request knows of the barcodes: the one it swaps, the one it reserved,
\* the one it has assigned and not yet written.
Grips(r, q) ==
    /\ q.pc \in {"reserve", "swap"} => q.old \in Codes /\ pool[q.old].holder = q.order
    /\ q.pc \in {"claim", "convert"} => Held(q.order) = {}
    /\ q.pc \in {"swap", "convert"} =>
         q.code \in Codes /\ pool[q.code].mark = r /\ pool[q.code].kind = q.kind
    /\ q.pc = "write" /\ q.code # None =>
         q.code \in Codes /\ pool[q.code].holder = q.order /\ pool[q.code].kind = q.kind
    /\ q.pc \notin {"convert", "clear"} /\ (q.pc = "write" => q.code = None) => ShowsOwn(q.order)

Works(r) ==
    /\ req[r].pc \in Labelling \cup {"idle", "move", "release", "clear", "save"}
    /\ req[r].pc = "idle" <=> req[r].order = None
    /\ req[r].pc # "idle" => Steady(req[r], order[req[r].order]) /\ Grips(r, req[r])

\* A code that was never uploaded is nobody's.
Blank == \A c \in Codes : pool[c].kind = None => pool[c].holder = None /\ pool[c].mark = None

Solo == \A r, p \in Requests : req[r].order # None /\ req[r].order = req[p].order => r = p

LabelInv ==
    /\ PoolInv /\ crashes = 0 /\ Blank /\ Solo
    /\ \A r \in Requests : Works(r)
    /\ \A o \in Orders : Settled(o) => Labels(o)

-----------------------------------------------------------------------------
(***************************************************************************)
(* What a step does not touch.                                             *)
(***************************************************************************)

\* No order outside os gains or loses a barcode, no reservation but those of rs
\* goes, and a barcode keeps its delivery type.
PoolApart(rs, os) ==
    \A c \in Codes :
        /\ \A x \in Orders \ os : pool'[c].holder = x <=> pool[c].holder = x
        /\ \A p \in Requests \ rs : pool[c].mark = p => pool'[c].mark = p
        /\ pool[c].kind # None => pool'[c].kind = pool[c].kind
        /\ pool'[c].kind = None => pool'[c].holder = None /\ pool'[c].mark = None

\* The requests rs step, on the orders os, where nobody else works.
Apart(rs, os) ==
    /\ \A p \in Requests \ rs : req'[p] = req[p] /\ req[p].order \notin os
    /\ \A p \in rs : req[p].order \in os \cup {None} /\ req'[p].order \in os \cup {None}
    /\ \A x \in Orders \ os : order'[x] = order[x]
    /\ PoolApart(rs, os)

LEMMA OthersKeep ==
    ASSUME LabelInv, NEW rs, rs \subseteq Requests, NEW os, os \subseteq Orders, Apart(rs, os)
    PROVE  /\ \A p \in Requests \ rs : Works(p)'
           /\ \A x \in Orders \ os : Settled(x)' => Labels(x)'
<1>t. TypeOK /\ Blank /\ PackingAssumption
  BY PackingAssumption DEF LabelInv, PoolInv
<1>0. \A x \in Orders \ os : ShowsOwn(x) => ShowsOwn(x)'
  <2> SUFFICES ASSUME NEW x \in Orders \ os, ShowsOwn(x), order'[x].shown \in Codes
               PROVE  pool'[order'[x].shown].holder = x
    BY DEF ShowsOwn
  <2>1. order'[x] = order[x]
    BY DEF Apart
  <2> QED
    BY <2>1 DEF ShowsOwn, Apart, PoolApart
<1>1. ASSUME NEW p \in Requests \ rs
      PROVE  Works(p)'
  <2>1. Works(p) /\ req'[p] = req[p] /\ req[p].order \notin os
    BY DEF LabelInv, Apart
  <2>2. CASE req[p].pc = "idle"
    BY <2>1, <2>2 DEF Works
  <2>3. CASE req[p].pc # "idle"
    <3>1. PICK q \in Request : q = req[p]
      BY <1>t DEF TypeOK
    <3>2. q.order \in Orders \ os /\ q.order # None
      BY <2>1, <2>3, <3>1 DEF Works, Request
    <3>3. order'[q.order] = order[q.order]
      BY <3>2 DEF Apart
    <3>4. Steady(q, order[q.order]) /\ Grips(p, q)
      BY <2>1, <2>3, <3>1 DEF Works
    <3>5. Held(q.order)' = Held(q.order)
      BY <3>2 DEF Held, Apart, PoolApart
    <3>6. \A c \in Codes : /\ pool[c].holder = q.order =>
                                pool'[c].holder = q.order /\ pool'[c].kind = pool[c].kind
                           /\ pool[c].mark = p =>
                                pool'[c].mark = p /\ pool'[c].kind = pool[c].kind
      BY <3>2, <1>t DEF Apart, PoolApart, Blank, PackingAssumption
    <3>7. Grips(p, q)'
      <4>1. ShowsOwn(q.order) => ShowsOwn(q.order)'
        BY <3>2, <1>0
      <4> QED
        BY <3>4, <3>5, <3>6, <4>1 DEF Grips
    <3>8. Steady(q, order'[q.order])
      BY <3>3, <3>4
    <3>9. req'[p] = q
      BY <2>1, <3>1
    <3> QED
      BY <2>1, <2>3, <3>1, <3>7, <3>8, <3>9, Zenon DEF Works
  <2> QED
    BY <2>2, <2>3
<1>2. ASSUME NEW x \in Orders \ os, Settled(x)'
      PROVE  Labels(x)'
  <2>1. Settled(x)
    BY <1>2, <1>t DEF Settled, Apart, PackingAssumption
  <2>2. Labels(x) /\ order'[x] = order[x] /\ ShowsOwn(x)'
    BY <2>1, <1>0 DEF LabelInv, Apart, Labels
  <2>3. \A c \in Codes : pool[c].holder = x => pool'[c].kind = pool[c].kind
    BY <1>t DEF Apart, PoolApart, Blank, PackingAssumption
  <2> QED
    BY <2>2, <2>3 DEF Labels, ShowsOwn
<1> QED
  BY <1>1, <1>2

\* One request steps to q, on order o, which becomes d.
LEMMA Stepped ==
    ASSUME LabelInv, PoolInv', crashes' = crashes,
           NEW r \in Requests, NEW o \in Orders, req[r].order \in {None, o},
           \A p \in Requests \ {r} : req[p].order # o,
           NEW q \in Request, req' = [req EXCEPT ![r] = q],
           NEW d \in Doc, order' = [order EXCEPT ![o] = d],
           PoolApart({r}, {o}),
           \/ q.order = None /\ q.pc = "idle" /\ Labels(o)'
           \/ /\ q.order = o /\ q.pc \in Labelling \cup {"move", "release", "clear", "save"}
              /\ Steady(q, d) /\ Grips(r, q)'
    PROVE  LabelInv'
<1>t. TypeOK /\ Blank /\ Solo /\ PackingAssumption
  BY PackingAssumption DEF LabelInv, PoolInv
<1>1. /\ req'[r] = q /\ order'[o] = d /\ \A p \in Requests \ {r} : req'[p] = req[p]
      /\ \A x \in Orders \ {o} : order'[x] = order[x]
  BY <1>t DEF TypeOK
<1>2. Apart({r}, {o})
  BY <1>1 DEF Apart
<1>3. /\ \A p \in Requests \ {r} : Works(p)'
      /\ \A x \in Orders \ {o} : Settled(x)' => Labels(x)'
  BY <1>2, OthersKeep
<1>4. Works(r)'
  <2>1. q.pc = "idle" <=> q.order = None
    BY <1>t DEF Labelling, PackingAssumption
  <2>2. CASE q.pc = "idle"
    BY <2>1, <2>2, <1>1 DEF Works
  <2>3. CASE q.pc # "idle"
    <3>1. Steady(q, order'[q.order]) /\ Grips(r, q)'
      BY <2>3, <1>1
    <3>2. q.pc \in Labelling \cup {"idle", "move", "release", "clear", "save"}
      BY <2>3
    <3> QED
      BY <2>1, <2>3, <3>1, <3>2, <1>1, Zenon DEF Works
  <2> QED
    BY <2>2, <2>3
<1>5. Settled(o)' => Labels(o)'
  BY <1>1 DEF Settled
<1>6. Solo'
  BY <1>1, <1>t DEF Solo
<1>7. Blank'
  BY DEF Blank, PoolApart
<1> QED
  BY <1>3, <1>4, <1>5, <1>6, <1>7 DEF LabelInv

Busy == Labelling \cup {"move", "release", "clear", "save"}

\* What is known of a request under way.
LEMMA UnderWay ==
    ASSUME LabelInv, NEW r \in Requests, req[r].pc # "idle"
    PROVE  /\ req[r] \in Request /\ req[r].order \in Orders /\ req[r].pc \in Busy
           /\ order[req[r].order] \in Doc
           /\ \A p \in Requests \ {r} : req[p].order # req[r].order
           /\ Steady(req[r], order[req[r].order]) /\ Grips(r, req[r])
<1>t. TypeOK /\ Solo
  BY DEF LabelInv, PoolInv
<1>1. Works(r)
  BY DEF LabelInv
<1>2. req[r] \in Request /\ req[r].order \in Orders
  BY <1>1, <1>t DEF TypeOK, Request, Works
<1>3. req[r].order # None
  BY <1>1 DEF Works
<1>4. \A p \in Requests \ {r} : req[p].order # req[r].order
  BY <1>3, <1>t DEF Solo
<1> QED
  BY <1>1, <1>2, <1>4, <1>t DEF Works, Busy, TypeOK

LEMMA PoolSame ==
    ASSUME LabelInv, pool' = pool, NEW rs, NEW os
    PROVE  PoolApart(rs, os)
BY DEF LabelInv, Blank, PoolApart

LEMMA IdleFields == Idle \in Request /\ Idle.pc = "idle" /\ Idle.order = None
BY IdleType DEF Idle

\* A request begins on an order nobody works on.
LEMMA Begun ==
    ASSUME LabelInv, PoolInv', Exclusive, UNCHANGED <<pool, crashes>>,
           NEW r \in Requests, NEW op, NEW o \in Orders, Starts(r, op, o),
           NEW q \in Request, req' = [req EXCEPT ![r] = q],
           NEW d \in Doc, order' = [order EXCEPT ![o] = d],
           \/ q.order = None /\ q.pc = "idle" /\ Labels(o)'
           \/ q.order = o /\ q.pc \in Busy /\ Steady(q, d) /\ Grips(r, q)'
    PROVE  LabelInv'
<1>1. req[r].order = None
  BY DEF LabelInv, Works, Starts
<1>2. \A p \in Requests : req[p].order # o
  BY PackingAssumption DEF Starts
<1> QED
  BY <1>1, <1>2, PoolSame, Stepped DEF Busy

\* A request goes on with what it has read.
LEMMA GoneOn ==
    ASSUME LabelInv, PoolInv', UNCHANGED <<order, pool, crashes>>,
           NEW r \in Requests, req[r].pc # "idle",
           NEW q \in Request, req' = [req EXCEPT ![r] = q], q.order = req[r].order,
           q.pc \in Busy, Steady(q, order[q.order]), Grips(r, q)
    PROVE  LabelInv'
<1>1. PICK o \in Orders : o = q.order
  BY UnderWay
<1>2. PICK d \in Doc : d = order[o]
  BY <1>1, UnderWay
<1>3. order' = [order EXCEPT ![o] = d]
  BY <1>2 DEF LabelInv, PoolInv, TypeOK
<1>4. Grips(r, q)'
  BY DEF Grips, Held, ShowsOwn
<1>5. \A p \in Requests \ {r} : req[p].order # o
  BY <1>1, UnderWay
<1> QED
  BY <1>1, <1>2, <1>3, <1>4, <1>5, PoolSame, Stepped DEF Busy

-----------------------------------------------------------------------------
(***************************************************************************)
(* The requests that arrive.                                               *)
(***************************************************************************)
LEMMA ArrivedKeeps ==
    ASSUME LabelInv, PoolInv', Orderly, NEW r \in Requests, Arrive(r)
    PROVE  LabelInv'
<1>t. TypeOK
  BY DEF LabelInv, PoolInv
<1> USE DEF Orderly
<1>u. UNCHANGED <<pool, crashes>>
  BY DEF Arrive, ReadForPack, ReadForMove, ReadForKind, Delete, Restore, ReadForRevert,
         ReadForUnmark
<1>0. ASSUME NEW op, NEW o \in Orders, Starts(r, op, o)
      PROVE  Labels(o)
  <2>1. Settled(o)
    BY <1>0, PackingAssumption DEF Starts, Settled
  <2> QED
    BY <2>1 DEF LabelInv
<1>1. ASSUME NEW o \in Orders, NEW k \in Kinds \cup {None}, ReadForPack(r, o, k)
      PROVE  LabelInv'
  <2>1. PICK d \in Doc : d = order[o]
    BY <1>t DEF TypeOK
  <2> DEFINE q == [Idle EXCEPT !.pc = "had", !.order = o, !.was = d.status, !.to = "PACKED",
                 !.kind = IF k # None THEN k ELSE d.kind, !.sets = k \notin {None, d.kind}]
  <2>2. /\ Starts(r, "pack", o) /\ ~d.deleted /\ <<d.status, "PACKED">> \in Moves
        /\ k # None \/ d.kind # None
        /\ req' = [req EXCEPT ![r] = q] /\ order' = order
    BY <1>1, <2>1 DEF ReadForPack, Live
  <2>3. /\ q \in Request /\ q.pc = "had" /\ q.order = o /\ q.op = "pack" /\ q.was = d.status
        /\ q.kind = (IF k # None THEN k ELSE d.kind) /\ (q.sets <=> k \notin {None, d.kind})
    BY ZenonT(60) DEF Idle, Request, Op, Pc, Status, Doc
  <2> HIDE DEF q
  <2>4. Steady(q, d)
    BY <2>2, <2>3 DEF Steady, Moves
  <2>5. Grips(r, q)'
    BY <1>0, <1>u, <2>2, <2>3 DEF Grips, Labels, ShowsOwn
  <2>6. order' = [order EXCEPT ![o] = d]
    BY <2>1, <2>2, <1>t DEF TypeOK
  <2> QED
    BY <1>u, <2>2, <2>3, <2>4, <2>5, <2>6, Begun DEF Busy, Labelling
<1>2. ASSUME NEW o \in Orders, NEW s \in Status, NEW x \in {Typed, None},
             ReadForMove(r, o, s, x)
      PROVE  LabelInv'
  <2>1. PICK d \in Doc : d = order[o]
    BY <1>t DEF TypeOK
  <2> DEFINE q == [Idle EXCEPT !.op = "move", !.pc = "move", !.order = o, !.was = d.status,
                               !.to = s, !.typed = x]
  <2>2. /\ Starts(r, "move", o) /\ ~d.deleted /\ <<d.status, s>> \in Moves
        /\ (s = "PACKED" => x = Typed) /\ (s = "CANCELLED" => x = None)
        /\ req' = [req EXCEPT ![r] = q] /\ order' = order
    BY <1>2, <2>1 DEF ReadForMove, Live
  <2>3. /\ q \in Request /\ q.pc = "move" /\ q.order = o /\ q.op = "move" /\ q.was = d.status
        /\ q.to = s /\ q.typed = x
    BY ZenonT(60) DEF Idle, Request, Op, Pc, Status, Doc
  <2> HIDE DEF q
  <2>4. Steady(q, d)
    BY <2>2, <2>3 DEF Steady, Labelling
  <2>5. Grips(r, q)'
    BY <1>0, <1>u, <2>2, <2>3 DEF Grips, Labels, ShowsOwn
  <2>6. order' = [order EXCEPT ![o] = d]
    BY <2>1, <2>2, <1>t DEF TypeOK
  <2> QED
    BY <1>u, <2>2, <2>3, <2>4, <2>5, <2>6, Begun DEF Busy
<1>3. ASSUME NEW o \in Orders, NEW k \in Kinds, ReadForKind(r, o, k)
      PROVE  LabelInv'
  <2>1. PICK d \in Doc : d = order[o]
    BY <1>t DEF TypeOK
  <2> DEFINE q == [Idle EXCEPT !.op = "kind", !.pc = "save", !.order = o, !.kind = k]
  <2>2. /\ Starts(r, "kind", o) /\ d.status = "NEW"
        /\ req' = [req EXCEPT ![r] = q] /\ order' = order
    BY <1>3, <2>1 DEF ReadForKind
  <2>3. q \in Request /\ q.pc = "save" /\ q.order = o /\ q.op = "kind"
    BY DEF Idle, Request, Op, Pc, Status
  <2> HIDE DEF q
  <2>4. Steady(q, d)
    BY <2>2, <2>3 DEF Steady, Labelling
  <2>5. Grips(r, q)'
    BY <1>0, <1>u, <2>2, <2>3 DEF Grips, Labels, ShowsOwn
  <2>6. order' = [order EXCEPT ![o] = d]
    BY <2>1, <2>2, <1>t DEF TypeOK
  <2> QED
    BY <1>u, <2>2, <2>3, <2>4, <2>5, <2>6, Begun DEF Busy
<1>4. ASSUME NEW o \in Orders, ReadForRevert(r, o)
      PROVE  LabelInv'
  <2>1. PICK d \in Doc : d = order[o]
    BY <1>t DEF TypeOK
  <2> DEFINE q == [Idle EXCEPT !.op = "revert", !.pc = "save", !.order = o]
  <2>2. /\ Starts(r, "revert", o) /\ ~d.deleted /\ d.status = "PACKED"
        /\ req' = [req EXCEPT ![r] = q] /\ order' = order
    BY <1>4, <2>1 DEF ReadForRevert, Live
  <2>3. q \in Request /\ q.pc = "save" /\ q.order = o /\ q.op = "revert"
    BY DEF Idle, Request, Op, Pc, Status
  <2> HIDE DEF q
  <2>4. Steady(q, d)
    BY <2>2, <2>3 DEF Steady, Labelling
  <2>5. Grips(r, q)'
    BY <1>0, <1>u, <2>2, <2>3 DEF Grips, Labels, ShowsOwn
  <2>6. order' = [order EXCEPT ![o] = d]
    BY <2>1, <2>2, <1>t DEF TypeOK
  <2> QED
    BY <1>u, <2>2, <2>3, <2>4, <2>5, <2>6, Begun DEF Busy
<1>5. ASSUME NEW o \in Orders, Delete(r, o)
      PROVE  LabelInv'
  <2>1. PICK d \in Doc : d = [order[o] EXCEPT !.deleted = TRUE]
    BY <1>t DEF TypeOK, Doc
  <2>2. /\ Starts(r, "delete", o) /\ ~order[o].deleted /\ order' = [order EXCEPT ![o] = d]
        /\ order[o] \in Doc
    BY <1>5, <2>1, <1>t DEF Delete, Live, TypeOK
  <2>3. d.deleted /\ d.status = order[o].status /\ d.shown = order[o].shown /\ Labels(o)
    BY <1>0, <2>1, <2>2 DEF Doc
  <2>4. order'[o] = d /\ ShowsOwn(o)'
    BY <2>2, <2>3, <1>t, <1>u DEF TypeOK, Labels, ShowsOwn
  <2>5. CASE d.status = "PACKED"
    <3> DEFINE q == [Idle EXCEPT !.op = "delete", !.pc = "release", !.order = o]
    <3>1. q \in Request /\ q.pc = "release" /\ q.order = o /\ q.op = "delete"
      BY DEF Idle, Request, Op, Pc, Status
    <3>2. req' = [req EXCEPT ![r] = q]
      BY <1>5, <2>3, <2>5 DEF Delete
    <3> HIDE DEF q
    <3>3. Steady(q, d) /\ Grips(r, q)'
      BY <2>3, <2>4, <2>5, <3>1 DEF Steady, Labelling, Grips
    <3> QED
      BY <1>u, <2>2, <3>1, <3>2, <3>3, Begun DEF Busy
  <2>6. CASE d.status # "PACKED"
    <3>1. PICK q \in Request : q = req[r]
      BY <1>t DEF TypeOK
    <3>2. req' = [req EXCEPT ![r] = q] /\ q.pc = "idle" /\ q.order = None
      BY <1>5, <2>3, <2>6, <3>1, <1>t DEF Delete, Starts, TypeOK, LabelInv, Works
    <3>3. Labels(o)'
      BY <2>4, <2>6 DEF Labels
    <3> QED
      BY <1>u, <2>2, <3>2, <3>3, Begun
  <2> QED
    BY <2>5, <2>6
<1>6. ASSUME NEW o \in Orders, Restore(r, o)
      PROVE  LabelInv'
  <2>1. PICK d \in Doc : d = [order[o] EXCEPT !.deleted = FALSE]
    BY <1>t DEF TypeOK, Doc
  <2>2. /\ Starts(r, "restore", o) /\ order[o].deleted /\ order' = [order EXCEPT ![o] = d]
        /\ order[o] \in Doc
    BY <1>6, <2>1, <1>t DEF Restore, TypeOK
  <2>3. /\ ~d.deleted /\ d.status = order[o].status /\ d.shown = order[o].shown
        /\ d.kind = order[o].kind /\ d.kind \in Kinds \cup {None} /\ Labels(o)
    BY <1>0, <2>1, <2>2 DEF Doc
  <2>4. order'[o] = d /\ ShowsOwn(o)'
    BY <2>2, <2>3, <1>t, <1>u DEF TypeOK, Labels, ShowsOwn
  <2>5. CASE d.status = "PACKED"
    <3> DEFINE q == [Idle EXCEPT !.op = "restore", !.order = o, !.kind = d.kind,
                         !.pc = IF d.kind = None THEN "write" ELSE "find"]
    <3>1. /\ q \in Request /\ q.pc = (IF d.kind = None THEN "write" ELSE "find") /\ q.order = o
          /\ q.op = "restore" /\ q.kind = d.kind /\ ~q.sets /\ q.code = None
      BY <2>3 DEF Idle, Request, Op, Pc, Status
    <3>2. d.shown = None
      BY <2>2, <2>3, <2>5 DEF Labels
    <3>3. req' = [req EXCEPT ![r] = q]
      BY <1>6, <2>3, <2>5, <3>2 DEF Restore
    <3> HIDE DEF q
    <3>4. Steady(q, d) /\ Grips(r, q)'
      BY <2>3, <2>4, <2>5, <3>1 DEF Steady, Labelling, Grips
    <3>5. q.pc \in Busy
      BY <3>1 DEF Busy, Labelling
    <3> QED
      BY <1>u, <2>2, <3>1, <3>3, <3>4, <3>5, Begun
  <2>6. CASE d.status # "PACKED"
    <3>1. PICK q \in Request : q = req[r]
      BY <1>t DEF TypeOK
    <3>2. req' = [req EXCEPT ![r] = q] /\ q.pc = "idle" /\ q.order = None
      BY <1>6, <2>3, <2>6, <3>1, <1>t DEF Restore, Starts, TypeOK, LabelInv, Works
    <3>3. Labels(o)'
      BY <2>4, <2>6 DEF Labels
    <3> QED
      BY <1>u, <2>2, <3>2, <3>3, Begun
  <2> QED
    BY <2>5, <2>6
<1>7. ASSUME NEW c \in Codes, ReadForUnmark(r, c)
      PROVE  LabelInv'
  BY <1>7 DEF ReadForUnmark, Starts
<1> QED
  BY <1>1, <1>2, <1>3, <1>4, <1>5, <1>6, <1>7 DEF Arrive

-----------------------------------------------------------------------------
(***************************************************************************)
(* The requests that go on: up to the assignment of a barcode.             *)
(***************************************************************************)

\* A request with its barcode, or with none, is ready to write.
LEMMA ReadyToWrite ==
    ASSUME LabelInv, NEW r \in Requests, req[r].pc \in {"find", "claim", "reserve"},
           NEW c \in Codes \cup {None}, WriteWith(r, c), UNCHANGED <<order, pool, crashes>>, PoolInv',
           c # None => pool[c].holder = req[r].order /\ pool[c].kind = req[r].kind
    PROVE  LabelInv'
<1>1. PICK p \in Request : p = req[r]
  BY DEF LabelInv, PoolInv, TypeOK
<1>2. Steady(p, order[p.order]) /\ Grips(r, p)
  BY <1>1, UnderWay
<1> DEFINE q == [p EXCEPT !.pc = "write", !.code = c]
<1>3. /\ q \in Request /\ q.pc = "write" /\ q.code = c /\ q.order = p.order /\ q.op = p.op
      /\ q.was = p.was /\ q.kind = p.kind /\ q.sets = p.sets
  BY DEF Request, Pc
<1>4. req' = [req EXCEPT ![r] = q]
  BY <1>1 DEF WriteWith, LabelInv, PoolInv, TypeOK
<1> HIDE DEF q
<1>5. Steady(q, order[q.order])
  BY <1>1, <1>2, <1>3 DEF Steady, Labelling
<1>6. Grips(r, q)
  BY <1>1, <1>2, <1>3 DEF Grips
<1> QED
  BY <1>1, <1>3, <1>4, <1>5, <1>6, GoneOn DEF Busy, Labelling

\* findByOrder, and what the order holds.
LEMMA FoundKeeps ==
    ASSUME LabelInv, PoolInv', NEW r \in Requests, SeeBarcode(r) \/ FindHeld(r)
    PROVE  LabelInv'
<1>u. UNCHANGED <<order, pool, crashes>> /\ req[r].pc \in {"had", "find"}
  BY DEF SeeBarcode, FindHeld, At
<1>1. PICK p \in Request : p = req[r]
  BY DEF LabelInv, PoolInv, TypeOK
<1>2. Steady(p, order[p.order]) /\ Grips(r, p) /\ ShowsOwn(p.order) /\ p.order \in Orders
  BY <1>u, <1>1, UnderWay DEF Grips
<1>3. ASSUME NEW q \in Request, req' = [req EXCEPT ![r] = q], q.pc \in {"find", "claim", "reserve"},
             q.order = p.order, q.op = p.op, q.was = p.was, q.kind = p.kind, q.sets = p.sets,
             q.pc = "claim" => Held(p.order) = {},
             q.pc = "reserve" => q.old \in Codes /\ pool[q.old].holder = p.order
      PROVE  LabelInv'
  <2>1. Steady(q, order[q.order])
    BY <1>u, <1>1, <1>2, <1>3 DEF Steady, Labelling
  <2>2. Grips(r, q)
    BY <1>2, <1>3 DEF Grips
  <2> QED
    BY <2>1, <2>2, <1>u, <1>1, <1>3, GoneOn DEF Busy, Labelling
<1>4. CASE SeeBarcode(r)
  <2> DEFINE q == [p EXCEPT !.pc = "find", !.had = Held(p.order) # {}]
  <2>1. /\ q \in Request /\ q.pc = "find" /\ q.order = p.order /\ q.op = p.op /\ q.was = p.was
        /\ q.kind = p.kind /\ q.sets = p.sets
    BY DEF Request, Pc
  <2>2. req' = [req EXCEPT ![r] = q]
    BY <1>1, <1>4 DEF SeeBarcode, LabelInv, PoolInv, TypeOK
  <2> HIDE DEF q
  <2> QED
    BY <2>1, <2>2, <1>3
<1>5. CASE Held(p.order) = {} /\ Goto(r, "claim")
  <2> DEFINE q == [p EXCEPT !.pc = "claim"]
  <2>1. /\ q \in Request /\ q.pc = "claim" /\ q.order = p.order /\ q.op = p.op /\ q.was = p.was
        /\ q.kind = p.kind /\ q.sets = p.sets
    BY DEF Request, Pc
  <2>2. req' = [req EXCEPT ![r] = q]
    BY <1>1, <1>5 DEF Goto, LabelInv, PoolInv, TypeOK
  <2> HIDE DEF q
  <2> QED
    BY <2>1, <2>2, <1>3, <1>5
<1>6. ASSUME FindHeld(r), NEW c \in Held(p.order), pool[c].kind = p.kind, WriteWith(r, c)
      PROVE  LabelInv'
  BY <1>1, <1>6, <1>u, ReadyToWrite DEF FindHeld, At, Held
<1>7. ASSUME NEW c \in Held(p.order), req' = [req EXCEPT ![r].pc = "reserve", ![r].old = c]
      PROVE  LabelInv'
  <2> DEFINE q == [p EXCEPT !.pc = "reserve", !.old = c]
  <2>1. /\ q \in Request /\ q.pc = "reserve" /\ q.order = p.order /\ q.op = p.op /\ q.was = p.was
        /\ q.kind = p.kind /\ q.sets = p.sets /\ q.old = c
    BY DEF Request, Pc, Held
  <2>2. req' = [req EXCEPT ![r] = q]
    BY <1>1, <1>7 DEF LabelInv, PoolInv, TypeOK
  <2>3. c \in Codes /\ pool[c].holder = p.order
    BY DEF Held
  <2> HIDE DEF q
  <2> QED
    BY <2>1, <2>2, <2>3, <1>3
<1>8. CASE FindHeld(r)
  BY <1>1, <1>5, <1>6, <1>7, <1>8 DEF FindHeld
<1> QED
  BY <1>4, <1>8

\* A barcode changes that is no other order's and nobody's reservation.
LEMMA OneApart ==
    ASSUME LabelInv, NEW r \in Requests, NEW o \in Orders, NEW c \in Codes, NEW b \in Barcode,
           pool' = [pool EXCEPT ![c] = b],
           pool[c].holder \in {o, None}, b.holder \in {o, None},
           \A p \in Requests \ {r} : pool[c].mark # p, b.kind = pool[c].kind, b.kind # None
    PROVE  PoolApart({r}, {o})
<1>1. pool'[c] = b /\ \A x \in Codes \ {c} : pool'[x] = pool[x]
  BY DEF LabelInv, PoolInv, TypeOK
<1>2. \A x \in Orders \ {o} : pool'[c].holder # x /\ pool[c].holder # x
  BY <1>1, PackingAssumption
<1> QED
  BY <1>1, <1>2 DEF PoolApart, LabelInv, Blank

\* assignToOrder claims an available barcode: nobody else gives the order one.
LEMMA ClaimKeeps ==
    ASSUME LabelInv, PoolInv', NEW r \in Requests, Claim(r)
    PROVE  LabelInv'
<1>u. UNCHANGED <<order, crashes>> /\ req[r].pc = "claim"
  BY DEF Claim, At
<1>1. PICK p \in Request : p = req[r]
  BY DEF LabelInv, PoolInv, TypeOK
<1>2. PICK o \in Orders : o = p.order
  BY <1>u, <1>1, UnderWay
<1>3. /\ Steady(p, order[o]) /\ Grips(r, p) /\ Held(o) = {} /\ o # None
      /\ \A x \in Requests \ {r} : req[x].order # o
  BY <1>u, <1>1, <1>2, UnderWay, PackingAssumption DEF Grips
<1>4. CASE WriteWith(r, None) /\ UNCHANGED pool
  BY <1>u, <1>4, ReadyToWrite
<1>5. ASSUME NEW c \in Available(p.kind), pool' = [pool EXCEPT ![c].holder = o], WriteWith(r, c)
      PROVE  LabelInv'
  <2>1. /\ c \in Codes /\ pool[c] \in Barcode /\ pool[c].kind = p.kind /\ pool[c].holder = None
        /\ pool[c].mark = None /\ p.kind # None /\ c # None
    BY <1>u, <1>1, <1>3, PackingAssumption
       DEF Available, LabelInv, PoolInv, TypeOK, Steady, Labelling
  <2> DEFINE b == [pool[c] EXCEPT !.holder = o]
  <2>2. b \in Barcode /\ b.holder = o /\ b.kind = p.kind
    BY <2>1 DEF Barcode
  <2>3. pool' = [pool EXCEPT ![c] = b]
    BY <1>5
  <2> HIDE DEF b
  <2>4. PoolApart({r}, {o})
    BY <2>1, <2>2, <2>3, OneApart, PackingAssumption
  <2>5. pool'[c].holder = o /\ pool'[c].kind = p.kind
    BY <2>1, <2>2, <2>3 DEF LabelInv, PoolInv, TypeOK
  <2> DEFINE q == [p EXCEPT !.pc = "write", !.code = c]
  <2>6. /\ q \in Request /\ q.pc = "write" /\ q.code = c /\ q.order = o /\ q.op = p.op
        /\ q.was = p.was /\ q.kind = p.kind /\ q.sets = p.sets
    BY <1>2, <2>1 DEF Request, Pc
  <2>7. req' = [req EXCEPT ![r] = q]
    BY <1>1, <1>5 DEF WriteWith, LabelInv, PoolInv, TypeOK
  <2> HIDE DEF q
  <2>8. PICK d \in Doc : d = order[o] /\ order' = [order EXCEPT ![o] = d]
    BY <1>u DEF LabelInv, PoolInv, TypeOK
  <2>9. Steady(q, d)
    BY <1>u, <1>1, <1>3, <2>1, <2>6, <2>8 DEF Steady, Labelling
  <2>10. Grips(r, q)'
    BY <2>1, <2>5, <2>6 DEF Grips
  <2> QED
    BY <1>u, <1>1, <1>2, <1>3, <2>4, <2>6, <2>7, <2>8, <2>9, <2>10, Stepped DEF Labelling
<1> QED
  BY <1>1, <1>2, <1>3, <1>4, <1>5 DEF Claim

\* switchType reserves a barcode of the new type.
LEMMA ReserveKeeps ==
    ASSUME LabelInv, PoolInv', NEW r \in Requests, Reserve(r)
    PROVE  LabelInv'
<1>u. UNCHANGED <<order, crashes>> /\ req[r].pc = "reserve"
  BY DEF Reserve, At
<1>1. PICK p \in Request : p = req[r]
  BY DEF LabelInv, PoolInv, TypeOK
<1>2. PICK o \in Orders : o = p.order
  BY <1>u, <1>1, UnderWay
<1>3. /\ Steady(p, order[o]) /\ Grips(r, p) /\ p.old \in Codes /\ pool[p.old].holder = o
      /\ ShowsOwn(o) /\ o # None /\ \A x \in Requests \ {r} : req[x].order # o
  BY <1>u, <1>1, <1>2, UnderWay, PackingAssumption DEF Grips
<1>4. CASE WriteWith(r, None) /\ UNCHANGED pool
  BY <1>u, <1>4, ReadyToWrite
<1>5. ASSUME NEW c \in Available(p.kind), pool' = [pool EXCEPT ![c].mark = r],
             req' = [req EXCEPT ![r].pc = "swap", ![r].code = c]
      PROVE  LabelInv'
  <2>1. /\ c \in Codes /\ pool[c] \in Barcode /\ pool[c].kind = p.kind /\ pool[c].holder = None
        /\ pool[c].mark = None /\ p.kind # None /\ c # None
    BY <1>u, <1>1, <1>3, PackingAssumption
       DEF Available, LabelInv, PoolInv, TypeOK, Steady, Labelling
  <2> DEFINE b == [pool[c] EXCEPT !.mark = r]
  <2>2. b \in Barcode /\ b.holder = None /\ b.kind = p.kind /\ b.mark = r
    BY <2>1 DEF Barcode
  <2>3. pool' = [pool EXCEPT ![c] = b]
    BY <1>5
  <2> HIDE DEF b
  <2>4. PoolApart({r}, {o})
    BY <2>1, <2>2, <2>3, OneApart, PackingAssumption
  <2>5. /\ pool'[c].mark = r /\ pool'[c].kind = p.kind
        /\ \A x \in Codes : pool'[x].holder = pool[x].holder
    BY <2>1, <2>2, <2>3 DEF LabelInv, PoolInv, TypeOK
  <2> DEFINE q == [p EXCEPT !.pc = "swap", !.code = c]
  <2>6. /\ q \in Request /\ q.pc = "swap" /\ q.code = c /\ q.order = o /\ q.op = p.op
        /\ q.was = p.was /\ q.kind = p.kind /\ q.sets = p.sets /\ q.old = p.old
    BY <1>2, <2>1 DEF Request, Pc
  <2>7. req' = [req EXCEPT ![r] = q]
    BY <1>1, <1>5 DEF LabelInv, PoolInv, TypeOK
  <2> HIDE DEF q
  <2>8. PICK d \in Doc : d = order[o] /\ order' = [order EXCEPT ![o] = d]
    BY <1>u DEF LabelInv, PoolInv, TypeOK
  <2>9. Steady(q, d)
    BY <1>u, <1>1, <1>3, <2>1, <2>6, <2>8 DEF Steady, Labelling
  <2>10. ShowsOwn(o)'
    BY <1>u, <1>3, <2>5 DEF ShowsOwn
  <2>11. Grips(r, q)'
    BY <1>3, <2>1, <2>5, <2>6, <2>10 DEF Grips
  <2> QED
    BY <1>u, <1>1, <1>2, <1>3, <2>4, <2>6, <2>7, <2>8, <2>9, <2>11, Stepped DEF Labelling
<1> QED
  BY <1>1, <1>2, <1>3, <1>4, <1>5 DEF Reserve

\* switchType gives the old barcode back: the order then holds none.
LEMMA SwapKeeps ==
    ASSUME LabelInv, PoolInv', NEW r \in Requests, ReleaseOld(r)
    PROVE  LabelInv'
<1>u. UNCHANGED <<order, crashes>> /\ req[r].pc = "swap"
  BY DEF ReleaseOld, At
<1>1. PICK p \in Request : p = req[r]
  BY DEF LabelInv, PoolInv, TypeOK
<1>2. PICK o \in Orders : o = p.order
  BY <1>u, <1>1, UnderWay
<1>3. /\ Steady(p, order[o]) /\ p.old \in Codes /\ pool[p.old].holder = o /\ o # None
      /\ p.code \in Codes /\ pool[p.code].mark = r /\ pool[p.code].kind = p.kind
      /\ \A x \in Requests \ {r} : req[x].order # o
  BY <1>u, <1>1, <1>2, UnderWay, PackingAssumption DEF Grips
<1>4. pool[p.code].holder = None /\ pool[p.old].mark = None /\ p.code # p.old
  BY <1>3, PackingAssumption DEF LabelInv, PoolInv, WrittenOffUnused
<1>5. pool[p.old] \in Barcode /\ pool[p.old].kind # None
  BY <1>3 DEF LabelInv, PoolInv, TypeOK, Blank
<1> DEFINE b == [pool[p.old] EXCEPT !.holder = None]
<1>6. b \in Barcode /\ b.holder = None /\ b.kind = pool[p.old].kind
  BY <1>5 DEF Barcode
<1>7. pool' = [pool EXCEPT ![p.old] = b]
  BY <1>1, <1>2, <1>3 DEF ReleaseOld
<1> HIDE DEF b
<1>8. PoolApart({r}, {o})
  BY ZenonT(60), <1>3, <1>4, <1>5, <1>6, <1>7, OneApart, PackingAssumption
<1>9. /\ pool'[p.old].holder = None /\ pool'[p.code] = pool[p.code]
      /\ \A x \in Codes \ {p.old} : pool'[x] = pool[x]
  BY <1>3, <1>4, <1>6, <1>7 DEF LabelInv, PoolInv, TypeOK
<1>10. Held(o)' = {}
  BY <1>3, <1>9 DEF Held, LabelInv, PoolInv, OneBarcodeEach
<1> DEFINE q == [p EXCEPT !.pc = "convert"]
<1>11. /\ q \in Request /\ q.pc = "convert" /\ q.code = p.code /\ q.order = o /\ q.op = p.op
       /\ q.was = p.was /\ q.kind = p.kind /\ q.sets = p.sets
  BY <1>2 DEF Request, Pc
<1>12. req' = [req EXCEPT ![r] = q]
  BY <1>1 DEF ReleaseOld, Goto, LabelInv, PoolInv, TypeOK
<1> HIDE DEF q
<1>13. PICK d \in Doc : d = order[o] /\ order' = [order EXCEPT ![o] = d]
  BY <1>u DEF LabelInv, PoolInv, TypeOK
<1>14. Steady(q, d)
  BY <1>u, <1>1, <1>3, <1>11, <1>13 DEF Steady, Labelling
<1>15. Grips(r, q)'
  BY <1>3, <1>9, <1>10, <1>11 DEF Grips
<1> QED
  BY <1>u, <1>1, <1>2, <1>3, <1>8, <1>11, <1>12, <1>13, <1>14, <1>15, Stepped DEF Labelling

\* The reservation stands, and becomes the order's barcode.
LEMMA ConvertKeeps ==
    ASSUME LabelInv, PoolInv', NEW r \in Requests, Convert(r)
    PROVE  LabelInv'
<1>u. UNCHANGED <<order, crashes>> /\ req[r].pc = "convert"
  BY DEF Convert, At
<1>1. PICK p \in Request : p = req[r]
  BY DEF LabelInv, PoolInv, TypeOK
<1>2. PICK o \in Orders : o = p.order
  BY <1>u, <1>1, UnderWay
<1>3. /\ Steady(p, order[o]) /\ Held(o) = {} /\ o # None
      /\ p.code \in Codes /\ pool[p.code].mark = r /\ pool[p.code].kind = p.kind
      /\ \A x \in Requests \ {r} : req[x].order # o
  BY <1>u, <1>1, <1>2, UnderWay, PackingAssumption DEF Grips
<1>4. /\ pool[p.code].holder = None /\ pool[p.code] \in Barcode /\ p.kind # None
      /\ p.code # None /\ r # None
  BY <1>u, <1>1, <1>3, PackingAssumption
     DEF LabelInv, PoolInv, TypeOK, WrittenOffUnused, Steady, Labelling
<1>5. /\ pool' = [pool EXCEPT ![p.code].mark = None, ![p.code].holder = o]
      /\ WriteWith(r, p.code)
  BY <1>1, <1>2, <1>3 DEF Convert
<1> DEFINE b == [pool[p.code] EXCEPT !.mark = None, !.holder = o]
<1>6. b \in Barcode /\ b.holder = o /\ b.kind = p.kind
  BY <1>3, <1>4 DEF Barcode
<1>7. pool' = [pool EXCEPT ![p.code] = b]
  BY <1>3, <1>5 DEF LabelInv, PoolInv, TypeOK
<1> HIDE DEF b
<1>8. PoolApart({r}, {o})
  BY <1>3, <1>4, <1>6, <1>7, OneApart, PackingAssumption
<1>9. pool'[p.code].holder = o /\ pool'[p.code].kind = p.kind
  BY <1>3, <1>6, <1>7 DEF LabelInv, PoolInv, TypeOK
<1> DEFINE q == [p EXCEPT !.pc = "write", !.code = p.code]
<1>10. /\ q \in Request /\ q.pc = "write" /\ q.code = p.code /\ q.order = o /\ q.op = p.op
       /\ q.was = p.was /\ q.kind = p.kind /\ q.sets = p.sets
  BY <1>2, <1>3 DEF Request, Pc
<1>11. req' = [req EXCEPT ![r] = q]
  BY <1>1, <1>5 DEF WriteWith, LabelInv, PoolInv, TypeOK
<1> HIDE DEF q
<1>12. PICK d \in Doc : d = order[o] /\ order' = [order EXCEPT ![o] = d]
  BY <1>u DEF LabelInv, PoolInv, TypeOK
<1>13. Steady(q, d)
  BY <1>u, <1>1, <1>3, <1>4, <1>10, <1>12 DEF Steady, Labelling
<1>14. Grips(r, q)'
  BY <1>3, <1>4, <1>9, <1>10 DEF Grips
<1> QED
  BY <1>u, <1>1, <1>2, <1>3, <1>8, <1>10, <1>11, <1>12, <1>13, <1>14, Stepped DEF Labelling

-----------------------------------------------------------------------------
(***************************************************************************)
(* The requests that go on: the writes to the order.                       *)
(***************************************************************************)

\* A request writes d to its order and becomes q.
LEMMA Written ==
    ASSUME LabelInv, PoolInv', UNCHANGED <<pool, crashes>>, NEW r \in Requests,
           req[r].pc # "idle", NEW o \in Orders, o = req[r].order,
           NEW q \in Request, req' = [req EXCEPT ![r] = q],
           NEW d \in Doc, order' = [order EXCEPT ![o] = d],
           \/ q.order = None /\ q.pc = "idle" /\ Labels(o)'
           \/ q.order = o /\ q.pc \in Busy /\ Steady(q, d) /\ Grips(r, q)'
    PROVE  LabelInv'
<1>1. \A p \in Requests \ {r} : req[p].order # o
  BY UnderWay
<1> QED
  BY <1>1, PoolSame, Stepped DEF Busy

\* The writes of a pack and of a restore: the number claimed, or the flag.
LEMMA LabelledKeeps ==
    ASSUME LabelInv, PoolInv', NEW r \in Requests, WritePacked(r) \/ WriteRestored(r)
    PROVE  LabelInv'
<1>t. TypeOK
  BY DEF LabelInv, PoolInv
<1>u. UNCHANGED <<pool, crashes>> /\ req[r].pc = "write"
  BY DEF WritePacked, WriteRestored, At
<1>1. PICK p \in Request : p = req[r]
  BY <1>t DEF TypeOK
<1>2. PICK o \in Orders : o = p.order
  BY <1>u, <1>1, UnderWay
<1>3. PICK e \in Doc : e = order[o]
  BY <1>t DEF TypeOK
<1>4. Steady(p, e) /\ Grips(r, p)
  BY <1>u, <1>1, <1>2, <1>3, UnderWay
<1>5. /\ p.pc = "write" /\ ~e.deleted /\ (p.sets \/ e.kind = p.kind)
      /\ (p.op = "pack" => e.status = p.was) /\ (p.op = "restore" => e.status = "PACKED" /\ ~p.sets)
      /\ p.code # None =>
           p.code \in Codes /\ pool[p.code].holder = o /\ pool[p.code].kind = p.kind
      /\ p.code = None => (e.shown \in Codes => pool[e.shown].holder = o)
  BY <1>u, <1>1, <1>2, <1>3, <1>4 DEF Steady, Grips, Labelling, ShowsOwn
<1>6. PICK d \in Doc : /\ order' = [order EXCEPT ![o] = d] /\ d.status = "PACKED" /\ ~d.deleted
                       /\ d.kind = (IF p.sets THEN p.kind ELSE e.kind)
                       /\ d.shown = (IF p.code # None THEN p.code ELSE e.shown)
                       /\ (d.pending <=> p.code = None)
  <2> DEFINE l == [e EXCEPT !.shown = IF p.code # None THEN p.code ELSE @,
                            !.pending = p.code = None]
  <2>1. /\ l \in Doc /\ l.status = e.status /\ ~l.deleted /\ l.kind = e.kind
        /\ l.shown = (IF p.code # None THEN p.code ELSE e.shown)
        /\ (l.pending <=> p.code = None)
    BY <1>5 DEF Doc
  <2>2. Labelled(e, p.code) = l
    BY DEF Labelled
  <2> HIDE DEF l
  <2>3. CASE WriteRestored(r)
    <3>1. order' = [order EXCEPT ![o] = l] /\ p.op = "restore"
      BY <1>1, <1>2, <1>3, <2>2, <2>3 DEF WriteRestored
    <3> QED
      BY <2>1, <3>1, <1>5
  <2>4. CASE WritePacked(r)
    <3>1. /\ order' = [order EXCEPT ![o] = [l EXCEPT !.status = "PACKED",
                                              !.kind = IF p.sets THEN p.kind ELSE @]]
          /\ p.op = "pack"
      BY <1>1, <1>2, <1>3, <1>5, <2>2, <2>4 DEF WritePacked, Live
    <3> DEFINE m == [l EXCEPT !.status = "PACKED", !.kind = IF p.sets THEN p.kind ELSE @]
    <3>2. /\ m \in Doc /\ m.status = "PACKED" /\ m.deleted = l.deleted
          /\ m.kind = (IF p.sets THEN p.kind ELSE l.kind)
          /\ m.shown = l.shown /\ m.pending = l.pending
      BY <2>1 DEF Doc, Request, Status
    <3>3. order' = [order EXCEPT ![o] = m]
      BY <3>1
    <3> HIDE DEF m
    <3> QED
      BY <2>1, <3>2, <3>3
  <2> QED
    BY <2>3, <2>4
<1>7. order'[o] = d
  BY <1>6, <1>t DEF TypeOK
<1>8. d.shown \in Codes => pool'[d.shown].holder = o /\ (p.code # None => pool'[d.shown].kind = d.kind)
  BY <1>u, <1>5, <1>6
<1>9. Labels(o)'
  BY <1>6, <1>7, <1>8, PackingAssumption DEF Labels, ShowsOwn
<1>10. req' = [req EXCEPT ![r] = Idle]
  <2>1. CASE WriteRestored(r)
    BY <2>1 DEF WriteRestored, Finish
  <2>2. CASE WritePacked(r)
    BY <1>1, <1>2, <1>3, <1>5, <2>2 DEF WritePacked, Live, Finish
  <2> QED
    BY <2>1, <2>2
<1> QED
  BY <1>u, <1>1, <1>2, <1>6, <1>9, <1>10, IdleFields, Written

\* A move: a cancel takes the number off the order, a number typed in replaces it.
LEMMA MoveKeeps ==
    ASSUME LabelInv, PoolInv', NEW r \in Requests, WriteMove(r)
    PROVE  LabelInv'
<1>t. TypeOK
  BY DEF LabelInv, PoolInv
<1>u. UNCHANGED <<pool, crashes>> /\ req[r].pc = "move"
  BY DEF WriteMove, At
<1>1. PICK p \in Request : p = req[r]
  BY <1>t DEF TypeOK
<1>2. PICK o \in Orders : o = p.order
  BY <1>u, <1>1, UnderWay
<1>3. PICK e \in Doc : e = order[o]
  BY <1>t DEF TypeOK
<1>4. Steady(p, e) /\ Grips(r, p)
  BY <1>u, <1>1, <1>2, <1>3, UnderWay
<1>5. /\ p.op = "move" /\ ~e.deleted /\ e.status = p.was
      /\ (p.to = "PACKED" => p.typed = Typed)
      /\ (e.shown \in Codes => pool[e.shown].holder = o)
  BY <1>u, <1>1, <1>2, <1>3, <1>4 DEF Steady, Grips, ShowsOwn
<1> DEFINE frees == p.to = "CANCELLED" /\ p.was = "PACKED"
<1> DEFINE d == [e EXCEPT !.status = p.to,
                          !.shown = IF frees THEN None
                                    ELSE IF p.typed # None THEN p.typed ELSE @,
                          !.pending = @ /\ ~frees]
<1>6. /\ order' = [order EXCEPT ![o] = d]
      /\ IF frees THEN Goto(r, "release") ELSE Finish(r)
  <2>1. order' = [order EXCEPT ![o].status = p.to,
                       ![o].shown = IF frees THEN None
                                    ELSE IF p.typed # None THEN p.typed ELSE @,
                       ![o].pending = @ /\ ~frees]
    BY <1>1, <1>2, <1>3, <1>5 DEF WriteMove, Live
  <2>2. IF frees THEN Goto(r, "release") ELSE Finish(r)
    BY <1>1, <1>2, <1>3, <1>5 DEF WriteMove, Live
  <2> QED
    BY <2>1, <2>2, <1>3, <1>t DEF TypeOK
<1>7. /\ d \in Doc /\ d.status = p.to /\ ~d.deleted
      /\ d.shown = (IF frees THEN None ELSE IF p.typed # None THEN p.typed ELSE e.shown)
  BY <1>5 DEF Doc, Request
<1>8. d.status = "CANCELLED" \/ ~frees
  BY <1>7
<1> HIDE DEF d
<1>9. order'[o] = d
  BY <1>6, <1>t DEF TypeOK
<1>10. ShowsOwn(o)'
  BY <1>u, <1>5, <1>7, <1>9, PackingAssumption DEF ShowsOwn, Request
<1>11. CASE frees
  <2> DEFINE q == [p EXCEPT !.pc = "release"]
  <2>1. q \in Request /\ q.pc = "release" /\ q.order = o /\ q.op = "move"
    BY <1>2, <1>5 DEF Request, Pc
  <2>2. req' = [req EXCEPT ![r] = q]
    BY <1>1, <1>6, <1>11 DEF Goto, LabelInv, PoolInv, TypeOK
  <2> HIDE DEF q
  <2>3. Steady(q, d)
    BY <1>7, <1>8, <1>11, <2>1 DEF Steady, Labelling
  <2>4. Grips(r, q)'
    BY <1>10, <2>1 DEF Grips
  <2> QED
    BY <1>u, <1>1, <1>2, <1>6, <1>7, <2>1, <2>2, <2>3, <2>4, Written DEF Busy
<1>12. CASE ~frees
  <2>1. req' = [req EXCEPT ![r] = Idle]
    BY <1>6, <1>12 DEF Finish
  <2>2. p.to = "PACKED" => d.shown = Typed
    BY <1>5, <1>7, <1>12, PackingAssumption
  <2>3. Labels(o)'
    BY <1>7, <1>9, <1>10, <2>2, PackingAssumption DEF Labels
  <2> QED
    BY <1>u, <1>1, <1>2, <1>6, <1>7, <2>1, <2>3, IdleFields, Written
<1> QED
  BY <1>11, <1>12

\* A cancel and a delete give back what the order holds.
LEMMA ReleaseKeeps ==
    ASSUME LabelInv, PoolInv', NEW r \in Requests, Release(r)
    PROVE  LabelInv'
<1>t. TypeOK
  BY DEF LabelInv, PoolInv
<1>u. UNCHANGED <<order, crashes>> /\ req[r].pc = "release"
  BY DEF Release, At
<1>1. PICK p \in Request : p = req[r]
  BY <1>t DEF TypeOK
<1>2. PICK o \in Orders : o = p.order
  BY <1>u, <1>1, UnderWay
<1>3. PICK d \in Doc : d = order[o] /\ order' = [order EXCEPT ![o] = d]
  BY <1>u, <1>t DEF TypeOK
<1>4. /\ \/ p.op = "move" /\ d.status = "CANCELLED" /\ d.shown = None
         \/ p.op = "delete" /\ d.deleted /\ d.status = "PACKED"
      /\ \A x \in Requests \ {r} : req[x].order # o
  BY <1>u, <1>1, <1>2, <1>3, UnderWay DEF Steady
<1>5. \A c \in Codes : pool'[c] = IF pool[c].holder = o THEN [pool[c] EXCEPT !.holder = None]
                                                        ELSE pool[c]
  BY <1>1, <1>2 DEF Release
<1>6. \A c \in Codes : /\ pool'[c].kind = pool[c].kind /\ pool'[c].mark = pool[c].mark
                       /\ pool'[c].holder = (IF pool[c].holder = o THEN None ELSE pool[c].holder)
  BY <1>5, <1>t DEF TypeOK, Barcode
<1>7. PoolApart({r}, {o})
  BY <1>6, PackingAssumption DEF PoolApart, LabelInv, Blank
<1>8. CASE p.op = "delete"
  <2> DEFINE q == [p EXCEPT !.pc = "clear"]
  <2>1. q \in Request /\ q.pc = "clear" /\ q.order = o /\ q.op = "delete"
    BY <1>2, <1>8 DEF Request, Pc
  <2>2. req' = [req EXCEPT ![r] = q]
    BY <1>1, <1>8 DEF Release, Goto, LabelInv, PoolInv, TypeOK
  <2> HIDE DEF q
  <2>3. Steady(q, d) /\ Grips(r, q)'
    BY <1>4, <1>8, <2>1 DEF Steady, Labelling, Grips
  <2> QED
    BY <1>u, <1>1, <1>2, <1>3, <1>4, <1>7, <2>1, <2>2, <2>3, Stepped
<1>9. CASE p.op # "delete"
  <2>1. req' = [req EXCEPT ![r] = Idle]
    BY <1>1, <1>9 DEF Release, Finish
  <2>2. Labels(o)'
    BY <1>u, <1>3, <1>4, <1>9, PackingAssumption DEF Labels, ShowsOwn
  <2> QED
    BY <1>u, <1>1, <1>2, <1>3, <1>4, <1>7, <2>1, <2>2, IdleFields, Stepped
<1> QED
  BY <1>8, <1>9

\* The last writes of a delete, of a revert and of a change of delivery type.
LEMMA SavedKeeps ==
    ASSUME LabelInv, PoolInv', NEW r \in Requests, ClearShown(r) \/ SaveRevert(r) \/ SaveKind(r)
    PROVE  LabelInv'
<1>t. TypeOK
  BY DEF LabelInv, PoolInv
<1>u. /\ UNCHANGED <<pool, crashes>> /\ req[r].pc \in {"clear", "save"}
      /\ req' = [req EXCEPT ![r] = Idle]
  BY DEF ClearShown, SaveRevert, SaveKind, At, Finish
<1>1. PICK p \in Request : p = req[r]
  BY <1>t DEF TypeOK
<1>2. PICK o \in Orders : o = p.order
  BY <1>u, <1>1, UnderWay
<1>3. PICK e \in Doc : e = order[o]
  BY <1>t DEF TypeOK
<1>4. Steady(p, e) /\ Grips(r, p)
  BY <1>u, <1>1, <1>2, <1>3, UnderWay
<1>5. ASSUME NEW d \in Doc, order' = [order EXCEPT ![o] = d],
             d.shown \in Codes => pool[d.shown].holder = o,
             d.status = "NEW" \/ (d.shown = None /\ d.deleted)
      PROVE  LabelInv'
  <2>1. order'[o] = d
    BY <1>5, <1>t DEF TypeOK
  <2>2. Labels(o)'
    BY <1>u, <1>5, <2>1, PackingAssumption DEF Labels, ShowsOwn
  <2> QED
    BY <1>u, <1>1, <1>2, <1>5, <2>2, IdleFields, Written
<1>6. CASE ClearShown(r)
  <2> DEFINE d == [e EXCEPT !.shown = None, !.pending = FALSE]
  <2>1. d \in Doc /\ d.shown = None /\ d.deleted = e.deleted
    BY DEF Doc
  <2>2. order' = [order EXCEPT ![o] = d]
    BY <1>1, <1>2, <1>3, <1>6, <1>t DEF ClearShown, TypeOK
  <2>3. e.deleted
    BY <1>1, <1>4, <1>6 DEF ClearShown, At, Steady
  <2> HIDE DEF d
  <2> QED
    BY <2>1, <2>2, <2>3, <1>5, PackingAssumption
<1>7. e.shown \in Codes => pool[e.shown].holder = o \/ p.pc # "save"
  BY <1>2, <1>3, <1>4 DEF Grips, ShowsOwn
<1>8. CASE SaveRevert(r)
  <2> DEFINE d == [e EXCEPT !.status = "NEW"]
  <2>1. d \in Doc /\ d.shown = e.shown /\ d.status = "NEW"
    BY DEF Doc, Status
  <2>2. order' = [order EXCEPT ![o] = d] /\ p.pc = "save"
    BY <1>1, <1>2, <1>3, <1>8, <1>t DEF SaveRevert, TypeOK, At
  <2> HIDE DEF d
  <2> QED
    BY <2>1, <2>2, <1>5, <1>7
<1>9. CASE SaveKind(r)
  <2> DEFINE d == [e EXCEPT !.kind = p.kind]
  <2>1. d \in Doc /\ d.shown = e.shown /\ d.status = e.status
    BY DEF Doc, Request
  <2>2. order' = [order EXCEPT ![o] = d] /\ p.pc = "save" /\ p.op = "kind"
    BY <1>1, <1>2, <1>3, <1>9, <1>t DEF SaveKind, TypeOK, At
  <2>3. e.status = "NEW"
    BY <2>2, <1>4 DEF Steady
  <2> HIDE DEF d
  <2> QED
    BY <2>1, <2>2, <2>3, <1>5, <1>7
<1> QED
  BY <1>6, <1>8, <1>9

-----------------------------------------------------------------------------
(***************************************************************************)
(* The whole next-state relation.                                          *)
(***************************************************************************)

\* Where nobody interferes, no claim is lost and nothing is handed back.
LEMMA NoDeadEnds ==
    ASSUME LabelInv, NEW r \in Requests
    PROVE  ~(Reread(r) \/ HandBack(r) \/ GiveBack(r) \/ Unmark(r))
BY DEF LabelInv, Works, Labelling, Reread, HandBack, GiveBack, Unmark, At

\* A step that leaves the orders, the requests and their barcodes alone.
LEMMA Untouched ==
    ASSUME LabelInv, PoolInv', UNCHANGED <<order, req, crashes>>, PoolApart({}, {})
    PROVE  LabelInv'
<1>1. Apart({}, {})
  BY DEF Apart
<1>2. (\A p \in Requests : Works(p)') /\ (\A x \in Orders : Settled(x)' => Labels(x)')
  BY <1>1, OthersKeep
<1>3. Blank' /\ Solo' /\ crashes' = 0
  BY DEF LabelInv, PoolApart, Blank, Solo
<1> QED
  BY <1>2, <1>3 DEF LabelInv

\* Codes written off and uploaded by hand.
LEMMA HandsKeep ==
    ASSUME LabelInv, PoolInv', NEW c \in Codes, markUsed(c) \/ \E k \in Kinds : bulkCreate(c, k)
    PROVE  LabelInv'
<1>t. pool \in [Codes -> Barcode] /\ Blank
  BY DEF LabelInv, PoolInv, TypeOK
<1>1. CASE markUsed(c)
  <2>1. /\ pool' = [pool EXCEPT ![c].mark = "hand"] /\ UNCHANGED <<order, req, crashes>>
        /\ pool[c].kind # None /\ pool[c].mark = None
    BY <1>1, PackingAssumption DEF markUsed, Available
  <2>2. \A x \in Codes : /\ pool'[x].kind = pool[x].kind /\ pool'[x].holder = pool[x].holder
                         /\ x # c => pool'[x].mark = pool[x].mark
    BY <2>1, <1>t DEF Barcode
  <2>3. PoolApart({}, {})
    BY <2>1, <2>2, <1>t, PackingAssumption DEF PoolApart, Blank
  <2> QED
    BY <2>1, <2>3, Untouched
<1>2. ASSUME NEW k \in Kinds, bulkCreate(c, k)
      PROVE  LabelInv'
  <2>1. /\ pool' = [pool EXCEPT ![c] = [kind |-> k, holder |-> None, mark |-> None]]
        /\ UNCHANGED <<order, req, crashes>> /\ pool[c].kind = None
    BY <1>2 DEF bulkCreate
  <2>2. /\ pool'[c].kind = k /\ pool'[c].holder = None /\ pool'[c].mark = None
        /\ pool[c].holder = None /\ pool[c].mark = None
        /\ \A x \in Codes \ {c} : pool'[x] = pool[x]
    BY <2>1, <1>t DEF Blank
  <2>3. PoolApart({}, {})
    BY <2>1, <2>2, <1>t, PackingAssumption DEF PoolApart, Blank
  <2> QED
    BY <2>1, <2>3, Untouched
<1> QED
  BY <1>1, <1>2

LEMMA LabelsStart == Init => LabelInv
<1> SUFFICES ASSUME Init
             PROVE  LabelInv
  OBVIOUS
<1>1. PoolInv
  BY PoolStarts
<1>2. \A r \in Requests : req[r].pc = "idle" /\ req[r].order = None
  BY IdleFields DEF Init
<1>3. \A r \in Requests : Works(r)
  BY <1>2 DEF Works
<1>4. \A o \in Orders : order[o].shown = None /\ order[o].status = "NEW"
  BY DEF Init
<1>5. \A o \in Orders : Labels(o)
  BY <1>4, PackingAssumption DEF Labels, ShowsOwn
<1>6. crashes = 0 /\ Blank /\ Solo
  BY <1>2 DEF Init, Blank, Solo
<1> QED
  BY <1>1, <1>3, <1>5, <1>6 DEF LabelInv

LEMMA LabelsKept ==
    ASSUME Orderly
    PROVE  LabelInv /\ [Next]_vars => LabelInv'
<1> SUFFICES ASSUME LabelInv, [Next]_vars
             PROVE  LabelInv'
  OBVIOUS
<1>0. PoolInv'
  BY PoolKept DEF LabelInv
<1>1. ASSUME NEW r \in Requests, Arrive(r)
      PROVE  LabelInv'
  BY <1>0, <1>1, ArrivedKeeps
<1>2. ASSUME NEW r \in Requests, Continue(r)
      PROVE  LabelInv'
  <2>1. CASE SeeBarcode(r) \/ FindHeld(r)
    BY <1>0, <2>1, FoundKeeps
  <2>2. CASE Claim(r) \/ Reserve(r)
    BY <1>0, <2>2, ClaimKeeps, ReserveKeeps
  <2>3. CASE ReleaseOld(r) \/ Convert(r)
    BY <1>0, <2>3, SwapKeeps, ConvertKeeps
  <2>4. CASE WritePacked(r) \/ WriteRestored(r)
    BY <1>0, <2>4, LabelledKeeps
  <2>5. CASE WriteMove(r) \/ Release(r)
    BY <1>0, <2>5, MoveKeeps, ReleaseKeeps
  <2>6. CASE ClearShown(r) \/ SaveRevert(r) \/ SaveKind(r)
    BY <1>0, <2>6, SavedKeeps
  <2> QED
    BY <1>2, <2>1, <2>2, <2>3, <2>4, <2>5, <2>6, NoDeadEnds DEF Continue
<1>3. ASSUME NEW r \in Requests
      PROVE  ~Crash(r)
  BY DEF Crash, LabelInv, Orderly
<1>4. ASSUME NEW c \in Codes, markUsed(c) \/ \E k \in Kinds : bulkCreate(c, k)
      PROVE  LabelInv'
  BY <1>0, <1>4, HandsKeep
<1>5. CASE UNCHANGED vars
  <2>1. UNCHANGED <<order, pool, req, crashes>>
    BY <1>5 DEF vars
  <2> QED
    BY <1>0, <2>1, PoolSame, Untouched
<1> QED
  BY <1>1, <1>2, <1>3, <1>4, <1>5 DEF Next

\* A dispatched order keeps its barcode: only a claim that nothing stood on was
\* changed, or what a packed or a cancelled order held.
LEMMA ParcelStep ==
    ASSUME Orderly
    PROVE  LabelInv /\ [Next]_vars =>
             [\A o \in Orders, c \in Codes :
                /\ order[o].status = "DISPATCHED" /\ order[o].shown = c
                /\ pool[c].holder = o
                => pool[c].holder' = o]_vars
<1> SUFFICES ASSUME LabelInv, Next, NEW o \in Orders, NEW c \in Codes,
                    order[o].status = "DISPATCHED", pool[c].holder = o
             PROVE  pool'[c].holder = o
  OBVIOUS
<1>t. pool \in [Codes -> Barcode] /\ o # None /\ pool[c].mark = None /\ pool[c].kind # None
  BY PackingAssumption DEF LabelInv, PoolInv, TypeOK, WrittenOffUnused, Blank
<1>1. CASE pool' = pool
  BY <1>1
<1>2. ASSUME NEW r \in Requests, Claim(r) \/ Reserve(r), pool' # pool
      PROVE  pool'[c].holder = o
  <2>1. PICK x \in Codes : pool[x].holder = None /\ \A y \in Codes \ {x} : pool'[y] = pool[y]
    BY <1>2, <1>t DEF Claim, Reserve, Available
  <2> QED
    BY <2>1, <1>t
<1>3. ASSUME NEW r \in Requests, ReleaseOld(r)
      PROVE  pool'[c].holder = o
  <2>1. req[r].pc = "swap" /\ order[req[r].order].status \in {"NEW", "PACKED"}
    BY <1>3, UnderWay DEF ReleaseOld, At, Steady, Labelling
  <2>2. req[r].order # o
    BY <2>1
  <2> QED
    BY <1>3, <2>2, <1>t DEF ReleaseOld
<1>4. ASSUME NEW r \in Requests, Convert(r)
      PROVE  pool'[c].holder = o
  <2>1. req[r].pc = "convert" /\ pool[req[r].code].mark = r /\ r # None
    BY <1>4, UnderWay, PackingAssumption DEF Convert, At, Grips
  <2>2. c # req[r].code
    BY <2>1, <1>t
  <2> QED
    BY <1>4, <2>2, <1>t DEF Convert
<1>5. ASSUME NEW r \in Requests, Release(r)
      PROVE  pool'[c].holder = o
  <2>1. req[r].pc = "release" /\ order[req[r].order].status \in {"CANCELLED", "PACKED"}
    BY <1>5, UnderWay DEF Release, At, Steady
  <2> QED
    BY <1>5, <2>1, <1>t DEF Release
<1>6. ASSUME NEW x \in Codes, markUsed(x) \/ \E k \in Kinds : bulkCreate(x, k)
      PROVE  pool'[c].holder = o
  <2>1. CASE markUsed(x)
    BY <2>1, <1>t DEF markUsed, Barcode
  <2>2. CASE \E k \in Kinds : bulkCreate(x, k)
    BY <2>2, <1>t DEF bulkCreate
  <2> QED
    BY <1>6, <2>1, <2>2
<1>7. ASSUME NEW r \in Requests, Arrive(r) \/ Crash(r)
      PROVE  pool' = pool
  BY <1>7 DEF Arrive, ReadForPack, ReadForMove, ReadForKind, Delete, Restore, ReadForRevert,
         ReadForUnmark, Crash
<1>8. ASSUME NEW r \in Requests, Continue(r)
      PROVE  pool'[c].holder = o
  <2>1. CASE \/ SeeBarcode(r) \/ FindHeld(r) \/ WritePacked(r) \/ WriteMove(r)
             \/ ClearShown(r) \/ WriteRestored(r) \/ SaveRevert(r) \/ SaveKind(r)
    BY <1>1, <2>1 DEF SeeBarcode, FindHeld, WritePacked, WriteMove, ClearShown, WriteRestored,
       SaveRevert, SaveKind
  <2> QED
    BY <1>1, <1>2, <1>3, <1>4, <1>5, <1>8, <2>1, NoDeadEnds DEF Continue
<1> QED
  BY <1>1, <1>6, <1>7, <1>8 DEF Next

-----------------------------------------------------------------------------
LEMMA InvLabels == LabelInv => ShownIsHeld /\ LabelFits
<1> SUFFICES ASSUME LabelInv
             PROVE  ShownIsHeld /\ LabelFits
  OBVIOUS
<1>1. \A o \in Orders : Settled(o) => Labels(o)
  BY DEF LabelInv
<1>2. ShownIsHeld
  BY <1>1 DEF ShownIsHeld, Labels, ShowsOwn
<1>3. \A o \in Orders : order[o].deleted \in BOOLEAN
  BY DEF LabelInv, PoolInv, TypeOK, Doc
<1>4. LabelFits
  BY <1>1, <1>3 DEF LabelFits, Labels, Live
<1> QED
  BY <1>2, <1>4

\* As long as the staff work on different orders, undo no write-off and no
\* request dies, a parcel labelled from the pool holds the barcode it shows,
\* whatever the orders do to one another's supply of barcodes (updateStatus,
\* softDelete and restore on one side, barcodes.service on the other).
THEOREM LabelsHold == Orderly => (Spec => []ShownIsHeld)
<1> SUFFICES ASSUME Orderly
             PROVE  Spec => []ShownIsHeld
  OBVIOUS
<1>1. LabelInv /\ [Next]_vars => LabelInv'
  BY LabelsKept
<1> QED
  BY <1>1, LabelsStart, InvLabels, PTL DEF Spec

\* Under the same conditions a packed order shows a barcode of its delivery
\* type, or is flagged to be given one (assignToOrder and switchType).
THEOREM LabelsFit == Orderly => (Spec => []LabelFits)
<1> SUFFICES ASSUME Orderly
             PROVE  Spec => []LabelFits
  OBVIOUS
<1>1. LabelInv /\ [Next]_vars => LabelInv'
  BY LabelsKept
<1> QED
  BY <1>1, LabelsStart, InvLabels, PTL DEF Spec

\* Under the same conditions no step takes the barcode of a dispatched parcel
\* away (releaseFromOrder and switchType).
THEOREM ParcelsKeepTheirs == Orderly => (Spec => ParcelKeepsBarcode)
<1> SUFFICES ASSUME Orderly
             PROVE  Spec => ParcelKeepsBarcode
  OBVIOUS
<1>1. LabelInv /\ [Next]_vars => LabelInv'
  BY LabelsKept
<1>2. LabelInv /\ [Next]_vars =>
        [\A o \in Orders, c \in Codes :
           /\ order[o].status = "DISPATCHED" /\ order[o].shown = c
           /\ pool[c].holder = o
           => pool[c].holder' = o]_vars
  BY ParcelStep
<1> QED
  BY <1>1, <1>2, LabelsStart, PTL DEF Spec, ParcelKeepsBarcode

=============================================================================
